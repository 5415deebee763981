---------------------------- MODULE BackoffLoops ----------------------------
(***************************************************************************)
(* The two loops that wait twice as long after every failure:              *)
(*   "reconnect"  startReconnectLoop of internal/datasource/reconnect.go,  *)
(*                which asks a data source that is down to Connect;        *)
(*   "do"         retry.Do of pkg/retry around an Execute that returns the *)
(*                driver's error or wraps it with "%w", the contract Do is *)
(*                written and tested for;                                  *)
(*   "adapter"    retry.Do around the Execute of internal/adapter/*, which *)
(*                prints the driver's error into an APIError ("%v").       *)
(*                APIError has no Unwrap: errors.Is and errors.As find     *)
(*                nothing behind it.                                       *)
(*                                                                         *)
(* The reconnect loop computes float64(initial) * 2^attempt and converts   *)
(* it to an int64 of nanoseconds.  Go leaves the conversion of a float     *)
(* that does not fit to the implementation: amd64 yields the smallest      *)
(* int64, arm64 the largest.  Durations of the reconnect loop are counted  *)
(* in a unit of the reader's choice, in which MaxDuration is the largest   *)
(* int64 of nanoseconds; those of Do in units of retry_interval.           *)
(***************************************************************************)
EXTENDS Integers

CONSTANTS
    Loops,             \* the loops looked at
    InitialInterval,   \* reconnect_interval
    MaxInterval,       \* max_reconnect_interval
    MaxDuration,       \* largest representable duration
    MaxAttempts,       \* bound: failed connection attempts followed
    MaxRetries         \* retry.max_retries

\* parseReconnectIntervals also takes an interval of zero or less, with which
\* the loop does not wait at all; what follows is about intervals to wait for.
ASSUME BackoffConstants ==
    /\ Loops \subseteq {"reconnect", "do", "adapter"}
    /\ MaxDuration \in Nat
    /\ InitialInterval \in 1 .. MaxDuration /\ MaxInterval \in 1 .. MaxDuration
    /\ MaxAttempts \in Nat /\ MaxRetries \in Nat

VARIABLES
    loop,       \* which loop this is
    step,         \* "compute" (reconnect only), "wait", "call" or "done"
    attempt,    \* the loop's counter
    backoff,    \* the wait it has computed last
    waited,     \* how much of it has passed
    total,      \* time waited in all
    calls,      \* calls of Execute or Connect so far
    answer,     \* the driver's answer to the last one
    ended,      \* "none", or why the request or the server ended
    outcome     \* what Do returned

loopVars == <<loop, step, attempt, backoff, waited, total, calls, answer, ended,
          outcome>>

\* Errors of a driver.  "deadline" is context.DeadlineExceeded, which is a
\* net.Error with Timeout() true; "canceled" is context.Canceled.
DriverErrors == {"eof", "unexpected_eof", "refused", "reset", "timeout",
                 "deadline", "canceled", "syntax"}
Interrupted == {"deadline", "canceled"}

\* The errors IsTransient recognises along the chain of wrapped errors.
TransientErrors == {"eof", "unexpected_eof", "refused", "reset", "timeout",
                    "deadline"}

LoopInit ==
    /\ loop \in Loops
    /\ step = IF loop = "reconnect" THEN "compute" ELSE "call"
    /\ attempt = 0 /\ backoff = 0 /\ waited = 0 /\ total = 0 /\ calls = 0
    /\ answer = "none" /\ ended = "none" /\ outcome = "none"

Returns(o) ==
    /\ step' = "done" /\ outcome' = o
    /\ UNCHANGED <<attempt, backoff, waited>>

-----------------------------------------------------------------------------
(* Waiting: time.After against the end of the request or of the server     *)

\* One unit passes.
Wait ==
    /\ step = "wait" /\ waited < backoff
    /\ waited' = waited + 1
    /\ total' = total + 1
    /\ UNCHANGED <<loop, step, attempt, backoff, calls, answer, ended, outcome>>

\* The timer fires, one for a negative duration at once.  Do's loop variable
\* counts on.
WaitOver ==
    /\ step = "wait" /\ waited >= backoff
    /\ step' = "call"
    /\ attempt' = IF loop = "reconnect" THEN attempt ELSE attempt + 1
    /\ UNCHANGED <<loop, backoff, waited, total, calls, answer, ended, outcome>>

\* The select takes ctx.Done() or stopCh.
WaitInterrupted ==
    /\ step = "wait" /\ ended # "none"
    /\ Returns("ended")
    /\ UNCHANGED <<loop, total, calls, answer, ended>>

\* The request is cancelled or runs out of time, the server shuts down.
ContextEnds ==
    /\ step # "done" /\ ended = "none"
    /\ ended' \in IF loop = "reconnect" THEN {"stopCh"} ELSE Interrupted
    /\ UNCHANGED <<loop, step, attempt, backoff, waited, total, calls, answer,
                   outcome>>

-----------------------------------------------------------------------------
(* The reconnect loop *)

\* How often a limit can be halved: Halved[n] = limit \div 2^n, so that
\* InitialInterval * 2^n <= limit is InitialInterval <= Halved(limit)[n].
Halved(limit) ==
    LET h[n \in Nat] == IF n = 0 THEN limit ELSE h[n - 1] \div 2 IN h

\* InitialInterval * 2^n for the n where it fits.
Doubled == [n \in {m \in 0 .. MaxAttempts :
                     InitialInterval <= Halved(MaxDuration)[m]} |->
              InitialInterval * 2^n]

\* time.Duration(float64(initialInterval) * math.Pow(2, float64(attempt))).
ToDuration(n) ==
    IF n \in DOMAIN Doubled THEN {Doubled[n]}
    ELSE {-MaxDuration - 1, MaxDuration}

ComputeBackoff ==
    /\ loop = "reconnect" /\ step = "compute"
    /\ \E d \in ToDuration(attempt) :
          backoff' = IF d > MaxInterval THEN MaxInterval ELSE d
    /\ step' = "wait" /\ waited' = 0
    /\ UNCHANGED <<loop, attempt, total, calls, answer, ended, outcome>>

\* Mutant: the count of attempts starts again at the cap.
ConnectFails_StartsAgain ==
    /\ loop = "reconnect" /\ step = "call" /\ attempt < MaxAttempts
    /\ attempt' = IF backoff = MaxInterval THEN 0 ELSE attempt + 1
    /\ calls' = calls + 1
    /\ step' = "compute"
    /\ UNCHANGED <<loop, backoff, waited, total, answer, ended, outcome>>

ConnectFails ==
    /\ loop = "reconnect" /\ step = "call" /\ attempt < MaxAttempts
    /\ attempt' = attempt + 1
    /\ calls' = calls + 1
    /\ step' = "compute"
    /\ UNCHANGED <<loop, backoff, waited, total, answer, ended, outcome>>

\* The connection comes up: the loop returns.
Connects ==
    /\ loop = "reconnect" /\ step = "call"
    /\ calls' = calls + 1
    /\ Returns("ok")
    /\ UNCHANGED <<loop, total, answer, ended>>

-----------------------------------------------------------------------------
(* retry.Do *)

\* What Execute makes of the driver's error.
Wrapped(e) == IF loop = "adapter" THEN "api_error" ELSE e

IsTransient(e) == e \in TransientErrors
IsBusiness(e) == e # "none" /\ ~IsTransient(e)

\* The answers the driver can give: once the context has ended, only that.
Answers == IF ended = "none" THEN (DriverErrors \ Interrupted) \cup {"none"}
                             ELSE {ended}

\* Mutant: business errors are retried too.
AfterError_RetriesBusiness(e) ==
    \/ attempt = MaxRetries /\ Returns("exhausted")
    \/ /\ attempt < MaxRetries
       /\ step' = "wait" /\ waited' = 0
       /\ backoff' = 2 ^ attempt
       /\ UNCHANGED <<attempt, outcome>>

\* Do after a call that failed with e: a business error is returned, a
\* transient one is retried unless this was the last attempt.
AfterError(e) ==
    \/ IsBusiness(e) /\ Returns("business")
    \/ IsTransient(e) /\ attempt = MaxRetries /\ Returns("exhausted")
    \/ /\ IsTransient(e) /\ attempt < MaxRetries
       /\ step' = "wait" /\ waited' = 0
       /\ backoff' = 2 ^ attempt
       /\ UNCHANGED <<attempt, outcome>>

\* One call of Execute and what Do does with its answer.
CallExecute ==
    /\ loop # "reconnect" /\ step = "call"
    /\ calls' = calls + 1
    /\ \E e \in Answers :
           /\ answer' = e
           /\ IF e = "none" THEN Returns("ok") ELSE AfterError(Wrapped(e))
    /\ UNCHANGED <<loop, total, ended>>

LoopNext ==
    \/ Wait \/ WaitOver \/ WaitInterrupted \/ ContextEnds
    \/ ComputeBackoff \/ ConnectFails \/ Connects
    \/ CallExecute

LoopSpec == LoopInit /\ [][LoopNext]_loopVars

-----------------------------------------------------------------------------
\* The documented wait of the reconnect loop, as if numbers had no end.
DocumentedBackoff(n) ==
    IF n \in DOMAIN Doubled /\ Doubled[n] <= MaxInterval
    THEN Doubled[n] ELSE MaxInterval

\* "Reconnect interval: min(initialInterval * 2^attempt, maxInterval)"
\* (reconnect.go): the wait before each attempt is the documented one.
WaitsAsDocumented ==
    loop = "reconnect" /\ step # "compute" =>
        backoff = DocumentedBackoff(attempt)

\* The backend is never asked again before a full first interval has passed,
\* and the waits do not shrink from one attempt to the next.
WaitsNeverShrink ==
    [][/\ loop = "reconnect" /\ calls' # calls => waited >= DocumentedBackoff(0)
       /\ backoff' >= backoff]_loopVars

\* A transient error is given every chance: Do returns a failure that the
\* driver would call transient only after MaxRetries retries, or because the
\* request itself has ended.
TransientIsRetried ==
    /\ loop # "reconnect" /\ step = "done"
    /\ answer \in TransientErrors /\ ended = "none"
    => outcome = "exhausted" /\ calls = MaxRetries + 1

\* A query the data source rejected is not sent again (every error but the
\* last one was transient), and the waits between the calls double: n retries
\* take 2^n - 1 intervals.
RetriesBackOff ==
    loop # "reconnect" =>
        /\ calls <= MaxRetries + 1
        /\ step = "call" => total = 2 ^ attempt - 1
        /\ step = "wait" => answer \in TransientErrors

-----------------------------------------------------------------------------
(* Inductive invariant                                                     *)

LoopTypeOK ==
    /\ loop \in Loops
    /\ step \in {"compute", "wait", "call", "done"}
    /\ attempt \in Nat /\ backoff \in Int /\ waited \in Nat /\ total \in Nat
    /\ calls \in Nat

\* Every attempt followed computes a product that a duration can hold.
DoublingFits == 0 .. MaxAttempts \subseteq DOMAIN Doubled

\* Do: before call n + 1 the loop has waited 2^n - 1 units, and it waits for
\* a call it still has, after an error that was transient.
DoBacksOff ==
    loop # "reconnect" =>
        /\ step # "compute" /\ attempt <= MaxRetries /\ calls <= MaxRetries + 1
        /\ step = "call" => /\ calls = attempt /\ total = 2^attempt - 1
                            /\ backoff <= 2^attempt
        /\ step = "wait" => /\ calls = attempt + 1 /\ attempt < MaxRetries
                            /\ backoff = 2^attempt /\ waited <= backoff
                            /\ total = 2^attempt - 1 + waited
                            /\ answer \in TransientErrors

\* The reconnect loop, as long as the product fits: a wait is the documented
\* one from the time it is computed, and a call comes after all of it.
ReconnectBacksOff ==
    loop = "reconnect" /\ DoublingFits =>
        /\ attempt <= MaxAttempts
        /\ step = "compute" => backoff <= DocumentedBackoff(attempt)
        /\ step # "compute" => backoff = DocumentedBackoff(attempt)
        /\ step = "call" => waited >= backoff

LoopInv ==
    /\ LoopTypeOK /\ DoBacksOff /\ ReconnectBacksOff
    /\ loop = "do" => TransientIsRetried
=============================================================================
