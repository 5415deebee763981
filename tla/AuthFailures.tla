---------------------------- MODULE AuthFailures ----------------------------
(***************************************************************************)
(* AuthFailureLimiter of internal/middleware/auth_failure_limiter.go: it   *)
(* counts authentication failures per address in a window that starts with *)
(* the first one, bans an address that reaches the threshold, and forgets  *)
(* records in the background.                                              *)
(*                                                                         *)
(* The server asks Check for every request; RecordFailure is offered but   *)
(* at this commit only the package's tests call it.                        *)
(***************************************************************************)
EXTENDS Integers, Sequences, FiniteSets

CONSTANTS
    Addresses,   \* client addresses
    Threshold, FailureWindow, BanDuration,
    MaxClock     \* bound: length of a behaviour

ASSUME FailureConstants ==
    /\ Threshold \in Nat \ {0, 1}   \* with 1 the first failure does not ban
    /\ FailureWindow \in Nat \ {0}
    /\ BanDuration \in Nat \ {0}
    /\ MaxClock \in Nat

VARIABLES
    clock,
    known,      \* addresses with a failureRecord
    count, firstAt,
    bannedAt,   \* 0: nil
    failedAt,   \* history: when failures of each address were recorded
    banEnd      \* history: when the last ban of each address ends

failureVars == <<clock, known, count, firstAt, bannedAt, failedAt, banEnd>>

FailureInit ==
    /\ clock = 1
    /\ known = {}
    /\ count = [a \in Addresses |-> 0]
    /\ firstAt = [a \in Addresses |-> 0]
    /\ bannedAt = [a \in Addresses |-> 0]
    /\ failedAt = [a \in Addresses |-> <<>>]
    /\ banEnd = [a \in Addresses |-> 0]

Banned(a) == bannedAt[a] # 0 /\ clock - bannedAt[a] < BanDuration

Check(a) == a \notin known \/ ~Banned(a)

\* How many of these times are not before t.
CountSince(times, t) == Cardinality({i \in DOMAIN times : times[i] >= t})

-----------------------------------------------------------------------------

FirstFailure(a) ==
    /\ a \notin known
    /\ known' = known \cup {a}
    /\ count' = [count EXCEPT ![a] = 1]
    /\ firstAt' = [firstAt EXCEPT ![a] = clock]
    /\ bannedAt' = [bannedAt EXCEPT ![a] = 0]
    /\ UNCHANGED banEnd

\* "If the IP is currently banned, don't update the record."
FailureWhileBanned(a) ==
    /\ a \in known /\ Banned(a)
    /\ UNCHANGED <<known, count, firstAt, bannedAt, banEnd>>

WindowExpired(a) == clock - firstAt[a] > FailureWindow

FailureInNewWindow(a) ==
    /\ a \in known /\ ~Banned(a) /\ WindowExpired(a)
    /\ count' = [count EXCEPT ![a] = 1]
    /\ firstAt' = [firstAt EXCEPT ![a] = clock]
    /\ bannedAt' = [bannedAt EXCEPT ![a] = 0]
    /\ UNCHANGED <<known, banEnd>>

FailureCounts(a) ==
    /\ a \in known /\ ~Banned(a) /\ ~WindowExpired(a)
    /\ count' = [count EXCEPT ![a] = @ + 1]
    /\ IF count'[a] >= Threshold
       THEN /\ bannedAt' = [bannedAt EXCEPT ![a] = clock]
            /\ banEnd' = [banEnd EXCEPT ![a] = clock + BanDuration]
       ELSE UNCHANGED <<bannedAt, banEnd>>
    /\ UNCHANGED <<known, firstAt>>

RecordFailure(a) ==
    /\ \/ FirstFailure(a)
       \/ FailureWhileBanned(a)
       \/ FailureInNewWindow(a)
       \/ FailureCounts(a)
    /\ CountSince(failedAt[a], clock) < Threshold     \* bound: failures per unit of time
    /\ failedAt' = [failedAt EXCEPT ![a] = Append(@, clock)]
    /\ UNCHANGED clock

Expired(a) ==
    IF bannedAt[a] # 0 THEN clock - bannedAt[a] >= BanDuration
                       ELSE clock - firstAt[a] >= FailureWindow

\* Mutant: a record is dropped with its window, banned or not.
CleanupRecords_DropsBans ==
    /\ \E a \in known : clock - firstAt[a] >= FailureWindow
    /\ known' = {a \in known : clock - firstAt[a] < FailureWindow}
    /\ UNCHANGED <<clock, count, firstAt, bannedAt, failedAt, banEnd>>

\* cleanup, on any tick of its ticker.
CleanupRecords ==
    /\ \E a \in known : Expired(a)
    /\ known' = {a \in known : ~Expired(a)}
    /\ UNCHANGED <<clock, count, firstAt, bannedAt, failedAt, banEnd>>

ClockTicks ==
    /\ clock < MaxClock
    /\ clock' = clock + 1
    /\ UNCHANGED <<known, count, firstAt, bannedAt, failedAt, banEnd>>

FailureNext ==
    \/ \E a \in Addresses : RecordFailure(a)
    \/ CleanupRecords
    \/ ClockTicks

FailureSpec == FailureInit /\ [][FailureNext]_failureVars

-----------------------------------------------------------------------------
(* Properties.                                                             *)

\* A ban lasts exactly its duration: Check refuses until it ends, whatever
\* failures arrive and records are cleaned up meanwhile, and no longer
\* (Check, RecordFailure, cleanup).
BansLastTheirDuration ==
    \A a \in Addresses : Check(a) <=> clock >= banEnd[a]

\* Nobody is banned for failures that did not fall into one window: at the
\* moment of the ban the address has Threshold failures not older than
\* FailureWindow, also when an earlier ban or a cleanup lies between
\* (RecordFailure).
BansAreEarned ==
    \A a \in Addresses :
        a \in known /\ bannedAt[a] = clock =>
            CountSince(failedAt[a], clock - FailureWindow) >= Threshold

\* Bans are just: each is earned within one window and lasts exactly its
\* duration, however failures, refused attempts and cleanups interleave.
BansAreJust == BansLastTheirDuration /\ BansAreEarned

-----------------------------------------------------------------------------
(* Inductive invariant                                                     *)

\* The type invariant of the failure limiter.
FailureTypeOK ==
    /\ clock \in Nat \ {0} /\ known \in SUBSET Addresses
    /\ count \in [Addresses -> Nat] /\ firstAt \in [Addresses -> Nat]
    /\ bannedAt \in [Addresses -> Nat] /\ banEnd \in [Addresses -> Nat]
    /\ failedAt \in [Addresses -> Seq(Nat)]

\* A record counts no more failures than there were since it began, and
\* carries the last ban of its address until that ban is over; a ban that no
\* record carries is over.
RecordsAreRight ==
    \A a \in Addresses :
        /\ a \in known => /\ count[a] <= CountSince(failedAt[a], firstAt[a])
                         /\ firstAt[a] <= clock /\ bannedAt[a] <= clock
        /\ IF a \in known /\ bannedAt[a] # 0
           THEN banEnd[a] = bannedAt[a] + BanDuration
           ELSE banEnd[a] <= clock

FailureInv == FailureTypeOK /\ RecordsAreRight /\ BansAreEarned
=============================================================================
