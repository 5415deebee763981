----------------------------- MODULE DataLoader -----------------------------
(***************************************************************************)
(* The batching loader of internal/graphql/dataloader: Load puts a request *)
(* on its data source's pending list and blocks; a batch is flushed when   *)
(* it is full, when the batch window's timer fires, when a waiting caller  *)
(* is cancelled, or by Close.                                              *)
(*                                                                         *)
(* Every step is one critical section under dl.mu, one send or one receive *)
(* of a result channel.  A timer is an object of its own, because          *)
(* Timer.Stop does not stop a callback that has already started and waits  *)
(* for the mutex: such a callback runs later, when the timers map may name *)
(* another timer.                                                          *)
(***************************************************************************)
EXTENDS Naturals, FiniteSets

CONSTANTS
    Loads,      \* calls of Load, each by its own goroutine
    Sources,    \* data source names
    Timers,     \* timer objects; enough of them for one to be free
    MaxBatch,   \* maxBatch
    NoTimer,    \* no entry in the timers map
    Nobody      \* a batch that no Load call executes itself

ASSUME DataLoaderAssumption ==
    /\ MaxBatch \in Nat \ {0}
    /\ NoTimer \notin Timers
    /\ Nobody \notin Loads
    /\ IsFiniteSet(Loads)
    /\ Sources # {}

VARIABLES
    place,         \* load |-> where it is in Load
    ds,         \* load |-> the data source it asked for
    pending,    \* data source |-> its pending requests
    timers,     \* data source |-> the timer the timers map names, or NoTimer
    timerState, \* timer |-> "free", "armed" or "fired"
    flushes,    \* timer |-> the data source its callback flushes
    running,    \* the batches being executed, and by which Load, if by one
    channel,    \* load |-> its result channel holds the result
    closed

loaderVars ==
    <<place, ds, pending, timers, timerState, flushes, running, channel, closed>>

Batches == [by : Loads \cup {Nobody}, reqs : SUBSET Loads]

LoaderTypeOK ==
    /\ place \in [Loads -> {"idle", "execute", "wait", "drain", "result", "ctx", "closed"}]
    /\ ds \in [Loads -> Sources]
    /\ pending \in [Sources -> SUBSET Loads]
    /\ timers \in [Sources -> Timers \cup {NoTimer}]
    /\ timerState \in [Timers -> {"free", "armed", "fired"}]
    /\ flushes \in [Timers -> Sources]
    /\ running \in SUBSET Batches
    /\ channel \in [Loads -> BOOLEAN]
    /\ closed \in BOOLEAN

New ==
    /\ place = [l \in Loads |-> "idle"]
    /\ ds = [l \in Loads |-> CHOOSE d \in Sources : TRUE]
    /\ pending = [d \in Sources |-> {}]
    /\ timers = [d \in Sources |-> NoTimer]
    /\ timerState = [i \in Timers |-> "free"]
    /\ flushes = [i \in Timers |-> CHOOSE d \in Sources : TRUE]
    /\ running = {}
    /\ channel = [l \in Loads |-> FALSE]
    /\ closed = FALSE

-----------------------------------------------------------------------------
(* Helpers called with the mutex held *)

\* Mutant: the stopped timer stays in the map.
StopTimers_KeepsEntry(D) ==
    /\ timerState' = [i \in Timers |->
                   IF timerState[i] = "armed" /\ \E d \in D : timers[d] = i
                     THEN "free" ELSE timerState[i]]
    /\ UNCHANGED <<timers, flushes>>

\* stopTimer: the timer is stopped if it has not fired yet, and its entry in
\* the map is removed in any case.
StopTimers(D) ==
    /\ timerState' = [i \in Timers |->
                   IF timerState[i] = "armed" /\ \E d \in D : timers[d] = i
                     THEN "free" ELSE timerState[i]]
    /\ timers' = [d \in Sources |-> IF d \in D THEN NoTimer ELSE timers[d]]
    /\ UNCHANGED flushes

\* ensureTimer: a new timer, unless the map names one.
EnsureTimer(d) ==
    IF timers[d] # NoTimer
      THEN UNCHANGED <<timers, timerState, flushes>>
      ELSE \E i \in Timers :
               /\ timerState[i] = "free"
               /\ timers' = [timers EXCEPT ![d] = i]
               /\ timerState' = [timerState EXCEPT ![i] = "armed"]
               /\ flushes' = [flushes EXCEPT ![i] = d]

\* executeBatch starts on the requests taken from the pending list.
Start(who, reqs) ==
    running' = IF reqs = {} THEN running
                            ELSE running \cup {[by |-> who, reqs |-> reqs]}

-----------------------------------------------------------------------------
(* Load *)

LoadAfterClose(l) ==
    /\ place[l] = "idle" /\ closed
    /\ place' = [place EXCEPT ![l] = "closed"]
    /\ UNCHANGED <<ds, pending, timers, timerState, flushes, running, channel, closed>>

\* The request that brings the batch to its maximum size.
Fills(l, d) == Cardinality(pending[d] \cup {l}) >= MaxBatch

\* A full batch is executed by the caller that filled it ...
LoadFills(l, d) ==
    /\ place[l] = "idle" /\ ~closed
    /\ Fills(l, d)
    /\ ds' = [ds EXCEPT ![l] = d]
    /\ StopTimers({d})
    /\ pending' = [pending EXCEPT ![d] = {}]
    /\ Start(l, pending[d] \cup {l})
    /\ place' = [place EXCEPT ![l] = "execute"]
    /\ UNCHANGED <<channel, closed>>

\* ... otherwise the caller waits for the timer to flush it.
LoadWaits(l, d) ==
    /\ place[l] = "idle" /\ ~closed
    /\ ~Fills(l, d)
    /\ ds' = [ds EXCEPT ![l] = d]
    /\ pending' = [pending EXCEPT ![d] = @ \cup {l}]
    /\ EnsureTimer(d)
    /\ place' = [place EXCEPT ![l] = "wait"]
    /\ UNCHANGED <<running, channel, closed>>

LoadReceives(l) ==
    /\ place[l] = "wait" /\ channel[l]
    /\ channel' = [channel EXCEPT ![l] = FALSE]
    /\ place' = [place EXCEPT ![l] = "result"]
    /\ UNCHANGED <<ds, pending, timers, timerState, flushes, running, closed>>

\* The caller's context has ended: what is pending for its data source, its
\* own request or others', is flushed by a new goroutine ...
LoadCancelled(l) ==
    /\ place[l] = "wait"
    /\ pending' = [pending EXCEPT ![ds[l]] = {}]
    /\ Start(Nobody, pending[ds[l]])
    /\ IF pending[ds[l]] = {} THEN UNCHANGED <<timers, timerState, flushes>>
                              ELSE StopTimers({ds[l]})
    /\ place' = [place EXCEPT ![l] = "drain"]
    /\ UNCHANGED <<ds, channel, closed>>

\* ... and the caller takes its result if it is there by now.
LoadDrains(l) ==
    /\ place[l] = "drain"
    /\ place' = [place EXCEPT ![l] = IF channel[l] THEN "result" ELSE "ctx"]
    /\ channel' = [channel EXCEPT ![l] = FALSE]
    /\ UNCHANGED <<ds, pending, timers, timerState, flushes, running, closed>>

-----------------------------------------------------------------------------
(* The timer, the execution of a batch, and Close *)

TimerFires(i) ==
    /\ timerState[i] = "armed"
    /\ timerState' = [timerState EXCEPT ![i] = "fired"]
    /\ UNCHANGED <<place, ds, pending, timers, flushes, running, channel, closed>>

\* Mutant: the callback does not delete its entry of the map.
TimerCallback_KeepsEntry(i) ==
    /\ timerState[i] = "fired"
    /\ pending' = [pending EXCEPT ![flushes[i]] = {}]
    /\ timerState' = [timerState EXCEPT ![i] = "free"]
    /\ Start(Nobody, pending[flushes[i]])
    /\ UNCHANGED <<place, ds, timers, flushes, channel, closed>>

\* The callback has the mutex: it takes what is pending and deletes the entry
\* of the map, whichever timer that names.
TimerCallback(i) ==
    /\ timerState[i] = "fired"
    /\ pending' = [pending EXCEPT ![flushes[i]] = {}]
    /\ timers' = [timers EXCEPT ![flushes[i]] = NoTimer]
    /\ timerState' = [timerState EXCEPT ![i] = "free"]
    /\ Start(Nobody, pending[flushes[i]])
    /\ UNCHANGED <<place, ds, flushes, channel, closed>>

\* executeBatch runs one request and sends the result; a caller that executed
\* the batch itself goes on to wait for its own result when it is through.
ExecuteOne(b, r) ==
    /\ b \in running /\ r \in b.reqs /\ ~channel[r]
    /\ channel' = [channel EXCEPT ![r] = TRUE]
    /\ LET rest == b.reqs \ {r}
       IN  /\ running' = (running \ {b}) \cup
                             (IF rest = {} THEN {} ELSE {[b EXCEPT !.reqs = rest]})
           /\ place' = IF rest = {} /\ b.by # Nobody
                      THEN [place EXCEPT ![b.by] = "wait"] ELSE place
    /\ UNCHANGED <<ds, pending, timers, timerState, flushes, closed>>

Close ==
    /\ ~closed
    /\ closed' = TRUE
    /\ LET D == {d \in Sources : pending[d] # {}}
       IN  /\ running' = running \cup
                             {[by |-> Nobody, reqs |-> pending[d]] : d \in D}
           /\ StopTimers(D)
    /\ pending' = [d \in Sources |-> {}]
    /\ UNCHANGED <<place, ds, channel>>

-----------------------------------------------------------------------------
Progress ==
    \/ \E l \in Loads : LoadReceives(l) \/ LoadDrains(l)
    \/ \E i \in Timers : TimerFires(i) \/ TimerCallback(i)
    \/ \E b \in running : \E r \in b.reqs : ExecuteOne(b, r)

LoaderNext ==
    \/ \E l \in Loads :
           \/ LoadAfterClose(l)
           \/ \E d \in Sources : LoadFills(l, d) \/ LoadWaits(l, d)
           \/ LoadCancelled(l)
    \/ Progress
    \/ Close

LoaderSpec == New /\ [][LoaderNext]_loaderVars

\* Timers fire, goroutines run and queries end.  No fairness on cancellation.
LoaderFairSpec == LoaderSpec /\ WF_loaderVars(Progress)

-----------------------------------------------------------------------------
Batched(l) == {b \in running : l \in b.reqs}

\* A request waits for a flush that is on its way: where something is pending,
\* the timers map names a timer that is running or whose callback is about to
\* take the mutex.  Late callbacks that delete a newer timer's entry, flushes
\* by cancelled callers and Close all keep this.
NobodyStranded ==
    \A d \in Sources : pending[d] # {} =>
        /\ timers[d] # NoTimer
        /\ timerState[timers[d]] # "free"
        /\ flushes[timers[d]] = d

\* A request is in one place at a time: pending, in one batch, or answered.
\* The one-element channel therefore never blocks an executing batch.
OnePlace ==
    \A l \in Loads :
        /\ \A d \in Sources : l \in pending[d] =>
               ds[l] = d /\ Batched(l) = {} /\ ~channel[l]
        /\ \A b, c \in Batched(l) : b = c
        /\ channel[l] => Batched(l) = {}
        /\ place[l] = "wait" =>
               l \in pending[ds[l]] \/ Batched(l) # {} \/ channel[l]

\* Every request is on its way to one answer: in exactly one place, and where
\* it is pending with a flush to come.
OnItsWay == OnePlace /\ NobodyStranded

\* Every call of Load returns.
LoadsReturn ==
    \A l \in Loads : place[l] # "idle" ~> place[l] \in {"result", "ctx", "closed"}

-----------------------------------------------------------------------------
(* Inductive invariant                                                     *)

\* An entry of the timers map names a timer that will flush its data source.
MapNamesTimers ==
    \A d \in Sources : timers[d] # NoTimer =>
        timerState[timers[d]] # "free" /\ flushes[timers[d]] = d

\* Batches share no request and no caller that executes them, and a request in
\* one is neither pending nor answered.
BatchesApart ==
    /\ \A b, c \in running :
          (b.reqs \cap c.reqs # {} \/ (b.by = c.by /\ b.by # Nobody)) => b = c
    /\ \A b \in running :
          /\ b.by # Nobody => place[b.by] = "execute"
          /\ \A l \in b.reqs : /\ ~channel[l] /\ place[l] \notin {"idle", "closed"}
                               /\ \A d \in Sources : l \notin pending[d]

\* A pending request has a caller that waits, a caller that waits has a request,
\* and a call that has not begun, or came too late, has none.
CallersWait ==
    \A l \in Loads :
        /\ \A d \in Sources :
              l \in pending[d] => ds[l] = d /\ ~channel[l] /\ place[l] = "wait"
        /\ place[l] \in {"idle", "closed"} => ~channel[l]
        /\ place[l] \in {"wait", "execute"} =>
              l \in pending[ds[l]] \/ channel[l] \/ \E b \in running : l \in b.reqs

LoaderInv ==
    LoaderTypeOK /\ MapNamesTimers /\ NobodyStranded /\ BatchesApart /\ CallersWait
=============================================================================
