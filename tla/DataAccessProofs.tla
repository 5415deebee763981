-------------------------- MODULE DataAccessProofs --------------------------
(***************************************************************************)
(* The batching loader, the backoff loops and the write path, for any      *)
(* calls, intervals, whitelists and edits of the configuration file.       *)
(***************************************************************************)
EXTENDS DataAccess, CountingFacts

-----------------------------------------------------------------------------
(* The batching loader: timers                                             *)

\* stopTimer frees only timers whose entries it removes.
LEMMA StopTimersFacts ==
    ASSUME LoaderInv, NEW D \in SUBSET Sources, StopTimers(D)
    PROVE  /\ timers' \in [Sources -> Timers \cup {NoTimer}]
           /\ timerState' \in [Timers -> {"free", "armed", "fired"}]
           /\ flushes' = flushes
           /\ MapNamesTimers'
           /\ \A d \in Sources \ D : timers'[d] = timers[d]
<1> USE DEF LoaderInv, LoaderTypeOK, StopTimers
<1>1. /\ timers' \in [Sources -> Timers \cup {NoTimer}]
      /\ timerState' \in [Timers -> {"free", "armed", "fired"}]
      /\ flushes' = flushes
      /\ \A d \in Sources \ D : timers'[d] = timers[d]
      /\ \A d \in D : timers'[d] = NoTimer
  OBVIOUS
<1>2. ASSUME NEW d \in Sources, timers'[d] # NoTimer
      PROVE  timerState'[timers'[d]] # "free" /\ flushes'[timers'[d]] = d
  <2>1. d \notin D /\ timers'[d] = timers[d] /\ timers[d] \in Timers
    BY <1>1, <1>2
  <2>2. timerState[timers[d]] # "free" /\ flushes[timers[d]] = d
    BY <1>2, <2>1 DEF MapNamesTimers
  <2>3. \A e \in D : timers[e] # timers[d]
    BY <2>1, <2>2, DataLoaderAssumption DEF MapNamesTimers
  <2> QED
    BY <1>1, <2>1, <2>2, <2>3
<1> QED
  BY <1>1, <1>2 DEF MapNamesTimers

\* ensureTimer leaves d with an entry that names a timer of its own.
LEMMA EnsureTimerFacts ==
    ASSUME LoaderInv, NEW d \in Sources, EnsureTimer(d)
    PROVE  /\ timers' \in [Sources -> Timers \cup {NoTimer}]
           /\ timerState' \in [Timers -> {"free", "armed", "fired"}]
           /\ flushes' \in [Timers -> Sources]
           /\ MapNamesTimers'
           /\ timers'[d] # NoTimer
           /\ \A e \in Sources \ {d} : timers'[e] = timers[e]
<1> USE DEF LoaderInv, LoaderTypeOK, EnsureTimer
<1>1. CASE timers[d] # NoTimer
  BY <1>1 DEF MapNamesTimers
<1>2. CASE timers[d] = NoTimer
  <2>1. PICK i \in Timers :
            /\ timerState[i] = "free"
            /\ timers' = [timers EXCEPT ![d] = i]
            /\ timerState' = [timerState EXCEPT ![i] = "armed"]
            /\ flushes' = [flushes EXCEPT ![i] = d]
    BY <1>2
  <2>2. \A e \in Sources : timers[e] # i
    BY <2>1, DataLoaderAssumption DEF MapNamesTimers
  <2>3. MapNamesTimers'
    BY <2>1, <2>2 DEF MapNamesTimers
  <2> QED
    BY <2>1, <2>3, DataLoaderAssumption
<1> QED
  BY <1>1, <1>2

-----------------------------------------------------------------------------
(* The batching loader: requests                                           *)

\* What a flush takes from the pending list becomes a batch of its own.
LEMMA StartFacts ==
    ASSUME LoaderInv, NEW w \in Loads \cup {Nobody}, NEW R \in SUBSET Loads,
           Start(w, R),
           \A b \in running : b.reqs \cap R = {} /\ (w = Nobody \/ b.by # w)
    PROVE  /\ running' \in SUBSET Batches
           /\ \A b \in running' : b \in running \/ (b.reqs = R /\ b.by = w)
           /\ running \subseteq running'
           /\ \A l \in R : \E b \in running' : l \in b.reqs
           /\ \A b, c \in running' :
                 (b.reqs \cap c.reqs # {} \/ (b.by = c.by /\ b.by # Nobody)) => b = c
<1> DEFINE n == [by |-> w, reqs |-> R]
<1>1. n \in Batches /\ n.by = w /\ n.reqs = R
  BY DEF Batches
<1>2. running' = running \/ (running' = running \cup {n})
  BY DEF Start
<1>3. R # {} => n \in running'
  BY DEF Start
<1> HIDE DEF n
<1>4. ASSUME NEW b \in running', NEW c \in running',
             b.reqs \cap c.reqs # {} \/ (b.by = c.by /\ b.by # Nobody)
      PROVE  b = c
  <2>1. CASE b \in running /\ c \in running
    BY <1>4, <2>1 DEF LoaderInv, BatchesApart
  <2>2. CASE b = n /\ c \in running
    BY <1>1, <1>4, <2>2
  <2>3. CASE b \in running /\ c = n
    BY <1>1, <1>4, <2>3
  <2> QED
    BY <1>2, <2>1, <2>2, <2>3
<1> QED
  BY <1>1, <1>2, <1>3, <1>4 DEF LoaderInv, LoaderTypeOK

\* Load, when the request fills the batch.
LEMMA LoadFillsInv ==
    ASSUME LoaderInv, NEW l \in Loads, NEW d \in Sources, LoadFills(l, d)
    PROVE  LoaderInv'
<1> USE DEF LoaderInv, LoaderTypeOK
<1> DEFINE R == pending[d] \cup {l}
<1>1. /\ place[l] = "idle" /\ ds' = [ds EXCEPT ![l] = d] /\ StopTimers({d})
      /\ pending' = [pending EXCEPT ![d] = {}] /\ Start(l, R)
      /\ place' = [place EXCEPT ![l] = "execute"] /\ UNCHANGED <<channel, closed>>
  BY DEF LoadFills
<1>2. /\ R \in SUBSET Loads
      /\ \A b \in running : b.reqs \cap R = {} /\ b.by # l
      /\ \A r \in R : ~channel[r]
      /\ \A r \in R : place'[r] \in {"wait", "execute"}
      /\ \A r \in R, e \in Sources : r \notin pending'[e]
  <2>1. /\ R \in SUBSET Loads
        /\ \A r \in R : ~channel[r] /\ (r # l => place[r] = "wait" /\ ds[r] = d)
    BY <1>1 DEF CallersWait
  <2>2. ASSUME NEW b \in running
        PROVE  b.reqs \cap R = {} /\ b.by # l
    BY <1>1, DataLoaderAssumption DEF BatchesApart
  <2>3. ASSUME NEW r \in R, NEW e \in Sources
        PROVE  r \notin pending'[e]
    BY <1>1, <2>1, <2>3 DEF CallersWait
  <2>4. \A r \in R : place'[r] \in {"wait", "execute"}
    BY <1>1, <2>1
  <2> QED
    BY <2>1, <2>2, <2>3, <2>4
<1>3. /\ running' \in SUBSET Batches
      /\ \A b \in running' : b \in running \/ (b.reqs = R /\ b.by = l)
      /\ running \subseteq running'
      /\ \A r \in R : \E b \in running' : r \in b.reqs
      /\ \A b, c \in running' :
            (b.reqs \cap c.reqs # {} \/ (b.by = c.by /\ b.by # Nobody)) => b = c
  <2>1. /\ l \in Loads \cup {Nobody} /\ R \in SUBSET Loads /\ Start(l, R)
        /\ \A b \in running : b.reqs \cap R = {} /\ (l = Nobody \/ b.by # l)
    BY <1>1, <1>2
  <2> HIDE DEF LoaderInv, R
  <2> QED
    BY <2>1, StartFacts
<1>4. /\ timers' \in [Sources -> Timers \cup {NoTimer}]
      /\ timerState' \in [Timers -> {"free", "armed", "fired"}]
      /\ flushes' = flushes /\ MapNamesTimers'
      /\ \A e \in Sources \ {d} : timers'[e] = timers[e]
  BY <1>1, StopTimersFacts
<1>5. LoaderTypeOK'
  BY <1>1, <1>3, <1>4
<1>6. NobodyStranded'
  BY <1>1, <1>4 DEF NobodyStranded, MapNamesTimers
<1>7. BatchesApart'
  BY <1>1, <1>2, <1>3 DEF BatchesApart
<1>8. CallersWait'
  BY <1>1, <1>2, <1>3 DEF CallersWait
<1> QED
  BY <1>4, <1>5, <1>6, <1>7, <1>8

\* Load, when the request has to wait for more.
LEMMA LoadWaitsInv ==
    ASSUME LoaderInv, NEW l \in Loads, NEW d \in Sources, LoadWaits(l, d)
    PROVE  LoaderInv'
<1>1. /\ place[l] = "idle" /\ ds' = [ds EXCEPT ![l] = d] /\ EnsureTimer(d)
      /\ pending' = [pending EXCEPT ![d] = @ \cup {l}]
      /\ place' = [place EXCEPT ![l] = "wait"] /\ UNCHANGED <<running, channel, closed>>
  BY DEF LoadWaits
<1>2. /\ timers' \in [Sources -> Timers \cup {NoTimer}]
      /\ timerState' \in [Timers -> {"free", "armed", "fired"}]
      /\ flushes' \in [Timers -> Sources]
      /\ MapNamesTimers' /\ timers'[d] # NoTimer
      /\ \A e \in Sources \ {d} : timers'[e] = timers[e]
  BY <1>1, EnsureTimerFacts
<1> USE DEF LoaderInv, LoaderTypeOK
<1>3. LoaderTypeOK'
  BY <1>1, <1>2
<1>4. NobodyStranded'
  BY <1>1, <1>2 DEF NobodyStranded, MapNamesTimers
<1>5. BatchesApart'
  BY <1>1, DataLoaderAssumption DEF BatchesApart
<1>6. CallersWait'
  BY <1>1 DEF CallersWait
<1> QED
  BY <1>2, <1>3, <1>4, <1>5, <1>6

\* A flush by the timer or for a cancelled caller: what was pending for d is
\* executed by a goroutine of its own.
LEMMA FlushFacts ==
    ASSUME LoaderInv, NEW d \in Sources, Start(Nobody, pending[d]),
           pending' = [pending EXCEPT ![d] = {}], UNCHANGED <<ds, channel>>,
           place' \in [Loads -> {"idle", "execute", "wait", "drain", "result", "ctx",
                                 "closed"}],
           \A r \in Loads : \/ place'[r] = place[r]
                            \/ place[r] = "wait" /\ place'[r] = "drain" /\ ds[r] = d
    PROVE  running' \in SUBSET Batches /\ BatchesApart' /\ CallersWait'
<1>a. /\ pending[d] \in SUBSET Loads
      /\ \A r \in pending[d] : ~channel[r] /\ place[r] = "wait" /\ ds[r] = d
      /\ \A b \in running : b.reqs \cap pending[d] = {}
  BY DEF LoaderInv, LoaderTypeOK, BatchesApart, CallersWait
<1>b. /\ running' \in SUBSET Batches
      /\ \A b \in running' : b \in running \/ (b.reqs = pending[d] /\ b.by = Nobody)
      /\ running \subseteq running'
      /\ \A r \in pending[d] : \E b \in running' : r \in b.reqs
      /\ \A b, c \in running' :
            (b.reqs \cap c.reqs # {} \/ (b.by = c.by /\ b.by # Nobody)) => b = c
  <2>1. Nobody \in Loads \cup {Nobody}
    OBVIOUS
  <2> QED
    BY <1>a, <2>1, StartFacts
<1> USE DEF LoaderInv, LoaderTypeOK
<1>1. BatchesApart'
  <2>1. ASSUME NEW b \in running'
        PROVE  /\ b.by # Nobody => place'[b.by] = "execute"
               /\ \A r \in b.reqs : /\ ~channel'[r] /\ place'[r] \notin {"idle", "closed"}
                                    /\ \A e \in Sources : r \notin pending'[e]
    <3>1. CASE b \in running
      BY <3>1 DEF BatchesApart, Batches
    <3>2. CASE b.reqs = pending[d] /\ b.by = Nobody
      BY <1>a, <3>2 DEF CallersWait
    <3> QED
      BY <1>b, <3>1, <3>2
  <2> QED
    BY <1>b, <2>1 DEF BatchesApart
<1>2. CallersWait'
  BY <1>a, <1>b DEF CallersWait
<1> QED
  BY <1>b, <1>1, <1>2

\* Cancellation of a waiting caller.
LEMMA LoadCancelledInv ==
    ASSUME LoaderInv, NEW l \in Loads, LoadCancelled(l)
    PROVE  LoaderInv'
<1>1. /\ place[l] = "wait" /\ Start(Nobody, pending[ds[l]])
      /\ pending' = [pending EXCEPT ![ds[l]] = {}]
      /\ place' = [place EXCEPT ![l] = "drain"] /\ UNCHANGED <<ds, channel, closed>>
      /\ ds[l] \in Sources
  BY DEF LoadCancelled, LoaderInv, LoaderTypeOK
<1>2. /\ place' \in [Loads -> {"idle", "execute", "wait", "drain", "result", "ctx",
                               "closed"}]
      /\ \A r \in Loads : \/ place'[r] = place[r]
                          \/ place[r] = "wait" /\ place'[r] = "drain" /\ ds[r] = ds[l]
  BY <1>1 DEF LoaderInv, LoaderTypeOK
<1>3. running' \in SUBSET Batches /\ BatchesApart' /\ CallersWait'
  BY <1>1, <1>2, FlushFacts
<1>4. /\ timers' \in [Sources -> Timers \cup {NoTimer}]
      /\ timerState' \in [Timers -> {"free", "armed", "fired"}]
      /\ flushes' = flushes /\ MapNamesTimers'
      /\ \A e \in Sources \ {ds[l]} : timers'[e] = timers[e]
  <2>1. CASE pending[ds[l]] = {}
    BY <2>1 DEF LoadCancelled, LoaderInv, LoaderTypeOK, MapNamesTimers
  <2>2. CASE pending[ds[l]] # {}
    <3>1. StopTimers({ds[l]}) /\ {ds[l]} \in SUBSET Sources
      BY <1>1, <2>2 DEF LoadCancelled
    <3> QED
      BY <3>1, StopTimersFacts
  <2> QED
    BY <2>1, <2>2
<1> USE DEF LoaderInv, LoaderTypeOK
<1>5. NobodyStranded'
  BY <1>1, <1>4 DEF NobodyStranded, MapNamesTimers
<1>6. LoaderTypeOK'
  BY <1>1, <1>2, <1>3, <1>4
<1> QED
  BY <1>3, <1>4, <1>5, <1>6

\* The timer's callback, late or not.
LEMMA TimerCallbackInv ==
    ASSUME LoaderInv, NEW i \in Timers, TimerCallback(i)
    PROVE  LoaderInv'
<1> DEFINE d == flushes[i]
<1>1. /\ timerState[i] = "fired" /\ pending' = [pending EXCEPT ![d] = {}]
      /\ timers' = [timers EXCEPT ![d] = NoTimer]
      /\ timerState' = [timerState EXCEPT ![i] = "free"]
      /\ Start(Nobody, pending[d]) /\ UNCHANGED <<place, ds, flushes, channel, closed>>
      /\ d \in Sources
  BY DEF TimerCallback, LoaderInv, LoaderTypeOK
<1> HIDE DEF d
<1>2. running' \in SUBSET Batches /\ BatchesApart' /\ CallersWait'
  <2>1. /\ place' \in [Loads -> {"idle", "execute", "wait", "drain", "result", "ctx",
                                 "closed"}]
        /\ \A r \in Loads : place'[r] = place[r]
    BY <1>1 DEF LoaderInv, LoaderTypeOK
  <2> QED
    BY <1>1, <2>1, FlushFacts
<1> USE DEF LoaderInv, LoaderTypeOK
<1>3. \A e \in Sources \ {d} : timers[e] # i
  BY DataLoaderAssumption DEF MapNamesTimers, d
<1>4. MapNamesTimers' /\ NobodyStranded'
  BY <1>1, <1>3 DEF MapNamesTimers, NobodyStranded
<1>5. LoaderTypeOK'
  BY <1>1, <1>2
<1> QED
  BY <1>2, <1>4, <1>5

\* One request of a batch is answered; the batch shrinks, or is through.
LEMMA ExecuteOneInv ==
    ASSUME LoaderInv, NEW b \in running, NEW r \in b.reqs, ExecuteOne(b, r)
    PROVE  LoaderInv'
<1> USE DEF LoaderInv, LoaderTypeOK
<1> DEFINE rest == b.reqs \ {r}
           n == [b EXCEPT !.reqs = rest]
<1>1. /\ ~channel[r] /\ channel' = [channel EXCEPT ![r] = TRUE]
      /\ running' = (running \ {b}) \cup (IF rest = {} THEN {} ELSE {n})
      /\ place' = IF rest = {} /\ b.by # Nobody
                    THEN [place EXCEPT ![b.by] = "wait"] ELSE place
      /\ UNCHANGED <<ds, pending, timers, timerState, flushes, closed>>
  BY DEF ExecuteOne
<1>2. /\ n \in Batches /\ n.by = b.by /\ n.reqs = rest
      /\ b \in Batches /\ b.by \in Loads \cup {Nobody} /\ b.reqs \in SUBSET Loads
      /\ r \in Loads
  BY DEF Batches
<1>3. \A c \in running' : \/ c \in running /\ c # b
                          \/ c = n /\ rest # {}
  BY <1>1
<1>4. \A c \in running : c # b => c \in running'
  BY <1>1
<1>5. rest # {} => n \in running'
  BY <1>1
<1> HIDE DEF n
<1>6. /\ \A c \in running : c # b => c.reqs \cap b.reqs = {}
      /\ \A c \in running : c # b => c.by # b.by \/ b.by = Nobody
      /\ \A c \in running : c.by # Nobody => place[c.by] = "execute"
      /\ \A l \in b.reqs : /\ ~channel[l] /\ place[l] \notin {"idle", "closed"}
                           /\ \A d \in Sources : l \notin pending[d]
  BY DEF BatchesApart
<1>7. /\ \A l \in Loads : place'[l] # place[l] =>
                             place[l] = "execute" /\ place'[l] = "wait"
      /\ \A l \in Loads : place'[l] # place[l] => rest = {} /\ l = b.by
  BY <1>1, <1>2, <1>6
<1>8. LoaderTypeOK'
  <2>1. running' \in SUBSET Batches
    BY <1>2, <1>3
  <2>2. place' \in [Loads -> {"idle", "execute", "wait", "drain", "result", "ctx",
                              "closed"}]
    BY <1>1, <1>2
  <2>3. channel' \in [Loads -> BOOLEAN]
    BY <1>1, Zenon
  <2> QED
    BY <1>1, <2>1, <2>2, <2>3
<1>9. MapNamesTimers' /\ NobodyStranded'
  BY <1>1 DEF MapNamesTimers, NobodyStranded
<1>10. BatchesApart'
  <2>1. ASSUME NEW c \in running', NEW e \in running',
               c.reqs \cap e.reqs # {} \/ (c.by = e.by /\ c.by # Nobody)
        PROVE  c = e
    <3>1. CASE c \in running /\ c # b /\ e \in running /\ e # b
      BY <2>1, <3>1 DEF BatchesApart
    <3>2. CASE c = n \/ e = n
      BY <1>2, <1>3, <1>6, <2>1, <3>2
    <3> QED
      BY <1>3, <3>1, <3>2
  <2>2. ASSUME NEW c \in running'
        PROVE  /\ c.by # Nobody => place'[c.by] = "execute"
               /\ \A l \in c.reqs : /\ ~channel'[l] /\ place'[l] \notin {"idle", "closed"}
                                    /\ \A d \in Sources : l \notin pending'[d]
    <3>1. CASE c \in running /\ c # b
      <4>1. /\ c \in Batches /\ c.by \in Loads \cup {Nobody} /\ c.reqs \in SUBSET Loads
            /\ c.reqs \cap b.reqs = {}
            /\ c.by # b.by \/ b.by = Nobody
        BY <1>6, <3>1 DEF Batches
      <4>2. c.by # Nobody => place'[c.by] = "execute"
        BY <1>6, <1>7, <3>1, <4>1
      <4>3. ASSUME NEW l \in c.reqs
            PROVE  /\ ~channel'[l] /\ place'[l] \notin {"idle", "closed"}
                   /\ \A d \in Sources : l \notin pending'[d]
        <5>1. /\ ~channel[l] /\ place[l] \notin {"idle", "closed"}
              /\ \A d \in Sources : l \notin pending[d]
              /\ l # r /\ l \in Loads
          BY <3>1, <4>1 DEF BatchesApart
        <5> QED
          BY <1>1, <1>7, <5>1
      <4> QED
        BY <4>2, <4>3
    <3>2. CASE c = n /\ rest # {}
      BY <1>1, <1>2, <1>6, <3>2
    <3> QED
      BY <1>3, <3>1, <3>2
  <2> QED
    BY <2>1, <2>2 DEF BatchesApart
<1>11. CallersWait'
  <2>1. ASSUME NEW l \in Loads
        PROVE  /\ \A d \in Sources : l \in pending'[d] =>
                      ds'[l] = d /\ ~channel'[l] /\ place'[l] = "wait"
               /\ place'[l] \in {"idle", "closed"} => ~channel'[l]
    BY <1>1, <1>2, <1>6, <1>7 DEF CallersWait
  <2>2. ASSUME NEW l \in Loads, place'[l] \in {"wait", "execute"}
        PROVE  l \in pending'[ds'[l]] \/ channel'[l] \/ \E c \in running' : l \in c.reqs
    <3>1. place[l] \in {"wait", "execute"}
      BY <1>7, <2>2
    <3>2. CASE l \in pending[ds[l]] \/ channel[l]
      BY <1>1, <3>2
    <3>3. CASE \E c \in running : l \in c.reqs
      <4>1. PICK c \in running : l \in c.reqs
        BY <3>3
      <4>2. CASE c # b
        BY <1>4, <4>1, <4>2
      <4>3. CASE c = b /\ l = r
        BY <1>1, <1>2, <4>3
      <4>4. CASE c = b /\ l # r
        BY <1>2, <1>5, <4>1, <4>4
      <4> QED
        BY <4>2, <4>3, <4>4
    <3> QED
      BY <3>1, <3>2, <3>3 DEF CallersWait
  <2> QED
    BY <2>1, <2>2 DEF CallersWait
<1> QED
  BY <1>8, <1>9, <1>10, <1>11

\* Close: every data source with something pending is flushed.
LEMMA CloseInv ==
    ASSUME LoaderInv, Close
    PROVE  LoaderInv'
<1> DEFINE D == {d \in Sources : pending[d] # {}}
<1>1. /\ running' = running \cup {[by |-> Nobody, reqs |-> pending[d]] : d \in D}
      /\ StopTimers(D) /\ pending' = [d \in Sources |-> {}] /\ closed' = TRUE
      /\ UNCHANGED <<place, ds, channel>>
  BY DEF Close
<1>2. /\ timers' \in [Sources -> Timers \cup {NoTimer}]
      /\ timerState' \in [Timers -> {"free", "armed", "fired"}]
      /\ flushes' = flushes /\ MapNamesTimers'
  <2>1. D \in SUBSET Sources
    OBVIOUS
  <2> HIDE DEF D
  <2> QED
    BY <1>1, <2>1, StopTimersFacts
<1> USE DEF LoaderInv, LoaderTypeOK
<1>3. /\ \A c \in running' : \/ c \in running
                             \/ \E d \in D : c = [by |-> Nobody, reqs |-> pending[d]]
      /\ running \subseteq running'
      /\ \A d \in D : [by |-> Nobody, reqs |-> pending[d]] \in running'
  BY <1>1
<1>4. ASSUME NEW c \in running'
      PROVE  \/ c \in running
             \/ c \in Batches /\ c.by = Nobody /\ \E d \in D : c.reqs = pending[d]
                /\ c = [by |-> Nobody, reqs |-> pending[d]]
  BY <1>3 DEF Batches
<1>5. \A d \in Sources : \A l \in pending[d] : \E c \in running' : l \in c.reqs
  <2>1. ASSUME NEW d \in Sources, NEW l \in pending[d]
        PROVE  \E c \in running' : l \in c.reqs
    <3>1. [by |-> Nobody, reqs |-> pending[d]] \in running'
      BY <1>3, <2>1
    <3> QED
      BY <3>1
  <2> QED
    BY <2>1
<1>6. LoaderTypeOK'
  BY <1>1, <1>2, <1>4
<1>7. NobodyStranded'
  BY <1>1 DEF NobodyStranded
<1>8. BatchesApart'
  <2>1. ASSUME NEW c \in running', NEW e \in running',
               c.reqs \cap e.reqs # {} \/ (c.by = e.by /\ c.by # Nobody)
        PROVE  c = e
    <3>1. CASE c \in running /\ e \in running
      BY <2>1, <3>1 DEF BatchesApart
    <3>2. CASE c \in running /\ e \notin running
      BY <1>4, <2>1, <3>2 DEF BatchesApart
    <3>3. CASE c \notin running /\ e \in running
      BY <1>4, <2>1, <3>3 DEF BatchesApart
    <3>4. CASE c \notin running /\ e \notin running
      <4>1. PICK d \in Sources : c.reqs = pending[d] /\ c.by = Nobody
                                 /\ c = [by |-> Nobody, reqs |-> pending[d]]
        BY <1>4, <3>4
      <4>2. PICK f \in Sources : e.reqs = pending[f]
                                 /\ e = [by |-> Nobody, reqs |-> pending[f]]
        BY <1>4, <3>4
      <4>3. d = f
        BY <2>1, <4>1, <4>2 DEF CallersWait
      <4> QED
        BY <4>1, <4>2, <4>3
    <3> QED
      BY <3>1, <3>2, <3>3, <3>4
  <2>2. ASSUME NEW c \in running'
        PROVE  /\ c.by # Nobody => place'[c.by] = "execute"
               /\ \A l \in c.reqs : /\ ~channel'[l] /\ place'[l] \notin {"idle", "closed"}
                                    /\ \A d \in Sources : l \notin pending'[d]
    <3>1. CASE c \in running
      BY <1>1, <3>1 DEF BatchesApart
    <3>2. CASE c \notin running
      BY <1>1, <1>4, <3>2 DEF CallersWait
    <3> QED
      BY <3>1, <3>2
  <2> QED
    BY <2>1, <2>2 DEF BatchesApart
<1>9. CallersWait'
  BY <1>1, <1>3, <1>5 DEF CallersWait
<1> QED
  BY <1>2, <1>6, <1>7, <1>8, <1>9

\* The loader starts with nothing pending and no timer.
LEMMA LoaderInitInv == New => LoaderInv
<1> SUFFICES ASSUME New PROVE LoaderInv
  OBVIOUS
<1>1. (CHOOSE d \in Sources : TRUE) \in Sources
  BY DataLoaderAssumption
<1>2. LoaderTypeOK
  BY <1>1 DEF New, LoaderTypeOK
<1> QED
  BY <1>2 DEF New, LoaderInv, MapNamesTimers, NobodyStranded, BatchesApart, CallersWait

\* The steps that only move a caller or set a timer going.
LEMMA CallerStepInv ==
    ASSUME LoaderInv,
           \/ \E l \in Loads : LoadAfterClose(l) \/ LoadReceives(l) \/ LoadDrains(l)
           \/ \E i \in Timers : TimerFires(i)
           \/ UNCHANGED loaderVars
    PROVE  LoaderInv'
<1> USE DEF LoaderInv, LoaderTypeOK
<1>1. ASSUME NEW l \in Loads, LoadAfterClose(l)
      PROVE  LoaderInv'
  BY <1>1, DataLoaderAssumption
     DEF LoadAfterClose, MapNamesTimers, NobodyStranded, BatchesApart, CallersWait, Batches
<1>2. ASSUME NEW l \in Loads, LoadReceives(l) \/ LoadDrains(l)
      PROVE  LoaderInv'
  <2>1. /\ place[l] \in {"wait", "drain"}
        /\ channel' = [channel EXCEPT ![l] = FALSE]
        /\ \E p \in {"result", "ctx"} : place' = [place EXCEPT ![l] = p]
        /\ UNCHANGED <<ds, pending, timers, timerState, flushes, running, closed>>
    BY <1>2 DEF LoadReceives, LoadDrains
  <2>2. ~channel'[l] /\ channel' \in [Loads -> BOOLEAN]
    BY <2>1, Zenon
  <2>3. LoaderTypeOK'
    BY <2>1, <2>2
  <2>4. place[l] = "wait" => \A d \in Sources : l \notin pending[d]
    BY <1>2 DEF LoadReceives, LoadDrains, CallersWait
  <2>5. MapNamesTimers' /\ NobodyStranded'
    BY <2>1 DEF MapNamesTimers, NobodyStranded
  <2>6. BatchesApart'
    BY <2>1 DEF BatchesApart
  <2>7. CallersWait'
    BY <2>1, <2>4 DEF CallersWait
  <2> QED
    BY <2>3, <2>5, <2>6, <2>7
<1>3. ASSUME NEW i \in Timers, TimerFires(i)
      PROVE  LoaderInv'
  BY <1>3 DEF TimerFires, MapNamesTimers, NobodyStranded, BatchesApart, CallersWait
<1>4. ASSUME UNCHANGED loaderVars
      PROVE  LoaderInv'
  BY <1>4 DEF loaderVars, MapNamesTimers, NobodyStranded, BatchesApart, CallersWait
<1> QED
  BY <1>1, <1>2, <1>3, <1>4

\* Every step of the loader keeps its invariant.
LEMMA LoaderNextInv == LoaderInv /\ [LoaderNext]_loaderVars => LoaderInv'
<1> SUFFICES ASSUME LoaderInv, [LoaderNext]_loaderVars
             PROVE  LoaderInv'
  OBVIOUS
<1>1. ASSUME NEW l \in Loads, NEW d \in Sources, LoadFills(l, d) \/ LoadWaits(l, d)
      PROVE  LoaderInv'
  BY <1>1, LoadFillsInv, LoadWaitsInv
<1>2. ASSUME NEW l \in Loads, LoadCancelled(l)
      PROVE  LoaderInv'
  BY <1>2, LoadCancelledInv
<1>3. ASSUME NEW i \in Timers, TimerCallback(i)
      PROVE  LoaderInv'
  BY <1>3, TimerCallbackInv
<1>4. ASSUME NEW b \in running, NEW r \in b.reqs, ExecuteOne(b, r)
      PROVE  LoaderInv'
  BY <1>4, ExecuteOneInv
<1>5. ASSUME Close
      PROVE  LoaderInv'
  BY <1>5, CloseInv
<1> QED
  BY <1>1, <1>2, <1>3, <1>4, <1>5, CallerStepInv DEF LoaderNext, Progress

\* The invariant puts every request in one place, with a flush to come.
LEMMA LoaderInvOnItsWay == LoaderInv => OnItsWay
BY DEF LoaderInv, LoaderTypeOK, OnItsWay, OnePlace, Batched, BatchesApart, CallersWait

\* The loader's inductive invariant holds of every behaviour, for any calls,
\* data sources, timers and batch size.
THEOREM LoaderInvariance == LoaderSpec => []LoaderInv
BY LoaderInitInv, LoaderNextInv, PTL DEF LoaderSpec

\* Every request is on its way to one answer: pending, in one batch or
\* answered, never in two of them, and where it is pending the timers map
\* names a timer that will flush it, whatever late callbacks, cancelled
\* callers and Close do in between.
THEOREM LoaderOnItsWay == LoaderSpec => []OnItsWay
BY LoaderInvariance, LoaderInvOnItsWay, PTL

-----------------------------------------------------------------------------
(* The backoff loops                                                       *)

\* The documented wait grows with the attempts.
LEMMA DocumentedGrows ==
    ASSUME DoublingFits, NEW n \in 0 .. MaxAttempts
    PROVE  /\ ToDuration(n) = {Doubled[n]} /\ Doubled[n] \in Nat
           /\ DocumentedBackoff(n) =
                 IF Doubled[n] > MaxInterval THEN MaxInterval ELSE Doubled[n]
           /\ DocumentedBackoff(n) \in Nat /\ DocumentedBackoff(n) >= DocumentedBackoff(0)
           /\ n < MaxAttempts => DocumentedBackoff(n) <= DocumentedBackoff(n + 1)
<1> USE BackoffConstants
<1>1. ASSUME NEW m \in 0 .. MaxAttempts
      PROVE  /\ ToDuration(m) = {Doubled[m]} /\ Doubled[m] = InitialInterval * 2^m
             /\ m \in DOMAIN Doubled
  BY DEF DoublingFits, ToDuration, Doubled
<1>2. ASSUME NEW m \in 0 .. MaxAttempts
      PROVE  /\ Doubled[m] \in Nat /\ Doubled[m] >= InitialInterval
             /\ m < MaxAttempts => Doubled[m + 1] = 2 * Doubled[m]
  <2>1. PICK p \in Nat : p = 2^m /\ p >= 1 /\ 2^(m + 1) = 2 * p
    BY PowerDoubles
  <2>2. Doubled[m] = InitialInterval * p
    BY <1>1, <2>1
  <2>3. InitialInterval * p \in Nat /\ InitialInterval * p >= InitialInterval
    BY <2>1
  <2>4. m < MaxAttempts => Doubled[m + 1] = InitialInterval * (2 * p)
    BY <1>1, <2>1
  <2>5. InitialInterval * (2 * p) = 2 * (InitialInterval * p)
    BY <2>1
  <2> QED
    BY <2>2, <2>3, <2>4, <2>5
<1>3. ASSUME NEW m \in 0 .. MaxAttempts
      PROVE  /\ DocumentedBackoff(m) =
                   IF Doubled[m] > MaxInterval THEN MaxInterval ELSE Doubled[m]
             /\ DocumentedBackoff(m) \in Nat
  BY <1>1, <1>2 DEF DocumentedBackoff
<1>4. n < MaxAttempts => n + 1 \in 0 .. MaxAttempts
  OBVIOUS
<1>5. n < MaxAttempts => DocumentedBackoff(n) <= DocumentedBackoff(n + 1)
  BY <1>2, <1>3, <1>4
<1>6. DocumentedBackoff(n) >= DocumentedBackoff(0)
  <2>1. 2^0 = 1 /\ 0 \in 0 .. MaxAttempts
    OBVIOUS
  <2>2. Doubled[0] = InitialInterval
    <3>1. Doubled[0] = InitialInterval * 1
      BY <1>1, <2>1
    <3> QED
      BY <3>1
  <2> QED
    BY <1>2, <1>3, <2>1, <2>2
<1> QED
  BY <1>1, <1>2, <1>3, <1>5, <1>6

\* The loops start without a call or a wait behind them.
LEMMA LoopInitInv == LoopInit => LoopInv
<1> SUFFICES ASSUME LoopInit PROVE LoopInv
  OBVIOUS
<1> USE DEF LoopInit
<1>1. LoopTypeOK
  BY DEF LoopTypeOK
<1>2. DoBacksOff
  <2>1. 2^0 = 1
    OBVIOUS
  <2> QED
    BY <2>1, BackoffConstants DEF DoBacksOff
<1>3. ReconnectBacksOff
  BY DocumentedGrows, BackoffConstants DEF ReconnectBacksOff
<1>4. loop = "do" => TransientIsRetried
  BY DEF TransientIsRetried
<1> QED
  BY <1>1, <1>2, <1>3, <1>4 DEF LoopInv

\* What the steps that both loops share do.
LEMMA LoopWaitInv ==
    ASSUME LoopInv,
           Wait \/ WaitOver \/ WaitInterrupted \/ ContextEnds \/ UNCHANGED loopVars
    PROVE  LoopInv' /\ (loop = "reconnect" => calls' = calls) /\ backoff' = backoff
<1> USE DEF LoopInv, LoopTypeOK, DoBacksOff, ReconnectBacksOff, TransientIsRetried
<1>1. CASE Wait
  BY <1>1 DEF Wait
<1>2. CASE WaitOver
  <2>1. 2^attempt \in Nat /\ 2^attempt >= 1 /\ 2^(attempt + 1) = 2 * 2^attempt
    BY PowerDoubles
  <2>2. CASE loop = "reconnect"
    BY <1>2, <2>2 DEF WaitOver
  <2>3. CASE loop # "reconnect"
    <3>1. /\ attempt' = attempt + 1 /\ step' = "call" /\ waited >= backoff
          /\ UNCHANGED <<loop, backoff, waited, total, calls, answer, ended, outcome>>
          /\ 2^attempt' = 2 * 2^attempt
      BY <1>2, <2>1, <2>3 DEF WaitOver
    <3>2. DoBacksOff'
      BY <1>2, <2>1, <2>3, <3>1, BackoffConstants DEF WaitOver
    <3>3. LoopTypeOK' /\ (loop' = "do" => TransientIsRetried')
      BY <3>1
    <3>4. ReconnectBacksOff'
      BY <2>3, <3>1
    <3> QED
      BY <2>3, <3>1, <3>2, <3>3, <3>4
  <2> QED
    BY <2>2, <2>3
<1>3. CASE WaitInterrupted
  BY <1>3 DEF WaitInterrupted, Returns
<1>4. CASE ContextEnds
  BY <1>4 DEF ContextEnds
<1>5. CASE UNCHANGED loopVars
  BY <1>5 DEF loopVars
<1> QED
  BY <1>1, <1>2, <1>3, <1>4, <1>5

\* A step of the reconnect loop keeps the invariant, and while the product
\* fits it calls only after a full interval and computes no shorter wait.
LEMMA ReconnectInv ==
    ASSUME LoopInv, ComputeBackoff \/ ConnectFails \/ Connects
    PROVE  /\ LoopInv'
           /\ DoublingFits => /\ calls' # calls => waited >= DocumentedBackoff(0)
                              /\ backoff' >= backoff
<1> USE DEF LoopInv, LoopTypeOK, DoBacksOff, ReconnectBacksOff, TransientIsRetried
<1>1. CASE ComputeBackoff
  <2>1. PICK d \in ToDuration(attempt) :
            backoff' = IF d > MaxInterval THEN MaxInterval ELSE d
    BY <1>1 DEF ComputeBackoff
  <2>2. /\ loop = "reconnect" /\ step = "compute" /\ step' = "wait" /\ waited' = 0
        /\ UNCHANGED <<loop, attempt, total, calls, answer, ended, outcome>>
    BY <1>1 DEF ComputeBackoff
  <2>3. backoff' \in Int
    <3>1. CASE attempt \in DOMAIN Doubled
      <4>1. PICK p \in Nat : p = 2^attempt
        BY PowerDoubles
      <4>2. d = InitialInterval * p
        BY <2>1, <3>1, <4>1 DEF ToDuration, Doubled
      <4>3. d \in Int
        BY <4>2, BackoffConstants
      <4> QED
        BY <2>1, <4>3, BackoffConstants
    <3>2. CASE attempt \notin DOMAIN Doubled
      <4>1. d \in Int
        BY <2>1, <3>2, BackoffConstants DEF ToDuration
      <4> QED
        BY <2>1, <4>1, BackoffConstants
    <3> QED
      BY <3>1, <3>2
  <2>4. DoublingFits => backoff' = DocumentedBackoff(attempt)
    BY <2>1, <2>2, DocumentedGrows, BackoffConstants
  <2> QED
    BY <2>2, <2>3, <2>4
<1>2. CASE ConnectFails
  <2>1. /\ loop = "reconnect" /\ step = "call" /\ attempt < MaxAttempts
        /\ attempt' = attempt + 1 /\ calls' = calls + 1 /\ step' = "compute"
        /\ UNCHANGED <<loop, backoff, waited, total, answer, ended, outcome>>
    BY <1>2 DEF ConnectFails
  <2>2. DoublingFits => /\ backoff >= DocumentedBackoff(0) /\ waited >= backoff
                        /\ backoff <= DocumentedBackoff(attempt + 1)
    BY <2>1, DocumentedGrows, BackoffConstants
  <2>3. ReconnectBacksOff'
    BY <2>1, <2>2, BackoffConstants
  <2>4. LoopTypeOK' /\ DoBacksOff' /\ (loop' = "do" => TransientIsRetried')
    BY <2>1
  <2>5. DoublingFits => waited >= DocumentedBackoff(0)
    BY <2>1, <2>2, DocumentedGrows, BackoffConstants
  <2> QED
    BY <2>1, <2>3, <2>4, <2>5
<1>3. CASE Connects
  <2>1. /\ loop = "reconnect" /\ step = "call" /\ step' = "done" /\ calls' = calls + 1
        /\ UNCHANGED <<loop, attempt, backoff, waited, total, answer, ended>>
    BY <1>3 DEF Connects, Returns
  <2>2. DoublingFits => waited >= DocumentedBackoff(0)
    BY <2>1, DocumentedGrows, BackoffConstants
  <2> QED
    BY <2>1, <2>2
<1> QED
  BY <1>1, <1>2, <1>3

\* One call of Do and what follows from its answer.
LEMMA CallExecuteInv ==
    ASSUME LoopInv, CallExecute
    PROVE  LoopInv' /\ loop # "reconnect" /\ backoff' >= backoff
<1> USE DEF LoopInv, LoopTypeOK, DoBacksOff, ReconnectBacksOff, TransientIsRetried
<1>1. /\ loop # "reconnect" /\ step = "call" /\ calls' = calls + 1
      /\ UNCHANGED <<loop, total, ended>>
  BY DEF CallExecute
<1>2. PICK e \in Answers :
          /\ answer' = e
          /\ IF e = "none" THEN Returns("ok") ELSE AfterError(Wrapped(e))
  BY DEF CallExecute
<1>3. PICK p \in Nat : p = 2^attempt /\ p >= 1
  BY PowerDoubles
<1>4. CASE \E o \in {"ok", "business", "exhausted"} : Returns(o)
  <2>1. step' = "done" /\ UNCHANGED <<attempt, backoff, waited>>
    BY <1>4 DEF Returns
  <2>2. LoopTypeOK' /\ DoBacksOff' /\ ReconnectBacksOff'
    BY <1>1, <2>1, BackoffConstants
  <2>3. ASSUME loop = "do", e \in TransientErrors
        PROVE  outcome' = "exhausted" /\ attempt = MaxRetries
    BY <1>2, <2>1, <2>3 DEF Returns, AfterError, Wrapped, IsBusiness, IsTransient,
                            TransientErrors
  <2>4. loop' = "do" => TransientIsRetried'
    BY <1>1, <1>2, <2>3, BackoffConstants
  <2> QED
    BY <1>1, <2>1, <2>2, <2>4
<1>5. CASE /\ IsTransient(Wrapped(e)) /\ attempt < MaxRetries
           /\ step' = "wait" /\ waited' = 0 /\ backoff' = 2^attempt
           /\ UNCHANGED <<attempt, outcome>>
  <2>1. e \in TransientErrors
    BY <1>5 DEF IsTransient, Wrapped, TransientErrors
  <2>2. 2^attempt' = 2^attempt
    BY <1>5
  <2>3. LoopTypeOK' /\ backoff' >= backoff
    BY <1>1, <1>3, <1>5
  <2>4. DoBacksOff'
    BY <1>1, <1>2, <1>3, <1>5, <2>1, <2>2, BackoffConstants
  <2> QED
    BY <1>1, <1>5, <2>3, <2>4
<1> QED
  BY <1>2, <1>4, <1>5 DEF AfterError

\* Every step of the loops keeps their invariant.
LEMMA LoopNextInv ==
    ASSUME LoopInv, [LoopNext]_loopVars
    PROVE  /\ LoopInv'
           /\ DoublingFits =>
                 /\ loop = "reconnect" /\ calls' # calls => waited >= DocumentedBackoff(0)
                 /\ backoff' >= backoff
<1>1. backoff \in Int
  BY DEF LoopInv, LoopTypeOK
<1> QED
  BY <1>1, LoopWaitInv, ReconnectInv, CallExecuteInv DEF LoopNext

\* The invariant of the loops holds for any intervals, durations and limits.
THEOREM LoopInvariance == LoopSpec => []LoopInv
BY LoopInitInv, LoopNextInv, PTL DEF LoopSpec

\* retry.Do: a query the data source rejected is not sent again, MaxRetries + 1
\* calls are the most, and n retries have waited 2^n - 1 intervals in all.
THEOREM LoopRetriesBackOff == LoopSpec => []RetriesBackOff
<1>1. LoopInv => RetriesBackOff
  BY DEF LoopInv, DoBacksOff, RetriesBackOff
<1> QED
  BY <1>1, LoopInvariance, PTL

\* retry.Do around a driver gives a transient error every chance: the contract
\* that the adapters' Execute breaks.
THEOREM DoRetriesTransient == LoopSpec => [](loop = "do" => TransientIsRetried)
<1>1. LoopInv => (loop = "do" => TransientIsRetried)
  BY DEF LoopInv
<1> QED
  BY <1>1, LoopInvariance, PTL

\* As long as the product fits a duration, the reconnect loop waits as its
\* comment says ...
THEOREM ReconnectWaitsAsDocumented ==
    ASSUME DoublingFits PROVE LoopSpec => []WaitsAsDocumented
<1>1. LoopInv => WaitsAsDocumented
  BY DEF LoopInv, ReconnectBacksOff, WaitsAsDocumented
<1> QED
  BY <1>1, LoopInvariance, PTL

\* ... and so never asks the backend again before a full first interval has passed,
\* nor waits less than it did the time before.
THEOREM LoopWaitsNeverShrink ==
    ASSUME DoublingFits PROVE LoopSpec => WaitsNeverShrink
<1>1. LoopInv /\ [LoopNext]_loopVars =>
          [/\ loop = "reconnect" /\ calls' # calls => waited >= DocumentedBackoff(0)
           /\ backoff' >= backoff]_loopVars
  BY LoopNextInv
<1> QED
  BY <1>1, LoopInvariance, PTL DEF LoopSpec, WaitsNeverShrink

-----------------------------------------------------------------------------
(* The write path                                                          *)

\* Nothing is under way when the service starts.
LEMMA MutationInitInv == MutationInit => MutationInv
<1> SUFFICES ASSUME MutationInit PROVE MutationInv
  OBVIOUS
<1>1. /\ call = [t \in Threads |-> NoCall]
      /\ \E w \in Workloads : clients = w.args /\ auditing = w.audit
  BY DEF MutationInit
<1>2. \A t \in Threads : /\ call[t] = NoCall /\ call[t].step = "idle"
                         /\ call[t].log = <<>> /\ ~call[t].applied
  BY <1>1 DEF NoCall
<1>3. MutationTypeOK
  BY <1>1 DEF MutationTypeOK, Calls, NoCall, Steps
<1>4. OnlyAdmittedWrites /\ AuditTellsTheTruth
  BY <1>2 DEF OnlyAdmittedWrites, AuditTellsTheTruth, OnTheirWay
<1>5. AuditSoFar
  BY <1>2 DEF AuditSoFar
<1> QED
  BY <1>3, <1>4, <1>5 DEF MutationInv

\* A step that changes one call keeps the invariant where it keeps it for that
\* call.
LEMMA OneCall ==
    ASSUME MutationInv, NEW t \in Threads, UNCHANGED <<clients, auditing, built>>,
           NEW c \in Calls,
           call' = [call EXCEPT ![t] = c],
           c.step # "idle" => c.arg \in clients,
           c.step \in {"idle", "called", "writing"} => c.log = <<>> /\ ~c.applied,
           c.step = "written" => c.log = <<>> /\ c.applied,
           c.step = "audited" =>
              /\ c.log = IF auditing THEN <<"success">> ELSE <<>>
              /\ c.applied /\ c.answer \in {"ok", "warned"},
           c.step \in OnTheirWay =>
              \/ /\ c.arg = call[t].arg /\ c.stmt = call[t].stmt
                 /\ call[t].step \in OnTheirWay
              \/ /\ built /\ checkMutationAuth(c.arg.who)
                 /\ InputValid(c.arg) /\ Whitelisted(c.arg)
                 /\ c.arg.op \in {"update", "delete"} => FiltersConvert(c.arg.filters)
                 /\ c.stmt = BuildStatement(Converted(c.arg))
                 /\ ValidateSQLLength(c.stmt),
           auditing /\ c.step = "answered" =>
              /\ Len(c.log) <= 1
              /\ (c.log = <<"success">>) <=> (c.answer \in {"ok", "warned"})
              /\ c.log = <<"success">> => c.applied
              /\ c.applied => c.log # <<>>
    PROVE  MutationInv'
<1>1. /\ call'[t] = c
      /\ \A q \in Threads : q # t => call'[q] = call[q]
  BY DEF MutationInv, MutationTypeOK
<1>2. MutationTypeOK'
  BY DEF MutationInv, MutationTypeOK, Calls
<1>3. AuditSoFar'
  BY <1>1 DEF MutationInv, AuditSoFar
<1>4. AuditTellsTheTruth'
  BY <1>1 DEF MutationInv, AuditTellsTheTruth
<1>5. OnlyAdmittedWrites'
  <2>1. ASSUME NEW q \in Threads, call'[q].step \in OnTheirWay
        PROVE  LET a == call'[q].arg  s == call'[q].stmt IN
               /\ built /\ checkMutationAuth(a.who)
               /\ InputValid(a) /\ Whitelisted(a)
               /\ a.op \in {"update", "delete"} => FiltersConvert(a.filters)
               /\ s = BuildStatement(Converted(a)) /\ ValidateSQLLength(s)
    BY <1>1, <2>1 DEF MutationInv, OnlyAdmittedWrites
  <2> QED
    BY <2>1 DEF OnlyAdmittedWrites, InputValid, ValidateBatchInsertInput
<1> QED
  BY <1>2, <1>3, <1>4, <1>5 DEF MutationInv

\* The records of the calls, and what an update of one makes of it.
LEMMA CallRecord ==
    ASSUME MutationInv, NEW t \in Threads
    PROVE  call[t] \in Calls
BY DEF MutationInv, MutationTypeOK, Calls

\* A call that is refused before its statement exists.
LEMMA RefuseInv ==
    ASSUME MutationInv, NEW t \in Threads, call[t].step = "called",
           NEW answer_ \in Refusals,
           NEW audit \in {<<>>} \cup {<<f>> : f \in Failures},
           Refuse(t, answer_, audit)
    PROVE  MutationInv'
<1> DEFINE log == IF auditing THEN audit ELSE <<>>
           c == [call[t] EXCEPT !.step = "answered", !.answer = answer_, !.log = log]
<1>1. call[t].log = <<>> /\ ~call[t].applied /\ call[t].arg \in clients
  BY DEF MutationInv, AuditSoFar
<1>2. logMutationAudit(call[t], audit) = log /\ log \in {<<>>} \cup {<<f>> : f \in Failures}
  <2>1. <<>> \o audit = audit
    BY DEF Failures
  <2> QED
    BY <1>1, <2>1 DEF logMutationAudit
<1> HIDE DEF log
<1>3. call' = [call EXCEPT ![t] = c] /\ UNCHANGED <<clients, auditing, built>>
  BY <1>1, <1>2, CallRecord DEF Refuse, MutationInv, MutationTypeOK, Calls
<1>4. /\ c \in Calls
      /\ c.step = "answered" /\ c.arg = call[t].arg /\ c.log = log
      /\ ~c.applied /\ c.answer = answer_
  BY <1>1, <1>2, CallRecord DEF Calls, Steps
<1>5. Len(log) <= 1 /\ log # <<"success">>
  <2>1. CASE log = <<>>
    BY <2>1
  <2>2. ASSUME NEW f \in Failures, log = <<f>>
        PROVE  Len(log) <= 1 /\ log # <<"success">>
    <3>1. f # "success"
      BY DEF Failures
    <3>2. Len(<<f>>) = 1 /\ <<f>>[1] # <<"success">>[1]
      BY <3>1
    <3> QED
      BY <2>2, <3>2
  <2> QED
    BY <1>2, <2>1, <2>2
<1>6. answer_ \notin {"ok", "warned"}
  BY DEF Refusals
<1> HIDE DEF c
<1> QED
  BY <1>1, <1>3, <1>4, <1>5, <1>6, OneCall DEF OnTheirWay

\* Every way in which a call ends before its statement is built.
LEMMA RefusalsInv ==
    ASSUME MutationInv, NEW t \in Threads,
           \/ RefuseMalformed(t) \/ RefuseDisabled(t) \/ RefuseLimited(t)
           \/ RefuseCaller(t) \/ PanicInside(t) \/ RefuseInvalid(t)
           \/ SourceUnavailable(t) \/ StatementTooLong(t)
    PROVE  MutationInv'
<1>1. call[t].step = "called"
  BY DEF RefuseMalformed, RefuseDisabled, RefuseLimited, RefuseCaller, PanicInside,
         RefuseInvalid, SourceUnavailable, StatementTooLong, Authorized, Admitted
<1>2. \E answer_ \in Refusals, audit \in {<<>>} \cup {<<f>> : f \in Failures} :
          Refuse(t, answer_, audit)
  <2>1. /\ {"invalid", "disabled", "limited", "denied", "internal", "failed"}
              \subseteq Refusals
        /\ <<>> \in {<<>>} \cup {<<f>> : f \in Failures}
        /\ <<"validation_failed">> \in {<<>>} \cup {<<f>> : f \in Failures}
        /\ <<"authorization_denied">> \in {<<>>} \cup {<<f>> : f \in Failures}
        /\ <<"execution_failed">> \in {<<>>} \cup {<<f>> : f \in Failures}
    BY DEF Refusals, Failures
  <2>2. \/ Refuse(t, "invalid", <<"validation_failed">>)
        \/ Refuse(t, "disabled", <<>>) \/ Refuse(t, "limited", <<>>)
        \/ Refuse(t, "denied", <<"authorization_denied">>)
        \/ Refuse(t, "internal", <<>>)
        \/ Refuse(t, "failed", <<"execution_failed">>)
        \/ Refuse(t, "invalid", <<"execution_failed">>)
    BY DEF RefuseMalformed, RefuseDisabled, RefuseLimited, RefuseCaller, PanicInside,
           RefuseInvalid, SourceUnavailable, StatementTooLong
  <2> QED
    BY <2>1, <2>2
<1> QED
  BY <1>1, <1>2, RefuseInv

\* A call arrives, or has been answered and makes room for another.
LEMMA ArriveInv ==
    ASSUME MutationInv, NEW t \in Threads, Arrive(t) \/ EndCall(t)
    PROVE  MutationInv'
<1> DEFINE fresh(a) == [NoCall EXCEPT !.step = "called", !.arg = a]
<1>1. UNCHANGED <<clients, auditing, built>>
  BY DEF Arrive, EndCall
<1>2. ASSUME NEW a \in clients, call' = [call EXCEPT ![t] = fresh(a)]
      PROVE  MutationInv'
  <2>1. /\ fresh(a) \in Calls
        /\ fresh(a).step = "called" /\ fresh(a).arg = a /\ fresh(a).log = <<>>
        /\ ~fresh(a).applied
    BY DEF NoCall, Calls, Steps
  <2> HIDE DEF fresh
  <2> QED
    BY <1>1, <1>2, <2>1, OneCall DEF OnTheirWay
<1>3. ASSUME call' = [call EXCEPT ![t] = NoCall]
      PROVE  MutationInv'
  <2>1. /\ NoCall \in Calls
        /\ NoCall.step = "idle" /\ NoCall.log = <<>> /\ ~NoCall.applied
    BY DEF NoCall, Calls, Steps
  <2> QED
    BY <1>1, <1>3, <2>1, OneCall DEF OnTheirWay
<1> QED
  BY <1>2, <1>3 DEF Arrive, EndCall

\* The statement is built from arguments that passed every check.
LEMMA BeginWriteInv ==
    ASSUME MutationInv, NEW t \in Threads, BeginWrite(t)
    PROVE  MutationInv'
<1> DEFINE a == call[t].arg
           s == BuildStatement(Converted(a))
           c == [call[t] EXCEPT !.step = "writing", !.stmt = s]
<1>1. /\ call[t].step = "called" /\ built /\ checkMutationAuth(a.who)
      /\ InputValid(a) /\ Whitelisted(a)
      /\ a.op \in {"update", "delete"} => FiltersConvert(a.filters)
      /\ ValidateSQLLength(s)
  BY DEF BeginWrite, Admitted, Authorized, Gate, MalformedCall
<1>2. a \in clients /\ call[t].log = <<>> /\ ~call[t].applied
  BY <1>1 DEF MutationInv, AuditSoFar
<1>3. call' = [call EXCEPT ![t] = c] /\ UNCHANGED <<clients, auditing, built>>
  BY CallRecord DEF BeginWrite, MutationInv, MutationTypeOK, Calls
<1> HIDE DEF s
<1>4. s \in {BuildStatement(Converted(b)) : b \in clients}
  BY <1>2 DEF s
<1>5. /\ c \in Calls
      /\ c.step = "writing" /\ c.arg = a /\ c.log = <<>> /\ ~c.applied /\ c.stmt = s
  BY <1>2, <1>4, CallRecord DEF Calls, Steps
<1>6. s = BuildStatement(Converted(a))
  BY DEF s
<1> HIDE DEF c
<1> QED
  BY <1>1, <1>2, <1>3, <1>5, <1>6, OneCall

\* The adapter's answer, the audit entry and the invalidation.
LEMMA WriteInv ==
    ASSUME MutationInv, NEW t \in Threads,
           \/ ExecuteFails(t) \/ ExecuteWrite(t) \/ AuditSuccess(t)
           \/ invalidateCacheAfterMutation(t)
    PROVE  MutationInv'
<1>1. UNCHANGED <<clients, auditing, built>> /\ call \in [Threads -> Calls] /\ call[t] \in Calls
  BY CallRecord DEF ExecuteFails, ExecuteWrite, AuditSuccess, MutationInv,
                    MutationTypeOK, invalidateCacheAfterMutation
<1>2. call[t].step \in OnTheirWay /\ call[t].arg \in clients
  BY DEF ExecuteFails, ExecuteWrite, AuditSuccess, invalidateCacheAfterMutation,
         OnTheirWay, MutationInv, AuditSoFar
<1>3. CASE ExecuteFails(t)
  <2>1. call[t].step = "writing" /\ call[t].log = <<>>
    BY <1>3 DEF ExecuteFails, MutationInv, AuditSoFar
  <2>2. PICK b \in BOOLEAN :
            call' = [call EXCEPT ![t].step = "answered", ![t].applied = b,
                        ![t].answer = "failed",
                        ![t].log = logMutationAudit(call[t], <<"execution_failed">>)]
    BY <1>3, Zenon DEF ExecuteFails
  <2> DEFINE log == IF auditing THEN <<"execution_failed">> ELSE <<>>
             c == [call[t] EXCEPT !.step = "answered", !.applied = b,
                                  !.answer = "failed", !.log = log]
  <2>3. logMutationAudit(call[t], <<"execution_failed">>) = log
    BY <2>1 DEF logMutationAudit
  <2>4. call' = [call EXCEPT ![t] = c]
    BY <1>1, <2>2, <2>3 DEF Calls
  <2>5. /\ c \in Calls /\ c.step = "answered" /\ c.arg = call[t].arg
        /\ c.log = log /\ c.answer = "failed"
    <3>1. log \in {<<>>, <<"success">>} \cup {<<f>> : f \in Failures}
      BY DEF Failures
    <3> HIDE DEF log
    <3> QED
      BY <1>1, <3>1 DEF Calls, Steps, Refusals
  <2>6. /\ Len(<<"execution_failed">>) <= 1
        /\ <<"execution_failed">> # <<"success">> /\ <<"execution_failed">> # <<>>
    OBVIOUS
  <2> HIDE DEF c
  <2> QED
    BY <1>1, <1>2, <2>4, <2>5, <2>6, OneCall DEF OnTheirWay
<1>4. CASE ExecuteWrite(t)
  <2> DEFINE c == [call[t] EXCEPT !.step = "written", !.applied = TRUE]
  <2>1. call[t].step = "writing" /\ call[t].log = <<>>
    BY <1>4 DEF ExecuteWrite, MutationInv, AuditSoFar
  <2>2. call' = [call EXCEPT ![t] = c]
    BY <1>1, <1>4 DEF ExecuteWrite, Calls
  <2>3. /\ c \in Calls /\ c.step = "written" /\ c.arg = call[t].arg /\ c.applied
        /\ c.log = <<>> /\ c.stmt = call[t].stmt
    BY <1>1, <2>1 DEF Calls, Steps
  <2> HIDE DEF c
  <2> QED
    BY <1>1, <1>2, <2>2, <2>3, OneCall
<1>5. CASE AuditSuccess(t)
  <2>1. call[t].step = "written" /\ call[t].log = <<>> /\ call[t].applied
    BY <1>5 DEF AuditSuccess, MutationInv, AuditSoFar
  <2>2. PICK said \in {"ok", "warned"} :
            call' = [call EXCEPT ![t].step = "audited",
                        ![t].log = logMutationAudit(call[t], <<"success">>),
                        ![t].answer = said]
    BY <1>5 DEF AuditSuccess
  <2> DEFINE log == IF auditing THEN <<"success">> ELSE <<>>
             c == [call[t] EXCEPT !.step = "audited", !.log = log, !.answer = said]
  <2>3. logMutationAudit(call[t], <<"success">>) = log
    BY <2>1 DEF logMutationAudit
  <2>4. call' = [call EXCEPT ![t] = c]
    BY <1>1, <2>2, <2>3 DEF Calls
  <2>5. /\ c \in Calls /\ c.step = "audited" /\ c.arg = call[t].arg /\ c.applied
        /\ c.log = log /\ c.stmt = call[t].stmt /\ c.answer = said
    BY <1>1, <2>1 DEF Calls, Steps
  <2> HIDE DEF c
  <2> QED
    BY <1>1, <1>2, <2>4, <2>5, OneCall
<1>6. CASE invalidateCacheAfterMutation(t)
  <2> DEFINE c == [call[t] EXCEPT !.step = "answered"]
  <2>1. /\ call[t].log = IF auditing THEN <<"success">> ELSE <<>>
        /\ call[t].applied
        /\ call[t].answer \in {"ok", "warned"}
    BY <1>6 DEF invalidateCacheAfterMutation, MutationInv, AuditSoFar
  <2>2. call' = [call EXCEPT ![t] = c]
    BY <1>1, <1>6 DEF invalidateCacheAfterMutation, Calls
  <2>3. /\ c \in Calls /\ c.step = "answered" /\ c.arg = call[t].arg /\ c.applied
        /\ c.log = call[t].log /\ c.answer = call[t].answer
    BY <1>1, <2>1 DEF Calls, Steps
  <2>4. Len(<<"success">>) <= 1 /\ <<"success">> # <<>>
    OBVIOUS
  <2> HIDE DEF c
  <2> QED
    BY <1>1, <1>2, <2>1, <2>2, <2>3, <2>4, OneCall DEF OnTheirWay
<1> QED
  BY <1>3, <1>4, <1>5, <1>6

\* Every step of the write path, and of the reload beside it.
LEMMA MutationNextInv ==
    MutationInv /\ [MutationNext]_<<reloadVars, mutationVars>> => MutationInv'
<1> SUFFICES ASSUME MutationInv, [MutationNext]_<<reloadVars, mutationVars>>
             PROVE  MutationInv'
  OBVIOUS
<1>1. CASE UNCHANGED mutationVars
  BY <1>1 DEF mutationVars, MutationInv, MutationTypeOK, Calls, OnlyAdmittedWrites,
              AuditSoFar, AuditTellsTheTruth
<1>2. ASSUME NEW t \in Threads, Arrive(t) \/ ThreadStep(t) \/ EndCall(t)
      PROVE  MutationInv'
  BY <1>2, ArriveInv, RefusalsInv, BeginWriteInv, WriteInv DEF ThreadStep
<1> QED
  BY <1>1, <1>2 DEF MutationNext

\* The write path's invariant holds for any requests, whitelists, limits and
\* edits of the configuration file.
THEOREM MutationInvariance == MutationSpec => []MutationInv
BY MutationInitInv, MutationNextInv, PTL DEF MutationSpec

\* The audit log tells the truth about every call that has ended: one entry
\* at most, "success" exactly when the client was told so and the write was
\* done, and no write without an entry.
THEOREM MutationAuditTellsTheTruth == MutationSpec => []AuditTellsTheTruth
<1>1. MutationInv => AuditTellsTheTruth
  BY DEF MutationInv
<1> QED
  BY <1>1, MutationInvariance, PTL

\* Whatever happens to the switch meanwhile, only statements built from
\* arguments that passed every check, of a caller who may write, reach the
\* database.
THEOREM MutationOnlyAdmittedWrites == MutationSpec => []OnlyAdmittedWrites
<1>1. MutationInv => OnlyAdmittedWrites
  BY DEF MutationInv
<1> QED
  BY <1>1, MutationInvariance, PTL

\* The parameters r of the columns, then those of the filters fs.
WhereFits(s, fs, r) ==
    /\ Len(s.params) = Len(r) + WhereMarks(convertMutationFilters(fs))
    /\ SubSeq(s.params, 1, Len(r)) = r
    /\ DOMAIN s.where = DOMAIN fs
    /\ \A i \in DOMAIN fs : /\ s.where[i].field = fs[i].field
                            /\ s.where[i].op = fs[i].op
                            /\ fs[i].op \notin NullTests => Bound(s, i) = fs[i].vals

\* A statement has one parameter for each placeholder of its WHERE clause, and
\* the driver binds to the i-th test the values of the i-th filter, behind the
\* parameters of the columns.
LEMMA WhereFacts ==
    ASSUME NEW fs, fs \in Seq(MutationFilterInput), NEW r \in Seq(Values),
           NEW s, s.where = Where(convertMutationFilters(fs)),
           s.params = r \o WhereParams(convertMutationFilters(fs)),
           Len(s.cols) = Len(r)
    PROVE  WhereFits(s, fs, r)
<1> DEFINE gs == convertMutationFilters(fs)
           n == Len(fs)
           ss == [i \in 1 .. n |-> gs[i].vals]
<1>1. n \in Nat /\ DOMAIN fs = 1 .. n /\ DOMAIN gs = 1 .. n /\ DOMAIN ss = 1 .. n
  BY DEF convertMutationFilters
<1>2. ASSUME NEW i \in 1 .. n
      PROVE  /\ fs[i] \in MutationFilterInput
             /\ gs[i].field = fs[i].field /\ gs[i].op = fs[i].op
             /\ gs[i].vals = IF fs[i].op \in NullTests THEN <<>> ELSE fs[i].vals
             /\ gs[i].vals \in Seq(Values) /\ Marks(gs[i]) = Len(gs[i].vals)
  <2>1. fs[i] \in MutationFilterInput
    BY <1>1
  <2>2. gs[i] = [fs[i] EXCEPT !.vals = IF fs[i].op \in NullTests THEN <<>>
                                       ELSE fs[i].vals]
    BY <1>1 DEF convertMutationFilters, convertMutationFilter
  <2>3. /\ gs[i].field = fs[i].field /\ gs[i].op = fs[i].op
        /\ gs[i].vals = IF fs[i].op \in NullTests THEN <<>> ELSE fs[i].vals
    BY <2>1, <2>2 DEF MutationFilterInput
  <2>4. fs[i].vals \in Seq(Values)
        /\ fs[i].op \in NullTests \cup Memberships \cup Comparisons
        /\ (fs[i].op \in Comparisons => Len(fs[i].vals) = 1)
    BY <2>1 DEF MutationFilterInput
  <2>5. NullTests \cap Memberships = {} /\ NullTests \cap Comparisons = {}
        /\ Memberships \cap Comparisons = {}
    BY DEF NullTests, Memberships, Comparisons
  <2> HIDE DEF gs
  <2>6. CASE fs[i].op \in NullTests
    <3>1. gs[i].vals = <<>>
      BY <2>3, <2>6
    <3>2. gs[i].vals \in Seq(Values) /\ Len(gs[i].vals) = 0
      BY <3>1, EmptySeq
    <3>3. Marks(gs[i]) = 0
      BY <2>3, <2>5, <2>6 DEF Marks
    <3> QED
      BY <2>1, <2>3, <3>2, <3>3
  <2>7. CASE fs[i].op \in Memberships
    BY <2>1, <2>3, <2>4, <2>5, <2>7 DEF Marks
  <2>8. CASE fs[i].op \in Comparisons
    BY <2>1, <2>3, <2>4, <2>5, <2>8 DEF Marks
  <2> QED
    BY <2>4, <2>6, <2>7, <2>8
<1> HIDE DEF gs
<1>3. ss \in Seq(Seq(Values)) /\ Len(ss) = n
  BY <1>1, <1>2
<1>4. /\ WhereParams(gs) = FlattenSeq(ss)
      /\ WhereMarks(gs) = Ahead(ss, n)
      /\ [i \in DOMAIN s.where |-> s.where[i].marks] = Lengths(ss)
      /\ DOMAIN s.where = 1 .. n
      /\ \A i \in 1 .. n : /\ s.where[i].field = fs[i].field
                           /\ s.where[i].op = fs[i].op
                           /\ s.where[i].marks = Len(ss[i])
  <2>1. WhereParams(gs) = FlattenSeq(ss)
    BY <1>1 DEF WhereParams
  <2>2. [i \in DOMAIN gs |-> Marks(gs[i])] = Lengths(ss)
    BY <1>1, <1>2 DEF Lengths
  <2>3. DOMAIN Lengths(ss) = 1 .. n
    BY <1>1 DEF Lengths
  <2>4. WhereMarks(gs) = Ahead(ss, n)
    BY <2>2, <2>3 DEF WhereMarks, SumFunction, Ahead
  <2>5. s.where = [i \in 1 .. n |-> [field |-> gs[i].field, op |-> gs[i].op,
                                     marks |-> Marks(gs[i])]]
    BY <1>1 DEF Where, gs
  <2>6. /\ DOMAIN s.where = 1 .. n
        /\ \A i \in 1 .. n : /\ s.where[i].field = fs[i].field
                             /\ s.where[i].op = fs[i].op
                             /\ s.where[i].marks = Len(ss[i])
    BY <1>2, <2>5
  <2>7. [i \in DOMAIN s.where |-> s.where[i].marks] = Lengths(ss)
    BY <1>1, <2>6 DEF Lengths
  <2> QED
    BY <2>1, <2>4, <2>6, <2>7
<1> HIDE DEF ss
<1>5. /\ FlattenSeq(ss) \in Seq(Values) /\ Len(FlattenSeq(ss)) = Ahead(ss, n)
      /\ \A i \in 0 .. n : Ahead(ss, i) \in Nat
      /\ \A i \in 1 .. n : Ahead(ss, i) = Ahead(ss, i - 1) + Len(ss[i])
  BY <1>3, FlattenFacts
<1>6. s.params = r \o FlattenSeq(ss)
  BY <1>4 DEF gs
<1>7. Len(s.params) = Len(r) + WhereMarks(gs)
  <2>1. Len(r \o FlattenSeq(ss)) = Len(r) + Len(FlattenSeq(ss))
    BY <1>5, ConcatProperties
  <2> QED
    BY <1>4, <1>5, <1>6, <2>1
<1>8. SubSeq(s.params, 1, Len(r)) = r
  <2>1. 0 + 0 <= Len(FlattenSeq(ss)) /\ 0 \in Nat
    BY <1>5
  <2> QED
    BY <1>5, <1>6, <2>1, CutBehind
<1>9. ASSUME NEW i \in 1 .. n, fs[i].op \notin NullTests
      PROVE  Bound(s, i) = fs[i].vals
  <2> DEFINE a == Ahead(ss, i - 1)
             l == Len(ss[i])
  <2>1. a \in Nat /\ l \in Nat /\ ss[i] = fs[i].vals
    <3>1. i - 1 \in 0 .. n
      BY <1>1
    <3>2. ss[i] = gs[i].vals
      BY DEF ss
    <3>3. ss[i] = fs[i].vals /\ ss[i] \in Seq(Values)
      BY <1>2, <1>9, <3>2
    <3>4. a \in Nat
      BY <1>5, <3>1
    <3> QED
      BY <3>3, <3>4
  <2>2. a + l <= Len(FlattenSeq(ss))
    <3>1. i \in 0 .. Len(ss) /\ n \in i .. Len(ss)
      BY <1>1, <1>3
    <3>2. Ahead(ss, i) <= Ahead(ss, n)
      BY <1>3, <3>1, AheadGrows
    <3> QED
      BY <1>5, <3>2
  <2>3. SubSeq(FlattenSeq(ss), a + 1, a + l) = ss[i]
    BY <1>3, FlattenSlice
  <2> HIDE DEF a, l
  <2>4. SubSeq(r \o FlattenSeq(ss), (Len(r) + a) + 1, (Len(r) + a) + l)
          = SubSeq(FlattenSeq(ss), a + 1, a + l)
    BY ONLY <1>5, <2>1, <2>2, CutBehind
  <2>5. Bound(s, i) = SubSeq(s.params, (Len(r) + a) + 1, (Len(r) + a) + l)
    <3>1. SumFunctionOnSet([j \in DOMAIN s.where |-> s.where[j].marks], 1 .. i - 1) = a
      BY <1>4 DEF a, Ahead
    <3>2. s.where[i].marks = l
      BY <1>4 DEF l
    <3> QED
      BY <3>1, <3>2, Zenon DEF Bound
  <2> QED
    BY <1>6, <2>1, <2>3, <2>4, <2>5
<1> QED
  BY <1>1, <1>4, <1>7, <1>8, <1>9 DEF gs, WhereFits

\* A batch has one parameter for each column of each row, row behind row.
LEMMA BatchFacts ==
    ASSUME NEW rows \in Seq(Seq(Values)), NEW w \in Nat,
           \A i \in DOMAIN rows : Len(rows[i]) = w
    PROVE  /\ Len(FlattenSeq(rows)) = Len(rows) * w
           /\ \A i \in DOMAIN rows :
                 SubSeq(FlattenSeq(rows), (i - 1) * w + 1, (i - 1) * w + w) = rows[i]
<1> DEFINE n == Len(rows)
           T == {k \in Nat : k <= n => Ahead(rows, k) = k * w}
<1>1. /\ Len(FlattenSeq(rows)) = Ahead(rows, n)
      /\ Ahead(rows, 0) = 0
      /\ \A k \in 1 .. n : Ahead(rows, k) = Ahead(rows, k - 1) + Len(rows[k])
  BY FlattenFacts
<1>2. n \in Nat /\ DOMAIN rows = 1 .. n /\ \A k \in 1 .. n : Len(rows[k]) = w
  OBVIOUS
<1>3. \A k \in Nat : (k + 1) * w = k * w + w
  OBVIOUS
<1>4. 0 \in T
  BY <1>1
<1>5. ASSUME NEW k \in T PROVE k + 1 \in T
  <2> SUFFICES ASSUME k + 1 <= n PROVE Ahead(rows, k + 1) = (k + 1) * w
    OBVIOUS
  <2>1. k \in Nat /\ k + 1 \in 1 .. n /\ (k + 1) - 1 = k /\ Ahead(rows, k) = k * w
    BY <1>2
  <2> HIDE DEF n, T
  <2>2. Ahead(rows, k + 1) = Ahead(rows, (k + 1) - 1) + Len(rows[k + 1])
    BY <1>1, <2>1, Zenon
  <2>3. Ahead(rows, k + 1) = k * w + w
    BY <1>2, <2>1, <2>2
  <2> QED
    BY <1>3, <2>1, <2>3, Zenon
<1>6. n \in T
  <2>1. T \in SUBSET Nat
    OBVIOUS
  <2> HIDE DEF T, n
  <2> QED
    BY <1>2, <1>4, <1>5, <2>1, Induction
<1>7. Len(FlattenSeq(rows)) = n * w
  <2> HIDE DEF n
  <2>1. n <= n
    BY <1>2
  <2> QED
    BY <1>1, <1>6, <2>1
<1>8. ASSUME NEW i \in DOMAIN rows
      PROVE  SubSeq(FlattenSeq(rows), (i - 1) * w + 1, (i - 1) * w + w) = rows[i]
  <2>1. i \in 1 .. n /\ i - 1 \in Nat /\ i - 1 <= n /\ Len(rows[i]) = w
    BY <1>2
  <2>2. SubSeq(FlattenSeq(rows), Ahead(rows, i - 1) + 1,
               Ahead(rows, i - 1) + Len(rows[i])) = rows[i]
    BY <2>1, FlattenSlice
  <2>3. i - 1 \in T
    <3>1. T \in SUBSET Nat
      OBVIOUS
    <3>2. T = Nat
      <4> HIDE DEF T, n
      <4> QED
        BY <1>4, <1>5, <3>1, Induction
    <3> QED
      BY <2>1, <3>2
  <2>4. Ahead(rows, i - 1) = (i - 1) * w
    BY <2>1, <2>3
  <2> HIDE DEF T, n
  <2> QED
    BY ONLY <2>1, <2>2, <2>4
<1> QED
  BY <1>7, <1>8

\* What is built from arguments that passed the checks is what they ask for.
LEMMA StatementFacts ==
    ASSUME NEW a, WellFormed(a), InputValid(a), NEW s, s = BuildStatement(Converted(a))
    PROVE  /\ Len(s.params) = s.marks
           /\ s.verb = Operation(a) /\ s.table = a.table
           /\ a.op # "delete" =>
                 s.cols = a.cols /\ \A i \in DOMAIN a.rows : Assigned(s, i) = a.rows[i]
           /\ a.op \in {"update", "delete"} =>
                 /\ DOMAIN s.where = DOMAIN a.filters /\ s.where # <<>>
                 /\ \A i \in DOMAIN a.filters :
                       /\ s.where[i].field = a.filters[i].field
                       /\ s.where[i].op = a.filters[i].op
                       /\ a.filters[i].op \notin NullTests =>
                             Bound(s, i) = a.filters[i].vals
<1> DEFINE c == Converted(a)
           gs == convertMutationFilters(a.filters)
<1>1. /\ c.op = a.op /\ c.cols = a.cols /\ c.rows = a.rows /\ c.filters = gs
      /\ c.table = a.table
  BY DEF WellFormed, Converted
<1>2. a.cols \in Seq(STRING) /\ a.rows \in Seq(Seq(Values))
      /\ a.filters \in Seq(MutationFilterInput)
      /\ a.op \in {"insert", "update", "delete", "insertBatch"}
  BY DEF WellFormed
<1> HIDE DEF c, gs
<1>3. CASE a.op = "insert"
  <2>1. s = BuildInsert(c)
    BY <1>1, <1>3 DEF BuildStatement, c
  <2>2. /\ s.params = a.rows[1] /\ s.marks = Len(a.rows[1]) /\ s.cols = a.cols
        /\ s.verb = Operation(a) /\ s.table = a.table
    BY <1>1, <1>3, <2>1 DEF BuildInsert, Operation
  <2>3. /\ Len(a.cols) = Len(a.rows[1]) /\ a.rows[1] \in Seq(Values)
        /\ DOMAIN a.rows = {1}
    <3>1. Len(a.rows) = 1
      BY <1>3 DEF WellFormed
    <3> QED
      BY <1>2, <1>3, <3>1 DEF InputValid, ValidateInsertInput
  <2>4. SubSeq(a.rows[1], 1, Len(a.rows[1])) = a.rows[1]
    BY <2>3, SubSeqFull
  <2>5. Assigned(s, 1) = SubSeq(s.params, 1, Len(s.cols))
    <3>1. Len(s.cols) \in Nat
      BY <1>2, <2>2
    <3> QED
      BY <3>1 DEF Assigned
  <2> QED
    BY <1>3, <2>2, <2>3, <2>4, <2>5
<1>4. CASE a.op = "update"
  <2>1. s = BuildUpdate(c)
    BY <1>1, <1>4 DEF BuildStatement, c
  <2>2. /\ s.params = a.rows[1] \o WhereParams(gs) /\ s.where = Where(gs)
        /\ s.marks = Len(a.cols) + WhereMarks(gs) /\ s.cols = a.cols
        /\ s.verb = Operation(a) /\ s.table = a.table
    BY <1>1, <1>4, <2>1 DEF BuildUpdate, Operation
  <2>3. /\ a.rows[1] \in Seq(Values) /\ Len(a.rows[1]) = Len(a.cols)
        /\ a.filters # <<>> /\ DOMAIN a.rows = {1}
    <3>1. Len(a.rows) = 1
      BY <1>4 DEF WellFormed
    <3> QED
      BY <1>2, <1>4, <3>1 DEF WellFormed, InputValid, ValidateUpdateInput
  <2>4. /\ Len(s.params) = Len(a.rows[1]) + WhereMarks(gs)
        /\ SubSeq(s.params, 1, Len(a.rows[1])) = a.rows[1]
        /\ DOMAIN s.where = DOMAIN a.filters
        /\ \A i \in DOMAIN a.filters : /\ s.where[i].field = a.filters[i].field
                                       /\ s.where[i].op = a.filters[i].op
                                       /\ a.filters[i].op \notin NullTests =>
                                             Bound(s, i) = a.filters[i].vals
    <3> DEFINE row == a.rows[1]
    <3>1. row \in Seq(Values) /\ Len(s.cols) = Len(row)
          /\ s.params = row \o WhereParams(convertMutationFilters(a.filters))
          /\ s.where = Where(convertMutationFilters(a.filters))
      BY <2>2, <2>3 DEF gs
    <3> HIDE DEF row
    <3>2. WhereFits(s, a.filters, row)
      BY ONLY <1>2, <3>1, WhereFacts, ZenonT(40)
    <3> QED
      BY <3>2, Zenon DEF WhereFits, row, gs
  <2>5. s.where # <<>>
    <3>1. 1 \in DOMAIN a.filters
      BY <1>2, <2>3, EmptySeq
    <3> QED
      BY <2>4, <3>1
  <2>6. Assigned(s, 1) = SubSeq(s.params, 1, Len(s.cols))
    <3>1. Len(s.cols) \in Nat
      BY <1>2, <2>2
    <3> QED
      BY <3>1 DEF Assigned
  <2> QED
    BY <1>4, <2>2, <2>3, <2>4, <2>5, <2>6
<1>5. CASE a.op = "delete"
  <2>1. s = BuildDelete(c)
    BY <1>1, <1>5 DEF BuildStatement, c
  <2>2. /\ s.params = WhereParams(gs) /\ s.where = Where(gs)
        /\ s.marks = WhereMarks(gs) /\ s.cols = <<>>
        /\ s.verb = Operation(a) /\ s.table = a.table
    BY <1>1, <1>5, <2>1 DEF BuildDelete, Operation
  <2>3. a.filters # <<>>
    BY <1>5 DEF InputValid, ValidateDeleteInput
  <2> DEFINE none == <<>>
  <2>4. none \in Seq(Values) /\ Len(none) = 0 /\ Len(s.cols) = Len(none)
    BY <2>2, EmptySeq
  <2>5. s.params = none \o WhereParams(gs) /\ WhereMarks(gs) \in Nat
    <3> DEFINE n == Len(a.filters)
               ss == [i \in DOMAIN gs |-> gs[i].vals]
    <3>1. n \in Nat /\ DOMAIN a.filters = 1 .. n /\ DOMAIN gs = 1 .. n
      BY <1>2 DEF gs, convertMutationFilters
    <3>2. ASSUME NEW i \in 1 .. n
          PROVE  gs[i].vals \in Seq(Values) /\ Marks(gs[i]) \in Nat
      <4>1. a.filters[i] \in MutationFilterInput
        BY <1>2, <3>1
      <4>2. gs[i] = [a.filters[i] EXCEPT
                       !.vals = IF a.filters[i].op \in NullTests THEN <<>>
                                ELSE a.filters[i].vals]
        BY <3>1 DEF gs, convertMutationFilters, convertMutationFilter
      <4>3. gs[i].op = a.filters[i].op
        BY <4>1, <4>2 DEF MutationFilterInput
      <4>4. gs[i].vals \in Seq(Values)
        <5>1. CASE a.filters[i].op \in NullTests
          <6>1. gs[i].vals = <<>>
            BY <4>1, <4>2, <5>1 DEF MutationFilterInput
          <6> QED
            BY <6>1, EmptySeq
        <5>2. CASE a.filters[i].op \notin NullTests
          BY <4>1, <4>2, <5>2 DEF MutationFilterInput
        <5> QED
          BY <5>1, <5>2
      <4>5. a.filters[i].op \in NullTests \cup Memberships \cup Comparisons
        BY <4>1 DEF MutationFilterInput
      <4> QED
        BY <4>3, <4>4, <4>5 DEF Marks, NullTests, Memberships, Comparisons
    <3>3. ss \in Seq(Seq(Values))
      BY <3>1, <3>2
    <3>4. FlattenSeq(ss) \in Seq(Values)
      <4> HIDE DEF ss
      <4> QED
        BY <3>3, FlattenFacts
    <3>5. none \o WhereParams(gs) = WhereParams(gs)
      BY <3>4, ConcatEmptySeq DEF WhereParams
    <3>6. WhereMarks(gs) \in Nat
      <4> DEFINE m == [i \in DOMAIN gs |-> Marks(gs[i])]
      <4>1. DOMAIN m = 1 .. n /\ \A i \in 1 .. n : m[i] \in Nat
        BY <3>1, <3>2
      <4>2. WhereMarks(gs) = SumFunctionOnSet(m, 1 .. n)
        BY <4>1 DEF WhereMarks, SumFunction
      <4>3. n \in 0 .. n
        BY <3>1
      <4> HIDE DEF m, n
      <4>4. n \in Nat /\ SumFunctionOnSet(m, 1 .. n) \in Nat
        BY ONLY <3>1, <4>1, <4>3, SumUpTo, ZenonT(40)
      <4> QED
        BY <4>2, <4>4
    <3> QED
      BY <2>2, <3>5, <3>6
  <2> HIDE DEF none
  <2>6. /\ Len(s.params) = Len(none) + WhereMarks(gs)
        /\ DOMAIN s.where = DOMAIN a.filters
        /\ \A i \in DOMAIN a.filters : /\ s.where[i].field = a.filters[i].field
                                       /\ s.where[i].op = a.filters[i].op
                                       /\ a.filters[i].op \notin NullTests =>
                                             Bound(s, i) = a.filters[i].vals
    <3>1. none \in Seq(Values) /\ Len(s.cols) = Len(none)
          /\ s.params = none \o WhereParams(convertMutationFilters(a.filters))
          /\ s.where = Where(convertMutationFilters(a.filters))
      BY <2>2, <2>4, <2>5 DEF gs
    <3>2. WhereFits(s, a.filters, none)
      BY ONLY <1>2, <3>1, WhereFacts, ZenonT(40)
    <3> QED
      BY <3>2, Zenon DEF WhereFits, gs
  <2>7. s.where # <<>>
    <3>1. 1 \in DOMAIN a.filters
      BY <1>2, <2>3, EmptySeq
    <3> QED
      BY <2>6, <3>1
  <2> QED
    BY <1>5, <2>2, <2>4, <2>5, <2>6, <2>7
<1>6. CASE a.op = "insertBatch"
  <2>1. s = BuildBatchInsert(c)
    BY <1>1, <1>6 DEF BuildStatement, c
  <2>2. /\ s.params = FlattenSeq(a.rows) /\ s.cols = a.cols
        /\ s.marks = Len(a.rows) * Len(a.cols)
        /\ s.verb = Operation(a) /\ s.table = a.table
    BY <1>1, <1>6, <2>1 DEF BuildBatchInsert, Operation
  <2>3. Len(a.cols) \in Nat /\ \A i \in DOMAIN a.rows : Len(a.rows[i]) = Len(a.cols)
    BY <1>2, <1>6 DEF InputValid, ValidateBatchInsertInput
  <2>4. /\ Len(s.params) = s.marks
        /\ \A i \in DOMAIN a.rows :
              SubSeq(s.params, (i - 1) * Len(a.cols) + 1, (i - 1) * Len(a.cols) + Len(a.cols))
                = a.rows[i]
    BY <1>2, <2>2, <2>3, BatchFacts
  <2> QED
    BY <1>6, <2>2, <2>4 DEF Assigned
<1> QED
  BY <1>2, <1>3, <1>4, <1>5, <1>6

\* The invariant of the write path says what its statements do.
LEMMA StatementsFromInv == MutationInv => StatementsDoWhatWasAsked
<1> SUFFICES ASSUME MutationInv, NEW t \in Threads,
                    call[t].step \in {"writing", "written", "audited"}
             PROVE  DoesWhatWasAsked(call[t].stmt, call[t].arg)
  BY DEF StatementsDoWhatWasAsked
<1> DEFINE s == call[t].stmt
           a == call[t].arg
<1>1. /\ InputValid(a) /\ Whitelisted(a) /\ s = BuildStatement(Converted(a))
  BY DEF MutationInv, OnlyAdmittedWrites, OnTheirWay
<1>2. WellFormed(a)
  <2>1. a \in clients /\ \E w \in Workloads : clients = w.args
    BY DEF MutationInv, AuditSoFar, MutationTypeOK
  <2> QED
    BY <2>1, MutationConstants
<1> HIDE DEF s, a
<1>3. /\ Len(s.params) = s.marks
      /\ s.verb = Operation(a) /\ s.table = a.table
      /\ a.op # "delete" =>
            s.cols = a.cols /\ \A i \in DOMAIN a.rows : Assigned(s, i) = a.rows[i]
      /\ a.op \in {"update", "delete"} =>
            /\ DOMAIN s.where = DOMAIN a.filters /\ s.where # <<>>
            /\ \A i \in DOMAIN a.filters :
                  /\ s.where[i].field = a.filters[i].field
                  /\ s.where[i].op = a.filters[i].op
                  /\ a.filters[i].op \notin NullTests =>
                        Bound(s, i) = a.filters[i].vals
  BY <1>1, <1>2, StatementFacts
<1>4. ASSUME a.op \in {"update", "delete"}, NEW v, NEW i \in DOMAIN a.filters
      PROVE  Satisfies(v, s.where[i].op, Bound(s, i))
               = Satisfies(v, a.filters[i].op, a.filters[i].vals)
  <2>1. s.where[i].op = a.filters[i].op
    BY <1>3, <1>4
  <2>2. CASE a.filters[i].op \in NullTests
    BY <2>1, <2>2 DEF Satisfies, NullTests
  <2>3. CASE a.filters[i].op \notin NullTests
    <3>1. Bound(s, i) = a.filters[i].vals
      BY <1>3, <1>4, <2>3
    <3> QED
      BY <2>1, <3>1
  <2> QED
    BY <2>2, <2>3
<1>5. ASSUME a.op \in {"update", "delete"}, NEW row
      PROVE  Touched(s, row) <=> Meant(a, row)
  <2>1. DOMAIN s.where = DOMAIN a.filters
        /\ \A i \in DOMAIN a.filters : s.where[i].field = a.filters[i].field
    BY <1>3, <1>5
  <2>2. \A i \in DOMAIN a.filters :
           Satisfies(row[a.filters[i].field], s.where[i].op, Bound(s, i))
             = Satisfies(row[a.filters[i].field], a.filters[i].op, a.filters[i].vals)
    BY <1>4, <1>5
  <2> QED
    BY ONLY <2>1, <2>2, Zenon DEF Touched, Meant
<1>6. /\ a.table \in DOMAIN WritableTables
      /\ Operation(a) \in WritableTables[a.table].operations
      /\ ToSet(a.cols) \subseteq WritableTables[a.table].columns
      /\ FilterFields(a) \subseteq ReadableTables[a.table]
  BY <1>1 DEF Whitelisted, ValidateTable, ValidateOperation, ValidateWriteColumns,
              ValidateFilterColumns
<1>7. ASSUME a.op \in {"update", "delete"}, NEW i \in DOMAIN s.where
      PROVE  s.where[i].field \in ReadableTables[a.table]
  <2>1. i \in DOMAIN a.filters /\ s.where[i].field = a.filters[i].field
    BY <1>3, <1>7
  <2>2. a.filters[i].field \in FilterFields(a)
    BY <2>1 DEF FilterFields
  <2> QED
    BY <1>6, <2>1, <2>2
<1>8. DoesWhatWasAsked(s, a)
  BY ONLY <1>3, <1>5, <1>6, <1>7, Zenon DEF DoesWhatWasAsked
<1> QED
  BY <1>8 DEF s, a

\* Whatever the requests, filters, batches, whitelists and edits of the switch:
\* what is sent to the database binds its parameters to its placeholders one to
\* one, writes every row of values given to the columns named, and touches
\* exactly the rows of the table that satisfy every filter of the arguments.
THEOREM MutationStatements == MutationSpec => []StatementsDoWhatWasAsked
BY StatementsFromInv, MutationInvariance, PTL

-----------------------------------------------------------------------------
(* The parts together                                                      *)

\* What each part keeps on its own, all of them keep together.
THEOREM AccessInvariants ==
    AccessSpec => [](/\ RetriesBackOff /\ OnItsWay
                     /\ AuditTellsTheTruth /\ StatementsDoWhatWasAsked)
<1> DEFINE Inv == LoopInv /\ LoaderInv /\ MutationInv
<1>1. AccessInit => Inv
  BY LoopInitInv, LoaderInitInv, MutationInitInv DEF AccessInit
<1>2. Inv /\ [AccessNext]_accessVars => Inv'
  <2> SUFFICES ASSUME Inv, [AccessNext]_accessVars
               PROVE  Inv'
    OBVIOUS
  <2>1. [LoopNext]_loopVars /\ [LoaderNext]_loaderVars
    BY DEF AccessNext, LoopPart, LoaderPart, MutationPart, accessVars
  <2>2. [MutationNext]_<<reloadVars, mutationVars>>
    BY DEF AccessNext, LoopPart, LoaderPart, MutationPart, accessVars, writeVars
  <2> QED
    BY <2>1, <2>2, LoopNextInv, LoaderNextInv, MutationNextInv
<1>3. Inv => /\ RetriesBackOff /\ OnItsWay
             /\ AuditTellsTheTruth /\ StatementsDoWhatWasAsked
  BY LoaderInvOnItsWay, StatementsFromInv DEF LoopInv, DoBacksOff, RetriesBackOff, MutationInv
<1> QED
  BY <1>1, <1>2, <1>3, PTL DEF AccessSpec
=============================================================================
