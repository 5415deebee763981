----------------------- MODULE DataSourceManagerProofs ----------------------
(***************************************************************************)
(* Connections and status of the data source manager, for any sources,     *)
(* readiness requests and outages.                                         *)
(***************************************************************************)
EXTENDS DataSourceManager, TLAPS

\* A step of Init on one source keeps the invariant: it finds the source
\* untouched, and leaves it connected and available or with a loop.
LEMMA InitStepInv ==
    ASSUME Inv, NEW d \in Sources,
           InitSkips(d) \/ InitConnects(d) \/ InitConnectFails(d)
    PROVE  Inv'
<1> USE DEF Inv, TypeOK, LoopStates, CheckStates, AvailableIsConnected,
        UnconnectedHasLoop, StatusCoherent, WorkInProgress, InitReaches,
        ConnectSucceeds, AfterConnect, statusVars
<1>1. CASE InitSkips(d)
  BY <1>1 DEF InitSkips
<1>2. CASE InitConnects(d)
  BY <1>2 DEF InitConnects
<1>3. CASE InitConnectFails(d)
  BY <1>3 DEF InitConnectFails
<1> QED
  BY <1>1, <1>2, <1>3

\* A step of a reconnect loop keeps the invariant.
LEMMA ReconnectStepInv ==
    ASSUME Inv, NEW d \in Sources, ReconnectStep(d)
    PROVE  Inv'
<1> USE DEF Inv, TypeOK, LoopStates, CheckStates, AvailableIsConnected,
        UnconnectedHasLoop, StatusCoherent, WorkInProgress, lifeVars,
        statusVars
<1>1. CASE ReconnectWakes(d)
  BY <1>1 DEF ReconnectWakes
<1>2. CASE ReconnectStops(d)
  BY <1>2 DEF ReconnectStops
<1>3. CASE ReconnectConnects(d)
  BY <1>3 DEF ReconnectConnects, ConnectSucceeds, AfterConnect
<1>4. CASE ReconnectRetries(d)
  BY <1>4 DEF ReconnectRetries
<1>5. CASE ReconnectFinishes(d)
  BY <1>5 DEF ReconnectFinishes
<1> QED
  BY <1>1, <1>2, <1>3, <1>4, <1>5 DEF ReconnectStep

\* A check that becomes c, with everything else as it was, keeps the
\* invariant if c is one whose success is true of its SQL source.
LEMMA CheckMovesInv ==
    ASSUME Inv, NEW h \in Checkers, NEW c \in CheckStates,
           check' = [check EXCEPT ![h] = c],
           faults' \in 0 .. MaxFaults,
           UNCHANGED <<lifeVars, statusVars, reconnect, up>>,
           db' \in [Sources -> BOOLEAN],
           \A d \in Sources : db'[d] # db[d] => d \in Http /\ d \in registered,
           c.todo \cup c.pinged \subseteq registered,
           c.unset \subseteq c.pinged \cap Http,
           \A d \in c.pinged \ Http : ~c.err =>
              /\ reconnect[d] \notin {"sleeping", "connecting", "failed"}
              /\ phase \in {"init", "serving"} => db[d]
    PROVE  Inv'
<1>1. TypeOK'
  BY DEF Inv, TypeOK, lifeVars, statusVars
<1>2. \A d \in Sources \ Http : db'[d] = db[d]
  BY DEF Inv, TypeOK
<1>3. AvailableIsConnected' /\ UnconnectedHasLoop' /\ StatusCoherent'
  BY <1>2 DEF Inv, TypeOK, AvailableIsConnected, UnconnectedHasLoop,
              StatusCoherent, lifeVars, statusVars
<1>4. WorkInProgress'
  <2>1. \A g \in Checkers : check'[g] = IF g = h THEN c ELSE check[g]
    BY DEF Inv, TypeOK
  <2>2. \A d \in toInit : db'[d] = db[d]
    BY DEF Inv, TypeOK, WorkInProgress
  <2>3. \A d \in Sources :
           /\ reconnect'[d] # "none" => d \in registered'
           /\ d \in toInit' => /\ d \notin registered' /\ ~db'[d]
                               /\ ~available'[d] /\ ~lastError'[d]
    BY <2>2 DEF Inv, WorkInProgress, lifeVars, statusVars
  <2>4. \A d \in Sources \ Http :
           /\ reconnect'[d] \in {"sleeping", "connecting", "failed"} =>
                 ~db'[d] /\ ~available'[d]
           /\ (phase' \in {"init", "serving"} /\ reconnect'[d] = "connected") =>
                 db'[d]
    BY <1>2 DEF Inv, WorkInProgress, lifeVars, statusVars
  <2>5. ASSUME NEW g \in Checkers
        PROVE  /\ check'[g].todo \cup check'[g].pinged \subseteq registered'
               /\ check'[g].unset \subseteq check'[g].pinged \cap Http
               /\ \A d \in check'[g].pinged \ Http :
                     ~check'[g].err =>
                        /\ reconnect'[d] \notin
                             {"sleeping", "connecting", "failed"}
                        /\ phase' \in {"init", "serving"} => db'[d]
    <3>1. check'[g] \in CheckStates /\ registered \subseteq Sources
      BY <1>1 DEF Inv, TypeOK
    <3>2. CASE g = h
      BY <1>2, <2>1, <3>1, <3>2 DEF lifeVars
    <3>3. CASE g # h
      BY <1>2, <2>1, <3>1, <3>3 DEF Inv, WorkInProgress, lifeVars
    <3> QED
      BY <3>2, <3>3
  <2>6. toClose' \subseteq registered'
    BY DEF Inv, WorkInProgress, lifeVars
  <2> QED
    BY <2>3, <2>4, <2>5, <2>6 DEF WorkInProgress
<1> QED
  BY <1>1, <1>3, <1>4 DEF Inv

\* A step of HealthCheckAll keeps the invariant: a good result is recorded
\* for a SQL source only if no loop is still trying to connect it.
LEMMA CheckStepInv ==
    ASSUME Inv, NEW h \in Checkers,
           StartHealthCheckAll(h) \/ CancelRequest(h) \/ CheckStep(h)
    PROVE  Inv'
<1> DEFINE k == check[h]
<1>a. /\ k \in CheckStates
      /\ k.todo \cup k.pinged \subseteq registered
      /\ k.unset \subseteq k.pinged \cap Http
      /\ \A d \in k.pinged \ Http : ~k.err =>
            /\ reconnect[d] \notin {"sleeping", "connecting", "failed"}
            /\ phase \in {"init", "serving"} => db[d]
      /\ registered \in SUBSET Sources
      /\ db \in [Sources -> BOOLEAN]
      /\ faults \in 0 .. MaxFaults
  BY DEF Inv, TypeOK, WorkInProgress
<1>1. CASE StartHealthCheckAll(h)
  <2> DEFINE c == [Idle EXCEPT !.todo = registered]
  <2>1. check' = [check EXCEPT ![h] = c]
    BY <1>1 DEF StartHealthCheckAll
  <2>2. /\ c \in CheckStates /\ c.todo = registered /\ c.pinged = {}
        /\ c.unset = {} /\ c.err = FALSE
    BY <1>a DEF CheckStates, Idle
  <2>3. UNCHANGED <<lifeVars, statusVars, db, reconnect, up, faults>>
    BY <1>1 DEF StartHealthCheckAll
  <2> HIDE DEF c, k
  <2> QED
    BY <1>a, <2>1, <2>2, <2>3, CheckMovesInv
<1>2. CASE CancelRequest(h)
  <2> DEFINE c == [k EXCEPT !.cancelled = TRUE]
  <2>1. check' = [check EXCEPT ![h] = c]
    BY <1>2 DEF CancelRequest
  <2>2. /\ c \in CheckStates /\ c.todo = k.todo /\ c.pinged = k.pinged
        /\ c.unset = k.unset /\ c.err = k.err
    BY <1>a DEF CheckStates
  <2>3. /\ UNCHANGED <<lifeVars, statusVars, db, reconnect, up>>
        /\ faults' \in 0 .. MaxFaults
    BY <1>2, <1>a, ManagerConstants DEF CancelRequest
  <2> HIDE DEF c, k
  <2> QED
    BY <1>a, <2>1, <2>2, <2>3, CheckMovesInv
<1>3. ASSUME NEW d \in Sources, HealthCheckOne(h, d)
      PROVE  Inv'
  <2> DEFINE e == HealthCheckFails(h, d)
             c == [k EXCEPT !.todo = @ \ {d}, !.pinged = {d},
                            !.unset = {d} \cap Http, !.err = e]
  <2>1. check' = [check EXCEPT ![h] = c]
    BY <1>3 DEF HealthCheckOne
  <2>2. e \in BOOLEAN /\ (~e => up[d] /\ (d \in Http \/ db[d]))
    BY <1>a DEF HealthCheckFails, Inv, TypeOK, CheckStates
  <2>3. /\ c \in CheckStates /\ c.todo = k.todo \ {d} /\ c.pinged = {d}
        /\ c.unset = {d} \cap Http /\ c.err = e
    <3> HIDE DEF e
    <3> QED
      BY <1>a, <2>2 DEF CheckStates
  <2>4. UNCHANGED <<lifeVars, statusVars, db, reconnect, up, faults>>
    BY <1>3 DEF HealthCheckOne
  <2>5. d \in registered
    BY <1>a, <1>3 DEF HealthCheckOne
  <2>6. d \notin Http /\ ~e =>
           /\ reconnect[d] \notin {"sleeping", "connecting", "failed"}
           /\ db[d]
    BY <2>2 DEF Inv, WorkInProgress
  <2> HIDE DEF c, k, e
  <2> QED
    BY <1>a, <2>1, <2>3, <2>4, <2>5, <2>6, CheckMovesInv
<1>4. ASSUME NEW d \in Sources, HealthCheckSets(h, d)
      PROVE  Inv'
  <2> DEFINE c == [k EXCEPT !.unset = {}]
  <2>1. check' = [check EXCEPT ![h] = c]
    BY <1>4 DEF HealthCheckSets
  <2>2. /\ c \in CheckStates /\ c.todo = k.todo /\ c.pinged = k.pinged
        /\ c.unset = {} /\ c.err = k.err
    BY <1>a DEF CheckStates
  <2>3. /\ UNCHANGED <<lifeVars, statusVars, reconnect, up, faults>>
        /\ db' = [db EXCEPT ![d] = ~k.err]
    BY <1>4 DEF HealthCheckSets
  <2>4. d \in Http /\ d \in registered /\ k.err \in BOOLEAN
    BY <1>a, <1>4 DEF HealthCheckSets, CheckStates
  <2>5. /\ db' \in [Sources -> BOOLEAN]
        /\ \A x \in Sources : db'[x] # db[x] => x \in Http /\ x \in registered
    BY <1>a, <2>3, <2>4
  <2> HIDE DEF c, k
  <2> QED
    BY <1>a, <2>1, <2>2, <2>3, <2>5, CheckMovesInv
<1>5. ASSUME NEW d \in Sources, RecordHealth(h, d)
      PROVE  Inv'
  <2> DEFINE c == [Idle EXCEPT !.todo = k.todo,
                               !.cancelled = k.cancelled /\ k.todo # {}]
  <2>1. check' = [check EXCEPT ![h] = c]
    BY <1>5 DEF RecordHealth
  <2>2. /\ c \in CheckStates /\ c.todo = k.todo /\ c.pinged = {}
        /\ c.unset = {} /\ c.err = FALSE
    BY <1>a DEF CheckStates, Idle
  <2>3. /\ available' = [available EXCEPT ![d] = ~k.err]
        /\ lastError' = [lastError EXCEPT ![d] = k.err]
        /\ UNCHANGED <<lifeVars, db, reconnect, up, faults>>
        /\ k.pinged = {d}
    BY <1>5 DEF RecordHealth
  <2>4. d \in registered /\ k.err \in BOOLEAN
    BY <1>a, <2>3 DEF CheckStates
  <2> HIDE DEF c, k
  <2>5. TypeOK'
    BY <2>1, <2>2, <2>3, <2>4 DEF Inv, TypeOK, lifeVars
  <2>6. AvailableIsConnected' /\ UnconnectedHasLoop' /\ StatusCoherent'
    BY <1>a, <2>3, <2>4
       DEF Inv, TypeOK, AvailableIsConnected, UnconnectedHasLoop,
           StatusCoherent, lifeVars
  <2>7. \A g \in Checkers : check'[g] = IF g = h THEN c ELSE check[g]
    BY <2>1 DEF Inv, TypeOK
  <2>8. WorkInProgress'
    BY <1>a, <2>2, <2>3, <2>4, <2>7 DEF Inv, TypeOK, WorkInProgress, lifeVars
  <2> QED
    BY <2>5, <2>6, <2>8 DEF Inv
<1> QED
  BY <1>1, <1>2, <1>3, <1>4, <1>5 DEF CheckStep

\* A step of CloseAll or of a backend keeps the invariant.
LEMMA OtherStepInv ==
    ASSUME Inv,
           \/ CloseAllSignals
           \/ \E d \in Sources : CloseAllCloses(d) \/ BackendFlips(d)
    PROVE  Inv'
<1> USE DEF Inv, TypeOK, LoopStates, CheckStates, AvailableIsConnected,
        UnconnectedHasLoop, StatusCoherent, WorkInProgress, lifeVars,
        statusVars
<1>1. CASE CloseAllSignals
  BY <1>1 DEF CloseAllSignals
<1>2. ASSUME NEW d \in Sources, CloseAllCloses(d)
      PROVE  Inv'
  BY <1>2 DEF CloseAllCloses, AfterClose
<1>3. ASSUME NEW d \in Sources, BackendFlips(d)
      PROVE  Inv'
  BY <1>3, ManagerConstants DEF BackendFlips
<1> QED
  BY <1>1, <1>2, <1>3

\* Inv is an invariant of the manager.
THEOREM ManagerInv == Spec => []Inv
<1>1. Init => Inv
  BY ManagerConstants
     DEF Init, NewDataSourceManager, Inv, TypeOK, LoopStates, CheckStates,
         Idle, AvailableIsConnected, UnconnectedHasLoop, StatusCoherent,
         WorkInProgress
<1>2. Inv /\ [Next]_vars => Inv'
  <2> SUFFICES ASSUME Inv, [Next]_vars PROVE Inv'
    OBVIOUS
  <2>1. CASE UNCHANGED vars
    BY <2>1 DEF vars, Inv, TypeOK, AvailableIsConnected, UnconnectedHasLoop,
                StatusCoherent, WorkInProgress
  <2> QED
    BY <2>1, InitStepInv, ReconnectStepInv, CheckStepInv, OtherStepInv
       DEF Next
<1> QED
  BY <1>1, <1>2, PTL DEF Spec

\* Until shutdown, every SQL source that Get hands out is connected
\* (HealthCheckAll and the reconnect loops write its status concurrently).
THEOREM ManagerAvailableIsConnected == Spec => []AvailableIsConnected
<1>1. Inv => AvailableIsConnected
  BY DEF Inv
<1> QED
  BY ManagerInv, <1>1, PTL

\* Until shutdown, every registered SQL source without a connection has a
\* reconnect loop (Init, startReconnectLoop).
THEOREM ManagerUnconnectedHasLoop == Spec => []UnconnectedHasLoop
<1>1. Inv => UnconnectedHasLoop
  BY DEF Inv
<1> QED
  BY ManagerInv, <1>1, PTL

\* The status of a SQL source is available or has an error, never both and
\* never neither (Init, HealthCheckAll, startReconnectLoop).
THEOREM ManagerStatusCoherent == Spec => []StatusCoherent
<1>1. Inv => StatusCoherent
  BY DEF Inv
<1> QED
  BY ManagerInv, <1>1, PTL
=============================================================================
