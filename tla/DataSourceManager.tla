------------------------- MODULE DataSourceManager --------------------------
(***************************************************************************)
(* DataSourceManager of internal/datasource (manager.go, reconnect.go)     *)
(* over the adapters' Connect, HealthCheck and Close: startup, the         *)
(* background reconnect loops, HealthCheckAll as called by concurrent      *)
(* readiness requests, and CloseAll at shutdown.                           *)
(*                                                                         *)
(* The manager's mutex covers single reads and writes of the status map    *)
(* only; connecting, pinging and closing happen outside it, so every such  *)
(* call and the status update that follows it are two steps.               *)
(***************************************************************************)
EXTENDS Integers, FiniteSets

CONSTANTS
    Sources,     \* configured data source names
    Config,      \* what Init finds for each of them
    Http,        \* the sources of the Prometheus adapter; the others are SQL
    Checkers,    \* concurrent /ready requests
    MaxFaults    \* bound: how often a backend goes up or down, or the client
                 \* of a readiness request hangs up

ConfigKinds == {"enabled", "disabled", "unregistered", "factoryError"}

ASSUME ManagerConstants ==
    /\ Config \in [Sources -> ConfigKinds]
    /\ Http \subseteq Sources
    /\ MaxFaults \in Nat

VARIABLES
    phase,       \* init, serving, closing, closed
    toInit,      \* configs Init has not reached
    registered,  \* keys of the datasources and status maps
    available, lastError,   \* DataSourceStatus
    db,          \* what Execute asks for: the open connection of a SQL
                 \* adapter, the flag "available" of a Prometheus adapter
    reconnect,   \* where each reconnect goroutine is
    check,       \* where each HealthCheckAll is
    toClose,     \* sources CloseAll has not reached
    up,          \* backends that answer in time
    faults       \* how many of MaxFaults have happened

statusVars == <<available, lastError>>
lifeVars == <<phase, toInit, registered, toClose>>
vars == <<phase, toInit, registered, available, lastError, db, reconnect,
          check, toClose, up, faults>>

LoopStates == {"none", "sleeping", "connecting", "connected", "failed"}
\* A HealthCheckAll: the names it has still to ping, the source whose result
\* it is about to record, if any, the same source while a Prometheus adapter
\* has still to set its flag, and whether its request's context is cancelled.
Idle == [todo |-> {}, pinged |-> {}, unset |-> {}, err |-> FALSE,
         cancelled |-> FALSE]
CheckStates ==
    [todo : SUBSET Sources, pinged : SUBSET Sources, unset : SUBSET Sources,
     err : BOOLEAN, cancelled : BOOLEAN]

TypeOK ==
    /\ phase \in {"init", "serving", "closing", "closed"}
    /\ toInit \in SUBSET Sources
    /\ registered \in SUBSET Sources
    /\ available \in [Sources -> BOOLEAN]
    /\ lastError \in [Sources -> BOOLEAN]
    /\ db \in [Sources -> BOOLEAN]
    /\ reconnect \in [Sources -> LoopStates]
    /\ check \in [Checkers -> CheckStates]
    /\ toClose \in SUBSET Sources
    /\ up \in [Sources -> BOOLEAN]
    /\ faults \in 0 .. MaxFaults

NewDataSourceManager ==
    /\ registered = {}
    /\ available = [d \in Sources |-> FALSE]
    /\ lastError = [d \in Sources |-> FALSE]
    /\ db = [d \in Sources |-> FALSE]
    /\ reconnect = [d \in Sources |-> "none"]

Init ==
    /\ NewDataSourceManager
    /\ phase = "init"
    /\ toInit = Sources
    /\ check = [h \in Checkers |-> Idle]
    /\ toClose = {}
    /\ up \in [Sources -> BOOLEAN]
    /\ \A d \in Sources : up[d] => Config[d] = "enabled"
    /\ faults = 0

-----------------------------------------------------------------------------
(* The adapters.                                                           *)

\* Connect holds the adapter's lock throughout: it leaves an open connection,
\* or a flag that is set, alone, and otherwise keeps what it opened if the
\* ping succeeds.
ConnectSucceeds(d) == db[d] \/ up[d]
AfterConnect(d) == [db EXCEPT ![d] = ConnectSucceeds(d)]

\* HealthCheck pings with the context it is given: a SQL adapter pings the
\* open connection, and without one reports an error; the Prometheus adapter
\* sends a request whether it is connected or not.
HealthCheckFails(h, d) ==
    \/ check[h].cancelled
    \/ ~up[d]
    \/ d \notin Http /\ ~db[d]

\* Close drops the connection, or clears the flag.
AfterClose(d) == [db EXCEPT ![d] = FALSE]

-----------------------------------------------------------------------------
(* DataSourceManager.Init, run before the server accepts requests.         *)

InitReaches(d) ==
    /\ phase = "init"
    /\ d \in toInit
    /\ toInit' = toInit \ {d}
    /\ phase' = IF toInit = {d} THEN "serving" ELSE "init"

\* Disabled, of an unregistered type, or refused by its factory.
InitSkips(d) ==
    /\ InitReaches(d)
    /\ Config[d] # "enabled"
    /\ UNCHANGED <<registered, statusVars, db, reconnect, check, toClose,
                   up, faults>>

InitConnects(d) ==
    /\ InitReaches(d)
    /\ Config[d] = "enabled"
    /\ ConnectSucceeds(d)
    /\ db' = AfterConnect(d)
    /\ registered' = registered \cup {d}
    /\ available' = [available EXCEPT ![d] = TRUE]
    /\ UNCHANGED <<lastError, reconnect, check, toClose, up, faults>>

\* Mutant: the status is set before the error is looked at.
InitConnectFails_MarksAvailable(d) ==
    /\ InitReaches(d)
    /\ Config[d] = "enabled"
    /\ ~ConnectSucceeds(d)
    /\ db' = AfterConnect(d)
    /\ registered' = registered \cup {d}
    /\ available' = [available EXCEPT ![d] = TRUE]
    /\ reconnect' = [reconnect EXCEPT ![d] = "sleeping"]
    /\ UNCHANGED <<lastError, check, toClose, up, faults>>

InitConnectFails(d) ==
    /\ InitReaches(d)
    /\ Config[d] = "enabled"
    /\ ~ConnectSucceeds(d)
    /\ db' = AfterConnect(d)
    /\ registered' = registered \cup {d}
    /\ lastError' = [lastError EXCEPT ![d] = TRUE]
    /\ reconnect' = [reconnect EXCEPT ![d] = "sleeping"]
    /\ UNCHANGED <<available, check, toClose, up, faults>>

-----------------------------------------------------------------------------
(* The reconnect loop of one source.                                       *)

\* The select takes the timer, also when stopCh is closed as well.
ReconnectWakes(d) ==
    /\ reconnect[d] = "sleeping"
    /\ reconnect' = [reconnect EXCEPT ![d] = "connecting"]
    /\ UNCHANGED <<lifeVars, statusVars, db, check, up, faults>>

\* Mutant: stopCh is sent to once instead of being closed, and a loop that
\* comes back to its select later finds nothing.
ReconnectStops_OnlyOnce(d) ==
    /\ reconnect[d] = "sleeping"
    /\ phase = "closing"
    /\ reconnect' = [reconnect EXCEPT ![d] = "none"]
    /\ UNCHANGED <<lifeVars, statusVars, db, check, up, faults>>

\* The select takes stopCh.
ReconnectStops(d) ==
    /\ reconnect[d] = "sleeping"
    /\ phase \in {"closing", "closed"}
    /\ reconnect' = [reconnect EXCEPT ![d] = "none"]
    /\ UNCHANGED <<lifeVars, statusVars, db, check, up, faults>>

ReconnectConnects(d) ==
    /\ reconnect[d] = "connecting"
    /\ db' = AfterConnect(d)
    /\ reconnect' = [reconnect EXCEPT
                       ![d] = IF ConnectSucceeds(d) THEN "connected"
                                                    ELSE "failed"]
    /\ UNCHANGED <<lifeVars, statusVars, check, up, faults>>

\* Mutant: the loop gives up after a failed attempt.
ReconnectRetries_GivesUp(d) ==
    /\ reconnect[d] = "failed"
    /\ lastError' = [lastError EXCEPT ![d] = TRUE]
    /\ reconnect' = [reconnect EXCEPT ![d] = "none"]
    /\ UNCHANGED <<lifeVars, available, db, check, up, faults>>

\* A failed attempt is recorded and the loop sleeps again.
ReconnectRetries(d) ==
    /\ reconnect[d] = "failed"
    /\ lastError' = [lastError EXCEPT ![d] = TRUE]
    /\ reconnect' = [reconnect EXCEPT ![d] = "sleeping"]
    /\ UNCHANGED <<lifeVars, available, db, check, up, faults>>

ReconnectFinishes(d) ==
    /\ reconnect[d] = "connected"
    /\ available' = [available EXCEPT ![d] = TRUE]
    /\ lastError' = [lastError EXCEPT ![d] = FALSE]
    /\ reconnect' = [reconnect EXCEPT ![d] = "none"]
    /\ UNCHANGED <<lifeVars, db, check, up, faults>>

ReconnectStep(d) ==
    \/ ReconnectWakes(d)
    \/ ReconnectStops(d)
    \/ ReconnectConnects(d)
    \/ ReconnectRetries(d)
    \/ ReconnectFinishes(d)

-----------------------------------------------------------------------------
(* HealthCheckAll, called by every readiness request.                      *)

StartHealthCheckAll(h) ==
    /\ phase = "serving"
    /\ check[h] = Idle
    /\ registered # {}
    /\ check' = [check EXCEPT ![h] = [Idle EXCEPT !.todo = registered]]
    /\ UNCHANGED <<lifeVars, statusVars, db, reconnect, up, faults>>

\* The client of /ready hangs up: the context of its request is cancelled.
CancelRequest(h) ==
    /\ check[h].todo # {}
    /\ ~check[h].cancelled
    /\ faults < MaxFaults
    /\ faults' = faults + 1
    /\ check' = [check EXCEPT ![h].cancelled = TRUE]
    /\ UNCHANGED <<lifeVars, statusVars, db, reconnect, up>>

\* ds.HealthCheck, outside the manager's lock.
HealthCheckOne(h, d) ==
    /\ check[h].pinged = {}
    /\ d \in check[h].todo
    /\ check' = [check EXCEPT ![h].todo = @ \ {d},
                              ![h].pinged = {d},
                              ![h].unset = {d} \cap Http,
                              ![h].err = HealthCheckFails(h, d)]
    /\ UNCHANGED <<lifeVars, statusVars, db, reconnect, up, faults>>

\* Mutant: the flag is only ever cleared.
HealthCheckSets_OnlyClears(h, d) ==
    /\ check[h].unset = {d}
    /\ db' = [db EXCEPT ![d] = @ /\ ~check[h].err]
    /\ check' = [check EXCEPT ![h].unset = {}]
    /\ UNCHANGED <<lifeVars, statusVars, reconnect, up, faults>>

\* setAvailable of the Prometheus adapter, with the answer of a while ago.
HealthCheckSets(h, d) ==
    /\ check[h].unset = {d}
    /\ db' = [db EXCEPT ![d] = ~check[h].err]
    /\ check' = [check EXCEPT ![h].unset = {}]
    /\ UNCHANGED <<lifeVars, statusVars, reconnect, up, faults>>

\* The result is recorded, whatever happened to the source meanwhile.  With
\* the last one the request is over, and with it its context.
RecordHealth(h, d) ==
    /\ check[h].pinged = {d}
    /\ check[h].unset = {}
    /\ available' = [available EXCEPT ![d] = ~check[h].err]
    /\ lastError' = [lastError EXCEPT ![d] = check[h].err]
    /\ check' = [check EXCEPT ![h] =
                    [Idle EXCEPT !.todo = check[h].todo,
                                 !.cancelled = check[h].cancelled
                                               /\ check[h].todo # {}]]
    /\ UNCHANGED <<lifeVars, db, reconnect, up, faults>>

CheckStep(h) ==
    \E d \in Sources :
        HealthCheckOne(h, d) \/ HealthCheckSets(h, d) \/ RecordHealth(h, d)

-----------------------------------------------------------------------------
(* CloseAll.                                                               *)

CloseAllSignals ==
    /\ phase = "serving"
    /\ phase' = IF registered = {} THEN "closed" ELSE "closing"
    /\ toClose' = registered
    /\ UNCHANGED <<toInit, registered, statusVars, db, reconnect, check,
                   up, faults>>

CloseAllCloses(d) ==
    /\ phase = "closing"
    /\ d \in toClose
    /\ db' = AfterClose(d)
    /\ toClose' = toClose \ {d}
    /\ phase' = IF toClose = {d} THEN "closed" ELSE "closing"
    /\ UNCHANGED <<toInit, registered, statusVars, reconnect, check, up,
                   faults>>

-----------------------------------------------------------------------------
\* Whether a source that Init skips is up does not matter.
BackendFlips(d) ==
    /\ faults < MaxFaults /\ Config[d] = "enabled"
    /\ faults' = faults + 1
    /\ up' = [up EXCEPT ![d] = ~@]
    /\ UNCHANGED <<lifeVars, statusVars, db, reconnect, check>>

Next ==
    \/ \E d \in Sources :
          \/ InitSkips(d)
          \/ InitConnects(d)
          \/ InitConnectFails(d)
          \/ ReconnectStep(d)
          \/ CloseAllCloses(d)
          \/ BackendFlips(d)
    \/ \E h \in Checkers :
          StartHealthCheckAll(h) \/ CancelRequest(h) \/ CheckStep(h)
    \/ CloseAllSignals

Spec == Init /\ [][Next]_vars

\* Timers fire and goroutines run; a readiness request once begun goes on; a
\* select with stopCh ready takes it some time (it chooses at random).
Fairness ==
    /\ \A d \in Sources : WF_vars(ReconnectStep(d))
    /\ SF_vars(\E d \in Sources : ReconnectStops(d))
    /\ \A h \in Checkers : WF_vars(CheckStep(h))

\* The server by itself: nobody is assumed to call /ready.
FairSpec == Spec /\ Fairness

\* The server under an orchestrator that keeps calling /ready.
ProbedSpec ==
    /\ FairSpec
    /\ SF_vars(\E h \in Checkers : StartHealthCheckAll(h))

-----------------------------------------------------------------------------
(* Properties.                                                             *)

\* Until shutdown, a SQL source Get hands out is connected, whatever order
\* reconnects and the health checks of concurrent readiness requests take,
\* cancelled or not.  (A Prometheus source is not: of two concurrent checks
\* with different answers one may set its flag last and the other its status,
\* and it stays available with its flag off until the next check.)
AvailableIsConnected ==
    phase \in {"init", "serving"} =>
        \A d \in registered \ Http : available[d] => db[d]

\* Until shutdown, a registered SQL source without a connection has a
\* reconnect loop working on it.  (A Prometheus source whose flag a failed
\* health check cleared has none: only the next check sets it again.)
UnconnectedHasLoop ==
    phase \in {"init", "serving"} =>
        \A d \in registered \ Http : ~db[d] => reconnect[d] # "none"

\* The status of a SQL source never shows an error while it is available, nor
\* an unavailable source without its error.  (A health check may find a
\* Prometheus source up between a failed attempt of its loop and the error
\* the loop writes.)
StatusCoherent ==
    \A d \in registered \ Http : available[d] <=> ~lastError[d]

\* A source whose backend stays up becomes, and stays, one that Get hands out
\* and whose adapter executes queries, once clients no longer hang up on
\* readiness requests: a cancelled request marks every source it has still to
\* ping unavailable, and only a later request that is not cancelled puts that
\* right.
RecoversWhenUp ==
    \A d \in Sources :
        <>[](/\ d \in registered /\ up[d] /\ phase = "serving"
             /\ \A h \in Checkers : ~check[h].cancelled)
            => <>[](available[d] /\ db[d])

\* "CloseAll signals background goroutines to stop" (manager.go): every
\* reconnect loop ends after it, also one that was connecting meanwhile.
LoopsStop == \A d \in Sources : phase = "closed" ~> reconnect[d] = "none"

\* The loops and checks that are under way, related to the connections: what
\* makes the three safety properties inductive.  A loop of a SQL source that
\* has not connected has no connection beside it, and nobody is about to
\* report success for it; a source Init has not reached is untouched.
WorkInProgress ==
    /\ \A d \in Sources :
          /\ reconnect[d] # "none" => d \in registered
          /\ d \in toInit =>
                d \notin registered /\ ~db[d] /\ ~available[d] /\ ~lastError[d]
    /\ \A d \in Sources \ Http :
          reconnect[d] \in {"sleeping", "connecting", "failed"} =>
              ~db[d] /\ ~available[d]
    /\ \A h \in Checkers :
          /\ check[h].todo \cup check[h].pinged \subseteq registered
          /\ check[h].unset \subseteq check[h].pinged \cap Http
          /\ \A d \in check[h].pinged \ Http :
                ~check[h].err =>
                    reconnect[d] \notin {"sleeping", "connecting", "failed"}
    /\ phase \in {"init", "serving"} =>
          /\ \A d \in Sources \ Http : reconnect[d] = "connected" => db[d]
          /\ \A h \in Checkers : \A d \in check[h].pinged \ Http :
                ~check[h].err => db[d]
    /\ toClose \subseteq registered

Inv ==
    /\ TypeOK
    /\ AvailableIsConnected
    /\ UnconnectedHasLoop
    /\ StatusCoherent
    /\ WorkInProgress
=============================================================================
