--------------------------- MODULE CircuitBreaker ---------------------------
(***************************************************************************)
(* The three-state circuit breaker of internal/datasource/                 *)
(* circuit_breaker.go, together with the adapter methods that consult it   *)
(* and report to it (internal/adapter/{clickhouse,starrocks}/adapter.go).  *)
(*                                                                         *)
(* Every breaker method runs under one mutex and is one atomic step.  A    *)
(* caller consults the breaker, talks to the backend without the mutex,    *)
(* and reports afterwards: three steps that interleave with every other    *)
(* caller, so a result may reach a breaker that has changed state since    *)
(* the call was admitted.                                                  *)
(***************************************************************************)
EXTENDS Integers, FiniteSets

CONSTANTS
    Callers,              \* goroutines that use one adapter
    Ops,                  \* the adapter methods they call, a subset of AllOps
    HealthFeeds,          \* HealthCheck reports to the breaker: ClickHouse's
                          \* does, that of StarRocks does not
    FailureThreshold,
    HalfOpenMaxRequests,
    SuccessThreshold

AllOps == {"read", "write", "health"}

ASSUME BreakerConstants ==
    /\ IsFiniteSet(Callers)
    /\ Ops \subseteq AllOps
    \* NewCircuitBreaker replaces every non-positive setting by a default.
    /\ FailureThreshold \in Nat \ {0}
    /\ HalfOpenMaxRequests \in Nat \ {0}
    /\ SuccessThreshold \in Nat \ {0}

ASSUME OneOfTheAdapters == HealthFeeds \in BOOLEAN

VARIABLES
    state, failureCount, successCount, halfOpenRequests,
    cooled,    \* OpenDuration has passed since openedAt
    pc,        \* where each caller is
    op,        \* the method each caller last called
    healthy,   \* the backend answers and callers do not cancel
    streak,    \* history: failures reported since the last success (capped)
    probes     \* history: callers admitted since the breaker turned HALF_OPEN
               \* whose call has not ended

breakerVars == <<state, failureCount, successCount, halfOpenRequests, cooled>>
vars == <<state, failureCount, successCount, halfOpenRequests, cooled,
          pc, op, healthy, streak, probes>>

States == {"CLOSED", "OPEN", "HALF_OPEN"}
Results == {"ok", "err", "unrecorded"}

TypeOK ==
    /\ state \in States
    /\ failureCount \in 0 .. FailureThreshold
    /\ successCount \in 0 .. SuccessThreshold
    /\ halfOpenRequests \in 0 .. HalfOpenMaxRequests
    /\ cooled \in BOOLEAN
    /\ pc \in [Callers -> {"idle", "calling"} \cup Results]
    /\ op \in [Callers -> AllOps]
    /\ healthy \in BOOLEAN
    /\ streak \in 0 .. FailureThreshold
    /\ probes \in SUBSET Callers

NewCircuitBreaker ==
    /\ state = "CLOSED"
    /\ failureCount = 0
    /\ successCount = 0
    /\ halfOpenRequests = 0
    /\ cooled = FALSE

Init ==
    /\ NewCircuitBreaker
    /\ pc = [c \in Callers |-> "idle"]
    /\ op \in [Callers -> Ops]
    /\ healthy \in BOOLEAN
    /\ streak = 0
    /\ probes = {}

-----------------------------------------------------------------------------
(* The breaker's methods.                                                  *)

\* CLOSED lets everything through.
AllowClosed ==
    /\ state = "CLOSED"
    /\ UNCHANGED breakerVars

\* OPEN turns HALF_OPEN once OpenDuration has passed, and the request that
\* noticed is the first probe (HalfOpenMaxRequests is at least 1).
AllowOpen ==
    /\ state = "OPEN"
    /\ cooled
    /\ state' = "HALF_OPEN"
    /\ successCount' = 0
    /\ halfOpenRequests' = 1
    /\ UNCHANGED <<failureCount, cooled>>

\* Mutant: the probe limit is off by one.
AllowHalfOpen_OffByOne ==
    /\ state = "HALF_OPEN"
    /\ halfOpenRequests <= HalfOpenMaxRequests
    /\ halfOpenRequests' = halfOpenRequests + 1
    /\ UNCHANGED <<state, failureCount, successCount, cooled>>

\* HALF_OPEN admits until the slots are used up; a slot is never given back.
AllowHalfOpen ==
    /\ state = "HALF_OPEN"
    /\ halfOpenRequests < HalfOpenMaxRequests
    /\ halfOpenRequests' = halfOpenRequests + 1
    /\ UNCHANGED <<state, failureCount, successCount, cooled>>

\* AllowRequest returns true.
AllowRequest == AllowClosed \/ AllowOpen \/ AllowHalfOpen

\* AllowRequest returns false; no field changes.
FailsFast ==
    \/ state = "OPEN" /\ ~cooled
    \/ state = "HALF_OPEN" /\ halfOpenRequests >= HalfOpenMaxRequests

\* Mutant: closing leaves the failure count of the last CLOSED period.
SuccessHalfOpen_KeepsFailureCount ==
    IF successCount + 1 >= SuccessThreshold
    THEN /\ state' = "CLOSED"
         /\ successCount' = 0
         /\ halfOpenRequests' = 0
         /\ UNCHANGED <<failureCount, cooled>>
    ELSE /\ successCount' = successCount + 1
         /\ UNCHANGED <<state, failureCount, halfOpenRequests, cooled>>

\* What RecordSuccess does in HALF_OPEN.
SuccessHalfOpen ==
    IF successCount + 1 >= SuccessThreshold
    THEN /\ state' = "CLOSED"
         /\ failureCount' = 0
         /\ successCount' = 0
         /\ halfOpenRequests' = 0
         /\ UNCHANGED cooled
    ELSE /\ successCount' = successCount + 1
         /\ UNCHANGED <<state, failureCount, halfOpenRequests, cooled>>

\* Mutant: a success that arrives in OPEN counts as one in HALF_OPEN.
RecordSuccess_LateCounts ==
    CASE state = "CLOSED" ->
            /\ failureCount' = 0
            /\ UNCHANGED <<state, successCount, halfOpenRequests, cooled>>
      [] state \in {"OPEN", "HALF_OPEN"} -> SuccessHalfOpen

RecordSuccess ==
    CASE state = "CLOSED" ->
            /\ failureCount' = 0
            /\ UNCHANGED <<state, successCount, halfOpenRequests, cooled>>
      [] state = "HALF_OPEN" -> SuccessHalfOpen
      [] state = "OPEN" -> UNCHANGED breakerVars

\* CLOSED counts the failure and trips at the threshold (the count is kept);
\* HALF_OPEN trips at once and clears all counters; OPEN ignores the failure.
RecordFailure ==
    CASE state = "CLOSED" ->
            LET trips == failureCount + 1 >= FailureThreshold IN
            /\ failureCount' = failureCount + 1
            /\ state' = IF trips THEN "OPEN" ELSE state
            /\ cooled' = IF trips THEN FALSE ELSE cooled
            /\ UNCHANGED <<successCount, halfOpenRequests>>
      [] state = "HALF_OPEN" ->
            /\ state' = "OPEN"
            /\ cooled' = FALSE
            /\ failureCount' = 0
            /\ successCount' = 0
            /\ halfOpenRequests' = 0
      [] state = "OPEN" -> UNCHANGED breakerVars

-----------------------------------------------------------------------------
(* The adapter methods.                                                    *)

ProbesAfter(c) ==
    CASE state' # "HALF_OPEN" -> {}
      [] state = "HALF_OPEN" -> probes \cup {c}
      [] OTHER -> {c}

\* Execute of ClickHouse and ExecuteWrite of both ask the breaker first; for
\* Execute of StarRocks there is none, so its Ops have no "read".
Admit(c, o) ==
    /\ pc[c] = "idle"
    /\ o \in Ops \ {"health"}
    /\ AllowRequest
    /\ pc' = [pc EXCEPT ![c] = "calling"]
    /\ op' = [op EXCEPT ![c] = o]
    /\ probes' = ProbesAfter(c)
    /\ UNCHANGED <<healthy, streak>>

\* The CIRCUIT_OPEN error: the call ends without touching the backend.
Reject(c, o) ==
    /\ pc[c] = "idle"
    /\ o \in Ops \ {"health"}
    /\ FailsFast
    /\ op' = [op EXCEPT ![c] = o]
    /\ UNCHANGED <<breakerVars, pc, healthy, streak, probes>>

\* HealthCheck pings whatever the breaker says.
StartHealthCheck(c) ==
    /\ pc[c] = "idle"
    /\ "health" \in Ops
    /\ pc' = [pc EXCEPT ![c] = "calling"]
    /\ op' = [op EXCEPT ![c] = "health"]
    /\ UNCHANGED <<breakerVars, healthy, streak, probes>>

\* How a ClickHouse Execute can end: a missing table, a builder error and a
\* scan error return without reporting to the breaker.
ExecuteResults ==
    {"unrecorded"} \cup (IF healthy THEN {"ok"} ELSE {"err"})

\* ExecuteWrite reports every call it was allowed to make.
WriteResults == IF healthy THEN {"ok"} ELSE {"err"}

\* Mutant: HealthCheck reports the pings that fail only.
HealthResults_FailuresOnly == IF healthy THEN {"unrecorded"} ELSE {"err"}

\* HealthCheck reports the outcome of its ping, if it reports at all.
HealthResults == IF ~HealthFeeds THEN {"unrecorded"}
                 ELSE IF healthy THEN {"ok"} ELSE {"err"}

ResultsOf(o) ==
    CASE o = "read" -> ExecuteResults
      [] o = "write" -> WriteResults
      [] o = "health" -> HealthResults

\* The backend call returns.
Answer(c) ==
    /\ pc[c] = "calling"
    /\ \E r \in ResultsOf(op[c]) : pc' = [pc EXCEPT ![c] = r]
    /\ UNCHANGED <<breakerVars, op, healthy, streak, probes>>

ReportSuccess(c) ==
    /\ pc[c] = "ok"
    /\ RecordSuccess
    /\ pc' = [pc EXCEPT ![c] = "idle"]
    /\ streak' = 0
    /\ probes' = IF state' = "HALF_OPEN" THEN probes \ {c} ELSE {}
    /\ UNCHANGED <<op, healthy>>

ReportFailure(c) ==
    /\ pc[c] = "err"
    /\ RecordFailure
    /\ pc' = [pc EXCEPT ![c] = "idle"]
    /\ streak' = IF streak < FailureThreshold THEN streak + 1 ELSE streak
    /\ probes' = IF state' = "HALF_OPEN" THEN probes \ {c} ELSE {}
    /\ UNCHANGED <<op, healthy>>

\* An Execute that ends with an error the breaker never hears of.
ReturnUnrecorded(c) ==
    /\ pc[c] = "unrecorded"
    /\ pc' = [pc EXCEPT ![c] = "idle"]
    /\ probes' = probes \ {c}
    /\ UNCHANGED <<breakerVars, op, healthy, streak>>

-----------------------------------------------------------------------------
(* The environment: time and the backend.                                  *)

\* time.Since(openedAt) reaches OpenDuration.
OpenDurationElapses ==
    /\ state = "OPEN"
    /\ ~cooled
    /\ cooled' = TRUE
    /\ UNCHANGED <<state, failureCount, successCount, halfOpenRequests,
                   pc, op, healthy, streak, probes>>

BackendChanges ==
    /\ healthy' = ~healthy
    /\ UNCHANGED <<breakerVars, pc, op, streak, probes>>

\* The steps that finish a call already made.
FinishCall(c) ==
    \/ Answer(c)
    \/ ReportSuccess(c)
    \/ ReportFailure(c)
    \/ ReturnUnrecorded(c)

SomeRequestAdmitted == \E c \in Callers, o \in Ops : Admit(c, o)

SomeHealthCheck == \E c \in Callers : StartHealthCheck(c)

Next ==
    \/ SomeRequestAdmitted
    \/ SomeHealthCheck
    \/ \E c \in Callers, o \in Ops : Reject(c, o)
    \/ \E c \in Callers : FinishCall(c)
    \/ OpenDurationElapses
    \/ BackendChanges

Spec == Init /\ [][Next]_vars

\* Requests keep arriving and readiness probes keep being made (the external
\* clients), every call ends (it has a timeout), and time passes.  Nothing is
\* assumed of the backend.
FairSpec ==
    /\ Spec
    /\ SF_vars(SomeRequestAdmitted)
    /\ SF_vars(SomeHealthCheck)
    /\ \A c \in Callers : WF_vars(FinishCall(c))
    /\ WF_vars(OpenDurationElapses)

-----------------------------------------------------------------------------
(* Properties.                                                             *)

\* "连续失败 >= threshold" (architecture.md): in CLOSED the failure count is
\* exactly the number of failures reported since the last success, whatever
\* results of earlier OPEN and HALF_OPEN periods arrived in between, and it
\* has not reached the threshold.
ClosedCountsStreak ==
    state = "CLOSED" => /\ failureCount = streak
                        /\ streak < FailureThreshold

\* "允许最多 half_open_max_requests 个探测请求" (course/09-resilience.md): of the
\* requests the breaker admitted as probes in the current HALF_OPEN
\* period, at most HalfOpenMaxRequests are still on their way to the backend.
ProbesBounded ==
    state = "HALF_OPEN" =>
        Cardinality(probes) <= HalfOpenMaxRequests

\* The breaker leaves OPEN only for HALF_OPEN after OpenDuration, and no
\* result that arrives late, good or bad, closes an OPEN breaker or sets the
\* time it opened at anew.
OpenIsSticky ==
    [][state = "OPEN" => IF state' = "OPEN" THEN cooled => cooled'
                         ELSE cooled /\ state' = "HALF_OPEN"]_vars

\* "HALF_OPEN: [...] 连续成功达到 success_threshold 时恢复 CLOSED" (course/
\* 09-resilience.md:49): once the backend stays healthy the breaker ends up
\* CLOSED for good.  With fewer probes than successes needed, as in the
\* defaults, this is up to the health checks: it holds of ClickHouse, and not
\* of StarRocks (HealthFeeds = FALSE), whose breaker stays HALF_OPEN.
RecoversWhenHealthy == <>[]healthy => <>[](state = "CLOSED")

\* Every probe of the current period holds one of the counted slots.
SlotsCountProbes ==
    /\ state = "HALF_OPEN" => Cardinality(probes) <= halfOpenRequests
    /\ state # "HALF_OPEN" => probes = {}

\* The inductive invariant behind ClosedCountsStreak and ProbesBounded.
Inv ==
    /\ TypeOK
    /\ ClosedCountsStreak
    /\ SlotsCountProbes
    /\ state = "HALF_OPEN" => successCount < SuccessThreshold
=============================================================================
