------------------------ MODULE CircuitBreakerProofs ------------------------
(***************************************************************************)
(* The breaker's safety properties for any number of callers and any       *)
(* positive thresholds.                                                    *)
(***************************************************************************)
EXTENDS CircuitBreaker, FiniteSetTheorems, TLAPS

\* Adding one caller adds at most one probe, removing one removes at most one.
LEMMA ProbeCount ==
    ASSUME NEW S \in SUBSET Callers, NEW c \in Callers
    PROVE  /\ Cardinality(S) \in Nat
           /\ Cardinality(S \cup {c}) <= Cardinality(S) + 1
           /\ Cardinality(S \ {c}) <= Cardinality(S)
           /\ Cardinality({c}) = 1
           /\ Cardinality({}) = 0
<1>1. IsFiniteSet(S)
  BY FS_Subset, BreakerConstants
<1>2. /\ IsFiniteSet(S \cup {c})
      /\ Cardinality(S \cup {c}) =
            IF c \in S THEN Cardinality(S) ELSE Cardinality(S) + 1
  BY <1>1, FS_AddElement
<1>3. /\ IsFiniteSet(S \ {c})
      /\ Cardinality(S \ {c}) =
            IF c \in S THEN Cardinality(S) - 1 ELSE Cardinality(S)
  BY <1>1, FS_RemoveElement
<1>4. Cardinality(S) \in Nat
  BY <1>1, FS_CardinalityType
<1>5. Cardinality({c}) = 1
  BY FS_Singleton
<1>6. Cardinality({}) = 0
  BY FS_EmptySet
<1> QED
  BY <1>2, <1>3, <1>4, <1>5, <1>6

\* A new breaker is closed and has counted nothing.
LEMMA InitInv == Init => Inv
<1> SUFFICES ASSUME Init PROVE Inv
  OBVIOUS
<1>1. op \in [Callers -> AllOps]
  BY BreakerConstants DEF Init
<1>2. SlotsCountProbes /\ ClosedCountsStreak
  BY BreakerConstants
     DEF Init, NewCircuitBreaker, SlotsCountProbes, ClosedCountsStreak
<1>3. TypeOK
  <2>1. cooled \in BOOLEAN /\ healthy \in BOOLEAN
    BY Zenon DEF Init, NewCircuitBreaker
  <2>2. pc \in [Callers -> {"idle", "calling"} \cup Results]
    BY DEF Init, Results
  <2>3. /\ failureCount \in 0 .. FailureThreshold
        /\ successCount \in 0 .. SuccessThreshold
        /\ halfOpenRequests \in 0 .. HalfOpenMaxRequests
        /\ streak \in 0 .. FailureThreshold
        /\ probes \in SUBSET Callers
        /\ state \in States
    BY BreakerConstants DEF Init, NewCircuitBreaker, States
  <2> QED
    BY <1>1, <2>1, <2>2, <2>3 DEF TypeOK
<1> QED
  BY <1>2, <1>3 DEF Init, NewCircuitBreaker, Inv

\* An admitted request keeps the invariant.
LEMMA AdmitInv ==
    ASSUME Inv, NEW c \in Callers, NEW o \in Ops, Admit(c, o)
    PROVE  Inv'
<1> USE BreakerConstants DEF Inv, TypeOK, ClosedCountsStreak, States, Results,
        AllOps
<1>a. /\ pc' \in [Callers -> {"idle", "calling"} \cup Results]
      /\ op' \in [Callers -> AllOps]
  BY DEF Admit
<1>1. CASE AllowClosed
  BY <1>1, <1>a DEF Admit, AllowClosed, breakerVars, ProbesAfter,
     SlotsCountProbes
<1>2. CASE AllowOpen
  <2>1. probes' = {c}
    BY <1>2 DEF Admit, AllowOpen, ProbesAfter
  <2>2. SlotsCountProbes'
    BY <1>2, <2>1, ProbeCount DEF AllowOpen, SlotsCountProbes
  <2> QED
    BY <1>2, <2>1, <2>2, <1>a DEF Admit, AllowOpen
<1>3. CASE AllowHalfOpen
  <2>1. probes' = probes \cup {c}
    BY <1>3 DEF Admit, AllowHalfOpen, ProbesAfter
  <2>2. /\ Cardinality(probes) \in Nat
        /\ Cardinality(probes') <= Cardinality(probes) + 1
        /\ Cardinality(probes') \in Nat
    BY <2>1, ProbeCount, probes \in SUBSET Callers,
       probes \cup {c} \in SUBSET Callers
  <2>3. SlotsCountProbes'
    BY <1>3, <2>2 DEF AllowHalfOpen, SlotsCountProbes
  <2> QED
    BY <1>3, <2>1, <2>3, <1>a DEF Admit, AllowHalfOpen
<1> QED
  BY <1>1, <1>2, <1>3 DEF Admit, AllowRequest

\* A reported success keeps the invariant.
LEMMA ReportSuccessInv ==
    ASSUME Inv, NEW c \in Callers, ReportSuccess(c)
    PROVE  Inv'
<1> USE BreakerConstants DEF Inv, TypeOK, ClosedCountsStreak, States, Results
<1>a. pc' \in [Callers -> {"idle", "calling"} \cup Results]
  BY DEF ReportSuccess
<1>b. /\ streak' = 0
      /\ probes' = IF state' = "HALF_OPEN" THEN probes \ {c} ELSE {}
      /\ UNCHANGED <<op, healthy>>
      /\ RecordSuccess
  BY DEF ReportSuccess
<1>1. CASE state = "CLOSED"
  BY <1>1, <1>a, <1>b DEF RecordSuccess, SlotsCountProbes
<1>2. CASE state = "OPEN"
  BY <1>2, <1>a, <1>b DEF RecordSuccess, breakerVars, SlotsCountProbes
<1>3. CASE state = "HALF_OPEN"
  <2>0. SuccessHalfOpen
    BY <1>3, <1>b DEF RecordSuccess
  <2>1. CASE successCount + 1 >= SuccessThreshold
    BY <2>0, <2>1, <1>3, <1>a, <1>b DEF SuccessHalfOpen, SlotsCountProbes
  <2>2. CASE ~(successCount + 1 >= SuccessThreshold)
    <3>0. /\ Cardinality(probes) \in Nat
          /\ Cardinality(probes \ {c}) <= Cardinality(probes)
          /\ Cardinality(probes \ {c}) \in Nat
      BY ProbeCount, probes \in SUBSET Callers,
         probes \ {c} \in SUBSET Callers
    <3>1. SlotsCountProbes'
      BY <2>0, <2>2, <1>3, <1>b, <3>0
         DEF SuccessHalfOpen, SlotsCountProbes
    <3> QED
      BY <2>0, <2>2, <3>1, <1>3, <1>a, <1>b DEF SuccessHalfOpen
  <2> QED
    BY <2>1, <2>2
<1> QED
  BY <1>1, <1>2, <1>3

\* A reported failure keeps the invariant.
LEMMA ReportFailureInv ==
    ASSUME Inv, NEW c \in Callers, ReportFailure(c)
    PROVE  Inv'
<1> USE BreakerConstants DEF Inv, TypeOK, ClosedCountsStreak, States, Results
<1>a. pc' \in [Callers -> {"idle", "calling"} \cup Results]
  BY DEF ReportFailure
<1>b. /\ streak' = IF streak < FailureThreshold THEN streak + 1 ELSE streak
      /\ probes' = IF state' = "HALF_OPEN" THEN probes \ {c} ELSE {}
      /\ UNCHANGED <<op, healthy>>
      /\ RecordFailure
  BY DEF ReportFailure
<1>1. CASE state = "CLOSED"
  <2>1. /\ failureCount' = failureCount + 1
        /\ state' = IF failureCount + 1 >= FailureThreshold
                    THEN "OPEN" ELSE state
        /\ cooled' = IF failureCount + 1 >= FailureThreshold
                     THEN FALSE ELSE cooled
        /\ UNCHANGED <<successCount, halfOpenRequests>>
    BY <1>1, <1>b DEF RecordFailure
  <2>2. cooled' \in BOOLEAN
    BY <2>1, Zenon
  <2>3. SlotsCountProbes' /\ ClosedCountsStreak'
    BY <1>1, <1>b, <2>1 DEF SlotsCountProbes
  <2>4. /\ probes' = {}
        /\ streak' \in 0 .. FailureThreshold
        /\ failureCount' \in 0 .. FailureThreshold
        /\ successCount' \in 0 .. SuccessThreshold
        /\ halfOpenRequests' \in 0 .. HalfOpenMaxRequests
        /\ state' \in States
        /\ state' # "HALF_OPEN"
    BY <1>1, <1>b, <2>1
  <2>5. healthy' \in BOOLEAN /\ op' \in [Callers -> AllOps]
    BY <1>b
  <2> HIDE DEF ClosedCountsStreak
  <2> QED
    BY <1>a, <2>2, <2>3, <2>4, <2>5
<1>2. CASE state = "OPEN"
  BY <1>2, <1>a, <1>b DEF RecordFailure, breakerVars, SlotsCountProbes
<1>3. CASE state = "HALF_OPEN"
  <2>1. /\ state' = "OPEN"
        /\ cooled' = FALSE
        /\ failureCount' = 0
        /\ successCount' = 0
        /\ halfOpenRequests' = 0
    BY <1>3, <1>b DEF RecordFailure
  <2>2. cooled' \in BOOLEAN
    BY <2>1, Zenon
  <2>3. /\ probes' = {} /\ SlotsCountProbes' /\ ClosedCountsStreak'
        /\ streak' \in 0 .. FailureThreshold
        /\ failureCount' \in 0 .. FailureThreshold
        /\ successCount' \in 0 .. SuccessThreshold
        /\ halfOpenRequests' \in 0 .. HalfOpenMaxRequests
        /\ state' \in States
        /\ state' # "HALF_OPEN"
    BY <1>b, <2>1 DEF SlotsCountProbes
  <2>4. healthy' \in BOOLEAN /\ op' \in [Callers -> AllOps]
    BY <1>b
  <2> HIDE DEF ClosedCountsStreak
  <2> QED
    BY <1>a, <2>2, <2>3, <2>4
<1> QED
  BY <1>1, <1>2, <1>3

\* The other steps leave the breaker alone.
LEMMA OtherStepsInv ==
    ASSUME Inv,
           \/ \E c \in Callers, o \in Ops : Reject(c, o)
           \/ \E c \in Callers : \/ StartHealthCheck(c)
                                 \/ Answer(c)
                                 \/ ReturnUnrecorded(c)
           \/ OpenDurationElapses
           \/ BackendChanges
           \/ UNCHANGED vars
    PROVE  Inv'
<1> USE BreakerConstants DEF Inv, TypeOK, ClosedCountsStreak, States, Results,
        AllOps, breakerVars
<1>1. ASSUME NEW c \in Callers, NEW o \in Ops, Reject(c, o) PROVE Inv'
  BY <1>1 DEF Reject, SlotsCountProbes
<1>2. ASSUME NEW c \in Callers, StartHealthCheck(c) PROVE Inv'
  BY <1>2 DEF StartHealthCheck, SlotsCountProbes
<1>3. ASSUME NEW c \in Callers, Answer(c) PROVE Inv'
  <2>1. PICK r \in Results : pc' = [pc EXCEPT ![c] = r]
    BY <1>3 DEF Answer, ResultsOf, ExecuteResults, WriteResults, HealthResults
  <2> QED
    BY <1>3, <2>1 DEF Answer, SlotsCountProbes
<1>4. ASSUME NEW c \in Callers, ReturnUnrecorded(c) PROVE Inv'
  <2>0. /\ Cardinality(probes) \in Nat
        /\ Cardinality(probes \ {c}) <= Cardinality(probes)
        /\ Cardinality(probes \ {c}) \in Nat
    BY ProbeCount, probes \in SUBSET Callers,
       probes \ {c} \in SUBSET Callers
  <2>1. SlotsCountProbes'
    BY <1>4, <2>0 DEF ReturnUnrecorded, SlotsCountProbes
  <2> QED
    BY <1>4, <2>1 DEF ReturnUnrecorded
<1>5. CASE OpenDurationElapses
  BY <1>5 DEF OpenDurationElapses, SlotsCountProbes
<1>6. CASE BackendChanges
  BY <1>6 DEF BackendChanges, SlotsCountProbes
<1>7. CASE UNCHANGED vars
  BY <1>7 DEF vars, SlotsCountProbes
<1> QED
  BY <1>1, <1>2, <1>3, <1>4, <1>5, <1>6, <1>7

\* Inv is an invariant of the breaker and its callers.
THEOREM BreakerInv == Spec => []Inv
<1>1. Inv /\ [Next]_vars => Inv'
  BY AdmitInv, ReportSuccessInv, ReportFailureInv, OtherStepsInv
     DEF Next, SomeRequestAdmitted, SomeHealthCheck, FinishCall
<1> QED
  BY InitInv, <1>1, PTL DEF Spec

\* However callers interleave and however late results arrive, the counters
\* stay within their limits (circuit_breaker.go).
THEOREM BreakerTypeOK == Spec => []TypeOK
<1>1. Inv => TypeOK
  BY DEF Inv
<1> QED
  BY BreakerInv, <1>1, PTL

\* A CLOSED breaker's count is its streak of consecutive failures, below the
\* threshold (RecordSuccess and RecordFailure).
THEOREM BreakerCountsStreak == Spec => []ClosedCountsStreak
<1>1. Inv => ClosedCountsStreak
  BY DEF Inv
<1> QED
  BY BreakerInv, <1>1, PTL

\* A HALF_OPEN breaker never has more than HalfOpenMaxRequests probes of the
\* current period in flight (AllowRequest).
THEOREM BreakerProbesBounded == Spec => []ProbesBounded
<1>1. Inv => ProbesBounded
  <2> SUFFICES ASSUME Inv PROVE ProbesBounded
    OBVIOUS
  <2>1. Cardinality(probes) \in Nat
    BY FS_Subset, FS_CardinalityType, BreakerConstants DEF Inv, TypeOK
  <2> QED
    BY <2>1, BreakerConstants
       DEF Inv, TypeOK, SlotsCountProbes, ProbesBounded
<1> QED
  BY BreakerInv, <1>1, PTL

\* Only the passing of OpenDuration ends an OPEN period (AllowRequest,
\* RecordSuccess, RecordFailure).
THEOREM BreakerOpenIsSticky == Spec => OpenIsSticky
<1>1. Inv /\ [Next]_vars =>
        [state = "OPEN" => IF state' = "OPEN" THEN cooled => cooled'
                           ELSE cooled /\ state' = "HALF_OPEN"]_vars
  BY DEF Inv, TypeOK, States, Next, SomeRequestAdmitted, SomeHealthCheck,
     FinishCall, Admit, AllowRequest, AllowClosed, AllowOpen, AllowHalfOpen,
     Reject, StartHealthCheck, Answer, ReportSuccess, ReportFailure,
     ReturnUnrecorded, RecordSuccess, RecordFailure, OpenDurationElapses,
     BackendChanges, breakerVars, vars
<1> QED
  BY BreakerInv, <1>1, PTL DEF Spec, OpenIsSticky
=============================================================================
