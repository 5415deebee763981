-------------------------- MODULE HttpServerProofs --------------------------
(***************************************************************************)
(* The fallback limiter's probes, the token buckets of both rate limiters, *)
(* the request chain with the shutdown, and the limiter of failed          *)
(* authentications, for any callers, keys, instances, clocks that agree    *)
(* within the window, connections, sites, addresses and durations.         *)
(***************************************************************************)
EXTENDS HttpServer, CountingFacts

-----------------------------------------------------------------------------
(* The fallback limiter                                                    *)

\* A step of one caller of Allow keeps the invariant.
LEMMA AllowStepInv ==
    ASSUME Inv, NEW c \in Callers, AllowStep(c)
    PROVE  Inv'
<1> USE LimiterConstants DEF Inv, TypeOK, CallerStates, ProbeStates,
        AtMostOneProbe, UsedOnceHasProbe
<1>1. CASE LoadFlag(c)
  BY <1>1 DEF LoadFlag
<1>2. CASE PrimarySucceeds(c)
  BY <1>2 DEF PrimarySucceeds
<1>3. CASE PrimaryFails(c)
  BY <1>3 DEF PrimaryFails
<1>4. CASE Degrade(c)
  BY <1>4 DEF Degrade
<1>5. CASE StartRecoveryProbe(c)
  <2>1. CASE onceDone
    BY <1>5, <2>1 DEF StartRecoveryProbe
  <2>2. CASE ~onceDone
    <3>1. \A q \in Probes : probePc[q] = "off"
      BY <2>2
    <3>2. PICK p \in Probes : probePc' = [probePc EXCEPT ![p] = "waiting"]
      BY <1>5, <2>2 DEF StartRecoveryProbe
    <3>3. onceDone' = TRUE
      BY <1>5, <2>2 DEF StartRecoveryProbe
    <3>4. probePc'[p] = "waiting" /\ \A q \in Probes : q # p => probePc'[q] = "off"
      BY <3>1, <3>2
    <3>5. AtMostOneProbe' /\ UsedOnceHasProbe'
      BY <3>4
    <3>6. TypeOK'
      BY <1>5, <3>2, <3>3 DEF StartRecoveryProbe
    <3> QED
      BY <3>3, <3>5, <3>6
  <2> QED
    BY <2>1, <2>2
<1>6. CASE FallbackAllow(c)
  BY <1>6 DEF FallbackAllow
<1> QED
  BY <1>1, <1>2, <1>3, <1>4, <1>5, <1>6 DEF AllowStep

\* A step of a probe goroutine keeps the invariant.
LEMMA ProbeStepInv ==
    ASSUME Inv, NEW p \in Probes, ProbeStep(p)
    PROVE  Inv'
<1> USE LimiterConstants DEF Inv, TypeOK, CallerStates, ProbeStates,
        AtMostOneProbe, UsedOnceHasProbe
<1>1. CASE ProbePing(p)
  BY <1>1 DEF ProbePing
<1>2. CASE ProbeSwitchBack(p)
  BY <1>2 DEF ProbeSwitchBack
<1>3. CASE ProbeResetOnce(p)
  <2>1. \A q \in Probes : probePc'[q] = "off"
    BY <1>3 DEF ProbeResetOnce
  <2> QED
    BY <1>3, <2>1 DEF ProbeResetOnce
<1>4. CASE ProbeStops(p)
  BY <1>4 DEF ProbeStops
<1> QED
  BY <1>1, <1>2, <1>3, <1>4 DEF ProbeStep

\* The limiter starts within its invariant.
LEMMA LimiterInitInv == Init => Inv
<1> SUFFICES ASSUME Init PROVE Inv
  OBVIOUS
<1>1. /\ useFallback \in BOOLEAN /\ onceDone \in BOOLEAN
      /\ stopped \in BOOLEAN /\ redisUp \in BOOLEAN
  BY Zenon DEF Init, NewFallbackRateLimiter
<1>2. /\ pc \in [Callers -> CallerStates]
      /\ probePc \in [Probes -> ProbeStates]
      /\ outages \in 0 .. MaxOutages
  BY LimiterConstants DEF Init, CallerStates, ProbeStates
<1>3. /\ \A p \in Probes : probePc[p] = "off"
      /\ ~onceDone
  BY DEF Init, NewFallbackRateLimiter
<1> QED
  BY <1>1, <1>2, <1>3 DEF Inv, TypeOK, AtMostOneProbe, UsedOnceHasProbe

\* Every step of it keeps the invariant.
LEMMA LimiterNextInv == Inv /\ [Next]_vars => Inv'
<1> SUFFICES ASSUME Inv, [Next]_vars PROVE Inv'
  OBVIOUS
<1> USE LimiterConstants DEF Inv, TypeOK, AtMostOneProbe, UsedOnceHasProbe
<1>1. CASE Stop
  <2>1. stopped' \in BOOLEAN
    BY <1>1, Zenon DEF Stop
  <2> QED
    BY <1>1, <2>1 DEF Stop
<1>2. CASE RedisFails
  <2>1. redisUp' \in BOOLEAN
    BY <1>2, Zenon DEF RedisFails
  <2>2. outages' \in 0 .. MaxOutages
    BY <1>2 DEF RedisFails
  <2> QED
    BY <1>2, <2>1, <2>2 DEF RedisFails
<1>3. CASE RedisReturns
  <2>1. redisUp' \in BOOLEAN
    BY <1>3, Zenon DEF RedisReturns
  <2> QED
    BY <1>3, <2>1 DEF RedisReturns
<1>4. CASE UNCHANGED vars
  BY <1>4 DEF vars
<1> HIDE DEF Inv
<1> QED
  BY <1>1, <1>2, <1>3, <1>4, AllowStepInv, ProbeStepInv DEF Next

\* Inv is an invariant of the limiter.
THEOREM LimiterInv == Spec => []Inv
BY LimiterInitInv, LimiterNextInv, PTL DEF Spec

\* At most one recovery probe runs at a time, for any number of requests
\* degrading concurrently (startRecoveryProbe, runProbe).
THEOREM LimiterOneProbe == Spec => []AtMostOneProbe
<1>1. Inv => AtMostOneProbe
  BY DEF Inv
<1> QED
  BY LimiterInv, <1>1, PTL

\* The Once is never used up without a probe that will renew it
\* (startRecoveryProbe, runProbe).
THEOREM LimiterOnceHasProbe == Spec => []UsedOnceHasProbe
<1>1. Inv => UsedOnceHasProbe
  BY DEF Inv
<1> QED
  BY LimiterInv, <1>1, PTL

-----------------------------------------------------------------------------
(* The token buckets implement GrantBudget, with any clocks that agree    *)
(* within the window.                                                      *)

\* A reading of the clock in whole seconds is less than a second late.
LEMMA WholeSeconds ==
    ASSUME NEW x \in Nat, NEW s \in Nat \ {0}
    PROVE  /\ (x \div s) * s \in Nat
           /\ (x \div s) * s <= x
           /\ x <= (x \div s) * s + s - 1
  OBVIOUS

\* An instance's clock is between a second behind and Spread ahead.
LEMMA ClockBounds ==
    ASSUME BucketTypeOK, NEW i \in Instances
    PROVE  /\ Clock(i) \in Nat
           /\ Clock(i) <= now + Spread
           /\ now <= Clock(i) + Second - 1
<1>1. Skew[i] \in 0 .. Spread /\ Spread \in Nat /\ Second \in Nat \ {0} /\ now \in Nat
  BY BucketConstants DEF BucketTypeOK
<1>2. now + Skew[i] \in Nat /\ now + Skew[i] <= now + Spread
  BY <1>1
<1>3. /\ Clock(i) \in Nat
      /\ Clock(i) <= now + Skew[i]
      /\ now + Skew[i] <= Clock(i) + Second - 1
  BY <1>1, <1>2, WholeSeconds, Zenon DEF Clock
<1> QED
  BY <1>1, <1>2, <1>3

\* What is stored about a bucket: it holds at most a window, and it was not
\* written later than its last request, up to the lead of the fastest clock.
BucketInv ==
    /\ BucketTypeOK
    /\ \A k \in live :
          /\ tok[k] <= Window
          /\ seen[k] <= now
          /\ last[k] <= seen[k] + (IF kind = "local" THEN 0 ELSE Spread)

\* No bucket is stored at the start.
LEMMA BucketInvInit == BucketInit => BucketInv
  BY BucketConstants DEF BucketInit, BucketInv, BucketTypeOK

\* A refilled bucket holds at most a window.
LEMMA AdvancedBounds ==
    ASSUME BucketInv, kind = "local", NEW k \in live
    PROVE  Advanced(k, now) \in Nat /\ Advanced(k, now) <= Window
  BY BucketConstants DEF BucketInv, BucketTypeOK, Advanced, Least

\* Whichever instance's clock refills it.
LEMMA RefilledBounds ==
    ASSUME BucketInv, kind = "distributed", NEW k \in Keys, NEW i \in Instances
    PROVE  Refilled(i, k) \in Nat /\ Refilled(i, k) <= Window
  BY BucketConstants, ClockBounds DEF BucketInv, BucketTypeOK, Refilled, Stored, Least

\* What is read as the last refill is no later than the fastest clock.
LEMMA LastRefillBounds ==
    ASSUME BucketInv, kind = "distributed", NEW k \in Keys, NEW i \in Instances
    PROVE  LastRefill(i, k) \in Nat /\ LastRefill(i, k) <= now + Spread
  BY BucketConstants, ClockBounds DEF BucketInv, BucketTypeOK, LastRefill, Stored

\* Requests cost whole units.
LEMMA CostIsNat == \A n \in Counts : Cost(n) \in Nat
  BY BucketConstants DEF Cost

\* The local limiter's step: it asks one key, new or known.
LEMMA AllowLocalInv ==
    ASSUME BucketInv, NEW k \in Keys, NEW n \in Counts, AllowLocal(k, n)
    PROVE  BucketInv'
<1> USE BucketConstants, CostIsNat DEF BucketInv, BucketTypeOK
<1> kind = "local" /\ UNCHANGED <<kind, now>>
  BY DEF AllowLocal
<1>1. CASE AllowNewKey(k, n)
  BY <1>1 DEF AllowNewKey, AllowN
<1>2. CASE AllowKnownKey(k, n)
  <2>1. Advanced(k, now) \in Nat /\ Advanced(k, now) <= Window
    BY <1>2, AdvancedBounds DEF AllowKnownKey
  <2> QED
    BY <1>2, <2>1 DEF AllowKnownKey, AllowN
<1>3. CASE RefuseNewKey(k)
  BY <1>3 DEF RefuseNewKey
<1> QED
  BY <1>1, <1>2, <1>3 DEF AllowLocal

\* The script keeps the invariant, whichever instance sends it.
LEMMA AllowDistributedInv ==
    ASSUME BucketInv, NEW i \in Instances, NEW k \in Keys, NEW n \in Counts,
           AllowDistributed(i, k, n)
    PROVE  BucketInv'
<1> USE BucketConstants, CostIsNat DEF BucketInv, BucketTypeOK
<1>1. /\ Refilled(i, k) \in Nat /\ Refilled(i, k) <= Window
      /\ LastRefill(i, k) \in Nat /\ LastRefill(i, k) <= now + Spread
  BY RefilledBounds, LastRefillBounds DEF AllowDistributed
<1> QED
  BY <1>1 DEF AllowDistributed

\* Every step keeps BucketInv.
LEMMA BucketInvNext == BucketInv /\ [BucketNext]_bucketVars => BucketInv'
<1> SUFFICES ASSUME BucketInv, [BucketNext]_bucketVars PROVE BucketInv'
  OBVIOUS
<1>1. CASE Cleanup
  BY <1>1 DEF Cleanup, BucketInv, BucketTypeOK
<1>2. CASE FlushDB
  BY <1>2 DEF FlushDB, BucketInv, BucketTypeOK
<1>3. CASE Tick
  BY <1>3 DEF Tick, BucketInv, BucketTypeOK
<1>4. CASE UNCHANGED bucketVars
  BY <1>4 DEF bucketVars, BucketInv, BucketTypeOK
<1> QED
  BY <1>1, <1>2, <1>3, <1>4, AllowLocalInv, AllowDistributedInv DEF BucketNext

\* Buckets stay as they are described (Allow, tokenBucketScript, cleanup).
THEOREM BucketInvariant == BucketSpec => []BucketInv
  BY BucketInvInit, BucketInvNext, PTL DEF BucketSpec

-----------------------------------------------------------------------------
(* The local limiter implements GrantBudget.                               *)

\* In the other mode the local budget stands still and full.
LEMMA LocalIdle ==
    ASSUME BucketInv, kind = "distributed", kind' = kind, now' = now
    PROVE  UNCHANGED Local!budget
  BY DEF Local!budget, LocalLevel, LocalGrants

\* The budget pays for what Allow grants, and a refusal costs nothing.
LEMMA LocalAllow ==
    ASSUME BucketInv, NEW k \in Keys, NEW n \in Counts, AllowLocal(k, n)
    PROVE  Local!BudgetNext \/ UNCHANGED Local!budget
<1> USE BucketConstants, CostIsNat DEF BucketInv, BucketTypeOK
<1>0. kind = "local" /\ UNCHANGED <<kind, now>>
  BY DEF AllowLocal
<1> DEFINE c == Cost(n)
           before == IF k \in live THEN Advanced(k, now) ELSE Window
<1>1. c \in Nat /\ c \in {Cost(m) : m \in Counts}
  BY DEF c
<1>2. before \in Nat /\ before <= Window /\ LocalLevel[k] = before
  BY <1>0, AdvancedBounds DEF LocalLevel
<1>3. CASE UNCHANGED <<live, tok, last, grants>>
  BY <1>0, <1>3 DEF Local!budget, LocalLevel, LocalGrants, Advanced
<1>4. CASE /\ live' = live \cup {k} /\ UNCHANGED grants /\ k \notin live
           /\ tok' = [tok EXCEPT ![k] = Window] /\ last' = [last EXCEPT ![k] = now]
  <2>1. LocalLevel' = LocalLevel
    BY <1>0, <1>4 DEF LocalLevel, Advanced, Least
  <2> QED
    BY <1>0, <1>4, <2>1 DEF Local!budget, LocalGrants
<1>5. CASE /\ c <= before
           /\ live' = live \cup {k}
           /\ tok' = [tok EXCEPT ![k] = before - c]
           /\ last' = [last EXCEPT ![k] = now]
           /\ grants' = [grants EXCEPT ![k] = grants[k] + c]
  <2>1. LocalLevel'[k] = before - c
    BY <1>0, <1>1, <1>2, <1>5 DEF LocalLevel, Advanced, Least
  <2>2. LocalLevel' = [LocalLevel EXCEPT ![k] = LocalLevel'[k]]
    BY <1>0, <1>5 DEF LocalLevel, Advanced
  <2>3. LocalGrants' = [LocalGrants EXCEPT ![k] = LocalGrants[k] + c]
    BY <1>0, <1>5 DEF LocalGrants
  <2>4. Local!Grant(k, c)
    BY <1>0, <1>1, <1>2, <1>5, <2>1, <2>2, <2>3 DEF Local!Grant
  <2> QED
    BY <1>1, <2>4 DEF Local!BudgetNext
<1>6. \/ UNCHANGED <<live, tok, last, grants>>
      \/ /\ live' = live \cup {k} /\ UNCHANGED grants /\ k \notin live
         /\ tok' = [tok EXCEPT ![k] = Window] /\ last' = [last EXCEPT ![k] = now]
      \/ /\ c <= before
         /\ live' = live \cup {k}
         /\ tok' = [tok EXCEPT ![k] = before - c]
         /\ last' = [last EXCEPT ![k] = now]
         /\ grants' = [grants EXCEPT ![k] = grants[k] + c]
  <2>1. CASE AllowNewKey(k, n)
    BY <2>1 DEF AllowNewKey, AllowN
  <2>2. CASE AllowKnownKey(k, n)
    BY <2>2 DEF AllowKnownKey, AllowN
  <2>3. CASE RefuseNewKey(k)
    BY <2>3 DEF RefuseNewKey
  <2> QED
    BY <2>1, <2>2, <2>3 DEF AllowLocal
<1> HIDE DEF c, before
<1> QED
  BY <1>3, <1>4, <1>5, <1>6

\* An idle bucket that is forgotten was full.
LEMMA LocalCleanup ==
    ASSUME BucketInv, Cleanup
    PROVE  UNCHANGED Local!budget
<1> USE BucketConstants DEF BucketInv, BucketTypeOK
<1>1. ASSUME NEW k \in live, Idle(k)
      PROVE  Advanced(k, now) = Window
  BY <1>1 DEF Cleanup, Idle, IdleTime, Advanced, Least
<1>2. LocalLevel' = LocalLevel
  BY <1>1 DEF Cleanup, LocalLevel, Advanced
<1> QED
  BY <1>2 DEF Cleanup, Local!budget, LocalGrants

\* A tick refills a key by one unit, up to the window.
LEMMA LocalTick ==
    ASSUME BucketInv, Tick
    PROVE  Local!BudgetNext
<1> USE BucketConstants DEF BucketInv, BucketTypeOK
<1>1. ASSUME NEW k \in Keys
      PROVE  LocalLevel'[k] = IF LocalLevel[k] + 1 > Window THEN Window
                                                            ELSE LocalLevel[k] + 1
  BY DEF Tick, LocalLevel, Advanced, Least
<1>2. LocalLevel' = [k \in Keys |-> LocalLevel'[k]]
  BY DEF LocalLevel
<1>3. LocalGrants' = LocalGrants /\ now' = now + 1
  BY DEF Tick, LocalGrants
<1> QED
  BY <1>1, <1>2, <1>3 DEF Local!BudgetNext, Local!Refill

\* The budget starts full, ...
LEMMA LocalBudgetInit == BucketInit => Local!BudgetInit
  BY DEF BucketInit, Local!BudgetInit, LocalLevel, LocalGrants

\* ... and each step of the buckets is one of the budget, or none.
LEMMA LocalBudgetStep ==
    BucketInv /\ [BucketNext]_bucketVars => [Local!BudgetNext]_(Local!budget)
<1> SUFFICES ASSUME BucketInv, [BucketNext]_bucketVars
             PROVE  Local!BudgetNext \/ UNCHANGED Local!budget
  OBVIOUS
<1>1. ASSUME NEW i \in Instances, NEW k \in Keys, NEW n \in Counts,
             AllowDistributed(i, k, n)
      PROVE  UNCHANGED Local!budget
  BY <1>1, LocalIdle DEF AllowDistributed
<1>2. CASE FlushDB
  BY <1>2, LocalIdle DEF FlushDB
<1>3. CASE UNCHANGED bucketVars
  BY <1>3 DEF bucketVars, Local!budget, LocalLevel, LocalGrants, Advanced
<1> QED
  BY <1>1, <1>2, <1>3, LocalAllow, LocalCleanup, LocalTick DEF BucketNext

\* KeyedRateLimiter never grants a key more than its budget.
THEOREM LocalBudget == BucketSpec => LocalKeepsBudget
  BY LocalBudgetInit, LocalBudgetStep, BucketInvariant, PTL
     DEF BucketSpec, LocalKeepsBudget, Local!BudgetSpec

-----------------------------------------------------------------------------
(* The shared buckets implement GrantBudget, with the difference of the    *)
(* clocks added to the capacity.                                           *)

\* In the other mode the shared budget stands still and full.
LEMMA SharedIdle ==
    ASSUME BucketInv, kind = "local", kind' = kind, now' = now
    PROVE  UNCHANGED Shared!budget
  BY DEF Shared!budget, SharedLevel, SharedGrants

\* The script's step: the budget pays for the tokens it takes, and what it
\* writes back is worth no more than before, whichever clock it was given.
LEMMA SharedAllow ==
    ASSUME BucketInv, NEW i \in Instances, NEW k \in Keys, NEW n \in Counts,
           AllowDistributed(i, k, n)
    PROVE  Shared!BudgetNext
<1> USE BucketConstants, CostIsNat DEF BucketInv, BucketTypeOK
<1>0. kind = "distributed" /\ UNCHANGED <<kind, now>>
  BY DEF AllowDistributed
<1> DEFINE c == Cost(n)
           r == Refilled(i, k)
           l == LastRefill(i, k)
           worth == r + (now + Spread - l)
<1>1. c \in Nat /\ c \in {Cost(m) : m \in Counts}
  BY DEF c
<1>2. /\ r \in Nat /\ r <= Window
      /\ l \in Nat /\ l <= now + Spread
  BY <1>0, RefilledBounds, LastRefillBounds DEF r, l
<1>3. worth <= SharedLevel[k] /\ worth \in Nat
  <2>1. Clock(i) \in Nat /\ Clock(i) <= now + Spread /\ now <= Clock(i) + Second - 1
    BY ClockBounds
  <2>2. CASE ~Stored(k)
    BY <1>0, <2>1, <2>2 DEF SharedLevel, Refilled, LastRefill, Slack
  <2>3. CASE Stored(k) /\ Clock(i) <= last[k]
    <3>1. SharedLevel[k] = Least(Window + Slack, tok[k] + (now + Spread - last[k]))
      BY <1>0, <2>3 DEF SharedLevel
    <3>2. r = tok[k] /\ l = last[k] /\ k \in live
      BY <2>1, <2>3 DEF r, l, Refilled, LastRefill, Stored
    <3> QED
      BY <2>1, <2>3, <3>1, <3>2 DEF Least, Slack
  <2>4. CASE Stored(k) /\ Clock(i) > last[k]
    <3>1. SharedLevel[k] = Least(Window + Slack, tok[k] + (now + Spread - last[k]))
      BY <1>0, <2>4 DEF SharedLevel
    <3>2. /\ r = Least(Window, tok[k] + (Clock(i) - last[k])) /\ l = Clock(i)
          /\ k \in live
      BY <2>1, <2>4 DEF r, l, Refilled, LastRefill, Stored
    <3> QED
      BY <2>1, <2>4, <3>1, <3>2 DEF Least, Slack
  <2> QED
    BY <2>1, <2>2, <2>3, <2>4
<1>4. Stored(k)' /\ \A j \in Keys : j # k => Stored(j)' = Stored(j)
  <2>1. Ttl \in Nat /\ Ttl > 0
    BY TtlOutlastsWindow DEF Slack
  <2> QED
    BY <1>0, <2>1 DEF AllowDistributed, Stored
<1>5. SharedLevel' = [SharedLevel EXCEPT ![k] = SharedLevel'[k]]
  BY <1>0, <1>4 DEF AllowDistributed, SharedLevel
<1>6. SharedLevel'[k] = Least(Window + Slack, tok'[k] + (now + Spread - l))
  BY <1>0, <1>4 DEF AllowDistributed, SharedLevel
<1>7. CASE c <= r
  <2>1. tok'[k] = r - c
    BY <1>7 DEF AllowDistributed
  <2>2. SharedLevel'[k] + c <= SharedLevel[k] /\ 0 <= SharedLevel'[k]
    <3>1. Least(Window + Slack, r - c + (now + Spread - l)) <= worth - c
      BY <1>1, <1>2, <1>3, <1>7 DEF Least, Slack, worth
    <3>2. 0 <= Least(Window + Slack, r - c + (now + Spread - l))
      <4>1. 0 <= Window + Slack /\ Window + Slack \in Int
        BY DEF Slack
      <4> HIDE DEF c, r, l
      <4>2. 0 <= r - c + (now + Spread - l) /\ r - c + (now + Spread - l) \in Int
        BY <1>1, <1>2, <1>7
      <4> QED
        BY <4>1, <4>2 DEF Least
    <3>3. SharedLevel[k] \in Int /\ SharedLevel'[k] \in Int
      BY <1>0, <1>1, <1>2, <1>6, <2>1 DEF SharedLevel, Least, Slack
    <3> HIDE DEF c, r, l, worth
    <3> QED
      BY <1>1, <1>3, <1>6, <2>1, <3>1, <3>2, <3>3
  <2>3. SharedGrants' = [SharedGrants EXCEPT ![k] = SharedGrants[k] + c]
    BY <1>0, <1>7 DEF AllowDistributed, SharedGrants
  <2>4. Shared!Grant(k, c)
    BY <1>0, <1>5, <2>2, <2>3 DEF Shared!Grant
  <2> QED
    BY <1>1, <2>4 DEF Shared!BudgetNext
<1>8. CASE ~(c <= r)
  <2>1. tok'[k] = r /\ grants' = grants
    BY <1>8 DEF AllowDistributed
  <2>2. SharedLevel'[k] <= SharedLevel[k]
    <3>1. Least(Window + Slack, r + (now + Spread - l)) <= worth
      BY <1>2, <1>3 DEF Least, Slack, worth
    <3>3. SharedLevel[k] \in Int /\ SharedLevel'[k] \in Int
      BY <1>0, <1>1, <1>2, <1>6, <2>1 DEF SharedLevel, Least, Slack
    <3> HIDE DEF c, r, l, worth
    <3> QED
      BY <1>3, <1>6, <2>1, <3>1, <3>3
  <2>3. SharedGrants' = SharedGrants
    BY <1>0, <2>1 DEF SharedGrants
  <2>4. Shared!Lose(k)
    BY <1>0, <1>5, <2>2, <2>3 DEF Shared!Lose
  <2> QED
    BY <2>4 DEF Shared!BudgetNext
<1> QED
  BY <1>7, <1>8

\* FlushDB gives every key a new budget.
LEMMA SharedFlush ==
    ASSUME BucketInv, FlushDB
    PROVE  Shared!BudgetNext
<1>1. SharedLevel' = [k \in Keys |-> Window + Slack]
  BY DEF FlushDB, SharedLevel, Stored
<1>2. SharedGrants' = [k \in Keys |-> 0]
  BY DEF FlushDB, SharedGrants
<1> QED
  BY <1>1, <1>2 DEF FlushDB, Shared!BudgetNext, Shared!Reset, Shared!BudgetInit

\* Time refills the budget, and a bucket whose ttl ends was full by then.
LEMMA SharedTick ==
    ASSUME BucketInv, Tick
    PROVE  Shared!BudgetNext
<1> USE BucketConstants DEF BucketInv, BucketTypeOK
<1>1. ASSUME NEW k \in Keys
      PROVE  SharedLevel'[k] = IF SharedLevel[k] + 1 > Window + Slack
                               THEN Window + Slack ELSE SharedLevel[k] + 1
  <2>0. /\ now' = now + 1
        /\ UNCHANGED <<kind, live, tok, last, seen, grants>>
        /\ Slack \in Nat /\ Ttl \in Nat /\ Window + Slack <= Ttl
    BY TtlOutlastsWindow DEF Tick, Slack
  <2>1. CASE kind = "distributed" /\ Stored(k) /\ Stored(k)'
    BY <2>0, <2>1 DEF SharedLevel, Least, Stored
  <2>2. CASE kind = "distributed" /\ Stored(k) /\ ~Stored(k)'
    <3>1. k \in live /\ now + 1 - seen[k] >= Ttl
      BY <2>0, <2>2 DEF Stored
    <3>2. now + Spread - last[k] + 1 >= Window + Slack
      <4>1. /\ last[k] \in Nat /\ seen[k] \in Nat /\ now \in Nat
            /\ last[k] <= seen[k] + Spread
        BY <2>2, <3>1
      <4>2. Spread \in Nat /\ Window + Slack \in Nat /\ Ttl \in Nat
        BY <2>0
      <4> QED
        BY ONLY <2>0, <3>1, <4>1, <4>2
    <3> DEFINE full == Window + Slack
               rest == tok[k] + (now + Spread - last[k])
    <3>3. SharedLevel'[k] = full /\ SharedLevel[k] = Least(full, rest)
      BY <2>0, <2>2 DEF SharedLevel
    <3>4. full \in Nat /\ rest \in Int /\ rest + 1 >= full
      BY <2>0, <3>1, <3>2
    <3> HIDE DEF full, rest
    <3> QED
      BY <3>3, <3>4 DEF Least, full
  <2>3. CASE ~(kind = "distributed" /\ Stored(k))
    <3>1. ~(kind' = "distributed" /\ Stored(k)')
      BY <2>0, <2>3 DEF Stored
    <3> QED
      BY <2>0, <2>3, <3>1 DEF SharedLevel
  <2> QED
    BY <2>1, <2>2, <2>3
<1>2. SharedLevel' = [k \in Keys |-> SharedLevel'[k]]
  BY DEF SharedLevel
<1>3. SharedGrants' = SharedGrants /\ now' = now + 1
  BY DEF Tick, SharedGrants
<1> QED
  BY <1>1, <1>2, <1>3 DEF Shared!BudgetNext, Shared!Refill

\* The budget starts full, ...
LEMMA SharedBudgetInit == BucketInit => Shared!BudgetInit
  BY DEF BucketInit, Shared!BudgetInit, SharedLevel, SharedGrants, Stored

\* ... and each step of the buckets is one of the budget, or none.
LEMMA SharedBudgetStep ==
    BucketInv /\ [BucketNext]_bucketVars => [Shared!BudgetNext]_(Shared!budget)
<1> SUFFICES ASSUME BucketInv, [BucketNext]_bucketVars
             PROVE  Shared!BudgetNext \/ UNCHANGED Shared!budget
  OBVIOUS
<1>1. ASSUME NEW k \in Keys, NEW n \in Counts, AllowLocal(k, n)
      PROVE  UNCHANGED Shared!budget
  BY <1>1, SharedIdle DEF AllowLocal
<1>2. CASE Cleanup
  BY <1>2, SharedIdle DEF Cleanup
<1>3. CASE UNCHANGED bucketVars
  BY <1>3 DEF bucketVars, Shared!budget, SharedLevel, SharedGrants, Stored
<1> QED
  BY <1>1, <1>2, <1>3, SharedAllow, SharedFlush, SharedTick DEF BucketNext

\* DistributedRateLimiter never grants a key more than its budget.
THEOREM SharedBudget == BucketSpec => SharedKeepsBudget
  BY SharedBudgetInit, SharedBudgetStep, BucketInvariant, PTL
     DEF BucketSpec, SharedKeepsBudget, Shared!BudgetSpec

-----------------------------------------------------------------------------
(* What the chain computes                                                 *)

\* Reading the header from its end stops where the chain of addresses leaves
\* the proxies.
LEMMA ClientIPIsLastUntrusted ==
    ASSUME NEW r, HeaderGet(r) \in Seq(ToSet(HeaderGet(r)))
    PROVE  ExtractClientIP(r) = LastUntrusted(r)
<1> DEFINE f == HeaderGet(r)
           chain == Append(f, r.remote)
           inner == {i \in DOMAIN f : ~isTrusted(f[i])}
           hops == {i \in DOMAIN chain : ~isTrusted(chain[i])}
<1>1. /\ Len(f) \in Nat /\ DOMAIN f = 1 .. Len(f)
      /\ DOMAIN chain = 1 .. Len(f) + 1
      /\ chain[Len(f) + 1] = r.remote
      /\ \A i \in 1 .. Len(f) : chain[i] = f[i]
  OBVIOUS
<1>2. /\ inner \in SUBSET Nat /\ IsFiniteSet(inner)
      /\ hops \in SUBSET Nat /\ IsFiniteSet(hops)
  <2>1. inner \subseteq 1 .. Len(f) /\ hops \subseteq 1 .. Len(f) + 1
    BY <1>1
  <2>2. IsFiniteSet(1 .. Len(f)) /\ IsFiniteSet(1 .. Len(f) + 1)
    BY <1>1, FS_Interval
  <2>3. inner \in SUBSET Nat /\ hops \in SUBSET Nat
    BY <1>1
  <2>4. IsFiniteSet(inner) /\ IsFiniteSet(hops)
    <3> HIDE DEF inner, hops, chain, f
    <3> QED
      BY <2>1, <2>2, FS_Subset
  <2> QED
    BY <2>3, <2>4
<1>3. CASE isTrusted(r.remote)
  <2>1. hops = inner
    BY <1>1, <1>3
  <2>2. inner # {} => Max(inner) \in inner
    BY <1>2, MaxIsLargest
  <2>3. inner # {} => chain[Max(inner)] = f[Max(inner)]
    BY <1>1, <2>2
  <2> QED
    BY <1>3, <2>1, <2>3 DEF ExtractClientIP, LastUntrusted
<1>4. CASE ~isTrusted(r.remote)
  <2>1. Len(f) + 1 \in hops
    BY <1>1, <1>4
  <2>2. Max(hops) \in hops /\ Max(hops) >= Len(f) + 1
    <3> HIDE DEF hops
    <3> QED
      BY <1>2, <2>1, MaxIsLargest
  <2>3. Max(hops) = Len(f) + 1
    <3>1. hops \subseteq 1 .. Len(f) + 1
      BY <1>1
    <3>2. Max(hops) \in 1 .. Len(f) + 1
      BY <2>2, <3>1, Zenon
    <3>3. \A n \in Nat : \A m \in 1 .. n + 1 : m >= n + 1 => m = n + 1
      OBVIOUS
    <3> HIDE DEF hops, f, chain
    <3> QED
      BY <1>1, <2>2, <3>2, <3>3, Zenon
  <2> QED
    BY <1>1, <1>4, <2>1, <2>3 DEF ExtractClientIP, LastUntrusted
<1> QED
  BY <1>3, <1>4

\* A document that is not too deep nests no more fields than the limit:
\* counting the levels of fragments too only makes it deeper.
LEMMA DepthCoversFields ==
    ASSUME NEW r, IsFiniteSet(r.selections), MaxDepth > 0, ~TooDeep(r),
           \A p \in r.selections : p \in Seq({"field", "inline", "spread"})
    PROVE  \A p \in r.selections : Cardinality(FieldsOf(p)) <= MaxDepth
<1> DEFINE depths == {selectionSetDepth(p) : p \in r.selections}
           all == {0} \cup depths
<1>1. all \in SUBSET Nat /\ all # {}
  BY DEF selectionSetDepth
<1>2. IsFiniteSet(all)
  <2>1. IsFiniteSet(depths)
    <3> DEFINE g == [p \in r.selections |-> selectionSetDepth(p)]
    <3>1. g \in Surjection(r.selections, depths)
      BY DEF Surjection
    <3> QED
      BY <3>1, FS_Surjection
  <2> HIDE DEF depths
  <2>2. IsFiniteSet(depths \cup {0})
    BY <2>1, FS_AddElement
  <2>3. all = depths \cup {0}
    OBVIOUS
  <2> QED
    BY <2>2, <2>3
<1>3. Max(all) \in Nat /\ \A n \in all : Max(all) >= n
  BY <1>1, <1>2, MaxIsLargest
<1>4. Max(all) <= MaxDepth
  BY <1>3, GatewayConstants DEF TooDeep, calcSelectionSetDepth
<1> SUFFICES ASSUME NEW p \in r.selections
             PROVE  Cardinality(FieldsOf(p)) <= MaxDepth
  OBVIOUS
<1>5. Len(p) \in Nat /\ DOMAIN p = 1 .. Len(p) /\ Len(p) \in all
  BY DEF selectionSetDepth
<1>6. FieldsOf(p) \subseteq 1 .. Len(p)
  BY <1>5 DEF FieldsOf
<1>7. Cardinality(FieldsOf(p)) <= Len(p) /\ Cardinality(FieldsOf(p)) \in Nat
  <2>1. IsFiniteSet(1 .. Len(p)) /\ Cardinality(1 .. Len(p)) = Len(p)
    BY <1>5, IntervalCardinality
  <2>2. IsFiniteSet(FieldsOf(p)) /\ Cardinality(FieldsOf(p)) <= Cardinality(1 .. Len(p))
    BY <1>6, <2>1, FS_Subset
  <2>3. Cardinality(FieldsOf(p)) \in Nat
    BY <2>2, FS_CardinalityType
  <2> QED
    BY <1>5, <2>1, <2>2, <2>3
<1> HIDE DEF all
<1> QED
  BY <1>3, <1>4, <1>5, <1>7, GatewayConstants

-----------------------------------------------------------------------------
(* The request chain and the shutdown                                      *)

\* Requests that neither take nor return a slot leave the count alone.
LEMMA SlotsKept ==
    ASSUME GatewayInv, sem' = sem, site' = site,
           \A d \in Conns : conn'[d].held = conn[d].held
    PROVE  SlotsAreAccountedFor'
<1>1. {d \in Conns : conn'[d].held} = {d \in Conns : conn[d].held}
  OBVIOUS
<1> QED
  BY <1>1 DEF GatewayInv, LimitsHold, SlotsAreAccountedFor

\* Keys stay right while no request comes to the rate limit.
LEMMA KeysStay ==
    ASSUME KeysFollowCallers, site' = site,
           \A d \in Conns : conn'[d].step = "limit" => conn'[d] = conn[d]
    PROVE  KeysFollowCallers'
<1> SUFFICES ASSUME NEW d \in Conns, conn'[d].step = "limit"
             PROVE  IF AuthRequired(conn[d].req)'
                    THEN conn'[d].key = <<conn'[d].who.method, conn'[d].who.subject>>
                    ELSE site'.extractor /\ Len(conn[d].req.forwarded)' <= 1 =>
                             conn'[d].key = <<"ip", LastUntrusted(conn[d].req)'>>
  BY DEF KeysFollowCallers
<1>1. conn'[d] = conn[d] /\ conn'[d].req = conn[d].req
  OBVIOUS
<1>2. AuthRequired(conn[d].req)' <=> AuthRequired(conn[d].req)
  BY <1>1 DEF AuthRequired, isPublicEndpoint
<1>3. LastUntrusted(conn[d].req)' = LastUntrusted(conn[d].req)
  BY <1>1, Zenon DEF LastUntrusted, HeaderGet, isTrusted
<1> QED
  BY <1>1, <1>2, <1>3 DEF KeysFollowCallers

\* One request moves on inside the chain, with the slot it has.
Moves(c) ==
    /\ conn[c].step # "idle"
    /\ UNCHANGED <<site, sem, phase, closed, forced>>
    /\ DOMAIN conn' = DOMAIN conn /\ DOMAIN conn'[c] = DOMAIN conn[c]
    /\ \A d \in Conns : d # c => conn'[d] = conn[d]
    /\ conn'[c].req = conn[c].req /\ conn'[c].held = conn[c].held

\* To the rate limit it brings the key of its caller, ...
ToLimit(c) ==
    /\ conn'[c].step = "limit" /\ conn'[c].answer = "none"
    /\ ~isPublicEndpoint(conn[c].req)
    /\ IF AuthRequired(conn[c].req)
       THEN conn'[c].key = <<conn'[c].who.method, conn'[c].who.subject>>
       ELSE site.extractor /\ Len(conn[c].req.forwarded) <= 1 =>
                conn'[c].key = <<"ip", LastUntrusted(conn[c].req)>>

\* ... and the answer it gets at the end is one the limits allow.
ToAnswer(c) ==
    /\ conn'[c].step = "answered"
    /\ conn'[c].answer = "closed" => closed
    /\ conn[c].req.method = "GET" /\ conn[c].req.path \in {"/health", "/ready"}
           => conn'[c].answer \in {"ok", "not ready"}
    /\ MaxDepth > 0 /\ conn'[c].answer \in {"ok", "failed", "timeout"}
       /\ conn[c].req.path = "/graphql" => ~TooDeep(conn[c].req)

\* A request that moves to one of these places keeps the invariant.
LEMMA RequestMoves ==
    ASSUME GatewayInv, NEW c \in Conns, Moves(c),
           \/ conn'[c].step \in {"inside", "routed"} /\ conn'[c].answer = "none"
           \/ ToLimit(c)
           \/ ToAnswer(c)
    PROVE  GatewayInv'
<1> USE DEF Moves, ToLimit, ToAnswer
<1>1. \A d \in Conns : conn'[d].held = conn[d].held
  OBVIOUS
<1>2. SlotsAreAccountedFor'
  BY <1>1, SlotsKept
<1>3. GatewayTypeOK'
  BY DEF GatewayInv, GatewayTypeOK
<1>4. WayIsKept'
  BY ZenonT(60) DEF GatewayInv, GatewayTypeOK, WayIsKept, isPublicEndpoint
<1>5. ShutdownIsOrdered'
  BY DEF GatewayInv, GatewayTypeOK, ShutdownIsOrdered, NothingOpen
<1>6. ProbesAreServed'
  BY DEF GatewayInv, LimitsHold, ProbesAreServed
<1>7. KeysFollowCallers'
  <2> SUFFICES ASSUME NEW d \in Conns, conn'[d].step = "limit"
               PROVE  IF AuthRequired(conn[d].req)'
                      THEN conn'[d].key = <<conn'[d].who.method, conn'[d].who.subject>>
                      ELSE site'.extractor /\ Len(conn[d].req.forwarded)' <= 1 =>
                               conn'[d].key = <<"ip", LastUntrusted(conn[d].req)'>>
    BY DEF KeysFollowCallers
  <2>1. conn'[d].req = conn[d].req
    OBVIOUS
  <2>2. AuthRequired(conn[d].req)' <=> AuthRequired(conn[d].req)
    BY <2>1 DEF AuthRequired, isPublicEndpoint
  <2>3. LastUntrusted(conn[d].req)' = LastUntrusted(conn[d].req)
    BY <2>1, Zenon DEF LastUntrusted, HeaderGet, isTrusted
  <2>4. CASE d = c
    BY <2>2, <2>3, <2>4
  <2>5. CASE d # c
    BY <2>2, <2>3, <2>5 DEF GatewayInv, LimitsHold, KeysFollowCallers
  <2> QED
    BY <2>4, <2>5
<1>8. DepthIsBounded'
  <2>1. MaxDepth > 0 /\ conn'[c].answer \in {"ok", "failed", "timeout"}
        /\ conn[c].req.path = "/graphql"
            => \A p \in conn[c].req.selections : Cardinality(FieldsOf(p)) <= MaxDepth
    <3>1. conn[c].req \in site.requests /\ site \in Sites
      BY DEF GatewayInv, GatewayTypeOK
    <3>2. /\ IsFiniteSet(conn[c].req.selections)
          /\ \A p \in conn[c].req.selections : p \in Seq({"field", "inline", "spread"})
      BY <3>1, GatewayConstants
    <3> QED
      BY <3>2, DepthCoversFields
  <2> QED
    BY <2>1 DEF GatewayInv, LimitsHold, DepthIsBounded
<1> QED
  BY <1>2, <1>3, <1>4, <1>5, <1>6, <1>7, <1>8 DEF GatewayInv, LimitsHold

\* Answer ends the way of a request and changes nothing else about it.
LEMMA AnswerMoves ==
    ASSUME GatewayTypeOK, NEW c \in Conns, NEW what, conn[c].step # "idle",
           conn' = Answer(c, what), UNCHANGED <<site, sem, phase, closed, forced>>
    PROVE  Moves(c) /\ conn'[c].step = "answered" /\ conn'[c].answer = what
BY DEF Moves, Answer, GatewayTypeOK

\* So does a step that only moves it on.
LEMMA StepMoves ==
    ASSUME GatewayTypeOK, NEW c \in Conns, NEW st, conn[c].step # "idle",
           conn' = [conn EXCEPT ![c].step = st],
           UNCHANGED <<site, sem, phase, closed, forced>>
    PROVE  Moves(c) /\ conn'[c].step = st /\ conn'[c].answer = conn[c].answer
BY DEF Moves, GatewayTypeOK

\* MaxConcurrentRequests: the request that takes a slot is one more inside.
LEMMA TakeSlotInv ==
    ASSUME GatewayInv, NEW c \in Conns, TakeSlot(c)
    PROVE  GatewayInv'
<1>a. GatewayTypeOK /\ WayIsKept /\ ShutdownIsOrdered /\ LimitsHold
  BY DEF GatewayInv
<1>b. conn[c].step = "arrived" /\ conn[c].answer = "none" /\ ~conn[c].held
  BY <1>a DEF TakeSlot, WayIsKept
<1>1. CASE Exempt(conn[c].req)
  <2>1. /\ conn' = [conn EXCEPT ![c].step = "inside"]
        /\ UNCHANGED <<site, sem, phase, closed, forced>>
    BY <1>1 DEF TakeSlot
  <2> QED
    BY <1>a, <1>b, <2>1, StepMoves, RequestMoves
<1>3. CASE ~Exempt(conn[c].req) /\ sem >= site.slots
  <2>1. /\ conn' = Answer(c, "capacity")
        /\ UNCHANGED <<site, sem, phase, closed, forced>>
    BY <1>a, <1>3, GatewayConstants DEF TakeSlot, GatewayTypeOK
  <2>2. Moves(c) /\ conn'[c].step = "answered" /\ conn'[c].answer = "capacity"
    BY <1>a, <1>b, <2>1, AnswerMoves
  <2>3. ToAnswer(c)
    BY <1>3, <2>2 DEF ToAnswer, Exempt, isPublicEndpoint, Public
  <2> QED
    BY <2>2, <2>3, RequestMoves
<1>2. CASE ~Exempt(conn[c].req) /\ sem < site.slots
  <2>1. /\ conn' = [conn EXCEPT ![c] = [@ EXCEPT !.step = "inside", !.held = TRUE]]
        /\ sem' = sem + 1 /\ UNCHANGED <<site, phase, closed, forced>>
    BY <1>a, <1>2, GatewayConstants DEF TakeSlot, GatewayTypeOK
  <2> DEFINE H == {d \in Conns : conn[d].held}
  <2>2. /\ c \notin H /\ IsFiniteSet(H) /\ sem = Cardinality(H)
        /\ {d \in Conns : conn'[d].held} = H \cup {c}
    <3>1. IsFiniteSet(H)
      BY GatewayConstants, FS_Subset
    <3> QED
      BY <1>a, <1>b, <2>1, <3>1 DEF LimitsHold, SlotsAreAccountedFor, GatewayTypeOK
  <2>3. sem' = Cardinality({d \in Conns : conn'[d].held})
    <3>1. Cardinality(H \cup {c}) = Cardinality(H) + 1
      BY <2>2, FS_AddElement
    <3> QED
      BY <2>1, <2>2, <3>1
  <2>4. SlotsAreAccountedFor'
    BY <1>a, <1>2, <2>1, <2>3, GatewayConstants DEF SlotsAreAccountedFor, GatewayTypeOK
  <2>5. GatewayTypeOK'
    <3>1. /\ DOMAIN conn' = Conns /\ DOMAIN conn'[c] = DOMAIN conn[c]
          /\ conn'[c].step = "inside" /\ conn'[c].req = conn[c].req
          /\ conn'[c].held = TRUE
          /\ \A d \in Conns : d # c => conn'[d] = conn[d]
      BY <1>a, <2>1 DEF GatewayTypeOK
    <3>2. conn'[c].held \in BOOLEAN
      BY <3>1, Zenon
    <3>3. \A d \in Conns :
              /\ DOMAIN conn'[d] = {"step", "req", "held", "who", "key", "answer"}
              /\ conn'[d].step \in {"idle", "arrived", "inside", "limit", "routed",
                                    "answered"}
              /\ conn'[d].step # "idle" => conn'[d].req \in site.requests
      BY <1>a, <1>b, <3>1 DEF GatewayTypeOK
    <3>4. \A d \in Conns : conn'[d].held \in BOOLEAN
      BY <1>a, <3>1, <3>2, Zenon DEF GatewayTypeOK
    <3>5. sem' \in Nat
      BY <1>a, <2>1 DEF GatewayTypeOK
    <3> QED
      BY <1>a, <2>1, <3>1, <3>3, <3>4, <3>5 DEF GatewayTypeOK
  <2>6. WayIsKept' /\ ShutdownIsOrdered'
    BY <1>a, <1>b, <2>1 DEF GatewayTypeOK, WayIsKept, ShutdownIsOrdered, NothingOpen,
                            isPublicEndpoint
  <2>7. ProbesAreServed' /\ DepthIsBounded'
    BY <1>a, <1>b, <2>1, ZenonT(60)
       DEF GatewayTypeOK, LimitsHold, ProbesAreServed, DepthIsBounded
  <2>8. KeysFollowCallers'
    <3>1. \A d \in Conns : conn'[d].step = "limit" => conn'[d] = conn[d]
      BY <1>a, <2>1 DEF GatewayTypeOK
    <3> QED
      BY <1>a, <2>1, <3>1, KeysStay DEF LimitsHold
  <2> QED
    BY <2>4, <2>5, <2>6, <2>7, <2>8 DEF GatewayInv, LimitsHold
<1> QED
  BY <1>a, <1>1, <1>2, <1>3, GatewayConstants DEF GatewayTypeOK

\* The middleware and the handlers between the slot and the answer.
LEMMA ChainStepInv ==
    ASSUME GatewayInv, NEW c \in Conns,
           \/ StopRequest(c) \/ RefuseUnknown(c) \/ PassGuards(c)
           \/ RateLimit(c) \/ Serve(c) \/ HandlerPanics(c)
    PROVE  GatewayInv'
<1> DEFINE r == conn[c].req
           Probe == r.method = "GET" /\ r.path \in {"/health", "/ready"}
<1>a. GatewayTypeOK /\ WayIsKept
  BY DEF GatewayInv
<1>b. conn[c].step \in {"inside", "limit", "routed"} /\ conn[c].answer = "none"
      /\ UNCHANGED <<site, sem, phase, closed, forced>>
  BY <1>a DEF StopRequest, RefuseUnknown, PassGuards, RateLimit, Serve, HandlerPanics,
              WayIsKept
<1>c. ASSUME NEW what, conn' = Answer(c, what), what = "closed" => closed,
             Probe => what \in {"ok", "not ready"},
             what \in {"ok", "failed", "timeout"} /\ r.path = "/graphql" => ~TooDeep(r)
      PROVE  GatewayInv'
  <2>1. Moves(c) /\ conn'[c].step = "answered" /\ conn'[c].answer = what
    BY <1>a, <1>b, <1>c, AnswerMoves
  <2>2. ToAnswer(c)
    BY <1>c, <2>1 DEF ToAnswer
  <2> QED
    BY <2>1, <2>2, RequestMoves
<1>1. CASE StopRequest(c)
  <2>1. Stopped(r) \in {"preflight", "forbidden", "unsupported"} /\ ~Probe
    BY <1>1 DEF StopRequest, Stopped, CORS, CSRFProtection, isGraphQLPath
  <2> QED
    BY <1>1, <1>c, <2>1 DEF StopRequest
<1>2. CASE RefuseUnknown(c)
  <2>1. ~Probe
    BY <1>2 DEF RefuseUnknown, AuthRequired, isPublicEndpoint, Public
  <2> QED
    BY <1>2, <1>c, <2>1 DEF RefuseUnknown
<1>3. CASE PassGuards(c)
  <2>1. HeaderGet(r) \in Seq(ToSet(HeaderGet(r)))
    <3>1. /\ r.forwarded \in Seq(ToSet(r.forwarded))
          /\ \A l \in ToSet(r.forwarded) : l \in Seq(ToSet(l))
      BY <1>a, <1>b, GatewayConstants DEF GatewayTypeOK
    <3>2. r.forwarded # <<>> => r.forwarded[1] \in ToSet(r.forwarded)
      BY <3>1
    <3> QED
      BY <3>1, <3>2 DEF HeaderGet
  <2>2. ExtractClientIP(r) = LastUntrusted(r)
    BY <2>1, ClientIPIsLastUntrusted
  <2> DEFINE who == IF AuthRequired(r) THEN Authenticate(r) ELSE Nobody
  <2>3. /\ AuthRequired(r) => who # Nobody
        /\ conn' = [conn EXCEPT ![c] =
                       [@ EXCEPT !.who = who,
                                 !.step = IF isPublicEndpoint(r) THEN "routed"
                                          ELSE "limit",
                                 !.key = IF isPublicEndpoint(r) THEN <<>>
                                         ELSE extractRateLimitKey(r, who)]]
    BY <1>3 DEF PassGuards
  <2>4. ~AuthRequired(r) => who = Nobody
    OBVIOUS
  <2> HIDE DEF who
  <2>5. Moves(c) /\ conn'[c].answer = "none"
    BY <1>a, <1>b, <2>3 DEF Moves, GatewayTypeOK
  <2>6. CASE isPublicEndpoint(r)
    <3>1. conn'[c].step = "routed"
      BY <1>a, <2>3, <2>6 DEF GatewayTypeOK
    <3> QED
      BY <2>5, <3>1, RequestMoves
  <2>7. CASE ~isPublicEndpoint(r)
    <3>1. /\ conn'[c].step = "limit" /\ conn'[c].who = who
          /\ conn'[c].key = extractRateLimitKey(r, who)
      BY <1>a, <2>3, <2>7 DEF GatewayTypeOK
    <3>2. ToLimit(c)
      BY <2>2, <2>3, <2>4, <2>5, <2>7, <3>1 DEF ToLimit, extractRateLimitKey
    <3> QED
      BY <2>5, <3>2, RequestMoves
  <2> QED
    BY <2>6, <2>7
<1>4. CASE RateLimit(c)
  <2>1. ~Probe
    BY <1>a, <1>4 DEF WayIsKept, RateLimit, isPublicEndpoint, Public
  <2>2. CASE conn' = [conn EXCEPT ![c].step = "routed"]
    BY <1>a, <1>b, <2>2, StepMoves, RequestMoves
  <2>3. CASE conn' = Answer(c, "limited")
    BY <1>c, <2>1, <2>3
  <2> QED
    BY <1>4, <2>2, <2>3 DEF RateLimit
<1>5. CASE Serve(c)
  <2>1. PICK what \in Outcomes(r) : conn' = Answer(c, what)
    BY <1>5 DEF Serve
  <2>2. what = "closed" => closed
    BY <2>1 DEF Outcomes
  <2>3. Probe => what \in {"ok", "not ready"}
    BY <2>1 DEF Outcomes, HasRoute
  <2>4. what \in {"ok", "failed", "timeout"} /\ r.path = "/graphql" => ~TooDeep(r)
    BY <2>1 DEF Outcomes
  <2> QED
    BY <1>c, <2>1, <2>2, <2>3, <2>4
<1>6. CASE HandlerPanics(c)
  <2>1. ~Probe
    BY <1>6 DEF HandlerPanics
  <2> QED
    BY <1>6, <1>c, <2>1 DEF HandlerPanics
<1> QED
  BY <1>1, <1>2, <1>3, <1>4, <1>5, <1>6

\* A request that arrives has no slot and no answer yet.
LEMMA AcceptInv ==
    ASSUME GatewayInv, NEW c \in Conns, Accept(c)
    PROVE  GatewayInv'
<1>a. GatewayTypeOK /\ WayIsKept /\ ShutdownIsOrdered /\ LimitsHold
  BY DEF GatewayInv
<1>1. PICK r \in site.requests :
          conn' = [conn EXCEPT ![c] = [NoRequest EXCEPT !.step = "arrived", !.req = r]]
  BY DEF Accept
<1>2. /\ phase = "serving" /\ conn[c].step = "idle" /\ ~conn[c].held
      /\ UNCHANGED <<site, sem, phase, closed, forced>>
  BY <1>a DEF Accept, WayIsKept
<1>3. /\ DOMAIN conn' = Conns
      /\ DOMAIN conn'[c] = {"step", "req", "held", "who", "key", "answer"}
      /\ conn'[c].step = "arrived" /\ conn'[c].req = r /\ conn'[c].held = FALSE
      /\ conn'[c].answer = "none"
      /\ \A d \in Conns : d # c => conn'[d] = conn[d]
  BY <1>a, <1>1 DEF GatewayTypeOK, NoRequest
<1>4. GatewayTypeOK'
  <2>1. \A d \in Conns : conn'[d].held \in BOOLEAN
    BY <1>a, <1>3, Zenon DEF GatewayTypeOK
  <2> QED
    BY <1>a, <1>2, <1>3, <2>1 DEF GatewayTypeOK
<1>5. WayIsKept' /\ ShutdownIsOrdered'
  BY <1>a, <1>2, <1>3 DEF WayIsKept, ShutdownIsOrdered, NothingOpen, isPublicEndpoint
<1>6. SlotsAreAccountedFor'
  <2>1. {d \in Conns : conn'[d].held} = {d \in Conns : conn[d].held}
    BY <1>2, <1>3
  <2> QED
    BY <1>a, <1>2, <2>1 DEF LimitsHold, SlotsAreAccountedFor
<1>7. ProbesAreServed' /\ DepthIsBounded'
  BY <1>a, <1>3 DEF LimitsHold, ProbesAreServed, DepthIsBounded
<1>8. KeysFollowCallers'
  BY <1>a, <1>2, <1>3, KeysStay DEF LimitsHold
<1> QED
  BY <1>4, <1>5, <1>6, <1>7, <1>8 DEF GatewayInv, LimitsHold

\* A request that leaves returns the slot it has.
LEMMA LeaveInv ==
    ASSUME GatewayInv, NEW c \in Conns, Leave(c)
    PROVE  GatewayInv'
<1>a. GatewayTypeOK /\ WayIsKept /\ ShutdownIsOrdered /\ LimitsHold
  BY DEF GatewayInv
<1>1. /\ conn[c].step = "answered" /\ UNCHANGED <<site, phase, closed, forced>>
      /\ conn' = [conn EXCEPT ![c] = NoRequest]
      /\ sem' = IF conn[c].held THEN sem - 1 ELSE sem
  BY DEF Leave
<1>2. /\ DOMAIN conn' = Conns
      /\ DOMAIN conn'[c] = {"step", "req", "held", "who", "key", "answer"}
      /\ conn'[c].step = "idle" /\ conn'[c].held = FALSE /\ conn'[c].answer = "none"
      /\ \A d \in Conns : d # c => conn'[d] = conn[d]
  BY <1>a, <1>1 DEF GatewayTypeOK, NoRequest
<1> DEFINE H == {d \in Conns : conn[d].held}
           K == {d \in Conns : conn'[d].held}
<1>3. IsFiniteSet(H) /\ sem = Cardinality(H) /\ sem \in Nat
  <2>1. IsFiniteSet(H)
    BY GatewayConstants, FS_Subset
  <2> QED
    BY <1>a, <2>1 DEF LimitsHold, SlotsAreAccountedFor, GatewayTypeOK
<1>4. sem' \in Nat /\ sem' = Cardinality(K) /\ sem' <= sem
  <2>1. CASE conn[c].held
    <3>1. K = H \ {c} /\ c \in H
      BY <1>2, <2>1
    <3> HIDE DEF H, K
    <3>2. Cardinality(K) = Cardinality(H) - 1 /\ IsFiniteSet(K)
      BY <1>3, <3>1, FS_RemoveElement
    <3>3. Cardinality(K) \in Nat
      BY <3>2, FS_CardinalityType
    <3> QED
      BY <1>1, <1>3, <2>1, <3>2, <3>3
  <2>2. CASE ~conn[c].held
    <3>1. K = H
      BY <1>2, <2>2
    <3> HIDE DEF H, K
    <3> QED
      BY <1>1, <1>3, <2>2, <3>1
  <2> QED
    BY <2>1, <2>2
<1>5. SlotsAreAccountedFor'
  <2>1. site.slots \in Nat /\ (site.slots > 0 => sem <= site.slots)
    BY <1>a, GatewayConstants DEF LimitsHold, SlotsAreAccountedFor, GatewayTypeOK
  <2>2. site'.slots > 0 => sem' <= site'.slots
    BY <1>1, <1>3, <1>4, <2>1
  <2> QED
    BY <1>4, <2>2 DEF SlotsAreAccountedFor
<1>6. GatewayTypeOK'
  <2>1. \A d \in Conns : conn'[d].held \in BOOLEAN
    BY <1>a, <1>2, Zenon DEF GatewayTypeOK
  <2> QED
    BY <1>a, <1>1, <1>2, <1>4, <2>1 DEF GatewayTypeOK
<1>7. WayIsKept' /\ ShutdownIsOrdered'
  BY <1>a, <1>1, <1>2 DEF WayIsKept, ShutdownIsOrdered, NothingOpen, isPublicEndpoint
<1>8. ProbesAreServed' /\ DepthIsBounded'
  BY <1>a, <1>2 DEF LimitsHold, ProbesAreServed, DepthIsBounded
<1>9. KeysFollowCallers'
  BY <1>a, <1>1, <1>2, KeysStay DEF LimitsHold
<1> QED
  BY <1>5, <1>6, <1>7, <1>8, <1>9 DEF GatewayInv, LimitsHold

\* The steps of the shutdown touch no request before the last one, which ends
\* them all.
LEMMA ShutdownInv ==
    ASSUME GatewayInv, Signal \/ ShutdownStep
    PROVE  GatewayInv'
<1>a. GatewayTypeOK /\ WayIsKept /\ ShutdownIsOrdered /\ LimitsHold
  BY DEF GatewayInv
<1>1. CASE Exit
  <2>1. /\ \A d \in Conns : /\ conn'[d].step = "idle" /\ conn'[d].answer = "none"
                            /\ DOMAIN conn'[d] = {"step", "req", "held", "who", "key",
                                                  "answer"}
                            /\ conn'[d].held = FALSE
        /\ DOMAIN conn' = Conns /\ sem' = 0
        /\ phase = "exiting" /\ phase' = "exited" /\ UNCHANGED <<site, closed, forced>>
    BY <1>1 DEF Exit, NoRequest
  <2>2. \A d \in Conns : conn'[d].held \in BOOLEAN
    BY <2>1, Zenon
  <2>3. GatewayTypeOK'
    BY <1>a, <2>1, <2>2 DEF GatewayTypeOK
  <2>4. {d \in Conns : conn'[d].held} = {}
    BY <2>1
  <2>5. SlotsAreAccountedFor'
    <3>1. Cardinality({d \in Conns : conn'[d].held}) = 0
      BY <2>4, FS_EmptySet, Zenon
    <3>2. site'.slots \in Nat
      BY <1>a, <2>1, GatewayConstants DEF GatewayTypeOK
    <3> QED
      BY <2>1, <3>1, <3>2 DEF SlotsAreAccountedFor
  <2>6. WayIsKept' /\ ShutdownIsOrdered' /\ ProbesAreServed' /\ DepthIsBounded'
        /\ KeysFollowCallers'
    BY <1>a, <2>1 DEF WayIsKept, ShutdownIsOrdered, NothingOpen, ProbesAreServed,
                      DepthIsBounded, KeysFollowCallers
  <2> QED
    BY <2>3, <2>5, <2>6 DEF GatewayInv, LimitsHold
<1>2. CASE Signal \/ ShutdownReturns \/ StopNext \/ CloseSources
  <2>1. UNCHANGED <<site, sem, conn>>
    BY <1>2 DEF Signal, ShutdownReturns, StopNext, CloseSources
  <2>2. GatewayTypeOK'
    <3>1. closed' \in BOOLEAN /\ forced' \in BOOLEAN
      BY <1>a, <1>2, Zenon DEF GatewayTypeOK, Signal, ShutdownReturns, StopNext,
                               CloseSources
    <3>2. phase' \in {"serving", "draining", "sources", "exiting", "exited"}
                         \cup DOMAIN After
      BY <1>a, <1>2 DEF GatewayTypeOK, Signal, ShutdownReturns, StopNext,
                        CloseSources, After
    <3> QED
      BY <1>a, <2>1, <3>1, <3>2 DEF GatewayTypeOK
  <2>3. WayIsKept'
    BY <1>a, <2>1 DEF WayIsKept, isPublicEndpoint
  <2>4. LimitsHold'
    <3>1. KeysFollowCallers'
      BY <1>a, <2>1, KeysStay DEF LimitsHold
    <3>2. SlotsAreAccountedFor' /\ ProbesAreServed' /\ DepthIsBounded'
      BY <1>a, <2>1 DEF LimitsHold, SlotsAreAccountedFor, ProbesAreServed,
                        DepthIsBounded
    <3> QED
      BY <3>1, <3>2 DEF LimitsHold
  <2>5. ShutdownIsOrdered'
    <3>1. CASE ShutdownReturns
      BY <1>a, <2>1, <3>1 DEF ShutdownReturns, ShutdownIsOrdered, NothingOpen
    <3>2. CASE Signal \/ StopNext \/ CloseSources
      BY <1>a, <2>1, <3>2 DEF Signal, StopNext, CloseSources, After,
                              ShutdownIsOrdered, NothingOpen
    <3> QED
      BY <1>2, <3>1, <3>2
  <2> QED
    BY <2>2, <2>3, <2>4, <2>5 DEF GatewayInv
<1> QED
  BY <1>1, <1>2 DEF ShutdownStep

\* Every step of a request keeps the invariant.
LEMMA ConnStepInv ==
    ASSUME GatewayInv, NEW c \in Conns, Accept(c) \/ ConnStep(c)
    PROVE  GatewayInv'
BY AcceptInv, TakeSlotInv, ChainStepInv, LeaveInv DEF ConnStep

\* A server that has just started keeps the invariant.
LEMMA GatewayInitInv == GatewayInit => GatewayInv
<1> SUFFICES ASSUME GatewayInit PROVE GatewayInv
  OBVIOUS
<1>1. /\ \A d \in Conns : /\ conn[d].step = "idle" /\ conn[d].answer = "none"
                          /\ DOMAIN conn[d] = {"step", "req", "held", "who", "key",
                                               "answer"}
                          /\ conn[d].held = FALSE
      /\ DOMAIN conn = Conns /\ sem = 0 /\ site \in Sites
      /\ phase = "serving" /\ closed = FALSE /\ forced = FALSE
  BY DEF GatewayInit, NoRequest
<1>2. closed \in BOOLEAN /\ forced \in BOOLEAN /\ \A d \in Conns : conn[d].held \in BOOLEAN
  BY <1>1, Zenon
<1>3. GatewayTypeOK
  BY <1>1, <1>2 DEF GatewayTypeOK
<1>4. {d \in Conns : conn[d].held} = {}
  BY <1>1
<1>5. SlotsAreAccountedFor
  <2>1. Cardinality({d \in Conns : conn[d].held}) = 0
    BY <1>4, FS_EmptySet, Zenon
  <2>2. site.slots \in Nat
    BY <1>1, GatewayConstants
  <2> QED
    BY <1>1, <2>1, <2>2 DEF SlotsAreAccountedFor
<1>6. WayIsKept /\ ShutdownIsOrdered /\ ProbesAreServed /\ DepthIsBounded
      /\ KeysFollowCallers
  BY <1>1 DEF WayIsKept, ShutdownIsOrdered, NothingOpen, ProbesAreServed,
              DepthIsBounded, KeysFollowCallers
<1> QED
  BY <1>3, <1>5, <1>6 DEF GatewayInv, LimitsHold

\* So does every step of its requests and of its shutdown.
LEMMA GatewayNextInv == GatewayInv /\ [GatewayNext]_gatewayVars => GatewayInv'
<1> SUFFICES ASSUME GatewayInv, [GatewayNext]_gatewayVars PROVE GatewayInv'
  OBVIOUS
<1>1. CASE UNCHANGED gatewayVars
  <2>1. UNCHANGED <<site, sem, conn, phase, closed, forced>>
    BY <1>1 DEF gatewayVars
  <2>2. KeysFollowCallers'
    BY <2>1, KeysStay DEF GatewayInv, LimitsHold
  <2> QED
    BY <2>1, <2>2 DEF GatewayInv, GatewayTypeOK, WayIsKept, ShutdownIsOrdered,
           NothingOpen, LimitsHold, SlotsAreAccountedFor, ProbesAreServed,
           DepthIsBounded, isPublicEndpoint
<1> QED
  BY <1>1, ConnStepInv, ShutdownInv DEF GatewayNext

\* The inductive invariant of the chain with the shutdown.
THEOREM GatewayInvariance == GatewaySpec => []GatewayInv
BY GatewayInitInv, GatewayNextInv, PTL DEF GatewaySpec

\* The limits of the middleware chain count what they are about, for any
\* number of connections, slots and proxies and any documents
\* (MaxConcurrentRequests, extractRateLimitKey, calcSelectionSetDepth).
THEOREM GatewayLimitsHold == GatewaySpec => []LimitsHold
<1>1. GatewayInv => LimitsHold
  BY DEF GatewayInv
<1> QED
  BY GatewayInvariance, <1>1, PTL

\* Sources close behind the last request of a drain that was not forced.
LEMMA InvDrains == GatewayInv => DrainedBeforeClose
<1> SUFFICES ASSUME GatewayInv, ~forced, NEW c \in Conns
             PROVE  conn[c].answer # "closed" /\ (closed => conn[c].step = "idle")
  BY DEF DrainedBeforeClose
<1>1. closed => conn[c].step = "idle"
  BY DEF GatewayInv, ShutdownIsOrdered, NothingOpen
<1> QED
  BY <1>1 DEF GatewayInv, ShutdownIsOrdered, WayIsKept

\* A shutdown that did not run out of time closes the sources behind the last
\* request (runServer of cmd/server/main.go).
THEOREM GatewayDrains == GatewaySpec => []DrainedBeforeClose
BY GatewayInvariance, InvDrains, PTL

-----------------------------------------------------------------------------
(* The limiter of failed authentications                                   *)

\* Failures are counted in natural numbers, ...
LEMMA CountSinceType ==
    ASSUME NEW s \in Seq(Nat), NEW t \in Int
    PROVE  /\ IsFiniteSet({i \in DOMAIN s : s[i] >= t})
           /\ CountSince(s, t) \in Nat
<1> DEFINE S == {i \in DOMAIN s : s[i] >= t}
<1>1. S \subseteq 1 .. Len(s) /\ Len(s) \in Nat
  OBVIOUS
<1>2. IsFiniteSet(1 .. Len(s))
  BY <1>1, IntervalCardinality
<1> HIDE DEF S
<1>3. IsFiniteSet(S)
  BY <1>1, <1>2, FS_Subset
<1>4. Cardinality(S) \in Nat
  BY <1>3, FS_CardinalityType
<1> QED
  BY <1>3, <1>4 DEF S, CountSince

\* ... the longer the time the more there are, ...
LEMMA CountSinceGrows ==
    ASSUME NEW s \in Seq(Nat), NEW t \in Int, NEW u \in Int, u <= t
    PROVE  CountSince(s, t) <= CountSince(s, u)
<1> DEFINE S(x) == {i \in DOMAIN s : s[i] >= x}
<1>1. S(t) \subseteq S(u)
  <2> SUFFICES ASSUME NEW i \in DOMAIN s, s[i] >= t PROVE s[i] >= u
    OBVIOUS
  <2>1. s[i] \in Nat
    OBVIOUS
  <2> QED
    BY <2>1
<1>2. IsFiniteSet(S(u))
  BY CountSinceType
<1> HIDE DEF S
<1>3. Cardinality(S(t)) <= Cardinality(S(u))
  BY <1>1, <1>2, FS_Subset
<1> QED
  BY <1>3 DEF S, CountSince

\* ... and one that is recorded is one more.
LEMMA CountSinceAppend ==
    ASSUME NEW s \in Seq(Nat), NEW t \in Int, NEW x \in Nat
    PROVE  CountSince(Append(s, x), t) = CountSince(s, t) + (IF x >= t THEN 1 ELSE 0)
<1> DEFINE S == {i \in DOMAIN s : s[i] >= t}
           A == {i \in DOMAIN Append(s, x) : Append(s, x)[i] >= t}
<1>1. /\ Len(s) \in Nat /\ DOMAIN s = 1 .. Len(s)
      /\ DOMAIN Append(s, x) = 1 .. Len(s) + 1
      /\ Append(s, x)[Len(s) + 1] = x
      /\ \A i \in 1 .. Len(s) : Append(s, x)[i] = s[i]
  OBVIOUS
<1>2. IsFiniteSet(S) /\ Cardinality(S) \in Nat
  BY CountSinceType DEF CountSince
<1>3. CASE x >= t
  <2>1. A = S \cup {Len(s) + 1}
    BY <1>1, <1>3
  <2>2. Len(s) + 1 \notin S
    BY <1>1
  <2> HIDE DEF S, A
  <2>3. Cardinality(A) = Cardinality(S) + 1
    BY <1>2, <2>1, <2>2, FS_AddElement
  <2> QED
    BY <1>3, <2>3 DEF S, A, CountSince
<1>4. CASE ~(x >= t)
  <2>1. A = S
    BY <1>1, <1>4
  <2> HIDE DEF S, A
  <2>2. Cardinality(A) = Cardinality(S) + 0
    BY <1>2, <2>1
  <2> QED
    BY <1>4, <2>2 DEF S, A, CountSince
<1> QED
  BY <1>3, <1>4

\* RecordFailure, in each of its four branches.
LEMMA RecordFailureInv ==
    ASSUME FailureInv, NEW b \in Addresses, RecordFailure(b)
    PROVE  FailureInv'
<1>a. /\ FailureTypeOK /\ clock' = clock
      /\ failedAt' = [failedAt EXCEPT ![b] = Append(@, clock)]
  BY DEF FailureInv, RecordFailure
<1>b. /\ failedAt' \in [Addresses -> Seq(Nat)]
      /\ \A a \in Addresses : a # b => failedAt'[a] = failedAt[a]
      /\ failedAt'[b] = Append(failedAt[b], clock)
      /\ clock \in Nat /\ clock # 0
  BY <1>a DEF FailureTypeOK
<1>c. \A a \in Addresses : \A t \in Int :
          /\ CountSince(failedAt[a], t) \in Nat /\ CountSince(failedAt'[a], t) \in Nat
          /\ CountSince(failedAt[a], t) <= CountSince(failedAt'[a], t)
          /\ a = b /\ t <= clock
                 => CountSince(failedAt'[a], t) = CountSince(failedAt[a], t) + 1
  <2> SUFFICES ASSUME NEW a \in Addresses, NEW t \in Int
               PROVE  /\ CountSince(failedAt[a], t) \in Nat
                      /\ CountSince(failedAt'[a], t) \in Nat
                      /\ CountSince(failedAt[a], t) <= CountSince(failedAt'[a], t)
                      /\ a = b /\ t <= clock
                          => CountSince(failedAt'[a], t) = CountSince(failedAt[a], t) + 1
    OBVIOUS
  <2>1. failedAt[a] \in Seq(Nat) /\ failedAt'[a] \in Seq(Nat)
    BY <1>a, <1>b DEF FailureTypeOK
  <2>2. CountSince(failedAt[a], t) \in Nat /\ CountSince(failedAt'[a], t) \in Nat
    BY <2>1, CountSinceType
  <2>3. CASE a = b
    <3>1. CountSince(Append(failedAt[a], clock), t)
            = CountSince(failedAt[a], t) + (IF clock >= t THEN 1 ELSE 0)
      BY <1>b, <2>1, CountSinceAppend
    <3>2. CountSince(failedAt'[a], t) = CountSince(failedAt[a], t)
                                          + (IF clock >= t THEN 1 ELSE 0)
      BY <1>b, <2>3, <3>1
    <3>3. CASE clock >= t
      BY <2>2, <3>2, <3>3
    <3>4. CASE ~(clock >= t)
      BY <1>b, <2>2, <3>2, <3>4
    <3> QED
      BY <3>3, <3>4
  <2>4. CASE a # b
    BY <1>b, <2>2, <2>4
  <2> QED
    BY <2>3, <2>4
<1>d. FailureTypeOK'
  <2>1. CASE FirstFailure(b)
    BY <1>a, <1>b, <2>1 DEF FailureTypeOK, FirstFailure
  <2>2. CASE FailureWhileBanned(b)
    BY <1>a, <1>b, <2>2 DEF FailureTypeOK, FailureWhileBanned
  <2>3. CASE FailureInNewWindow(b)
    BY <1>a, <1>b, <2>3 DEF FailureTypeOK, FailureInNewWindow
  <2>4. CASE FailureCounts(b)
    <3>1. count' \in [Addresses -> Nat] /\ UNCHANGED <<known, firstAt>>
      BY <1>a, <2>4 DEF FailureTypeOK, FailureCounts
    <3>2. bannedAt' \in [Addresses -> Nat] /\ banEnd' \in [Addresses -> Nat]
      <4>1. CASE count'[b] >= Threshold
        <5>1. /\ bannedAt' = [bannedAt EXCEPT ![b] = clock]
              /\ banEnd' = [banEnd EXCEPT ![b] = clock + BanDuration]
              /\ clock + BanDuration \in Nat
          BY <1>b, <2>4, <4>1, FailureConstants DEF FailureCounts
        <5> QED
          BY <1>a, <1>b, <5>1 DEF FailureTypeOK
      <4>2. CASE ~(count'[b] >= Threshold)
        BY <1>a, <2>4, <4>2 DEF FailureTypeOK, FailureCounts
      <4> QED
        BY <4>1, <4>2
    <3> QED
      BY <1>a, <1>b, <3>1, <3>2 DEF FailureTypeOK
  <2> QED
    BY <2>1, <2>2, <2>3, <2>4 DEF RecordFailure
<1>e. clock - FailureWindow \in Int /\ FailureWindow \in Nat /\ BanDuration \in Nat
      /\ BanDuration > 0 /\ Threshold \in Nat
  BY <1>b, FailureConstants
<1>1. ASSUME NEW a \in Addresses, a # b
      PROVE  /\ (a \in known' <=> a \in known) /\ count'[a] = count[a]
             /\ firstAt'[a] = firstAt[a] /\ bannedAt'[a] = bannedAt[a]
             /\ banEnd'[a] = banEnd[a] /\ failedAt'[a] = failedAt[a]
  BY <1>a, <1>b, <1>1 DEF FailureTypeOK, RecordFailure, FirstFailure,
         FailureWhileBanned, FailureInNewWindow, FailureCounts
<1>2. RecordsAreRight'
  <2> SUFFICES ASSUME NEW a \in Addresses
               PROVE  /\ a \in known' =>
                            /\ count'[a] <= CountSince(failedAt'[a], firstAt'[a])
                            /\ firstAt'[a] <= clock' /\ bannedAt'[a] <= clock'
                      /\ IF a \in known' /\ bannedAt'[a] # 0
                         THEN banEnd'[a] = bannedAt'[a] + BanDuration
                         ELSE banEnd'[a] <= clock'
    BY DEF RecordsAreRight
  <2>1. /\ count[a] \in Nat /\ firstAt[a] \in Nat /\ bannedAt[a] \in Nat
        /\ banEnd[a] \in Nat
        /\ a \in known => /\ count[a] <= CountSince(failedAt[a], firstAt[a])
                          /\ firstAt[a] <= clock /\ bannedAt[a] <= clock
        /\ IF a \in known /\ bannedAt[a] # 0
           THEN banEnd[a] = bannedAt[a] + BanDuration
           ELSE banEnd[a] <= clock
    BY DEF FailureInv, FailureTypeOK, RecordsAreRight
  <2>2. CASE a # b
    BY <1>a, <1>1, <2>1, <2>2
  <2>3. CASE a = b
    <3>1. CASE FirstFailure(b)
      <4>1. /\ count'[b] = 1 /\ firstAt'[b] = clock /\ bannedAt'[b] = 0
            /\ banEnd' = banEnd /\ b \notin known
        BY <1>a, <3>1 DEF FirstFailure, FailureTypeOK
      <4> QED
        BY <1>a, <1>b, <1>c, <2>1, <2>3, <4>1
    <3>2. CASE FailureWhileBanned(b)
      <4>1. UNCHANGED <<known, count, firstAt, bannedAt, banEnd>>
        BY <3>2 DEF FailureWhileBanned
      <4>2. CountSince(failedAt[b], firstAt[b]) <= CountSince(failedAt'[b], firstAt[b])
            /\ CountSince(failedAt[b], firstAt[b]) \in Nat
            /\ CountSince(failedAt'[b], firstAt[b]) \in Nat
        BY <1>c, <2>1, <2>3
      <4> QED
        BY <1>a, <2>1, <2>3, <4>1, <4>2
    <3>3. CASE FailureInNewWindow(b)
      <4>1. /\ count'[b] = 1 /\ firstAt'[b] = clock /\ bannedAt'[b] = 0
            /\ banEnd' = banEnd /\ b \in known /\ ~Banned(b)
        BY <1>a, <3>3 DEF FailureInNewWindow, FailureTypeOK
      <4>2. banEnd[b] <= clock
        BY <1>b, <1>e, <2>1, <2>3, <4>1 DEF Banned
      <4> QED
        BY <1>a, <1>b, <1>c, <2>1, <2>3, <4>1, <4>2
    <3>4. CASE FailureCounts(b)
      <4>1. /\ count'[b] = count[b] + 1 /\ firstAt' = firstAt /\ known' = known
            /\ b \in known /\ ~Banned(b)
            /\ \/ bannedAt'[b] = clock /\ banEnd'[b] = clock + BanDuration
               \/ bannedAt' = bannedAt /\ banEnd' = banEnd
        BY <1>a, <3>4 DEF FailureCounts, FailureTypeOK
      <4>2. CountSince(failedAt'[b], firstAt[b]) = CountSince(failedAt[b], firstAt[b]) + 1
            /\ CountSince(failedAt[b], firstAt[b]) \in Nat
        BY <1>c, <2>1, <2>3, <4>1
      <4>3. CASE bannedAt'[b] = clock /\ banEnd'[b] = clock + BanDuration
        BY <1>a, <1>b, <1>e, <2>1, <2>3, <4>1, <4>2, <4>3
      <4>4. CASE bannedAt' = bannedAt /\ banEnd' = banEnd
        BY <1>a, <1>b, <1>e, <2>1, <2>3, <4>1, <4>2, <4>4
      <4> QED
        BY <4>1, <4>3, <4>4
    <3> QED
      BY <3>1, <3>2, <3>3, <3>4 DEF RecordFailure
  <2> QED
    BY <2>2, <2>3
<1>3. BansAreEarned'
  <2> SUFFICES ASSUME NEW a \in Addresses, a \in known', bannedAt'[a] = clock
               PROVE  CountSince(failedAt'[a], clock - FailureWindow) >= Threshold
    BY <1>a DEF BansAreEarned
  <2>1. CASE a \in known /\ bannedAt[a] = clock
    <3>1. CountSince(failedAt[a], clock - FailureWindow) >= Threshold
      BY <2>1 DEF FailureInv, BansAreEarned
    <3> QED
      BY <1>c, <1>e, <3>1
  <2>2. CASE ~(a \in known /\ bannedAt[a] = clock)
    <3>1. a = b
      BY <1>1, <2>2
    <3>2. FailureCounts(b) /\ count'[b] >= Threshold
      <4>1. ~FirstFailure(b) /\ ~FailureInNewWindow(b)
        BY <1>a, <1>b, <3>1 DEF FirstFailure, FailureInNewWindow, FailureTypeOK
      <4>2. ~FailureWhileBanned(b)
        BY <2>2, <3>1 DEF FailureWhileBanned
      <4>3. FailureCounts(b)
        BY <4>1, <4>2 DEF RecordFailure
      <4>4. ~(count'[b] >= Threshold) => bannedAt' = bannedAt /\ known' = known
        BY <4>3 DEF FailureCounts
      <4> QED
        BY <2>2, <3>1, <4>3, <4>4
    <3>3. firstAt'[b] = firstAt[b] /\ firstAt[b] \in Nat /\ b \in known
          /\ clock - firstAt[b] <= FailureWindow
      BY <1>a, <1>b, <1>e, <3>2, SMTT(30) DEF FailureCounts, WindowExpired, FailureTypeOK
    <3>4. count'[b] <= CountSince(failedAt'[b], firstAt[b]) /\ count'[b] \in Nat
      BY <1>2, <1>d, <2>2, <3>1, <3>3 DEF RecordsAreRight, FailureTypeOK
    <3>5. CountSince(failedAt'[b], firstAt[b])
            <= CountSince(failedAt'[b], clock - FailureWindow)
      <4>0. failedAt'[b] \in Seq(Nat)
        BY <1>b, Zenon
      <4>1. firstAt[b] \in Int /\ clock - FailureWindow <= firstAt[b]
        BY <1>b, <1>e, <3>3
      <4>2. \A t, u \in Int : u <= t => CountSince(failedAt'[b], t)
                                            <= CountSince(failedAt'[b], u)
        BY <4>0, CountSinceGrows
      <4> QED
        BY <1>e, <4>1, <4>2
    <3> QED
      BY <1>c, <1>e, <3>1, <3>2, <3>3, <3>4, <3>5
  <2> QED
    BY <2>1, <2>2
<1> QED
  BY <1>d, <1>2, <1>3 DEF FailureInv

\* The records that cleanup drops carry no ban that lasts.
LEMMA CleanupInv ==
    ASSUME FailureInv, CleanupRecords
    PROVE  FailureInv'
<1>1. /\ FailureTypeOK /\ RecordsAreRight /\ BansAreEarned
      /\ known' \subseteq known /\ known' = {a \in known : ~Expired(a)}
      /\ UNCHANGED <<clock, count, firstAt, bannedAt, failedAt, banEnd>>
  BY DEF FailureInv, CleanupRecords
<1>2. FailureTypeOK'
  BY <1>1 DEF FailureTypeOK
<1>3. ASSUME NEW a \in Addresses, a \in known, a \notin known'
      PROVE  banEnd[a] <= clock
  <2>1. Expired(a) /\ bannedAt[a] \in Nat /\ clock \in Nat
        /\ IF bannedAt[a] # 0 THEN banEnd[a] = bannedAt[a] + BanDuration
           ELSE banEnd[a] <= clock
    BY <1>1, <1>3 DEF RecordsAreRight, FailureTypeOK
  <2> QED
    BY <2>1, FailureConstants DEF Expired
<1>4. RecordsAreRight'
  BY <1>1, <1>3 DEF RecordsAreRight
<1>5. BansAreEarned'
  BY <1>1 DEF BansAreEarned
<1> QED
  BY <1>2, <1>4, <1>5 DEF FailureInv

\* Time passes: bans end by themselves.
LEMMA ClockInv ==
    ASSUME FailureInv, ClockTicks
    PROVE  FailureInv'
<1>1. /\ FailureTypeOK /\ RecordsAreRight /\ clock' = clock + 1
      /\ UNCHANGED <<known, count, firstAt, bannedAt, failedAt, banEnd>>
  BY DEF FailureInv, ClockTicks
<1>2. FailureTypeOK'
  BY <1>1 DEF FailureTypeOK
<1>3. RecordsAreRight'
  BY <1>1 DEF RecordsAreRight, FailureTypeOK
<1>4. \A a \in Addresses : a \in known => bannedAt[a] <= clock
  BY <1>1 DEF RecordsAreRight
<1>5. BansAreEarned'
  BY <1>1, <1>4 DEF BansAreEarned, FailureTypeOK
<1> QED
  BY <1>2, <1>3, <1>5 DEF FailureInv

\* Without records there are no bans.
LEMMA FailureInitInv == FailureInit => FailureInv
<1> SUFFICES ASSUME FailureInit PROVE FailureInv
  OBVIOUS
<1>1. FailureTypeOK
  BY DEF FailureInit, FailureTypeOK
<1>2. RecordsAreRight /\ BansAreEarned
  BY DEF FailureInit, RecordsAreRight, BansAreEarned
<1> QED
  BY <1>1, <1>2 DEF FailureInv

\* Every step of the failure limiter keeps its invariant.
LEMMA FailureNextInv == FailureInv /\ [FailureNext]_failureVars => FailureInv'
<1> SUFFICES ASSUME FailureInv, [FailureNext]_failureVars PROVE FailureInv'
  OBVIOUS
<1>1. CASE UNCHANGED failureVars
  BY <1>1 DEF failureVars, FailureInv, FailureTypeOK, RecordsAreRight, BansAreEarned
<1> QED
  BY <1>1, RecordFailureInv, CleanupInv, ClockInv DEF FailureNext

\* Check refuses exactly while the last ban lasts.
LEMMA InvBansAreJust == FailureInv => BansAreJust
<1> SUFFICES ASSUME FailureInv, NEW a \in Addresses
             PROVE  Check(a) <=> clock >= banEnd[a]
  BY DEF BansAreJust, BansLastTheirDuration, FailureInv
<1>1. /\ clock \in Nat /\ bannedAt[a] \in Nat /\ banEnd[a] \in Nat
      /\ BanDuration \in Nat
      /\ IF a \in known /\ bannedAt[a] # 0
         THEN banEnd[a] = bannedAt[a] + BanDuration
         ELSE banEnd[a] <= clock
  BY FailureConstants DEF FailureInv, FailureTypeOK, RecordsAreRight
<1> QED
  BY <1>1 DEF Check, Banned

\* The inductive invariant of the failure limiter.
THEOREM FailureInvariance == FailureSpec => []FailureInv
BY FailureInitInv, FailureNextInv, PTL DEF FailureSpec

\* Every ban is earned within one window and lasts exactly its duration, for
\* any threshold above one, window and duration (Check, RecordFailure, cleanup).
THEOREM FailureBansAreJust == FailureSpec => []BansAreJust
BY FailureInvariance, InvBansAreJust, PTL

-----------------------------------------------------------------------------
(* The composition                                                         *)

\* What stands before the GraphQL handlers keeps the invariants of its parts
\* in whichever part takes steps.
THEOREM ServerInvariants ==
    ServerSpec => [](/\ AtMostOneProbe /\ BansAreJust
                     /\ LimitsHold /\ DrainedBeforeClose)
<1> DEFINE ServerInv == Inv /\ GatewayInv /\ FailureInv
<1>1. ServerInit => ServerInv
  BY LimiterInitInv, GatewayInitInv, FailureInitInv DEF ServerInit
<1>2. ServerInv /\ [ServerNext]_serverVars => ServerInv'
  <2>1. [ServerNext]_serverVars =>
            [Next]_vars /\ [GatewayNext]_gatewayVars /\ [FailureNext]_failureVars
    BY DEF ServerNext, serverVars, ChainStands, LimitersStand
  <2> QED
    BY <2>1, LimiterNextInv, GatewayNextInv, FailureNextInv
<1>3. ServerInv => /\ AtMostOneProbe /\ BansAreJust
                   /\ LimitsHold /\ DrainedBeforeClose
  BY InvBansAreJust, InvDrains DEF Inv, GatewayInv
<1> QED
  BY <1>1, <1>2, <1>3, PTL DEF ServerSpec

\* Beside the others, both rate limiters still implement their budgets.
THEOREM ServerKeepsBudgets ==
    ServerSpec => LocalKeepsBudget /\ SharedKeepsBudget
<1>1. ServerInit => BucketInit
  BY DEF ServerInit
<1>2. [ServerNext]_serverVars => [BucketNext]_bucketVars
  BY DEF ServerNext, serverVars, ChainStands, LimitersStand
<1>3. BucketInit => BucketInv
  BY BucketInvInit
<1>4. BucketInv /\ [BucketNext]_bucketVars => BucketInv'
  BY BucketInvNext
<1> QED
  BY <1>1, <1>2, <1>3, <1>4, LocalBudgetInit, LocalBudgetStep,
     SharedBudgetInit, SharedBudgetStep, PTL
     DEF ServerSpec, LocalKeepsBudget, Local!BudgetSpec,
         SharedKeepsBudget, Shared!BudgetSpec
=============================================================================
