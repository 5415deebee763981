-------------------------- MODULE FallbackLimiter ---------------------------
(***************************************************************************)
(* FallbackRateLimiter of internal/ratelimit/fallback.go: requests go to   *)
(* the Redis limiter; after an error they go to the local one until a      *)
(* background probe finds Redis again and switches back.                   *)
(*                                                                         *)
(* useFallback is an atomic flag, probeOnce a sync.Once.  A request reads  *)
(* the flag, calls Redis, and on an error stores the flag and starts the   *)
(* probe: separate steps, as are the probe's ping, its store of the flag   *)
(* and its reset of the Once.  once.Do is one step (it is atomic towards   *)
(* other calls of Do).                                                     *)
(***************************************************************************)
EXTENDS Integers, FiniteSets

CONSTANTS
    Callers,      \* goroutines calling Allow
    Probes,       \* identities for probe goroutines
    MaxOutages,   \* bound: how often Redis goes down
    Cancels       \* may a request's context end while it waits for Redis?

ASSUME LimiterConstants ==
    /\ MaxOutages \in Nat
    /\ Cancels \in BOOLEAN

VARIABLES
    useFallback, onceDone, stopped,
    pc,        \* where each caller of Allow is
    probePc,   \* where each probe goroutine is
    redisUp, outages

vars == <<useFallback, onceDone, stopped, pc, probePc, redisUp, outages>>

CallerStates == {"idle", "primary", "failed", "degraded", "local"}
ProbeStates == {"off", "waiting", "pinged", "switched"}

TypeOK ==
    /\ useFallback \in BOOLEAN
    /\ onceDone \in BOOLEAN
    /\ stopped \in BOOLEAN
    /\ pc \in [Callers -> CallerStates]
    /\ probePc \in [Probes -> ProbeStates]
    /\ redisUp \in BOOLEAN
    /\ outages \in 0 .. MaxOutages

NewFallbackRateLimiter ==
    /\ useFallback = FALSE
    /\ onceDone = FALSE
    /\ stopped = FALSE

Init ==
    /\ NewFallbackRateLimiter
    /\ pc = [c \in Callers |-> "idle"]
    /\ probePc = [p \in Probes |-> "off"]
    /\ redisUp = TRUE
    /\ outages = 0

-----------------------------------------------------------------------------
(* Allow.                                                                  *)

\* useFallback.Load decides which limiter serves the request.
LoadFlag(c) ==
    /\ pc[c] = "idle"
    /\ pc' = [pc EXCEPT ![c] = IF useFallback THEN "local" ELSE "primary"]
    /\ UNCHANGED <<useFallback, onceDone, stopped, probePc, redisUp, outages>>

PrimarySucceeds(c) ==
    /\ pc[c] = "primary"
    /\ redisUp
    /\ pc' = [pc EXCEPT ![c] = "idle"]
    /\ UNCHANGED <<useFallback, onceDone, stopped, probePc, redisUp, outages>>

\* Any error counts, a cancelled request's included.
PrimaryFails(c) ==
    /\ pc[c] = "primary"
    /\ ~redisUp \/ Cancels
    /\ pc' = [pc EXCEPT ![c] = "failed"]
    /\ UNCHANGED <<useFallback, onceDone, stopped, probePc, redisUp, outages>>

\* useFallback.Store(true).
Degrade(c) ==
    /\ pc[c] = "failed"
    /\ useFallback' = TRUE
    /\ pc' = [pc EXCEPT ![c] = "degraded"]
    /\ UNCHANGED <<onceDone, stopped, probePc, redisUp, outages>>

\* Mutant: every degraded request starts a probe.
StartRecoveryProbe_NotOnce(c) ==
    /\ pc[c] = "degraded"
    /\ pc' = [pc EXCEPT ![c] = "local"]
    /\ \E p \in Probes :
          /\ probePc[p] = "off"
          /\ onceDone' = TRUE
          /\ probePc' = [probePc EXCEPT ![p] = "waiting"]
    /\ UNCHANGED <<useFallback, stopped, redisUp, outages>>

\* startRecoveryProbe: once.Do starts a probe unless the Once is used up.
StartRecoveryProbe(c) ==
    /\ pc[c] = "degraded"
    /\ pc' = [pc EXCEPT ![c] = "local"]
    /\ \/ onceDone /\ UNCHANGED <<onceDone, probePc>>
       \/ /\ ~onceDone
          /\ onceDone' = TRUE
          /\ \E p \in Probes :
                /\ probePc[p] = "off"
                /\ probePc' = [probePc EXCEPT ![p] = "waiting"]
    /\ UNCHANGED <<useFallback, stopped, redisUp, outages>>

\* fallback.Allow answers and the request is done.
FallbackAllow(c) ==
    /\ pc[c] = "local"
    /\ pc' = [pc EXCEPT ![c] = "idle"]
    /\ UNCHANGED <<useFallback, onceDone, stopped, probePc, redisUp, outages>>

-----------------------------------------------------------------------------
(* runProbe.                                                               *)

\* Mutant: one failed PING ends the probe.
ProbePing_GivesUp(p) ==
    /\ probePc[p] = "waiting"
    /\ probePc' = [probePc EXCEPT ![p] = IF redisUp THEN "pinged" ELSE "off"]
    /\ UNCHANGED <<useFallback, onceDone, stopped, pc, redisUp, outages>>

\* A tick of the ticker whose PING succeeds; one whose PING fails waits for
\* the next tick and changes nothing.
ProbePing(p) ==
    /\ probePc[p] = "waiting"
    /\ redisUp
    /\ probePc' = [probePc EXCEPT ![p] = "pinged"]
    /\ UNCHANGED <<useFallback, onceDone, stopped, pc, redisUp, outages>>

\* useFallback.Store(false).
ProbeSwitchBack(p) ==
    /\ probePc[p] = "pinged"
    /\ useFallback' = FALSE
    /\ probePc' = [probePc EXCEPT ![p] = "switched"]
    /\ UNCHANGED <<onceDone, stopped, pc, redisUp, outages>>

\* probeOnce = sync.Once{}, and the goroutine returns.
ProbeResetOnce(p) ==
    /\ probePc[p] = "switched"
    /\ onceDone' = FALSE
    /\ probePc' = [probePc EXCEPT ![p] = "off"]
    /\ UNCHANGED <<useFallback, stopped, pc, redisUp, outages>>

\* The select takes stopCh.
ProbeStops(p) ==
    /\ probePc[p] = "waiting"
    /\ stopped
    /\ probePc' = [probePc EXCEPT ![p] = "off"]
    /\ UNCHANGED <<useFallback, onceDone, stopped, pc, redisUp, outages>>

Stop ==
    /\ ~stopped
    /\ stopped' = TRUE
    /\ UNCHANGED <<useFallback, onceDone, pc, probePc, redisUp, outages>>

-----------------------------------------------------------------------------
(* Redis.                                                                  *)

RedisFails ==
    /\ redisUp
    /\ outages < MaxOutages
    /\ redisUp' = FALSE
    /\ outages' = outages + 1
    /\ UNCHANGED <<useFallback, onceDone, stopped, pc, probePc>>

RedisReturns ==
    /\ ~redisUp
    /\ redisUp' = TRUE
    /\ UNCHANGED <<useFallback, onceDone, stopped, pc, probePc, outages>>

AllowStep(c) ==
    \/ LoadFlag(c)
    \/ PrimarySucceeds(c)
    \/ PrimaryFails(c)
    \/ Degrade(c)
    \/ StartRecoveryProbe(c)
    \/ FallbackAllow(c)

ProbeStep(p) ==
    \/ ProbePing(p)
    \/ ProbeSwitchBack(p)
    \/ ProbeResetOnce(p)
    \/ ProbeStops(p)

Next ==
    \/ \E c \in Callers : AllowStep(c)
    \/ \E p \in Probes : ProbeStep(p)
    \/ Stop
    \/ RedisFails
    \/ RedisReturns

Spec == Init /\ [][Next]_vars

\* Goroutines are scheduled, calls return, tickers tick.  Nothing is assumed
\* of Redis or of Stop.
FairSpec ==
    /\ Spec
    /\ \A c \in Callers : WF_vars(AllowStep(c))
    /\ \A p \in Probes : WF_vars(ProbeStep(p))

-----------------------------------------------------------------------------
(* Properties.                                                             *)

\* "probeOnce ensures only one recovery probe runs at a time" (fallback.go):
\* no interleaving of degrading requests with the probe's switch-back and
\* reset leaves two probe goroutines alive.
AtMostOneProbe ==
    \A p, q \in Probes : probePc[p] # "off" /\ probePc[q] # "off" => p = q

\* A used-up Once never outlives its probe, so the next degradation can
\* always start one (until Stop).
UsedOnceHasProbe ==
    onceDone /\ ~stopped => \E p \in Probes : probePc[p] # "off"

\* "Once Redis is reachable again the probe switches back to the primary":
\* while Redis stays up and the limiter is not stopped, requests do not stay
\* on the local limiter.
SwitchesBack ==
    <>[](redisUp /\ ~stopped) => []<>~useFallback

\* What is left of that promise under every interleaving: a live probe does
\* switch back, however often requests degrade meanwhile.
ProbeSwitchesBack ==
    <>[](redisUp /\ ~stopped) =>
        \A p \in Probes : probePc[p] = "waiting" ~> ~useFallback

\* The inductive invariant behind the two safety properties.
Inv ==
    /\ TypeOK
    /\ AtMostOneProbe
    /\ UsedOnceHasProbe
    /\ \A p \in Probes : probePc[p] # "off" => onceDone
=============================================================================
