--------------------------- MODULE TokenBuckets -----------------------------
(***************************************************************************)
(* The token buckets of internal/ratelimit: KeyedRateLimiter (local.go)    *)
(* keeps one bucket per key in the process, DistributedRateLimiter         *)
(* (distributed.go) keeps them in Redis, where a Lua script refills,       *)
(* checks, takes and sets the time to live in one step, with the clock of  *)
(* the calling instance as an argument.                                    *)
(*                                                                         *)
(* Tokens are measured in the time it takes to refill them: a token is     *)
(* Interval units, and a full bucket holds Window == Burst * Interval.     *)
(* Buckets are lazy: they are refilled when they are asked.                *)
(***************************************************************************)
EXTENDS Integers, FiniteSets

CONSTANTS
    Keys,          \* rate limit keys (clients)
    Kinds,         \* configured modes: "local", "distributed"
    Instances,     \* server instances sharing the Redis buckets
    Skew,          \* how far each instance's clock is ahead of the slowest
    Spread,        \* bound on Skew
    Second,        \* time units per second: Redis buckets see whole seconds
    Burst,         \* requests_per_window
    Interval,      \* time to refill one token; window_size / Burst
    MaxEntries,    \* the local limiter's bound on tracked keys
    Counts,        \* tokens asked for by one request
    SharedRedis,   \* does the cache use the limiter's Redis database?
    MaxTime        \* bound: length of a behaviour

Window == Burst * Interval

\* A bucket is gone from the process once it was unused for this long:
\* cleanupInterval of the local limiter.
IdleTime == 2 * Window

\* The ttl the script gives a bucket in Redis: int(windowSize.Seconds()) * 2,
\* so that the fraction of a second of a window is lost before it is doubled.
Ttl == 2 * (Window \div Second) * Second

\* How much one instance's reading of the clock may run ahead of another's.
Slack == Spread + Second - 1

ASSUME BucketConstants ==
    /\ Burst \in Nat \ {0} /\ Interval \in Nat \ {0} /\ Window \in Nat \ {0}
    /\ Kinds \subseteq {"local", "distributed"}
    /\ Spread \in Nat
    /\ Second \in Nat \ {0}
    /\ Skew \in [Instances -> 0 .. Spread]
    /\ MaxEntries \in Nat
    /\ MaxTime \in Nat
    /\ Counts \subseteq Nat \ {0}
    /\ SharedRedis \in BOOLEAN
    /\ \A n \in Counts : n * Interval \in Nat
\* A bucket has outlived its ttl only when it would be full by every clock.
\* The code does not ensure it: the clocks have to agree, and with a window
\* under one second the ttl is 0, EXPIRE deletes every bucket as it is written
\* and nothing is limited.
ASSUME TtlOutlastsWindow == Ttl \in Nat /\ Window + Slack <= Ttl

VARIABLES
    kind,      \* the mode of this deployment
    now,
    live,      \* keys that have a bucket in the store
    tok,       \* tokens when the bucket was last written
    last,      \* clock reading of that write (last_refill)
    seen,      \* time of the last request (lastSeen; start of the ttl)
    grants     \* history: what each key was granted since the last FlushDB

bucketVars == <<kind, now, live, tok, last, seen, grants>>

BucketInit ==
    /\ kind \in Kinds
    /\ now = Second     \* after the epoch, so that no clock reads 0
    /\ live = {}
    /\ tok = [k \in Keys |-> 0]
    /\ last = [k \in Keys |-> 0]
    /\ seen = [k \in Keys |-> 0]
    /\ grants = [k \in Keys |-> 0]

BucketTypeOK ==
    /\ kind \in {"local", "distributed"}
    /\ now \in Nat
    /\ live \subseteq Keys
    /\ tok \in [Keys -> Nat]
    /\ last \in [Keys -> Nat]
    /\ seen \in [Keys -> Nat]
    /\ grants \in [Keys -> Nat]

Cost(n) == n * Interval

Least(a, b) == IF a < b THEN a ELSE b

-----------------------------------------------------------------------------
(* KeyedRateLimiter.                                                       *)

\* rate.Limiter's view of its bucket at time t.
Advanced(k, t) == Least(Window, tok[k] + (t - last[k]))

\* AllowN takes the tokens if they are there; a refusal leaves the bucket.
AllowN(k, n, before) ==
    IF Cost(n) <= before
    THEN /\ tok' = [tok EXCEPT ![k] = before - Cost(n)]
         /\ last' = [last EXCEPT ![k] = now]
         /\ grants' = [grants EXCEPT ![k] = grants[k] + Cost(n)]
    ELSE UNCHANGED <<tok, last, grants>>

\* A key that has no bucket gets a full one, unless the table is full.
AllowNewKey(k, n) ==
    /\ k \notin live
    /\ Cardinality(live) < MaxEntries
    /\ live' = live \cup {k}
    /\ seen' = [seen EXCEPT ![k] = now]
    /\ IF Cost(n) <= Window
       THEN AllowN(k, n, Window)
       ELSE /\ tok' = [tok EXCEPT ![k] = Window]
            /\ last' = [last EXCEPT ![k] = now]
            /\ UNCHANGED grants

AllowKnownKey(k, n) ==
    /\ k \in live
    /\ seen' = [seen EXCEPT ![k] = now]
    /\ AllowN(k, n, Advanced(k, now))
    /\ UNCHANGED live

\* The table is full: the request is refused and nothing is stored.
RefuseNewKey(k) ==
    /\ k \notin live
    /\ Cardinality(live) >= MaxEntries
    /\ UNCHANGED <<live, tok, last, seen, grants>>

AllowLocal(k, n) ==
    /\ kind = "local"
    /\ AllowNewKey(k, n) \/ AllowKnownKey(k, n) \/ RefuseNewKey(k)
    /\ UNCHANGED <<kind, now>>

\* Mutant: idle for one interval of refill is idle enough.
Idle_TooSoon(k) == now - seen[k] > Interval

Idle(k) == now - seen[k] > IdleTime

\* startCleanup's ticker; its phase is left open.
Cleanup ==
    /\ kind = "local"
    /\ live' = {k \in live : ~Idle(k)}
    /\ live' # live
    /\ UNCHANGED <<kind, now, tok, last, seen, grants>>

-----------------------------------------------------------------------------
(* DistributedRateLimiter.                                                 *)

\* time.Now().Unix() of instance i.
Clock(i) == ((now + Skew[i]) \div Second) * Second

\* HMGET finds the bucket unless its ttl has passed.
Stored(k) == k \in live /\ now - seen[k] < Ttl

\* Mutant: an instance whose clock is behind turns last_refill back.
LastRefill_MovesBack(i, k) == Clock(i)

\* last_refill moves to the caller's clock only if that is ahead.
LastRefill(i, k) ==
    IF Stored(k) /\ Clock(i) <= last[k] THEN last[k] ELSE Clock(i)

Refilled(i, k) ==
    IF ~Stored(k) THEN Window
    ELSE IF Clock(i) > last[k] THEN Least(Window, tok[k] + (Clock(i) - last[k]))
    ELSE tok[k]

\* tokenBucketScript, called by instance i: one step in Redis.
AllowDistributed(i, k, n) ==
    /\ kind = "distributed"
    /\ LET allowed == Cost(n) <= Refilled(i, k) IN
       /\ tok' = [tok EXCEPT ![k] =
                    IF allowed THEN Refilled(i, k) - Cost(n) ELSE Refilled(i, k)]
       /\ grants' = [grants EXCEPT ![k] =
                       IF allowed THEN grants[k] + Cost(n) ELSE grants[k]]
    /\ last' = [last EXCEPT ![k] = LastRefill(i, k)]
    /\ live' = live \cup {k}
    /\ seen' = [seen EXCEPT ![k] = now]
    /\ UNCHANGED <<kind, now>>

\* RedisCache.Clear is FlushDB on the client the limiter shares, so that
\* clearing the query cache also forgets every bucket.
FlushDB ==
    /\ kind = "distributed"
    /\ SharedRedis
    /\ live # {}
    /\ live' = {}
    /\ grants' = [k \in Keys |-> 0]
    /\ UNCHANGED <<kind, now, tok, last, seen>>

Tick ==
    /\ now < MaxTime
    /\ now' = now + 1
    /\ UNCHANGED <<kind, live, tok, last, seen, grants>>

BucketNext ==
    \/ \E k \in Keys, n \in Counts : AllowLocal(k, n)
    \/ \E i \in Instances, k \in Keys, n \in Counts : AllowDistributed(i, k, n)
    \/ Cleanup
    \/ FlushDB
    \/ Tick

BucketSpec == BucketInit /\ [][BucketNext]_bucketVars

-----------------------------------------------------------------------------
(* Properties.                                                             *)

\* The budget a bucket stands for: what it would hold if it were refilled
\* now, by the fastest clock; a key without a bucket is worth a full one.
LocalLevel == [k \in Keys |->
    IF kind = "local" /\ k \in live THEN Advanced(k, now) ELSE Window]

SharedLevel == [k \in Keys |->
    IF kind = "distributed" /\ Stored(k)
    THEN Least(Window + Slack, tok[k] + (now + Spread - last[k]))
    ELSE Window + Slack]

LocalGrants == [k \in Keys |-> IF kind = "local" THEN grants[k] ELSE 0]
SharedGrants == [k \in Keys |-> IF kind = "distributed" THEN grants[k] ELSE 0]

Local == INSTANCE GrantBudget
    WITH Costs <- {Cost(n) : n \in Counts}, Capacity <- Window,
         level <- LocalLevel, granted <- LocalGrants

Shared == INSTANCE GrantBudget
    WITH Costs <- {Cost(n) : n \in Counts}, Capacity <- Window + Slack,
         level <- SharedLevel, granted <- SharedGrants

\* The local limiter keeps the promise exactly: over any stretch of time a
\* key gets at most a burst plus what is refilled, although idle buckets are
\* forgotten and given back full (KeyedRateLimiter.Allow, startCleanup).
LocalKeepsBudget == Local!BudgetSpec

\* So do the instances that share a bucket in Redis, up to the difference of
\* their clocks: neither a clock that is behind, nor the ttl of an idle
\* bucket, nor the order of their calls lets a key have more
\* (tokenBucketScript).
SharedKeepsBudget == Shared!BudgetSpec
=============================================================================
