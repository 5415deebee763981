---------------------------- MODULE ServiceProofs ---------------------------
(***************************************************************************)
(* The start of the process for any configuration files, the connections,  *)
(* matchers and points of the Prometheus adapter for any calls, filters    *)
(* and answers, the pages of a table query for any table, arguments and    *)
(* appended rows, those of a template query for any result, its parameters *)
(* for any templates that fit them and its SQL for any template, and the   *)
(* byte counter and limits of the memory cache for any threads, keys and   *)
(* sizes.                                                                  *)
(***************************************************************************)
EXTENDS Service, CountingFacts, SequenceTheorems

-----------------------------------------------------------------------------
(* The start of the process                                                *)

\* The invariant holds before main has done anything.
LEMMA StartInitInv == boot = NewBoot => StartInv
<1> SUFFICES ASSUME boot = NewBoot PROVE StartInv
  OBVIOUS
<1>1. StartTypeOK
  BY DEF NewBoot, StartTypeOK, Boots
<1>2. boot.step = "load" /\ boot.fatal = ""
  BY DEF NewBoot
<1> QED
  BY <1>1, <1>2
     DEF StartInv, BuiltAsConfigured, RedisIsThereWhenNeeded, AfterTemplates,
         AfterMutations, AfterAuth, AfterCache, AfterRedis, AfterValidation

\* main gives up, for another reason than a missing Redis client.
LEMMA DiesInv ==
    ASSUME StartInv,
           NEW why \in {"load", "validate", "memory size", "audit file",
                        "sanitization rule", "jwt", "apikey", "mutations",
                        "writable tables", "template source"},
           Dies(why)
    PROVE  StartInv'
<1>1. StartTypeOK'
  BY DEF StartInv, StartTypeOK, Boots, Dies
<1>2. boot'.step = "dead" /\ boot'.fatal = why
  BY DEF StartInv, StartTypeOK, Boots, Dies
<1> QED
  BY <1>1, <1>2
     DEF StartInv, BuiltAsConfigured, RedisIsThereWhenNeeded, AfterTemplates,
         AfterMutations, AfterAuth, AfterCache, AfterRedis, AfterValidation

\* main goes on to its next step, with what it has built so far.
LEMMA BuiltInv ==
    ASSUME StartInv, NEW b, NEW next,
           Built(next, b),
           next \in {"validate", "redis", "cache", "limiter", "audit", "auth",
                     "mutations", "templates", "serving"},
           b \in Boots, b.fatal = boot.fatal,
           next \in AfterValidation => ValidateConfig(config),
           next \in AfterRedis => (b.redis <=> needsRedis(config)),
           next \in AfterCache => (config.cache => b.cache = config.backend),
           next \in AfterAuth =>
              (config.method \notin {"", "jwt "} => b.auth = config.method),
           next \in AfterMutations => (config.mutations.enabled => b.mutations),
           next \in AfterTemplates =>
              (config.mode = "production" /\ config.templates.enabled => b.engine)
    PROVE  StartInv'
<1>1. config' = config /\ boot' = [b EXCEPT !.step = next]
  BY DEF Built
<1>2. /\ boot'.step = next /\ boot'.fatal = boot.fatal /\ boot'.redis = b.redis
      /\ boot'.cache = b.cache /\ boot'.auth = b.auth /\ boot'.mutations = b.mutations
      /\ boot'.engine = b.engine
  BY <1>1 DEF Boots
<1>3. StartTypeOK'
  BY <1>1 DEF StartInv, StartTypeOK, Boots
<1> QED
  BY <1>1, <1>2, <1>3 DEF StartInv, BuiltAsConfigured, RedisIsThereWhenNeeded

\* Every step of main keeps it.
LEMMA StartNextInv == StartInv /\ [StartNext]_startVars => StartInv'
<1> SUFFICES ASSUME StartInv, [StartNext]_startVars
             PROVE  StartInv'
  OBVIOUS
<1> USE DEF AfterTemplates, AfterMutations, AfterAuth, AfterCache, AfterRedis,
            AfterValidation
<1>0. boot \in Boots
  BY DEF StartInv, StartTypeOK
<1>1. CASE LoadConfig
  <2>1. CASE Dies("load")
    BY <2>1, DiesInv
  <2>2. CASE boot' = [boot EXCEPT !.step = "validate"]
    <3>1. boot'.step = "validate" /\ boot'.fatal = boot.fatal /\ StartTypeOK'
      BY <2>2 DEF StartInv, StartTypeOK, Boots
    <3> QED
      BY <3>1 DEF StartInv, BuiltAsConfigured, RedisIsThereWhenNeeded
  <2> QED
    BY <1>1, <2>1, <2>2 DEF LoadConfig
<1>2. CASE Validate
  <2>1. CASE Dies("validate")
    BY <2>1, DiesInv
  <2>2. CASE Built("redis", boot) /\ ValidateConfig(config)
    BY <1>0, <2>2, BuiltInv
  <2> QED
    BY <1>2, <2>1, <2>2 DEF Validate
<1>3. CASE InitRedis
  <2> DEFINE b == [boot EXCEPT !.redis = needsRedis(config)
                                           /\ resolveRedisAddr(config) # ""]
  <2>1. resolveRedisAddr(config) # ""
    BY DEF resolveRedisAddr
  <2>2. b \in Boots /\ b.fatal = boot.fatal /\ (b.redis <=> needsRedis(config))
    BY <1>0, <2>1 DEF needsRedis, Boots
  <2>3. ValidateConfig(config) /\ Built("cache", b)
    BY <1>3 DEF InitRedis, StartInv, BuiltAsConfigured
  <2> HIDE DEF b
  <2> QED
    BY <2>2, <2>3, BuiltInv
<1>4. CASE InitCache
  <2>1. ValidateConfig(config) /\ (boot.redis <=> needsRedis(config))
    BY <1>4 DEF InitCache, StartInv, BuiltAsConfigured
  <2>2. config.backend \in {"memory", "redis"}
    BY <2>1 DEF ValidateConfig
  <2>3. CASE ~config.cache
    <3>1. Built("limiter", boot)
      BY <1>4, <2>3 DEF InitCache
    <3> QED
      BY <1>0, <2>1, <2>3, <3>1, BuiltInv
  <2>4. CASE config.cache /\ config.backend = "redis"
    <3> DEFINE b == [boot EXCEPT !.cache = "redis"]
    <3>1. boot.redis
      BY <2>1, <2>4 DEF needsRedis
    <3>2. Built("limiter", b)
      BY <1>4, <2>4, <3>1 DEF InitCache
    <3>3. b \in Boots /\ b.fatal = boot.fatal /\ b.cache = "redis" /\ b.redis = boot.redis
      BY <1>0 DEF Boots
    <3> HIDE DEF b
    <3> QED
      BY <2>1, <2>4, <3>2, <3>3, BuiltInv
  <2>5. CASE config.cache /\ config.backend = "memory"
    <3> DEFINE b == [boot EXCEPT !.cache = "memory"]
    <3>1. Built("limiter", b) \/ Dies("memory size")
      BY <1>4, <2>5 DEF InitCache
    <3>2. b \in Boots /\ b.fatal = boot.fatal /\ b.cache = "memory" /\ b.redis = boot.redis
      BY <1>0 DEF Boots
    <3> HIDE DEF b
    <3> QED
      BY <2>1, <2>5, <3>1, <3>2, BuiltInv, DiesInv
  <2> QED
    BY <2>2, <2>3, <2>4, <2>5
<1>5. CASE InitRateLimiter
  <2>1. /\ ValidateConfig(config) /\ (boot.redis <=> needsRedis(config))
        /\ config.cache => boot.cache = config.backend
    BY <1>5 DEF InitRateLimiter, StartInv, BuiltAsConfigured
  <2>2. PICK l \in {"local", "fallback"} : Built("audit", [boot EXCEPT !.limiter = l])
    BY <1>5, <2>1 DEF InitRateLimiter, needsRedis
  <2> DEFINE b == [boot EXCEPT !.limiter = l]
  <2>3. b \in Boots /\ b.fatal = boot.fatal /\ b.cache = boot.cache /\ b.redis = boot.redis
    BY <1>0 DEF Boots
  <2>4. Built("audit", b)
    BY <2>2
  <2> HIDE DEF b
  <2> QED
    BY <2>1, <2>3, <2>4, BuiltInv
<1>6. CASE InitAudit
  <2>1. /\ ValidateConfig(config) /\ (boot.redis <=> needsRedis(config))
        /\ config.cache => boot.cache = config.backend
    BY <1>6 DEF InitAudit, StartInv, BuiltAsConfigured
  <2>2. CASE Built("auth", boot)
    BY <1>0, <2>1, <2>2, BuiltInv
  <2> QED
    BY <1>6, <2>2, DiesInv DEF InitAudit
<1>7. CASE InitAuth
  <2>1. /\ ValidateConfig(config) /\ (boot.redis <=> needsRedis(config))
        /\ config.cache => boot.cache = config.backend
    BY <1>7 DEF InitAuth, StartInv, BuiltAsConfigured
  <2>2. config.method \in {"", "jwt", "apikey", "jwt "}
    BY <2>1 DEF ValidateConfig, AuthValid, TrimSpace
  <2>3. CASE config.method \in {"jwt", "apikey"}
    <3> DEFINE b == [boot EXCEPT !.auth = config.method]
    <3>1. Built("mutations", b) \/ Dies("jwt") \/ Dies("apikey")
      BY <1>7, <2>3 DEF InitAuth
    <3>2. b \in Boots /\ b.fatal = boot.fatal /\ b.cache = boot.cache /\ b.redis = boot.redis
          /\ b.auth = config.method
      BY <1>0, <2>3, ZenonT(60) DEF Boots
    <3> HIDE DEF b
    <3>3. CASE Built("mutations", b)
      BY <2>1, <3>2, <3>3, BuiltInv
    <3> QED
      BY <3>1, <3>3, DiesInv
  <2>4. CASE config.method \in {"", "jwt "}
    <3>1. Built("mutations", boot)
      BY <1>7, <2>4 DEF InitAuth
    <3> QED
      BY <1>0, <2>1, <2>4, <3>1, BuiltInv
  <2> QED
    BY <2>2, <2>3, <2>4
<1>8. CASE InitMutations
  <2>1. /\ ValidateConfig(config) /\ (boot.redis <=> needsRedis(config))
        /\ config.cache => boot.cache = config.backend
        /\ config.method \notin {"", "jwt "} => boot.auth = config.method
    BY <1>8 DEF InitMutations, StartInv, BuiltAsConfigured
  <2> DEFINE b == [boot EXCEPT !.mutations = TRUE]
  <2>2. \/ Dies("mutations") \/ Dies("writable tables")
        \/ ~config.mutations.enabled /\ Built("templates", boot)
        \/ Built("templates", b)
    BY <1>8 DEF InitMutations
  <2>3. /\ b \in Boots /\ b.fatal = boot.fatal /\ b.cache = boot.cache /\ b.redis = boot.redis
        /\ b.auth = boot.auth /\ b.mutations
    BY <1>0 DEF Boots
  <2> HIDE DEF b
  <2>4. CASE Built("templates", b)
    BY <2>1, <2>3, <2>4, BuiltInv
  <2>5. CASE ~config.mutations.enabled /\ Built("templates", boot)
    BY <1>0, <2>1, <2>5, BuiltInv
  <2> QED
    BY <2>2, <2>4, <2>5, DiesInv
<1>9. CASE InitTemplates
  <2>1. /\ ValidateConfig(config) /\ (boot.redis <=> needsRedis(config))
        /\ config.cache => boot.cache = config.backend
        /\ config.method \notin {"", "jwt "} => boot.auth = config.method
        /\ config.mutations.enabled => boot.mutations
    BY <1>9 DEF InitTemplates, StartInv, BuiltAsConfigured
  <2> DEFINE b == [boot EXCEPT !.engine = TRUE]
  <2>2. \/ Dies("template source")
        \/ /\ ~config.templates.enabled \/ config.mode = "development"
           /\ Built("serving", boot)
        \/ Built("serving", b)
    BY <1>9 DEF InitTemplates
  <2>3. /\ b \in Boots /\ b.fatal = boot.fatal /\ b.cache = boot.cache /\ b.redis = boot.redis
        /\ b.auth = boot.auth /\ b.mutations = boot.mutations /\ b.engine
    BY <1>0 DEF Boots
  <2> HIDE DEF b
  <2>4. CASE Built("serving", b)
    BY <2>1, <2>3, <2>4, BuiltInv
  <2>5. CASE /\ ~config.templates.enabled \/ config.mode = "development"
             /\ Built("serving", boot)
    BY <1>0, <2>1, <2>5, BuiltInv
  <2> QED
    BY <2>2, <2>4, <2>5, DiesInv
<1>10. CASE Settled \/ UNCHANGED startVars
  <2>1. config' = config /\ boot' = boot
    BY <1>10 DEF Settled, startVars
  <2>2. StartTypeOK'
    BY <2>1 DEF StartInv, StartTypeOK
  <2> QED
    BY <2>1, <2>2 DEF StartInv, BuiltAsConfigured, RedisIsThereWhenNeeded
<1> QED
  BY <1>1, <1>2, <1>3, <1>4, <1>5, <1>6, <1>7, <1>8, <1>9, <1>10 DEF StartNext

\* The invariant says what the property asks for.
LEMMA StartInvProperty == StartInv => StartsAsConfigured
BY DEF StartInv, BuiltAsConfigured, StartsAsConfigured, ServesAsConfigured,
       AfterTemplates, AfterMutations, AfterAuth, AfterCache

\* Whatever the configuration file says, validation and construction agree:
\* nothing that needs Redis is left without a client, and a process that serves
\* has every component its configuration asks for.
THEOREM ProcessStartsAsConfigured == StartSpec => []StartsAsConfigured
<1>1. StartInit => StartInv
  BY StartInitInv DEF StartInit
<1> QED
  BY <1>1, StartNextInv, StartInvProperty, PTL DEF StartSpec

-----------------------------------------------------------------------------
(* The connections of the Prometheus adapter                               *)

\* A call that changes its place opens a connection, closes one, or neither,
\* and the counter goes with it.
LEMMA OneCallCounted ==
    ASSUME CallsAreRecords, ConnsCounted, NEW c \in Calls, NEW v,
           call' = [call EXCEPT ![c] = v],
           DOMAIN v = {"at", "op", "args", "sent", "got", "result"},
           \/ c \notin Open /\ v.at \notin {"sent", "body"} /\ activeConns' = activeConns
           \/ c \notin Open /\ v.at \in {"sent", "body"} /\ activeConns' = activeConns + 1
           \/ c \in Open /\ v.at \in {"sent", "body"} /\ activeConns' = activeConns
           \/ c \in Open /\ v.at \notin {"sent", "body"} /\ activeConns' = activeConns - 1
    PROVE  CallsAreRecords' /\ ConnsCounted'
<1>1. call'[c] = v /\ \A d \in Calls : d # c => call'[d] = call[d]
  BY DEF CallsAreRecords
<1>2. CallsAreRecords'
  BY <1>1 DEF CallsAreRecords
<1>3. IsFiniteSet(Open)
  <2>1. Open \in SUBSET Calls
    BY DEF Open
  <2> QED
    BY <2>1, MetricConstants, FS_Subset
<1>4. /\ v.at \in {"sent", "body"} => Open' = Open \cup {c}
      /\ v.at \notin {"sent", "body"} => Open' = Open \ {c}
  BY <1>1 DEF Open
<1>5. Cardinality(Open) \in Nat
  BY <1>3, FS_CardinalityType
<1>6. /\ Cardinality(Open \cup {c}) =
            IF c \in Open THEN Cardinality(Open) ELSE Cardinality(Open) + 1
      /\ Cardinality(Open \ {c}) =
            IF c \in Open THEN Cardinality(Open) - 1 ELSE Cardinality(Open)
  BY <1>3, FS_AddElement, FS_RemoveElement
<1>7. ConnsCounted'
  BY <1>4, <1>5, <1>6 DEF ConnsCounted
<1> QED
  BY <1>2, <1>7

\* No connection is open at the start.
LEMMA MetricInitInv == MetricInit => CallsAreRecords /\ ConnsCounted
<1> SUFFICES ASSUME MetricInit PROVE CallsAreRecords /\ ConnsCounted
  OBVIOUS
<1>1. Open = {}
  BY DEF MetricInit, IdleCall, Open
<1>2. ConnsCounted
  BY <1>1, FS_EmptySet DEF MetricInit, ConnsCounted
<1> QED
  BY <1>2 DEF MetricInit, IdleCall, CallsAreRecords

\* Every step of the adapter keeps the count.
LEMMA MetricNextInv ==
    CallsAreRecords /\ ConnsCounted /\ [MetricNext]_metricVars
        => CallsAreRecords' /\ ConnsCounted'
<1> SUFFICES ASSUME CallsAreRecords, ConnsCounted, [MetricNext]_metricVars
             PROVE  CallsAreRecords' /\ ConnsCounted'
  OBVIOUS
<1> DEFINE Fields == {"at", "op", "args", "sent", "got", "result"}
<1>0. DOMAIN IdleCall = Fields /\ IdleCall.at = "idle"
  BY DEF IdleCall
<1>a. \A c \in Calls : DOMAIN call[c] = Fields
  BY DEF CallsAreRecords
<1>1. ASSUME NEW c \in Calls,
             \/ BeginQuery(c) \/ BeginHealthCheck(c) \/ BeginConnect(c) \/ Return(c)
      PROVE  CallsAreRecords' /\ ConnsCounted'
  <2>1. c \notin Open
    BY <1>1 DEF BeginQuery, BeginHealthCheck, BeginConnect, Return, Open
  <2>2. PICK v : /\ call' = [call EXCEPT ![c] = v] /\ DOMAIN v = Fields
                 /\ \/ v.at \in {"sent", "body"} /\ activeConns' = activeConns + 1
                    \/ v.at \notin {"sent", "body"} /\ activeConns' = activeConns
    <3>0. ASSUME NEW w, call' = [call EXCEPT ![c] = w], DOMAIN w = Fields,
                 \/ w.at = "sent" /\ activeConns' = activeConns + 1
                 \/ w.at \in {"failed", "done"} /\ activeConns' = activeConns
          PROVE  \E v : /\ call' = [call EXCEPT ![c] = v] /\ DOMAIN v = Fields
                      /\ \/ v.at \in {"sent", "body"} /\ activeConns' = activeConns + 1
                         \/ v.at \notin {"sent", "body"} /\ activeConns' = activeConns
      BY <3>0
    <3>1. CASE BeginQuery(c)
      <4>1. PICK a \in MetricArgs :
              \/ /\ call' = [call EXCEPT ![c] =
                       [IdleCall EXCEPT !.at = "sent", !.op = a.op, !.args = a,
                                        !.sent = appendLabelMatchers(
                                            buildPrometheusRequest(a.filters))]]
                 /\ activeConns' = activeConns + 1
              \/ /\ call' = [call EXCEPT ![c] = [IdleCall EXCEPT !.at = "failed",
                                                                 !.op = a.op]]
                 /\ activeConns' = activeConns
        BY <3>1 DEF BeginQuery
      <4> DEFINE v == [IdleCall EXCEPT !.at = "sent", !.op = a.op, !.args = a,
                                       !.sent = appendLabelMatchers(
                                           buildPrometheusRequest(a.filters))]
                 w == [IdleCall EXCEPT !.at = "failed", !.op = a.op]
      <4>2. DOMAIN v = Fields /\ v.at = "sent" /\ DOMAIN w = Fields /\ w.at = "failed"
        BY <1>0
      <4>3. \/ call' = [call EXCEPT ![c] = v] /\ activeConns' = activeConns + 1
            \/ call' = [call EXCEPT ![c] = w] /\ activeConns' = activeConns
        BY <4>1
      <4> HIDE DEF v, w
      <4> QED
        BY <3>0, <4>2, <4>3
    <3>2. CASE BeginHealthCheck(c)
      <4> DEFINE v == [IdleCall EXCEPT !.at = "sent", !.op = "health"]
      <4>1. DOMAIN v = Fields /\ v.at = "sent"
        BY <1>0
      <4>2. call' = [call EXCEPT ![c] = v] /\ activeConns' = activeConns + 1
        BY <3>2 DEF BeginHealthCheck
      <4> HIDE DEF v
      <4> QED
        BY <3>0, <4>1, <4>2
    <3>3. CASE BeginConnect(c)
      <4> DEFINE v == [IdleCall EXCEPT !.at = "sent", !.op = "connect"]
                 w == [IdleCall EXCEPT !.at = "done", !.op = "connect"]
      <4>1. DOMAIN v = Fields /\ v.at = "sent" /\ DOMAIN w = Fields /\ w.at = "done"
        BY <1>0
      <4>2. \/ call' = [call EXCEPT ![c] = v] /\ activeConns' = activeConns + 1
            \/ call' = [call EXCEPT ![c] = w] /\ activeConns' = activeConns
        BY <3>3 DEF BeginConnect
      <4> HIDE DEF v, w
      <4> QED
        BY <3>0, <4>1, <4>2
    <3>4. CASE Return(c)
      BY <1>0, <3>4 DEF Return
    <3> QED
      BY <1>1, <3>1, <3>2, <3>3, <3>4
  <2> QED
    BY <2>1, <2>2, OneCallCounted
<1>2. ASSUME NEW c \in Calls, RoundTripAnswers(c)
      PROVE  CallsAreRecords' /\ ConnsCounted'
  <2>1. PICK r \in Responses : call' = [call EXCEPT ![c].at = "body", ![c].got = r]
    BY <1>2 DEF RoundTripAnswers
  <2> DEFINE v == [call[c] EXCEPT !.at = "body", !.got = r]
  <2>2. call' = [call EXCEPT ![c] = v] /\ c \in Open /\ activeConns' = activeConns
    BY <1>2, <1>a, <2>1 DEF RoundTripAnswers, Open, CallsAreRecords
  <2>3. DOMAIN v = Fields /\ v.at = "body"
    BY <1>a
  <2> HIDE DEF v
  <2> QED
    BY <2>2, <2>3, OneCallCounted
<1>3. ASSUME NEW c \in Calls, RoundTripFails(c) \/ FinishQuery(c) \/ FinishProbe(c)
      PROVE  CallsAreRecords' /\ ConnsCounted'
  <2>1. c \in Open /\ activeConns' = activeConns - 1
    BY <1>3 DEF RoundTripFails, FinishQuery, FinishProbe, Open
  <2>2. \/ Fails(c)
        \/ \E w : call' = [call EXCEPT ![c].at = "done", ![c].result = w]
        \/ call' = [call EXCEPT ![c].at = "done"]
    BY <1>3 DEF RoundTripFails, FinishQuery, FinishProbe
  <2>3. PICK v : /\ call' = [call EXCEPT ![c] = v] /\ DOMAIN v = Fields
                 /\ v.at \in {"failed", "done"}
    <3>1. CASE Fails(c)
      <4> DEFINE v == [IdleCall EXCEPT !.at = "failed", !.op = call[c].op]
      <4>1. call' = [call EXCEPT ![c] = v] /\ DOMAIN v = Fields /\ v.at = "failed"
        BY <1>0, <3>1 DEF Fails
      <4> QED
        BY <4>1
    <3>2. ASSUME NEW w, call' = [call EXCEPT ![c].at = "done", ![c].result = w]
          PROVE  \E v : /\ call' = [call EXCEPT ![c] = v] /\ DOMAIN v = Fields
                        /\ v.at \in {"failed", "done"}
      <4> DEFINE v == [call[c] EXCEPT !.at = "done", !.result = w]
      <4>1. call' = [call EXCEPT ![c] = v] /\ DOMAIN v = Fields /\ v.at = "done"
        BY <1>a, <3>2 DEF CallsAreRecords
      <4> QED
        BY <4>1
    <3>3. CASE call' = [call EXCEPT ![c].at = "done"]
      <4> DEFINE v == [call[c] EXCEPT !.at = "done"]
      <4>1. call' = [call EXCEPT ![c] = v] /\ DOMAIN v = Fields /\ v.at = "done"
        BY <1>a, <3>3 DEF CallsAreRecords
      <4> QED
        BY <4>1
    <3> QED
      BY <2>2, <3>1, <3>2, <3>3
  <2>4. v.at \notin {"sent", "body"}
    BY <2>3
  <2> QED
    BY <2>1, <2>3, <2>4, OneCallCounted
<1>4. CASE CloseAdapter \/ UNCHANGED metricVars
  BY <1>4 DEF CloseAdapter, metricVars, CallsAreRecords, ConnsCounted, Open
<1> QED
  BY <1>1, <1>2, <1>3, <1>4 DEF MetricNext

\* The connection gauge is exact for any number of concurrent calls, whichever
\* way each of them ends.
THEOREM MetricConnsCounted == MetricSpec => []ConnsCounted
BY MetricInitInv, MetricNextInv, PTL DEF MetricSpec

-----------------------------------------------------------------------------
(* Metric queries                                                          *)

\* A list of lists of at most one element: the elements of its flattening.
LEMMA FlattenOnes ==
    ASSUME NEW U, NEW ss \in Seq(Seq(U)), \A i \in 1 .. Len(ss) : Len(ss[i]) \in {0, 1}
    PROVE  /\ FlattenSeq(ss) \in Seq(U)
           /\ ToSet(FlattenSeq(ss)) = {ss[i][1] : i \in {j \in 1 .. Len(ss) : Len(ss[j]) = 1}}
<1> DEFINE flat == FlattenSeq(ss)
           S == {ss[i][1] : i \in {j \in 1 .. Len(ss) : Len(ss[j]) = 1}}
<1>1. /\ flat \in Seq(U)
      /\ \A i \in 1 .. Len(ss) : Len(ss[i]) = 1 =>
            /\ Ahead(ss, i - 1) + 1 \in 1 .. Len(flat)
            /\ flat[Ahead(ss, i - 1) + 1] = ss[i][1]
      /\ \A k \in 1 .. Len(flat) :
            \E i \in 1 .. Len(ss) : /\ Len(ss[i]) = 1 /\ k = Ahead(ss, i - 1) + 1
                                    /\ flat[k] = ss[i][1]
  BY KeptFacts
<1> HIDE DEF flat
<1>2. DOMAIN flat = 1 .. Len(flat)
  BY <1>1
<1>3. ToSet(flat) = {flat[k] : k \in 1 .. Len(flat)}
  BY <1>2 DEF ToSet
<1>4. ASSUME NEW x \in ToSet(flat) PROVE x \in S
  <2>1. PICK k \in 1 .. Len(flat) : x = flat[k]
    BY <1>3
  <2>2. PICK i \in 1 .. Len(ss) : Len(ss[i]) = 1 /\ flat[k] = ss[i][1]
    BY <1>1
  <2> QED
    BY <2>1, <2>2
<1>5. ASSUME NEW x \in S PROVE x \in ToSet(flat)
  <2>1. PICK i \in 1 .. Len(ss) : Len(ss[i]) = 1 /\ x = ss[i][1]
    OBVIOUS
  <2> QED
    BY <1>1, <1>3, <2>1
<1> HIDE DEF S
<1>6. ToSet(flat) = S
  BY <1>4, <1>5
<1> QED
  BY <1>1, <1>6 DEF flat, S

\* What the request makes of a filter, and the expression of that.
Conditions == [field : STRING, value : STRING, op : {"EQ", "NEQ", "LIKE", "NOT_IN"}]
ConditionOf(f) ==
    [field |-> f.name, value |-> f.value, op |-> convertLabelMatchType(f.match)]
Matchers == [name : STRING, sign : {"=", "!=", "=~"}, value : STRING]
MatcherOf(d) ==
    [name |-> d.field, sign |-> filterOpToLabelMatch(d.op), value |-> d.value]

\* The request has a condition for every filter that is not null.
LEMMA RequestFacts ==
    ASSUME NEW fs \in Seq(LabelFilters \cup {Nothing})
    PROVE  /\ buildPrometheusRequest(fs) \in Seq(Conditions)
           /\ ToSet(buildPrometheusRequest(fs)) = {ConditionOf(f) : f \in ToSet(fs) \ {Nothing}}
<1> DEFINE n == Len(fs)
           ss == [i \in 1 .. n |-> IF fs[i] = Nothing THEN <<>> ELSE <<ConditionOf(fs[i])>>]
           S == {ss[i][1] : i \in {j \in 1 .. n : Len(ss[j]) = 1}}
<1>1. n \in Nat /\ DOMAIN fs = 1 .. n /\ buildPrometheusRequest(fs) = FlattenSeq(ss)
  <2>1. n \in Nat /\ DOMAIN fs = 1 .. n
    OBVIOUS
  <2> HIDE DEF n
  <2> QED
    BY <2>1 DEF buildPrometheusRequest, ConditionOf
<1>2. ASSUME NEW i \in 1 .. n
      PROVE  /\ ss[i] \in Seq(Conditions) /\ Len(ss[i]) \in {0, 1}
             /\ Len(ss[i]) = 1 <=> fs[i] # Nothing
             /\ fs[i] # Nothing => ss[i][1] = ConditionOf(fs[i])
  <2>1. CASE fs[i] = Nothing
    <3>1. ss[i] = <<>>
      BY <2>1
    <3> QED
      BY <2>1, <3>1, EmptySeq
  <2>2. CASE fs[i] # Nothing
    <3>1. fs[i] \in LabelFilters /\ ss[i] = <<ConditionOf(fs[i])>>
      BY <2>2
    <3>2. convertLabelMatchType(fs[i].match) \in {"EQ", "NEQ", "LIKE", "NOT_IN"}
      BY <3>1 DEF LabelFilters, convertLabelMatchType
    <3>3. ConditionOf(fs[i]) \in Conditions
      BY <3>1, <3>2 DEF LabelFilters, ConditionOf, Conditions
    <3> HIDE DEF ss
    <3> QED
      BY <2>2, <3>1, <3>3
  <2> QED
    BY <2>1, <2>2
<1>3. ss \in Seq(Seq(Conditions)) /\ Len(ss) = n
  BY <1>1, <1>2
<1> HIDE DEF ss
<1>4. /\ FlattenSeq(ss) \in Seq(Conditions) /\ ToSet(FlattenSeq(ss)) = S
  <2>1. \A i \in 1 .. Len(ss) : Len(ss[i]) \in {0, 1}
    BY <1>2, <1>3
  <2>2. /\ FlattenSeq(ss) \in Seq(Conditions)
        /\ ToSet(FlattenSeq(ss)) = {ss[i][1] : i \in {j \in 1 .. Len(ss) : Len(ss[j]) = 1}}
    BY <1>3, <2>1, FlattenOnes
  <2> QED
    BY <1>3, <2>2
<1>5. S = {ConditionOf(f) : f \in ToSet(fs) \ {Nothing}}
  <2>1. S = {ConditionOf(fs[i]) : i \in {j \in 1 .. n : fs[j] # Nothing}}
    BY <1>2
  <2>2. ToSet(fs) = {fs[i] : i \in 1 .. n}
    BY <1>1 DEF ToSet
  <2> QED
    BY <2>1, <2>2
<1> QED
  BY <1>1, <1>4, <1>5

\* The expression has a matcher for every condition but NOT_IN.
LEMMA ExpressionFacts ==
    ASSUME NEW cs \in Seq(Conditions)
    PROVE  ToSet(appendLabelMatchers(cs))
             = {MatcherOf(d) : d \in {e \in ToSet(cs) : e.op # "NOT_IN"}}
<1> DEFINE n == Len(cs)
           ss == [i \in 1 .. n |-> IF filterOpToLabelMatch(cs[i].op) = "none" THEN <<>>
                                   ELSE <<MatcherOf(cs[i])>>]
           S == {ss[i][1] : i \in {j \in 1 .. n : Len(ss[j]) = 1}}
<1>1. n \in Nat /\ DOMAIN cs = 1 .. n /\ appendLabelMatchers(cs) = FlattenSeq(ss)
  BY DEF appendLabelMatchers, MatcherOf
<1>2. ASSUME NEW i \in 1 .. n
      PROVE  /\ ss[i] \in Seq(Matchers) /\ Len(ss[i]) \in {0, 1}
             /\ Len(ss[i]) = 1 <=> cs[i].op # "NOT_IN"
             /\ cs[i].op # "NOT_IN" => ss[i][1] = MatcherOf(cs[i])
  <2>1. cs[i] \in Conditions
    OBVIOUS
  <2>2. CASE cs[i].op = "NOT_IN"
    <3>1. ss[i] = <<>>
      BY <2>2 DEF filterOpToLabelMatch
    <3> QED
      BY <2>2, <3>1, EmptySeq
  <2>3. CASE cs[i].op # "NOT_IN"
    <3>1. filterOpToLabelMatch(cs[i].op) \in {"=", "!=", "=~"}
      BY <2>1, <2>3 DEF Conditions, filterOpToLabelMatch
    <3>2. ss[i] = <<MatcherOf(cs[i])>>
      BY <3>1
    <3>3. MatcherOf(cs[i]) \in Matchers
      BY <2>1, <3>1 DEF Conditions, MatcherOf, Matchers
    <3> HIDE DEF ss
    <3> QED
      BY <2>3, <3>2, <3>3
  <2> QED
    BY <2>2, <2>3
<1>3. ss \in Seq(Seq(Matchers)) /\ Len(ss) = n
  BY <1>1, <1>2
<1> HIDE DEF ss
<1>4. ToSet(FlattenSeq(ss)) = S
  <2>1. \A i \in 1 .. Len(ss) : Len(ss[i]) \in {0, 1}
    BY <1>2, <1>3
  <2>2. ToSet(FlattenSeq(ss)) = {ss[i][1] : i \in {j \in 1 .. Len(ss) : Len(ss[j]) = 1}}
    BY <1>3, <2>1, FlattenOnes
  <2> QED
    BY <1>3, <2>2
<1>5. S = {MatcherOf(d) : d \in {e \in ToSet(cs) : e.op # "NOT_IN"}}
  <2>1. S = {MatcherOf(cs[i]) : i \in {j \in 1 .. n : cs[j].op # "NOT_IN"}}
    BY <1>2
  <2>2. ToSet(cs) = {cs[i] : i \in 1 .. n}
    BY <1>1 DEF ToSet
  <2> HIDE DEF n, S
  <2>3. {e \in ToSet(cs) : e.op # "NOT_IN"} = {cs[i] : i \in {j \in 1 .. n : cs[j].op # "NOT_IN"}}
    BY <2>2
  <2> QED
    BY <2>1, <2>3
<1> QED
  BY <1>1, <1>4, <1>5

\* The matchers sent are the filters asked for.
LEMMA MatchersFacts ==
    ASSUME NEW fs \in Seq(LabelFilters \cup {Nothing}), Expressible(fs)
    PROVE  ToSet(appendLabelMatchers(buildPrometheusRequest(fs))) = Asked(fs)
<1> DEFINE cs == buildPrometheusRequest(fs)
           F == ToSet(fs) \ {Nothing}
<1>1. cs \in Seq(Conditions) /\ ToSet(cs) = {ConditionOf(f) : f \in F}
  BY RequestFacts
<1> HIDE DEF cs
<1>2. ToSet(appendLabelMatchers(cs))
        = {MatcherOf(d) : d \in {e \in ToSet(cs) : e.op # "NOT_IN"}}
  BY <1>1, ExpressionFacts
<1>3. \A f \in F : f \in LabelFilters /\ f.match # "NOT_REGEX"
  BY DEF ToSet, Expressible
<1> HIDE DEF F
<1>4. ASSUME NEW f \in F
      PROVE  ConditionOf(f).op # "NOT_IN" /\ MatcherOf(ConditionOf(f)) = Documented(f)
  <2>1. f \in LabelFilters /\ f.match \in {"EXACT", "NOT_EQUAL", "REGEX"}
    BY <1>3 DEF LabelFilters
  <2>2. /\ ConditionOf(f).op = convertLabelMatchType(f.match)
        /\ ConditionOf(f).field = f.name /\ ConditionOf(f).value = f.value
    BY DEF ConditionOf
  <2>3. MatcherOf(ConditionOf(f))
          = [name |-> f.name, sign |-> filterOpToLabelMatch(convertLabelMatchType(f.match)),
             value |-> f.value]
    BY <2>2 DEF MatcherOf
  <2>4. CASE f.match = "EXACT"
    BY <2>2, <2>3, <2>4 DEF convertLabelMatchType, filterOpToLabelMatch, Documented
  <2>5. CASE f.match = "NOT_EQUAL"
    BY <2>2, <2>3, <2>5 DEF convertLabelMatchType, filterOpToLabelMatch, Documented
  <2>6. CASE f.match = "REGEX"
    BY <2>2, <2>3, <2>6 DEF convertLabelMatchType, filterOpToLabelMatch, Documented
  <2> QED
    BY <2>1, <2>4, <2>5, <2>6
<1>5. {MatcherOf(d) : d \in {e \in ToSet(cs) : e.op # "NOT_IN"}} = {Documented(f) : f \in F}
  BY <1>1, <1>4, Zenon
<1>6. Asked(fs) = {Documented(f) : f \in F}
  BY Zenon DEF Asked, F
<1> QED
  BY <1>2, <1>5, <1>6 DEF cs

\* The points that are no numbers.
NoNumbers == {"special", "bad"}

\* A warning for each point of a series that is no number.
LEMMA SeriesFacts ==
    ASSUME NEW s \in Series
    PROVE  ConvertSeries(s).warnings = Among(s.points, NoNumbers)
<1> DEFINE n == Len(s.points)
           read == [j \in 1 .. n |-> parseTimestampValue(s.points[j])]
           w == [j \in 1 .. n |-> read[j].warnings]
<1>1. n \in Nat /\ DOMAIN s.points = 1 .. n
      /\ \A j \in 1 .. n : s.points[j] \in {"num", "special", "bad"}
  BY DEF Series
<1>2. ConvertSeries(s).warnings = SumFunction(w)
  BY <1>1 DEF ConvertSeries
<1>3. SumFunction(w) = SumFunctionOnSet(w, 1 .. n)
  BY DEF SumFunction
<1>4. \A j \in 1 .. n : w[j] \in {0, 1} /\ (w[j] = 1 <=> s.points[j] \in NoNumbers)
  <2> SUFFICES ASSUME NEW j \in 1 .. n
               PROVE  w[j] \in {0, 1} /\ (w[j] = 1 <=> s.points[j] \in NoNumbers)
    OBVIOUS
  <2>1. CASE s.points[j] = "num"
    BY <2>1 DEF parseTimestampValue, NoNumbers
  <2>2. CASE s.points[j] # "num"
    BY <1>1, <2>2 DEF parseTimestampValue, NoNumbers
  <2> QED
    BY <2>1, <2>2
<1> HIDE DEF w, n
<1>6. SumFunctionOnSet(w, 1 .. n) = Cardinality({j \in 1 .. n : w[j] = 1})
  <2>1. \A j \in 1 .. n : w[j] \in {0, 1}
    BY <1>4
  <2> QED
    BY <1>1, <2>1, SumCounts
<1>7. {j \in 1 .. n : w[j] = 1} = {j \in 1 .. n : s.points[j] \in NoNumbers}
  BY <1>4
<1>8. Cardinality({j \in 1 .. n : w[j] = 1}) = Among(s.points, NoNumbers)
  BY <1>7 DEF Among, n
<1> QED
  BY <1>2, <1>3, <1>6, <1>8

\* As many points returned as counted, and a warning for each that is no number.
LEMMA ResponseFacts ==
    ASSUME NEW r, r.series \in Seq(Series), r.type \in {"vector", "matrix"},
           NEW vs, vs = Returned(r)
    PROVE  /\ Len(vs) \in Nat /\ Len(vs) = Points(r)
           /\ convertResponse(r).warnings = Cardinality({i \in DOMAIN vs : vs[i] # "num"})
           /\ DOMAIN convertResponse(r).rows = 1 .. Len(r.series)
<1> DEFINE U == {"num", "special", "bad"}
           ser == r.series
           n == Len(ser)
           ss == [i \in 1 .. n |-> ser[i].points]
           w == [i \in 1 .. n |-> ConvertSeries(ser[i]).warnings]
           l == [i \in 1 .. n |-> Len(ser[i].points)]
<1>1. n \in Nat /\ DOMAIN ser = 1 .. n /\ \A i \in 1 .. n : ser[i] \in Series
  OBVIOUS
<1>2. /\ vs = FlattenSeq(ss) /\ convertResponse(r).warnings = SumFunction(w)
      /\ Points(r) = SumFunction(l)
      /\ DOMAIN convertResponse(r).rows = 1 .. n
  BY <1>1 DEF convertResponse, Points, Returned
<1>3. SumFunction(w) = SumFunctionOnSet(w, 1 .. n)
      /\ SumFunction(l) = SumFunctionOnSet(l, 1 .. n)
  BY DEF SumFunction
<1>4. \A i \in 1 .. n : ss[i] \in Seq(U) /\ w[i] = Among(ss[i], NoNumbers)
  <2> SUFFICES ASSUME NEW i \in 1 .. n
               PROVE  ss[i] \in Seq(U) /\ w[i] = Among(ss[i], NoNumbers)
    OBVIOUS
  <2>1. ser[i] \in Series /\ ss[i] = ser[i].points
    BY <1>1
  <2>2. ConvertSeries(ser[i]).warnings = Among(ser[i].points, NoNumbers)
    BY <2>1, SeriesFacts
  <2>3. ser[i].points \in Seq(U)
    BY <2>1 DEF Series
  <2> QED
    BY <2>1, <2>2, <2>3
<1>5. ss \in Seq(Seq(U)) /\ Len(ss) = n
  <2> DEFINE X == Seq(U)
  <2>1. ss \in [1 .. n -> X]
    BY <1>4
  <2> HIDE DEF X, ss, n
  <2>2. ss \in Seq(X) /\ Len(ss) = n
    BY <1>1, <2>1
  <2> QED
    BY <2>2 DEF X
<1>6. w = [i \in 1 .. Len(ss) |-> Among(ss[i], NoNumbers)]
  BY <1>4, <1>5
<1>7. Lengths(ss) = l
  <2>1. \A i \in 1 .. n : Len(ss[i]) = l[i]
    OBVIOUS
  <2>2. DOMAIN ss = 1 .. n
    OBVIOUS
  <2> HIDE DEF ss
  <2> QED
    BY <2>1, <2>2 DEF Lengths
<1> HIDE DEF n, ss, w, l, U
<1>8. /\ vs \in Seq(U) /\ Len(vs) = Ahead(ss, Len(ss))
  BY <1>2, <1>5, FlattenFacts
<1>9. Len(vs) = Points(r)
  BY <1>2, <1>3, <1>5, <1>7, <1>8 DEF Ahead
<1>10. Among(vs, NoNumbers) = SumFunctionOnSet(w, 1 .. n)
  <2>1. Among(FlattenSeq(ss), NoNumbers)
          = SumFunctionOnSet([i \in 1 .. Len(ss) |-> Among(ss[i], NoNumbers)], 1 .. Len(ss))
    BY <1>5, FlattenCounts
  <2> QED
    BY <1>2, <1>5, <1>6, <2>1
<1>11. Among(vs, NoNumbers) = Cardinality({i \in DOMAIN vs : vs[i] # "num"})
  <2>1. DOMAIN vs = 1 .. Len(vs)
    BY <1>8
  <2>2. {i \in 1 .. Len(vs) : vs[i] \in NoNumbers} = {i \in 1 .. Len(vs) : vs[i] # "num"}
    BY <1>8 DEF NoNumbers, U
  <2> QED
    BY <2>1, <2>2 DEF Among
<1> QED
  BY <1>2, <1>3, <1>8, <1>9, <1>10, <1>11 DEF n

\* What one call has sent, got and answered.
CallUnderWay(v) ==
    v.at \in {"sent", "body"} /\ v.op \in {"instant", "range"} =>
        /\ v.args \in MetricArgs
        /\ v.sent = appendLabelMatchers(buildPrometheusRequest(v.args.filters))
        /\ v.at = "body" =>
              /\ v.got \in Responses
              /\ Parses(v.args.expr, v.sent) \/ v.got.http = "bad_status"
CallRestricted(v) ==
    v.at = "done" /\ v.op \in {"instant", "range"}
    /\ v.args.expr # "binary" /\ Expressible(v.args.filters) =>
        InForce(v.args.expr, v.sent, 1) = Asked(v.args.filters)
CallAnswered(v) ==
    v.at = "done" /\ v.op \in {"instant", "range"} /\ v.got.type \in {"vector", "matrix"} =>
        LET vs == Returned(v.got) IN
        /\ Len(v.result.answer) = Len(v.got.series)
        /\ Len(vs) <= MaxDataPoints
        /\ v.result.warnings = Cardinality({i \in DOMAIN vs : vs[i] # "num"})
CallFine(v) == CallUnderWay(v) /\ CallRestricted(v) /\ CallAnswered(v)

LEMMA CallsFine ==
    (MetricsAnswered /\ QueriesUnderWay) <=> \A c \in Calls : CallFine(call[c])
BY DEF MetricsAnswered, MatchersReachPrometheus, PointsAccountedFor, QueriesUnderWay,
       CallFine, CallUnderWay, CallRestricted, CallAnswered

\* One call moves on.
LEMMA OneCallFine ==
    ASSUME CallsAreRecords, MetricsAnswered, QueriesUnderWay, NEW c \in Calls, NEW v,
           call' = [call EXCEPT ![c] = v], CallFine(v)
    PROVE  MetricsAnswered' /\ QueriesUnderWay'
<1>1. \A d \in Calls : CallFine(call[d])
  BY CallsFine
<1>2. \A d \in Calls : call'[d] = IF d = c THEN v ELSE call[d]
  BY DEF CallsAreRecords
<1>3. \A d \in Calls : CallFine(call'[d])
  BY <1>1, <1>2
<1> QED
  BY <1>3 DEF MetricsAnswered, MatchersReachPrometheus, PointsAccountedFor,
              QueriesUnderWay, CallFine, CallUnderWay, CallRestricted, CallAnswered

\* A call that has nothing open and no query answered is fine.
LEMMA QuietCallFine ==
    ASSUME NEW v, \/ v.at \in {"idle", "failed"}
                  \/ v.at \in {"sent", "done"} /\ v.op \in {"health", "connect"}
    PROVE  CallFine(v)
BY DEF CallFine, CallUnderWay, CallRestricted, CallAnswered

\* Every step of the adapter keeps what was sent and answered in order.
LEMMA MetricAnswersInv ==
    ASSUME CallsAreRecords, MetricsAnswered, QueriesUnderWay, [MetricNext]_metricVars
    PROVE  MetricsAnswered' /\ QueriesUnderWay'
<1> DEFINE Fields == {"at", "op", "args", "sent", "got", "result"}
<1>0. /\ DOMAIN IdleCall = Fields /\ IdleCall.at = "idle"
  BY DEF IdleCall
<1>a. \A c \in Calls : DOMAIN call[c] = Fields
  BY DEF CallsAreRecords
<1>b. \A c \in Calls : CallFine(call[c])
  BY CallsFine
<1>c. ASSUME NEW c \in Calls, Fails(c)
      PROVE  MetricsAnswered' /\ QueriesUnderWay'
  <2> DEFINE v == [IdleCall EXCEPT !.at = "failed", !.op = call[c].op]
  <2>1. call' = [call EXCEPT ![c] = v] /\ v.at = "failed"
    BY <1>0, <1>c DEF Fails
  <2> HIDE DEF v
  <2> QED
    BY <2>1, QuietCallFine, OneCallFine
<1>1. ASSUME NEW c \in Calls, BeginQuery(c)
      PROVE  MetricsAnswered' /\ QueriesUnderWay'
  <2>1. PICK a \in MetricArgs :
          \/ call' = [call EXCEPT ![c] =
                   [IdleCall EXCEPT !.at = "sent", !.op = a.op, !.args = a,
                                    !.sent = appendLabelMatchers(
                                        buildPrometheusRequest(a.filters))]]
          \/ call' = [call EXCEPT ![c] = [IdleCall EXCEPT !.at = "failed", !.op = a.op]]
    BY <1>1 DEF BeginQuery
  <2> DEFINE sent == appendLabelMatchers(buildPrometheusRequest(a.filters))
             v == [IdleCall EXCEPT !.at = "sent", !.op = a.op, !.args = a, !.sent = sent]
             w == [IdleCall EXCEPT !.at = "failed", !.op = a.op]
  <2> HIDE DEF sent
  <2>3. v.at = "sent" /\ v.args = a /\ v.sent = sent /\ w.at = "failed"
    BY <1>0
  <2>4. \/ call' = [call EXCEPT ![c] = v]
        \/ call' = [call EXCEPT ![c] = w]
    BY <2>1 DEF sent
  <2> HIDE DEF v, w
  <2>5. CallFine(v)
    BY <2>3 DEF CallFine, CallUnderWay, CallRestricted, CallAnswered, sent
  <2> QED
    BY <2>3, <2>4, <2>5, QuietCallFine, OneCallFine
<1>2. ASSUME NEW c \in Calls, BeginHealthCheck(c) \/ BeginConnect(c) \/ Return(c)
      PROVE  MetricsAnswered' /\ QueriesUnderWay'
  <2> DEFINE u == [IdleCall EXCEPT !.at = "sent", !.op = "health"]
             v == [IdleCall EXCEPT !.at = "sent", !.op = "connect"]
             w == [IdleCall EXCEPT !.at = "done", !.op = "connect"]
  <2>1. /\ u.at = "sent" /\ u.op = "health" /\ v.at = "sent" /\ v.op = "connect"
        /\ w.at = "done" /\ w.op = "connect"
    BY <1>0
  <2>2. \/ call' = [call EXCEPT ![c] = u] \/ call' = [call EXCEPT ![c] = v]
        \/ call' = [call EXCEPT ![c] = w] \/ call' = [call EXCEPT ![c] = IdleCall]
    BY <1>2 DEF BeginHealthCheck, BeginConnect, Return
  <2> HIDE DEF u, v, w
  <2>3. CallFine(u) /\ CallFine(v) /\ CallFine(w) /\ CallFine(IdleCall)
    BY <1>0, <2>1, QuietCallFine
  <2> QED
    BY <2>2, <2>3, OneCallFine
<1>3. ASSUME NEW c \in Calls, RoundTripAnswers(c)
      PROVE  MetricsAnswered' /\ QueriesUnderWay'
  <2>1. PICK r \in Responses :
          /\ call[c].op \in {"instant", "range"} =>
                Parses(call[c].args.expr, call[c].sent) \/ r.http = "bad_status"
          /\ call' = [call EXCEPT ![c].at = "body", ![c].got = r]
    BY <1>3 DEF RoundTripAnswers
  <2> DEFINE v == [call[c] EXCEPT !.at = "body", !.got = r]
  <2>2. call' = [call EXCEPT ![c] = v] /\ call[c].at = "sent"
    BY <1>3, <1>a, <2>1 DEF RoundTripAnswers, CallsAreRecords
  <2>3. v.at = "body" /\ v.got = r /\ v.op = call[c].op /\ v.args = call[c].args
        /\ v.sent = call[c].sent
    BY <1>a
  <2> HIDE DEF v
  <2>4. CallFine(v)
    BY <1>b, <2>1, <2>2, <2>3 DEF CallFine, CallUnderWay, CallRestricted, CallAnswered
  <2> QED
    BY <2>2, <2>4, OneCallFine
<1>4. ASSUME NEW c \in Calls, FinishQuery(c)
      PROVE  MetricsAnswered' /\ QueriesUnderWay'
  <2> DEFINE got == call[c].got
             r == convertResponse(got)
             ans == IF call[c].op = "range" THEN convertToRangeResult(r.rows)
                    ELSE convertToInstantResult(r.rows)
             res == [warnings |-> r.warnings, answer |-> ans]
             v == [call[c] EXCEPT !.at = "done", !.result = res]
             a == call[c].args
             sent == call[c].sent
  <2> SUFFICES ASSUME got.http = "ok", ~TooManyPoints(got),
                      call' = [call EXCEPT ![c].at = "done", ![c].result = res]
               PROVE  MetricsAnswered' /\ QueriesUnderWay'
    BY <1>4, <1>c DEF FinishQuery
  <2>1. call' = [call EXCEPT ![c] = v]
    BY <1>a DEF CallsAreRecords
  <2>2. /\ got \in Responses /\ a \in MetricArgs
        /\ sent = appendLabelMatchers(buildPrometheusRequest(a.filters))
        /\ Parses(a.expr, sent)
    BY <1>4 DEF FinishQuery, QueriesUnderWay
  <2>3. res.answer = ans /\ res.warnings = r.warnings
    OBVIOUS
  <2>4. \A m : DOMAIN r.rows = 1 .. m => DOMAIN ans = 1 .. m
    BY DEF convertToRangeResult, convertToInstantResult
  <2> HIDE DEF res, r, ans
  <2>5. v.at = "done" /\ v.got = got /\ v.result = res /\ v.args = a /\ v.sent = sent
    BY <1>a
  <2>6. ans = [i \in DOMAIN ans |-> ans[i]]
    BY DEF ans, convertToRangeResult, convertToInstantResult
  <2> HIDE DEF v, got, a, sent
  <2>7. ASSUME got.type \in {"vector", "matrix"}
        PROVE  LET vs == Returned(got) IN
               /\ Len(ans) = Len(got.series)
               /\ Len(vs) <= MaxDataPoints
               /\ r.warnings = Cardinality({i \in DOMAIN vs : vs[i] # "num"})
    <3> DEFINE vs == Returned(got)
    <3>1. got.series \in Seq(Series)
      BY <2>2, MetricConstants
    <3> HIDE DEF vs
    <3>2. vs = Returned(got)
      BY DEF vs
    <3>3. /\ Len(vs) \in Nat /\ Len(vs) = Points(got)
          /\ convertResponse(got).warnings = Cardinality({i \in DOMAIN vs : vs[i] # "num"})
          /\ DOMAIN convertResponse(got).rows = 1 .. Len(got.series)
      BY ONLY <2>7, <3>1, <3>2, ResponseFacts, Zenon
    <3>4. Len(vs) <= MaxDataPoints
      BY <2>7, <3>3, MetricConstants DEF TooManyPoints
    <3>5. DOMAIN ans = 1 .. Len(got.series) /\ Len(got.series) \in Nat
      BY <2>4, <3>1, <3>3 DEF r
    <3>6. Len(ans) = Len(got.series)
      BY <2>6, <3>5
    <3> QED
      BY <3>3, <3>4, <3>6 DEF vs, r
  <2>8. ASSUME a.expr # "binary", Expressible(a.filters)
        PROVE  InForce(a.expr, sent, 1) = Asked(a.filters)
    <3>1. ToSet(sent) = Asked(a.filters)
      <4> DEFINE fs == a.filters
      <4>1. fs \in Seq(LabelFilters \cup {Nothing}) /\ Expressible(fs)
        BY <2>2, <2>8, MetricConstants
      <4> HIDE DEF fs
      <4>2. ToSet(appendLabelMatchers(buildPrometheusRequest(fs))) = Asked(fs)
        BY <4>1, MatchersFacts
      <4> QED
        BY <2>2, <4>2 DEF fs
    <3>2. CASE a.expr = "closed"
      <4>1. sent = <<>>
        BY <2>2, <3>2 DEF Parses
      <4>2. ToSet(sent) = {}
        BY <4>1 DEF ToSet
      <4> QED
        BY <3>1, <3>2, <4>2 DEF InForce
    <3>3. CASE a.expr # "closed"
      <4>1. Selectors(a.expr) = {1}
        BY <2>8 DEF Selectors
      <4>2. InForce(a.expr, sent, 1) = ToSet(sent)
        BY <3>3, <4>1 DEF InForce
      <4> QED
        BY <3>1, <4>2
    <3> QED
      BY <3>2, <3>3
  <2>9. CallFine(v)
    BY <2>3, <2>5, <2>7, <2>8 DEF CallFine, CallUnderWay, CallRestricted, CallAnswered
  <2> QED
    BY <2>1, <2>9, OneCallFine
<1>5. ASSUME NEW c \in Calls, FinishProbe(c)
      PROVE  MetricsAnswered' /\ QueriesUnderWay'
  <2> DEFINE v == [call[c] EXCEPT !.at = "done"]
  <2>1. Fails(c) \/ call' = [call EXCEPT ![c] = v]
    BY <1>5, <1>a DEF FinishProbe, CallsAreRecords
  <2>2. v.at = "done" /\ v.op \in {"health", "connect"}
    BY <1>5, <1>a DEF FinishProbe
  <2> HIDE DEF v
  <2> QED
    BY <1>c, <2>1, <2>2, QuietCallFine, OneCallFine
<1>6. ASSUME NEW c \in Calls, RoundTripFails(c)
      PROVE  MetricsAnswered' /\ QueriesUnderWay'
  BY <1>6, <1>c DEF RoundTripFails
<1>7. CASE CloseAdapter \/ UNCHANGED metricVars
  BY <1>7 DEF CloseAdapter, metricVars, MetricsAnswered, MatchersReachPrometheus,
              PointsAccountedFor, QueriesUnderWay
<1> QED
  BY <1>1, <1>2, <1>3, <1>4, <1>5, <1>6, <1>7 DEF MetricNext

\* At the start no call is under way.
LEMMA MetricInvInit == MetricInit => MetricInv
<1> SUFFICES ASSUME MetricInit PROVE MetricInv
  OBVIOUS
<1>1. CallsAreRecords /\ ConnsCounted
  BY MetricInitInv
<1>2. \A c \in Calls : call[c].at = "idle"
  BY DEF MetricInit, IdleCall
<1>3. MetricsAnswered /\ QueriesUnderWay
  BY <1>2, QuietCallFine, CallsFine
<1> QED
  BY <1>1, <1>3 DEF MetricInv

\* The invariant is inductive.
LEMMA MetricInvNext == MetricInv /\ [MetricNext]_metricVars => MetricInv'
BY MetricNextInv, MetricAnswersInv DEF MetricInv

\* A metric query about one selector that is answered was asked with the label
\* filters of the client, names, kinds and values, and the client has an entry
\* for each series and a warning for each point that is no number, for any
\* filters but NOT_REGEX, any number of series of any length and any concurrent
\* calls.
THEOREM MetricQueriesAnswered == MetricSpec => []MetricsAnswered
<1>1. MetricInv => MetricsAnswered
  BY DEF MetricInv
<1> QED
  BY <1>1, MetricInvInit, MetricInvNext, PTL DEF MetricSpec

-----------------------------------------------------------------------------
(* Totals                                                                  *)

\* The units that a total counts.
LEMMA UnitsFinite ==
    ASSUME NEW D, IsFiniteSet(D), NEW f, \A d \in D : f[d] \in Nat
    PROVE  IsFiniteSet(UNION {{d} \X (1 .. f[d]) : d \in D})
<1> DEFINE U == {{d} \X (1 .. f[d]) : d \in D}
           g == [d \in D |-> {d} \X (1 .. f[d])]
<1>1. IsFiniteSet(U)
  <2>1. g \in [D -> U] /\ \A u \in U : \E d \in D : g[d] = u
    OBVIOUS
  <2> HIDE DEF g, U
  <2>2. g \in Surjection(D, U)
    BY <2>1 DEF Surjection
  <2> QED
    BY <2>2, FS_Surjection
<1>2. ASSUME NEW u \in U PROVE IsFiniteSet(u)
  <2>1. PICK d \in D : u = {d} \X (1 .. f[d])
    BY <1>2
  <2>2. IsFiniteSet(1 .. f[d]) /\ IsFiniteSet({d})
    BY IntervalCardinality, FS_Singleton
  <2> QED
    BY <2>1, <2>2, FS_Product
<1> HIDE DEF U
<1>3. IsFiniteSet(UNION U)
  BY <1>1, <1>2, FS_UNION
<1> QED
  BY <1>3 DEF U

\* A total is a number, and no units are none.
LEMMA TotalType ==
    ASSUME NEW D, IsFiniteSet(D), NEW f, \A d \in D : f[d] \in Nat
    PROVE  Total(f, D) \in Nat
BY UnitsFinite, FS_CardinalityType DEF Total

\* The total over nothing.
LEMMA TotalEmpty == \A f : Total(f, {}) = 0
<1> SUFFICES ASSUME NEW f PROVE Total(f, {}) = 0
  OBVIOUS
<1>1. UNION {{d} \X (1 .. f[d]) : d \in {}} = {}
  OBVIOUS
<1> QED
  BY <1>1, FS_EmptySet DEF Total

\* Functions that agree have the same total.
LEMMA TotalAgrees ==
    ASSUME NEW D, NEW f, NEW g, \A d \in D : f[d] = g[d]
    PROVE  Total(f, D) = Total(g, D)
<1>1. {{d} \X (1 .. f[d]) : d \in D} = {{d} \X (1 .. g[d]) : d \in D}
  OBVIOUS
<1> QED
  BY <1>1 DEF Total

\* The totals of two parts.
LEMMA TotalSplit ==
    ASSUME NEW D, IsFiniteSet(D), NEW E, IsFiniteSet(E), D \cap E = {}, NEW f,
           \A x \in D \cup E : f[x] \in Nat
    PROVE  Total(f, D \cup E) = Total(f, D) + Total(f, E)
<1> DEFINE A == UNION {{x} \X (1 .. f[x]) : x \in D}
           B == UNION {{x} \X (1 .. f[x]) : x \in E}
           C == UNION {{x} \X (1 .. f[x]) : x \in D \cup E}
<1>1. C = A \cup B
  OBVIOUS
<1>2. A \cap B = {}
  OBVIOUS
<1>3. IsFiniteSet(A) /\ IsFiniteSet(B)
  BY UnitsFinite
<1>4. /\ Total(f, D) = Cardinality(A) /\ Total(f, E) = Cardinality(B)
      /\ Total(f, D \cup E) = Cardinality(C)
  BY DEF Total
<1> HIDE DEF A, B, C
<1>5. Cardinality(A \cup B) = Cardinality(A) + Cardinality(B) - Cardinality(A \cap B)
  BY <1>3, FS_Union
<1>6. Cardinality(A) \in Nat /\ Cardinality(B) \in Nat /\ Cardinality(A \cap B) = 0
  BY <1>2, <1>3, FS_CardinalityType, FS_EmptySet
<1> QED
  BY <1>1, <1>4, <1>5, <1>6

\* The total over one element.
LEMMA TotalOne ==
    ASSUME NEW d, NEW f, f[d] \in Nat
    PROVE  Total(f, {d}) = f[d]
<1>1. UNION {{x} \X (1 .. f[x]) : x \in {d}} = {d} \X (1 .. f[d])
  OBVIOUS
<1>2. /\ IsFiniteSet({d}) /\ Cardinality({d}) = 1
      /\ IsFiniteSet(1 .. f[d]) /\ Cardinality(1 .. f[d]) = f[d]
  BY FS_Singleton, IntervalCardinality
<1>3. Cardinality({d} \X (1 .. f[d])) = Cardinality({d}) * Cardinality(1 .. f[d])
  BY <1>2, FS_Product
<1>4. Cardinality({d} \X (1 .. f[d])) = f[d]
  BY <1>2, <1>3
<1>5. Total(f, {d}) = Cardinality(UNION {{x} \X (1 .. f[x]) : x \in {d}})
  BY DEF Total
<1> QED
  BY <1>1, <1>4, <1>5, Zenon

\* One element more adds its value.
LEMMA TotalAdd ==
    ASSUME NEW D, IsFiniteSet(D), NEW d, d \notin D, NEW f,
           \A x \in D \cup {d} : f[x] \in Nat
    PROVE  Total(f, D \cup {d}) = Total(f, D) + f[d]
<1>1. IsFiniteSet({d}) /\ D \cap {d} = {}
  BY FS_Singleton
<1>2. Total(f, D \cup {d}) = Total(f, D) + Total(f, {d})
  BY <1>1, TotalSplit
<1> QED
  BY <1>2, TotalOne

\* One element less takes its value away.
LEMMA TotalRemove ==
    ASSUME NEW D, IsFiniteSet(D), NEW d \in D, NEW f, \A x \in D : f[x] \in Nat
    PROVE  Total(f, D) = Total(f, D \ {d}) + f[d]
<1>1. IsFiniteSet(D \ {d}) /\ d \notin D \ {d} /\ (D \ {d}) \cup {d} = D
  BY FS_RemoveElement
<1>2. Total(f, (D \ {d}) \cup {d}) = Total(f, D \ {d}) + f[d]
  <2> DEFINE E == D \ {d}
  <2>1. IsFiniteSet(E) /\ d \notin E /\ \A x \in E \cup {d} : f[x] \in Nat
    BY <1>1
  <2> HIDE DEF E
  <2>2. Total(f, E \cup {d}) = Total(f, E) + f[d]
    BY <2>1, TotalAdd
  <2> QED
    BY <2>2 DEF E
<1> QED
  BY <1>1, <1>2

\* A change of one value changes the total by as much.
LEMMA TotalChange ==
    ASSUME NEW D, IsFiniteSet(D), NEW d \in D, NEW f, NEW g,
           \A x \in D : f[x] \in Nat /\ g[x] \in Nat,
           \A x \in D \ {d} : f[x] = g[x]
    PROVE  Total(g, D) + f[d] = Total(f, D) + g[d]
<1>1. Total(f, D) = Total(f, D \ {d}) + f[d] /\ Total(g, D) = Total(g, D \ {d}) + g[d]
  BY TotalRemove
<1>2. Total(f, D \ {d}) = Total(g, D \ {d})
  BY TotalAgrees
<1>3. Total(f, D \ {d}) \in Nat
  BY FS_RemoveElement, TotalType
<1> QED
  BY <1>1, <1>2, <1>3

\* What bounds each value bounds the total.
LEMMA TotalBound ==
    ASSUME NEW D, IsFiniteSet(D), NEW L \in Nat, NEW f,
           \A d \in D : f[d] \in Nat /\ f[d] <= L
    PROVE  Total(f, D) <= Cardinality(D) * L
<1> DEFINE A == UNION {{d} \X (1 .. f[d]) : d \in D}
           B == D \X (1 .. L)
<1>1. A \in SUBSET B
  <2>1. \A d \in D : 1 .. f[d] \subseteq 1 .. L
    OBVIOUS
  <2> QED
    BY <2>1
<1>2. IsFiniteSet(B) /\ Cardinality(B) = Cardinality(D) * L
  <2>1. IsFiniteSet(1 .. L) /\ Cardinality(1 .. L) = L
    BY IntervalCardinality
  <2> QED
    BY <2>1, FS_Product
<1>3. Total(f, D) = Cardinality(A)
  BY DEF Total
<1> HIDE DEF A, B
<1> QED
  BY <1>1, <1>2, <1>3, FS_Subset

\* The total of nothing but zeros.
LEMMA TotalZero ==
    ASSUME NEW D, IsFiniteSet(D), NEW f, \A d \in D : f[d] = 0
    PROVE  Total(f, D) = 0
<1>1. Total(f, D) <= Cardinality(D) * 0
  BY TotalBound
<1>2. Total(f, D) \in Nat
  BY TotalType
<1>3. Cardinality(D) \in Nat
  BY FS_CardinalityType
<1> QED
  BY <1>1, <1>2, <1>3

-----------------------------------------------------------------------------
(* The list of the LRU cache                                               *)

\* The keys of a list are finitely many.
LEMMA KeysOfList ==
    ASSUME NEW s \in Seq(Keys)
    PROVE  IsFiniteSet(ToSet(s)) /\ ToSet(s) \subseteq Keys
<1> DEFINE T == ToSet(s)
<1>1. s \in [1 .. Len(s) -> T] /\ \A x \in T : \E i \in 1 .. Len(s) : s[i] = x
  BY DEF ToSet
<1>2. IsFiniteSet(1 .. Len(s)) /\ T \subseteq Keys
  BY IntervalCardinality DEF ToSet
<1> HIDE DEF T
<1>3. s \in Surjection(1 .. Len(s), T)
  BY <1>1 DEF Surjection
<1>4. IsFiniteSet(T)
  BY <1>2, <1>3, FS_Surjection
<1> QED
  BY <1>2, <1>4 DEF T

\* Taking out one place of a list without repetitions takes out its key.
LEMMA RemoveAtFacts ==
    ASSUME NEW s \in Seq(Keys), IsInjective(s), NEW i \in DOMAIN s
    PROVE  LET r == RemoveAt(s, i) IN
           /\ r \in Seq(Keys) /\ IsInjective(r)
           /\ ToSet(r) = ToSet(s) \ {s[i]} /\ Len(r) = Len(s) - 1
<1> DEFINE r == RemoveAt(s, i)
           at(j) == IF j < i THEN j ELSE j + 1
<1>1. i \in 1 .. Len(s) /\ Len(s) \in Nat /\ DOMAIN s = 1 .. Len(s)
  OBVIOUS
<1>2. /\ r \in Seq(Keys) /\ Len(r) = Len(s) - 1
      /\ \A j \in 1 .. Len(s) - 1 : r[j] = s[at(j)]
  <2> DEFINE a == SubSeq(s, 1, i - 1)
             b == SubSeq(s, i + 1, Len(s))
  <2>1. /\ a \in Seq(Keys) /\ Len(a) = i - 1
        /\ \A j \in 1 .. i - 1 : a[j] = s[j]
    BY <1>1
  <2>2. /\ b \in Seq(Keys) /\ Len(b) = Len(s) - i
        /\ \A j \in 1 .. Len(s) - i : b[j] = s[i + j]
    BY <1>1
  <2>3. r = a \o b
    BY DEF RemoveAt
  <2> HIDE DEF a, b, r
  <2>4. /\ r \in Seq(Keys) /\ Len(r) = Len(s) - 1
        /\ \A j \in 1 .. Len(s) - 1 : r[j] = IF j < i THEN a[j] ELSE b[j - (i - 1)]
    <3>1. Len(a) + Len(b) = Len(s) - 1 /\ \A j \in Nat : (j <= Len(a) <=> j < i)
      BY <1>1, <2>1, <2>2
    <3>2. /\ r \in Seq(Keys) /\ Len(r) = Len(s) - 1
          /\ \A j \in 1 .. Len(s) - 1 : r[j] = IF j <= Len(a) THEN a[j] ELSE b[j - Len(a)]
      BY <2>1, <2>2, <2>3, <3>1, ConcatProperties, SMTT(30)
    <3> QED
      BY <2>1, <3>1, <3>2
  <2>5. ASSUME NEW j \in 1 .. Len(s) - 1 PROVE r[j] = s[at(j)]
    <3>1. CASE j < i
      BY <1>1, <2>1, <2>4, <3>1
    <3>2. CASE ~(j < i)
      <4>1. j - (i - 1) \in 1 .. Len(s) - i /\ i + (j - (i - 1)) = j + 1
        BY <1>1, <3>2
      <4> QED
        BY <2>2, <2>4, <3>2, <4>1
    <3> QED
      BY <3>1, <3>2
  <2> QED
    BY <2>4, <2>5
<1>3. DOMAIN r = 1 .. Len(s) - 1
  BY <1>2
<1> HIDE DEF r
<1>4. \A j \in 1 .. Len(s) - 1 : at(j) \in (1 .. Len(s)) \ {i}
  BY <1>1
<1>5. \A j, k \in 1 .. Len(s) - 1 : at(j) = at(k) => j = k
  BY <1>1
<1>6. IsInjective(r)
  BY <1>1, <1>2, <1>3, <1>4, <1>5 DEF IsInjective
<1>7. \A x \in ToSet(r) : x \in ToSet(s) \ {s[i]}
  BY <1>1, <1>2, <1>3, <1>4, SMTT(30) DEF ToSet, IsInjective
<1>8. ASSUME NEW x \in ToSet(s) \ {s[i]} PROVE x \in ToSet(r)
  <2>1. PICK m \in 1 .. Len(s) : s[m] = x /\ m # i
    BY <1>1, <1>8 DEF ToSet
  <2> DEFINE j == IF m < i THEN m ELSE m - 1
  <2>2. j \in 1 .. Len(s) - 1 /\ at(j) = m
    BY <1>1, <2>1
  <2> HIDE DEF j, at
  <2> QED
    BY <1>2, <1>3, <2>1, <2>2 DEF ToSet
<1> QED
  BY <1>2, <1>6, <1>7, <1>8 DEF r

\* Removing a held key.
LEMMA WithoutFacts ==
    ASSUME order \in Seq(Keys), IsInjective(order), NEW k
    PROVE  /\ Without(k) \in Seq(Keys) /\ IsInjective(Without(k))
           /\ ToSet(Without(k)) = Held \ {k}
           /\ Len(Without(k)) = IF k \in Held THEN Len(order) - 1 ELSE Len(order)
<1>1. CASE k \in Held
  <2> DEFINE i == CHOOSE j \in DOMAIN order : order[j] = k
  <2>1. i \in DOMAIN order /\ order[i] = k
    BY <1>1 DEF Held, ToSet
  <2>2. Without(k) = RemoveAt(order, i)
    BY <1>1 DEF Without
  <2> HIDE DEF i
  <2> QED
    BY <1>1, <2>1, <2>2, RemoveAtFacts DEF Held
<1>2. CASE k \notin Held
  BY <1>2 DEF Without, Held
<1> QED
  BY <1>1, <1>2

\* Removing the oldest key.
LEMMA TailFacts ==
    ASSUME order \in Seq(Keys), IsInjective(order), order # <<>>
    PROVE  /\ Tail(order) \in Seq(Keys) /\ IsInjective(Tail(order))
           /\ Head(order) \in Held
           /\ ToSet(Tail(order)) = Held \ {Head(order)}
           /\ Len(Tail(order)) = Len(order) - 1
<1>1. 1 \in DOMAIN order /\ order[1] = Head(order)
  OBVIOUS
<1>2. Tail(order) = RemoveAt(order, 1)
  <2>1. SubSeq(order, 1, 0) = <<>> /\ 1 - 1 = 0 /\ 1 + 1 = 2
    OBVIOUS
  <2>2. RemoveAt(order, 1) = <<>> \o SubSeq(order, 2, Len(order))
    BY <2>1 DEF RemoveAt
  <2>3. Tail(order) \in Seq(Keys) /\ Tail(order) = SubSeq(order, 2, Len(order))
    BY HeadTailProperties, TailIsSubSeq
  <2> QED
    BY <2>2, <2>3, ConcatEmptySeq
<1>3. Head(order) \in Held
  BY <1>1 DEF Held, ToSet
<1> QED
  BY <1>1, <1>2, <1>3, RemoveAtFacts DEF Held

\* Adding a key that is not in the list.
LEMMA AppendFacts ==
    ASSUME NEW s \in Seq(Keys), IsInjective(s), NEW k \in Keys, k \notin ToSet(s)
    PROVE  /\ Append(s, k) \in Seq(Keys) /\ IsInjective(Append(s, k))
           /\ ToSet(Append(s, k)) = ToSet(s) \cup {k}
           /\ Len(Append(s, k)) = Len(s) + 1
<1> DEFINE r == Append(s, k)
<1>1. /\ r \in Seq(Keys) /\ Len(r) = Len(s) + 1 /\ Len(s) \in Nat
      /\ \A i \in 1 .. Len(s) : r[i] = s[i]
      /\ r[Len(s) + 1] = k /\ DOMAIN r = 1 .. Len(s) + 1 /\ DOMAIN s = 1 .. Len(s)
  OBVIOUS
<1> HIDE DEF r
<1>2. \A i \in 1 .. Len(s) + 1 : i \in 1 .. Len(s) \/ i = Len(s) + 1
  BY <1>1
<1>3. IsInjective(r)
  BY <1>1, <1>2 DEF IsInjective, ToSet
<1>4. ToSet(r) = ToSet(s) \cup {k}
  BY <1>1, <1>2 DEF ToSet
<1> QED
  BY <1>1, <1>3, <1>4 DEF r

-----------------------------------------------------------------------------
(* The memory cache: one thread moves                                      *)

\* The longest value.
LEMMA LongestValue ==
    Max(Sizes) \in Nat \ {0} /\ \A n \in Sizes \cup {0} : n \in Nat /\ n <= Max(Sizes)
<1>1. Sizes \in SUBSET Nat /\ IsFiniteSet(Sizes) /\ Sizes # {} /\ 0 \notin Sizes
  BY CacheConstants
<1>2. Max(Sizes) \in Sizes /\ \A n \in Sizes : Max(Sizes) >= n
  BY <1>1, MaxIsLargest
<1>3. PICK m \in Nat : m = Max(Sizes)
  BY <1>1, <1>2, Zenon
<1>4. m # 0 /\ \A n \in Sizes : n \in Nat /\ m >= n
  BY <1>1, <1>2, <1>3, Zenon
<1>5. m \in Nat \ {0} /\ \A n \in Sizes \cup {0} : n \in Nat /\ n <= m
  BY <1>3, <1>4
<1> QED
  BY <1>3, <1>5, Zenon

\* What a thread owes or will add is a number.
LEMMA PromiseDueType ==
    ASSUME NEW r \in Places
    PROVE  /\ Promise(r) \in Nat /\ Promise(r) <= Max(Sizes) /\ Due(r) \in Nat
           /\ Fits(r) /\ ~Clears(r) => Due(r) <= Max(Sizes)
BY LongestValue DEF Places, Promise, Due, Fits, Clears

\* The totals follow the thread that moves; the other threads hold no more than
\* a value each.
LEMMA TotalsMove ==
    ASSUME TypeOK, ThreadsFit, NEW t \in Threads, NEW r \in Places,
           th' = [th EXCEPT ![t] = r]
    PROVE  LET L == (Cardinality(Threads) - 1) * Max(Sizes) IN
           /\ Total(promised, Threads) \in Nat /\ Total(due, Threads) \in Nat
           /\ Total(promised', Threads) \in Nat /\ Total(due', Threads) \in Nat
           /\ Total(promised', Threads) + Promise(th[t])
                = Total(promised, Threads) + Promise(r)
           /\ Total(due', Threads) + Due(th[t]) = Total(due, Threads) + Due(r)
           /\ L \in Int
           /\ Total(promised', Threads) <= Promise(r) + L
           /\ (\A u \in Threads \ {t} : ~Clears(th[u])) =>
                 Total(due', Threads) <= Due(r) + L
<1>1. /\ th \in [Threads -> Places] /\ th' \in [Threads -> Places]
      /\ th'[t] = r /\ \A u \in Threads \ {t} : th'[u] = th[u]
  BY DEF TypeOK
<1> DEFINE p == promised
           q == promised'
           d == due
           e == due'
           Others == Threads \ {t}
<1>2. \A u \in Threads : /\ p[u] = Promise(th[u]) /\ q[u] = Promise(th'[u])
                         /\ d[u] = Due(th[u]) /\ e[u] = Due(th'[u])
  BY DEF promised, due
<1>3. \A u \in Threads : p[u] \in Nat /\ q[u] \in Nat /\ d[u] \in Nat /\ e[u] \in Nat
  BY <1>1, <1>2, PromiseDueType
<1>4. \A u \in Others : p[u] = q[u] /\ d[u] = e[u]
  BY <1>1, <1>2
<1>5. \A u \in Others : q[u] <= Max(Sizes)
  BY <1>1, <1>2, PromiseDueType
<1>6. (\A u \in Others : ~Clears(th[u])) => \A u \in Others : e[u] <= Max(Sizes)
  BY <1>1, <1>2, PromiseDueType DEF ThreadsFit
<1>7. IsFiniteSet(Threads) /\ IsFiniteSet(Others)
      /\ Cardinality(Others) = Cardinality(Threads) - 1 /\ Cardinality(Threads) \in Nat
      /\ Cardinality(Others) \in Nat
  BY CacheConstants, FS_RemoveElement, FS_CardinalityType
<1> DEFINE L == Cardinality(Others) * Max(Sizes)
<1>8. L \in Nat /\ L = (Cardinality(Threads) - 1) * Max(Sizes)
  BY <1>7, LongestValue
<1>9. p[t] = Promise(th[t]) /\ q[t] = Promise(r) /\ d[t] = Due(th[t]) /\ e[t] = Due(r)
  BY <1>1, <1>2
<1> HIDE DEF p, q, d, e, Others
<1>10. /\ Total(p, Threads) \in Nat /\ Total(q, Threads) \in Nat
       /\ Total(d, Threads) \in Nat /\ Total(e, Threads) \in Nat
  BY <1>3, <1>7, TotalType
<1>11. Total(q, Threads) + p[t] = Total(p, Threads) + q[t]
  BY <1>3, <1>4, <1>7, TotalChange DEF Others
<1>12. Total(e, Threads) + d[t] = Total(d, Threads) + e[t]
  BY <1>3, <1>4, <1>7, TotalChange DEF Others
<1>13. \A u \in Others : u \in Threads
  BY DEF Others
<1>14. Total(q, Threads) = Total(q, Others) + q[t]
  BY <1>3, <1>7, TotalRemove DEF Others
<1>15. Total(e, Threads) = Total(e, Others) + e[t]
  BY <1>3, <1>7, TotalRemove DEF Others
<1>16. Total(q, Others) \in Nat /\ Total(e, Others) \in Nat
  BY <1>3, <1>7, <1>13, TotalType
<1>17. Total(q, Others) <= L
  BY <1>3, <1>5, <1>7, <1>13, LongestValue, TotalBound
<1>18. (\A u \in Others : ~Clears(th[u])) => Total(e, Others) <= L
  BY <1>3, <1>6, <1>7, <1>13, LongestValue, TotalBound
<1> HIDE DEF L
<1>19. q[t] \in Nat /\ e[t] \in Nat
  BY <1>3
<1>20. /\ Total(q, Threads) <= q[t] + L
       /\ (\A u \in Others : ~Clears(th[u])) => Total(e, Threads) <= e[t] + L
  BY <1>8, <1>14, <1>15, <1>16, <1>17, <1>18, <1>19
<1> QED
  BY <1>8, <1>9, <1>10, <1>11, <1>12, <1>20 DEF p, q, d, e, Others

\* The bytes held are a number.
LEMMA BytesType ==
    ASSUME TypeOK
    PROVE  Bytes(Held) \in Nat /\ \A k \in Keys : size[k] \in Nat
<1>1. IsFiniteSet(Held) /\ Held \subseteq Keys
  BY KeysOfList DEF TypeOK, Held
<1>2. \A k \in Keys : size[k] \in Nat
  BY LongestValue DEF TypeOK
<1>3. Total(size, Held) \in Nat
  BY <1>1, <1>2, TotalType
<1> QED
  BY <1>2, <1>3 DEF Bytes

\* The invariant is kept by a step of one thread that keeps the list in order,
\* brings no key in but the one the thread sets, and changes memUsed, the bytes
\* held and what the thread owes by amounts that balance.
LEMMA ThreadMoves ==
    ASSUME MemoryInv, NEW t \in Threads, NEW r \in Places,
           th' = [th EXCEPT ![t] = r],
           overlapped' = (overlapped \/ ClearOverlaps'),
           order' \in Seq(Keys), IsInjective(order'), Len(order') <= MaxEntries,
           size' \in [Keys -> Sizes \cup {0}], memUsed' \in Int, Fits(r),
           Sets(r) => \/ Sets(th[t]) /\ r.key = th[t].key
                      \/ \A u \in Threads : ~Setting(u, r.key),
           Sets(r) /\ r.pc # "replace" => r.key \notin Held',
           \A k \in Held' \ Held : Setting(t, k),
           ~overlapped' /\ Clears(r) => order' = <<>>,
           th[t] # Idle \/ r # Idle \/ (order = <<>> => order' = <<>>),
           ~overlapped' =>
              memUsed' + Promise(r) + Bytes(Held) + Due(th[t])
                = memUsed + Promise(th[t]) + Total(size', Held') + Due(r),
           ~overlapped' /\ ValuesFit =>
              \/ memUsed' + Promise(r) <= memUsed + Promise(th[t])
              \/ memUsed' + Promise(r) <= MaxMemory
              \/ order' = <<>> /\ r # Idle /\ Due(r) <= MaxMemory
    PROVE  MemoryInv'
<1>0. TypeOK /\ ThreadsFit /\ SetsApart /\ ClearAlone /\ Accounted /\ Allowed
  BY DEF MemoryInv
<1>1. TypeOK'
  BY <1>0 DEF TypeOK
<1>2. /\ th'[t] = r /\ \A u \in Threads \ {t} : th'[u] = th[u]
      /\ th \in [Threads -> Places]
  BY <1>0 DEF TypeOK
<1>3. ThreadsFit'
  BY <1>0, <1>2 DEF ThreadsFit
<1>4. SetsApart'
  <2>1. ASSUME NEW a \in Threads, NEW b \in Threads, Sets(th'[a]), Sets(th'[b]),
               th'[b].key = th'[a].key
        PROVE  a = b
    BY <1>0, <1>2, <2>1 DEF SetsApart, Setting
  <2>2. ASSUME NEW a \in Threads, Sets(th'[a]), th'[a].pc # "replace"
        PROVE  th'[a].key \notin Held'
    BY <1>0, <1>2, <2>2 DEF SetsApart, Setting
  <2> QED
    BY <2>1, <2>2 DEF SetsApart, Setting
<1>5. ASSUME ~overlapped'
      PROVE  /\ ~overlapped /\ ~ClearOverlaps /\ ~ClearOverlaps'
             /\ \A u \in Threads : Clears(th'[u]) => order' = <<>>
  <2>1. ~overlapped /\ ~ClearOverlaps'
    BY <1>5
  <2>2. /\ ~ClearOverlaps
        /\ \A u \in Threads : Clears(th[u]) => order = <<>>
    BY <1>0, <2>1 DEF ClearAlone
  <2>3. ASSUME NEW u \in Threads \ {t}, Clears(th'[u])
        PROVE  order' = <<>>
    <3>1. th'[t] = Idle /\ th[t] = Idle
      BY <1>2, <2>1, <2>2, <2>3 DEF ClearOverlaps
    <3> QED
      BY <1>2, <2>2, <2>3, <3>1
  <2> QED
    BY <1>2, <2>1, <2>2, <2>3
<1>6. ClearAlone'
  BY <1>5 DEF ClearAlone
<1> DEFINE P == Total(promised, Threads)
           Q == Total(promised', Threads)
           D == Total(due, Threads)
           E == Total(due', Threads)
           B == Bytes(Held)
           C == Total(size', Held')
           L == (Cardinality(Threads) - 1) * Max(Sizes)
<1>7. /\ P \in Nat /\ Q \in Nat /\ D \in Nat /\ E \in Nat /\ L \in Int
      /\ Q + Promise(th[t]) = P + Promise(r)
      /\ E + Due(th[t]) = D + Due(r)
      /\ Q <= Promise(r) + L
      /\ (\A u \in Threads \ {t} : ~Clears(th[u])) => E <= Due(r) + L
  BY <1>0, TotalsMove
<1>8. B \in Nat /\ C \in Nat /\ memUsed \in Int
  <2>1. B \in Nat /\ memUsed \in Int
    BY <1>0, BytesType DEF TypeOK
  <2>2. IsFiniteSet(Held') /\ Held' \subseteq Keys
    BY KeysOfList DEF Held
  <2>3. \A k \in Held' : size'[k] \in Nat
    BY <2>2, LongestValue
  <2>4. C \in Nat
    BY <2>2, <2>3, TotalType
  <2> QED
    BY <2>1, <2>4
<1>9. /\ Promise(r) \in Nat /\ Due(r) \in Nat
      /\ Promise(th[t]) \in Nat /\ Due(th[t]) \in Nat
  BY <1>2, PromiseDueType
<1>10. /\ Accounted <=> (~overlapped => memUsed + P = B + D)
       /\ Accounted' <=> (~overlapped' => memUsed' + Q = C + E)
       /\ Allowed <=> (~overlapped /\ ValuesFit => memUsed + P <= MaxMemory + L)
       /\ Allowed' <=> (~overlapped' /\ ValuesFit => memUsed' + Q <= MaxMemory + L)
  BY DEF Accounted, Allowed, Bytes, Allowance, ValuesFit
<1>11. r # Idle /\ ~overlapped' => \A u \in Threads \ {t} : ~Clears(th[u])
  BY <1>2, <1>5 DEF ClearOverlaps
<1>12. order' = <<>> => C = 0
  <2>1. order' = <<>> => Held' = {}
    BY DEF Held, ToSet
  <2> QED
    BY <2>1, TotalEmpty
<1>13. MaxMemory \in Nat
  BY CacheConstants
<1> HIDE DEF P, Q, D, E, B, C, L
<1>14. PICK n \in Int : n = memUsed'
  OBVIOUS
<1>15. /\ Q + Promise(th[t]) = P + Promise(r) /\ E + Due(th[t]) = D + Due(r)
       /\ P \in Nat /\ Q \in Nat /\ D \in Nat /\ E \in Nat /\ L \in Int
       /\ Q <= Promise(r) + L
  BY <1>7
<1>16. Accounted'
  <2> SUFFICES ASSUME ~overlapped' PROVE n + Q = C + E
    BY <1>10, <1>14
  <2>1. memUsed + P = B + D
    BY <1>0, <1>5, <1>10
  <2>2. n + Promise(r) + B + Due(th[t]) = memUsed + Promise(th[t]) + C + Due(r)
    BY <1>14 DEF B, C
  <2>3. n \in Int
    OBVIOUS
  <2> QED
    BY ONLY <1>8, <1>9, <1>15, <2>1, <2>2, <2>3
<1>17. Allowed'
  <2> SUFFICES ASSUME ~overlapped', ValuesFit PROVE n + Q <= MaxMemory + L
    BY <1>10, <1>14
  <2>0. n \in Int
    OBVIOUS
  <2>1. memUsed + P <= MaxMemory + L
    BY <1>0, <1>5, <1>10
  <2>2. CASE n + Promise(r) <= memUsed + Promise(th[t])
    BY ONLY <1>8, <1>9, <1>13, <1>15, <2>0, <2>1, <2>2
  <2>3. CASE n + Promise(r) <= MaxMemory
    BY ONLY <1>8, <1>9, <1>13, <1>15, <2>0, <2>3
  <2>4. CASE order' = <<>> /\ r # Idle /\ Due(r) <= MaxMemory
    <3>1. n + Q = C + E /\ C = 0
      BY <1>10, <1>12, <1>14, <1>16, <2>4
    <3>2. E <= Due(r) + L
      BY <1>7, <1>11, <2>4
    <3> QED
      BY ONLY <1>8, <1>9, <1>13, <1>15, <2>0, <2>4, <3>1, <3>2
  <2> QED
    BY <1>14, <2>2, <2>3, <2>4
<1> QED
  BY <1>1, <1>3, <1>4, <1>6, <1>16, <1>17 DEF MemoryInv, WithinEntries

-----------------------------------------------------------------------------
(* The memory cache: the operations                                        *)

\* A thread in its method.
LEMMA PlaceFacts ==
    ASSUME MemoryInv, NEW t \in Threads
    PROVE  th[t] \in Places /\ Fits(th[t]) /\ th \in [Threads -> Places]
BY DEF MemoryInv, TypeOK, ThreadsFit

\* Idle is a place, and one where nothing is owed.
LEMMA IdleFacts ==
    /\ Idle \in Places /\ Fits(Idle) /\ ~Sets(Idle) /\ ~Clears(Idle)
    /\ Promise(Idle) = 0 /\ Due(Idle) = 0
BY LongestValue
   DEF Idle, Places, Positions, Fits, Sets, Clears, Promise, Due

\* Entries leave the list: what they held is what the thread now owes.
LEMMA GoneInv ==
    ASSUME MemoryInv, NEW t \in Threads, NEW r \in Places, NEW gone, NEW p,
           overlapped' = (overlapped \/ ClearOverlaps'),
           LruGone(t, r, gone, p), memUsed' = memUsed,
           gone \subseteq Held, Held' = Held \ gone,
           order' \in Seq(Keys), IsInjective(order'), Len(order') <= Len(order),
           th[t].pc \notin {"account", "add", "callback"},
           r.pc = th[t].pc, r.key = th[t].key, r.len = th[t].len,
           r.cb = 0, r.then = "idle",
           p \in {"idle", "room", "removing", "zero"},
           p = "room" => Sets(th[t]) /\ r.key \notin Held',
           p = "zero" => order' = <<>>,
           p # "zero" => \E k : gone \subseteq {k}
    PROVE  MemoryInv'
<1>0. TypeOK /\ WithinEntries
  BY DEF MemoryInv
<1>1. IsFiniteSet(Held) /\ Held \subseteq Keys
  BY <1>0, KeysOfList DEF TypeOK, Held
<1>2. /\ Bytes(Held) \in Nat /\ \A k \in Keys : size[k] \in Nat
      /\ \A k \in Keys : size[k] <= Max(Sizes)
  BY <1>0, BytesType, LongestValue DEF TypeOK
<1>3. IsFiniteSet(gone) /\ IsFiniteSet(Held \ gone)
  BY <1>1, FS_Subset
<1>4. Bytes(gone) \in Nat /\ (gone = {} => Bytes(gone) = 0)
  BY <1>1, <1>2, <1>3, TotalType, TotalEmpty DEF Bytes
<1>5. ASSUME NEW k, gone \subseteq {k} PROVE Bytes(gone) <= Max(Sizes)
  <2>1. CASE gone = {}
    BY <1>4, <2>1, LongestValue
  <2>2. CASE gone = {k}
    <3>1. Bytes(gone) = size[k] /\ k \in Keys
      BY <1>1, <1>2, <2>2, TotalOne DEF Bytes
    <3> QED
      BY <1>2, <3>1
  <2> QED
    BY <1>5, <2>1, <2>2
<1>6. size' = [k \in Keys |-> IF k \in gone THEN 0 ELSE size[k]]
  BY DEF LruGone
<1>7. size' \in [Keys -> Sizes \cup {0}]
  BY <1>0, <1>6 DEF TypeOK
<1>8. Bytes(Held) = Total(size', Held') + Bytes(gone)
  <2>1. Total(size', Held') = Total(size, Held \ gone)
    <3>1. \A k \in Held \ gone : size'[k] = size[k]
      BY <1>1, <1>6
    <3>2. Total(size', Held \ gone) = Total(size, Held \ gone)
      BY <3>1, TotalAgrees
    <3> QED
      BY <3>2
  <2>2. (Held \ gone) \cup gone = Held /\ (Held \ gone) \cap gone = {}
    OBVIOUS
  <2>3. Total(size, (Held \ gone) \cup gone) = Total(size, Held \ gone) + Total(size, gone)
    <3> DEFINE A == Held \ gone
    <3>1. IsFiniteSet(A) /\ A \cap gone = {} /\ \A x \in A \cup gone : size[x] \in Nat
      BY <1>1, <1>2, <1>3
    <3> HIDE DEF A
    <3>2. Total(size, A \cup gone) = Total(size, A) + Total(size, gone)
      BY <1>3, <3>1, TotalSplit
    <3> QED
      BY <3>2 DEF A
  <2> QED
    BY <2>1, <2>2, <2>3 DEF Bytes
<1> DEFINE v == IF gone = {} THEN At(r, p)
                ELSE [r EXCEPT !.pc = "callback", !.cb = Bytes(gone), !.then = p]
<1>9. th' = [th EXCEPT ![t] = v]
  BY DEF LruGone
<1>10. /\ th[t] \in Places /\ Fits(th[t])
       /\ Promise(th[t]) = 0 /\ Due(th[t]) = 0
  BY PlaceFacts DEF Fits, Promise, Due
<1>11. /\ v \in Places /\ Fits(v) /\ Promise(v) = 0 /\ Due(v) = Bytes(gone)
       /\ Sets(v) => p = "room" /\ v.key = r.key
       /\ Clears(v) => p = "zero"
  <2>1. CASE gone = {} /\ p = "idle"
    BY <1>4, <2>1, IdleFacts DEF At
  <2>2. CASE gone = {} /\ p # "idle"
    <3>1. /\ v.pc = p /\ v.key = r.key /\ v.len = r.len /\ v.cb = 0 /\ v.then = "idle"
          /\ v \in Places
      BY <2>2 DEF At, Places, Positions
    <3> HIDE DEF v
    <3> QED
      BY <1>4, <1>10, <2>2, <3>1, LongestValue DEF Fits, Promise, Due, Sets, Clears
  <2>3. CASE gone # {}
    <3>1. /\ v.pc = "callback" /\ v.key = r.key /\ v.len = r.len
          /\ v.cb = Bytes(gone) /\ v.then = p /\ v \in Places
      BY <1>4, <2>3 DEF Places, Positions
    <3>2. p # "zero" => Bytes(gone) <= Max(Sizes)
      BY <1>5
    <3> HIDE DEF v
    <3> QED
      BY <1>10, <2>3, <3>1, <3>2 DEF Fits, Promise, Due, Sets, Clears
  <2> QED
    BY <2>1, <2>2, <2>3
<1> HIDE DEF v
<1>12. Len(order') <= MaxEntries /\ (order = <<>> => order' = <<>>)
  BY <1>0, CacheConstants DEF TypeOK, WithinEntries
<1>13. memUsed \in Int /\ memUsed' \in Int
  BY <1>0 DEF TypeOK
<1>14. /\ memUsed' + Promise(v) + Bytes(Held) + Due(th[t])
            = memUsed + Promise(th[t]) + Total(size', Held') + Due(v)
       /\ memUsed' + Promise(v) <= memUsed + Promise(th[t])
  <2>1. Total(size', Held') \in Nat
    <3>1. \A k \in Held' : size'[k] \in Nat
      BY <1>1, <1>7, LongestValue
    <3> QED
      BY <1>3, <3>1, TotalType
  <2> QED
    BY <1>2, <1>4, <1>8, <1>10, <1>11, <1>13, <2>1
<1> QED
  BY <1>7, <1>9, <1>11, <1>12, <1>13, <1>14, ThreadMoves

\* Remove of one key.
LEMMA RemoveInv ==
    ASSUME MemoryInv, NEW t \in Threads, NEW r \in Places, NEW k, NEW p,
           overlapped' = (overlapped \/ ClearOverlaps'),
           LruRemove(t, r, k, p), memUsed' = memUsed,
           th[t].pc \notin {"account", "add", "callback"},
           r.pc = th[t].pc, r.key = th[t].key, r.len = th[t].len,
           r.cb = 0, r.then = "idle",
           p \in {"idle", "room", "removing"},
           p = "room" => Sets(th[t]) /\ r.key = k
    PROVE  MemoryInv'
<1> DEFINE gone == {k} \cap Held
<1>1. order' = Without(k) /\ LruGone(t, r, gone, p)
  BY DEF LruRemove
<1>2. order \in Seq(Keys) /\ IsInjective(order)
  BY DEF MemoryInv, TypeOK
<1>3. /\ order' \in Seq(Keys) /\ IsInjective(order') /\ Held' = Held \ {k}
      /\ Len(order') <= Len(order)
  BY <1>1, <1>2, WithoutFacts DEF Held
<1>4. gone \subseteq Held /\ Held' = Held \ gone /\ gone \subseteq {k}
  BY <1>3
<1>5. p = "room" => r.key \notin Held'
  BY <1>3
<1> HIDE DEF gone
<1> QED
  BY <1>1, <1>3, <1>4, <1>5, GoneInv

\* The steps that take entries out of the list.
LEMMA RemovalInv ==
    ASSUME MemoryInv, NEW t \in Threads,
           overlapped' = (overlapped \/ ClearOverlaps'),
           \/ SetReplaces(t) \/ SetEvicts(t) \/ GetRemovesExpired(t)
           \/ ClearPurges(t)
           \/ \E k \in Keys : Delete(t, k) \/ DeleteByPrefixRemoves(t, k)
    PROVE  MemoryInv'
<1>1. th[t] \in Places /\ Fits(th[t])
  BY PlaceFacts
<1>2. order \in Seq(Keys) /\ IsInjective(order)
  BY DEF MemoryInv, TypeOK
<1>3. th[t].pc # "callback" => th[t].cb = 0 /\ th[t].then = "idle"
  BY <1>1 DEF Fits
<1>4. th[t] = Idle => th[t].pc = "idle"
  BY DEF Idle
<1>5. CASE SetReplaces(t)
  BY <1>1, <1>3, <1>5, RemoveInv DEF SetReplaces, Sets
<1>6. CASE GetRemovesExpired(t)
  BY <1>1, <1>3, <1>6, RemoveInv DEF GetRemovesExpired
<1>7. ASSUME NEW k \in Keys, Delete(t, k) PROVE MemoryInv'
  BY <1>1, <1>3, <1>4, <1>7, RemoveInv DEF Delete
<1>8. ASSUME NEW k \in Keys, DeleteByPrefixRemoves(t, k) PROVE MemoryInv'
  <2> DEFINE r == [th[t] EXCEPT !.keys = @ \ {k}]
             p == IF th[t].keys = {k} THEN "idle" ELSE "removing"
  <2>1. /\ th[t].pc = "removing" /\ LruRemove(t, r, k, p) /\ memUsed' = memUsed
    BY <1>8 DEF DeleteByPrefixRemoves
  <2>2. /\ r \in Places /\ r.pc = th[t].pc /\ r.key = th[t].key /\ r.len = th[t].len
        /\ r.cb = 0 /\ r.then = "idle"
    BY <1>1, <1>3, <2>1 DEF Places
  <2>3. p \in {"idle", "removing"}
    OBVIOUS
  <2> HIDE DEF r, p
  <2> QED
    BY <2>1, <2>2, <2>3, RemoveInv
<1>9. CASE SetEvicts(t)
  <2>1. LruRemoveOldest(t, th[t], "room") /\ th[t].pc = "evict" /\ memUsed' = memUsed
    BY <1>9 DEF SetEvicts
  <2>2. Sets(th[t]) /\ th[t].key \notin Held
    BY <2>1 DEF Sets, MemoryInv, SetsApart
  <2> DEFINE gone == IF order = <<>> THEN {} ELSE {Head(order)}
  <2>3. LruGone(t, th[t], gone, "room")
    BY <2>1 DEF LruRemoveOldest
  <2>4. /\ Held' = Held \ gone /\ gone \subseteq Held
        /\ order' \in Seq(Keys) /\ IsInjective(order') /\ Len(order') <= Len(order)
    <3>1. CASE order = <<>>
      BY <1>2, <2>1, <3>1 DEF LruRemoveOldest, Held
    <3>2. CASE order # <<>>
      <4>1. order' = Tail(order)
        BY <2>1, <3>2 DEF LruRemoveOldest
      <4> QED
        BY <1>2, <3>2, <4>1, TailFacts DEF Held
    <3> QED
      BY <3>1, <3>2
  <2>5. th[t].key \notin Held' /\ \E k : gone \subseteq {k}
    <3>1. gone \subseteq {Head(order)}
      OBVIOUS
    <3> QED
      BY <2>2, <2>4, <3>1
  <2> HIDE DEF gone
  <2>6. /\ th[t].pc \notin {"account", "add", "callback"}
        /\ th[t].cb = 0 /\ th[t].then = "idle"
    BY <1>3, <2>1
  <2> QED
    BY <1>1, <2>1, <2>2, <2>3, <2>4, <2>5, <2>6, GoneInv
<1>10. CASE ClearPurges(t)
  <2>1. /\ th[t].pc = "idle" /\ order' = <<>> /\ LruGone(t, th[t], Held, "zero")
        /\ memUsed' = memUsed
    BY <1>4, <1>10 DEF ClearPurges, LruPurge
  <2>2. /\ Held' = Held \ Held /\ Held \subseteq Held /\ order' \in Seq(Keys)
        /\ IsInjective(order') /\ Len(order') <= Len(order)
    BY <1>2, <2>1 DEF Held, ToSet, IsInjective
  <2> QED
    BY <1>1, <1>3, <2>1, <2>2, GoneInv
<1> QED
  BY <1>5, <1>6, <1>7, <1>8, <1>9, <1>10

\* A thread that only changes its place, with the list and the counter as they
\* are.
LEMMA PlaceInv ==
    ASSUME MemoryInv, NEW t \in Threads, NEW r \in Places,
           th' = [th EXCEPT ![t] = r], UNCHANGED <<order, size, memUsed>>,
           overlapped' = (overlapped \/ ClearOverlaps'),
           Fits(r), ~Clears(r),
           Sets(r) => \/ Sets(th[t]) /\ r.key = th[t].key
                      \/ \A u \in Threads : ~Setting(u, r.key),
           Sets(r) /\ r.pc # "replace" => r.key \notin Held,
           ~overlapped' => Promise(r) + Due(th[t]) = Promise(th[t]) + Due(r),
           ~overlapped' /\ ValuesFit =>
              \/ Promise(r) <= Promise(th[t])
              \/ memUsed + Promise(r) <= MaxMemory
              \/ order = <<>> /\ r # Idle /\ Due(r) <= MaxMemory
    PROVE  MemoryInv'
<1>1. TypeOK /\ WithinEntries
  BY DEF MemoryInv
<1>2. order' = order /\ size' = size /\ memUsed' = memUsed /\ Held' = Held
  BY DEF Held
<1>3. /\ order \in Seq(Keys) /\ IsInjective(order) /\ Len(order) <= MaxEntries
      /\ size \in [Keys -> Sizes \cup {0}] /\ memUsed \in Int
  BY <1>1 DEF TypeOK, WithinEntries
<1>4. Total(size', Held') = Bytes(Held) /\ Bytes(Held) \in Nat
  BY <1>1, <1>2, BytesType DEF Bytes
<1>5. th[t] \in Places
  BY PlaceFacts
<1>6. /\ Promise(r) \in Nat /\ Due(r) \in Nat
      /\ Promise(th[t]) \in Nat /\ Due(th[t]) \in Nat
  BY <1>5, PromiseDueType
<1>7. ~overlapped' =>
         memUsed + Promise(r) + Bytes(Held) + Due(th[t])
            = memUsed + Promise(th[t]) + Bytes(Held) + Due(r)
  <2> SUFFICES ASSUME ~overlapped'
               PROVE  memUsed + Promise(r) + Bytes(Held) + Due(th[t])
                         = memUsed + Promise(th[t]) + Bytes(Held) + Due(r)
    OBVIOUS
  <2>1. Promise(r) + Due(th[t]) = Promise(th[t]) + Due(r)
    OBVIOUS
  <2>2. memUsed \in Int /\ Bytes(Held) \in Nat
    BY <1>3, <1>4
  <2> QED
    BY ONLY <1>6, <2>1, <2>2
<1>8. Promise(r) <= Promise(th[t]) => memUsed + Promise(r) <= memUsed + Promise(th[t])
  BY <1>3, <1>6
<1>9. /\ ~overlapped' =>
            memUsed' + Promise(r) + Bytes(Held) + Due(th[t])
               = memUsed + Promise(th[t]) + Total(size', Held') + Due(r)
      /\ ~overlapped' /\ ValuesFit =>
            \/ memUsed' + Promise(r) <= memUsed + Promise(th[t])
            \/ memUsed' + Promise(r) <= MaxMemory
            \/ order' = <<>> /\ r # Idle /\ Due(r) <= MaxMemory
  <2>1. ~overlapped' =>
            memUsed' + Promise(r) + Bytes(Held) + Due(th[t])
               = memUsed + Promise(th[t]) + Total(size', Held') + Due(r)
    BY <1>2, <1>4, <1>7, Zenon
  <2>2. ~overlapped' /\ ValuesFit =>
            \/ memUsed' + Promise(r) <= memUsed + Promise(th[t])
            \/ memUsed' + Promise(r) <= MaxMemory
            \/ order' = <<>> /\ r # Idle /\ Due(r) <= MaxMemory
    BY <1>2, <1>8, Zenon
  <2> QED
    BY <2>1, <2>2, Zenon
<1>10. /\ order' \in Seq(Keys) /\ IsInjective(order') /\ Len(order') <= MaxEntries
       /\ size' \in [Keys -> Sizes \cup {0}] /\ memUsed' \in Int
       /\ order = <<>> => order' = <<>>
       /\ Sets(r) /\ r.pc # "replace" => r.key \notin Held'
       /\ \A k \in Held' \ Held : Setting(t, k)
  BY <1>2, <1>3
<1> QED
  BY <1>9, <1>10, ThreadMoves

\* Set, up to its eviction loop, and the start of DeleteByPrefix.
LEMMA PlacesInv ==
    ASSUME MemoryInv, NEW t \in Threads,
           overlapped' = (overlapped \/ ClearOverlaps'),
           \/ SetChecksRoom(t) \/ DeleteByPrefixStarts(t)
           \/ \E k \in Keys, n \in Sizes : SetStarts(t, k, n)
    PROVE  MemoryInv'
<1>1. th[t] \in Places /\ Fits(th[t]) /\ th \in [Threads -> Places]
  BY PlaceFacts
<1>2. CASE SetChecksRoom(t)
  <2> DEFINE q == IF memUsed + th[t].len > MaxMemory /\ order # <<>>
                  THEN "evict" ELSE "account"
             r == [th[t] EXCEPT !.pc = q]
  <2>1. th[t].pc = "room" /\ UNCHANGED <<order, size, memUsed>>
    BY <1>2 DEF SetChecksRoom
  <2>2. th' = [th EXCEPT ![t] = r]
    BY <1>1, <1>2 DEF SetChecksRoom, Places
  <2>3. /\ r.pc = q /\ r.key = th[t].key /\ r.len = th[t].len /\ r.cb = th[t].cb
        /\ r.then = th[t].then /\ r \in Places
    BY <1>1 DEF Places, Positions
  <2>4. Sets(th[t]) /\ th[t].key \notin Held /\ th[t].cb = 0 /\ th[t].then = "idle"
    BY <1>1, <2>1 DEF Sets, MemoryInv, SetsApart, Fits
  <2>5. th[t].len \in Sizes /\ th[t].len \in Nat
    BY <1>1, <2>4, CacheConstants DEF Fits
  <2>6. q \in {"evict", "account"}
    OBVIOUS
  <2>7. q = "account" => memUsed + th[t].len <= MaxMemory \/ order = <<>>
    <3>1. memUsed \in Int /\ MaxMemory \in Nat
      BY CacheConstants DEF MemoryInv, TypeOK
    <3> QED
      BY <2>5, <3>1
  <2>8. ValuesFit => th[t].len <= MaxMemory
    BY <2>5 DEF ValuesFit
  <2>9. r # Idle
    BY <2>3, <2>6 DEF Idle
  <2> HIDE DEF q, r
  <2>10. Fits(r) /\ ~Clears(r)
    BY <1>1, <2>1, <2>3, <2>4, <2>6 DEF Fits, Clears, Sets
  <2>11. /\ Promise(th[t]) = 0 /\ Due(th[t]) = 0
         /\ q = "evict" => Promise(r) = 0 /\ Due(r) = 0
         /\ q = "account" => Promise(r) = th[t].len /\ Due(r) = th[t].len
    BY <2>1, <2>3, <2>4 DEF Promise, Due
  <2>12. Promise(r) + Due(th[t]) = Promise(th[t]) + Due(r)
    BY <2>5, <2>6, <2>11
  <2>13. ValuesFit => \/ Promise(r) <= Promise(th[t])
                      \/ memUsed + Promise(r) <= MaxMemory
                      \/ order = <<>> /\ r # Idle /\ Due(r) <= MaxMemory
    BY <2>6, <2>7, <2>8, <2>9, <2>11
  <2>14. r.key \notin Held
    BY <2>3, <2>4
  <2> QED
    BY <2>1, <2>2, <2>3, <2>4, <2>10, <2>12, <2>13, <2>14, PlaceInv
<1>3. CASE DeleteByPrefixStarts(t)
  <2> DEFINE r == [th[t] EXCEPT !.pc = "removing", !.keys = Held \cap Prefixed]
  <2>1. th[t] = Idle /\ UNCHANGED <<order, size, memUsed>>
    BY <1>3 DEF DeleteByPrefixStarts
  <2>2. th' = [th EXCEPT ![t] = r]
    BY <1>1, <1>3 DEF DeleteByPrefixStarts, Places
  <2>3. Held \cap Prefixed \subseteq Keys
    BY CacheConstants
  <2>4. /\ r.pc = "removing" /\ r.cb = 0 /\ r.then = "idle" /\ r \in Places
    <3>1. th[t].cb = 0 /\ th[t].then = "idle"
      BY <2>1 DEF Idle
    <3> QED
      BY <1>1, <2>3, <3>1 DEF Places, Positions
  <2> HIDE DEF r
  <2>5. Fits(r) /\ ~Clears(r) /\ ~Sets(r) /\ Promise(r) = 0 /\ Due(r) = 0
    BY <2>4, LongestValue DEF Fits, Clears, Sets, Promise, Due
  <2>6. Promise(th[t]) = 0 /\ Due(th[t]) = 0
    BY <2>1, IdleFacts
  <2>7. Promise(r) + Due(th[t]) = Promise(th[t]) + Due(r) /\ Promise(r) <= Promise(th[t])
    BY <2>5, <2>6
  <2> QED
    BY <2>1, <2>2, <2>4, <2>5, <2>7, PlaceInv, Zenon
<1>4. ASSUME NEW k \in Keys, NEW n \in Sizes, SetStarts(t, k, n) PROVE MemoryInv'
  <2> DEFINE q == IF k \in Held THEN "replace" ELSE "room"
             r == [th[t] EXCEPT !.pc = q, !.key = k, !.len = n]
  <2>1. /\ th[t] = Idle /\ UNCHANGED <<order, size, memUsed>>
        /\ \A u \in Threads : ~Setting(u, k)
    BY <1>4 DEF SetStarts
  <2>2. th' = [th EXCEPT ![t] = r]
    BY <1>1, <1>4 DEF SetStarts, Places
  <2>3. /\ r.pc = q /\ r.key = k /\ r.len = n /\ r.cb = 0 /\ r.then = "idle"
        /\ r \in Places
    <3>1. th[t].cb = 0 /\ th[t].then = "idle"
      BY <2>1 DEF Idle
    <3>2. q \in Positions
      BY DEF Positions
    <3> HIDE DEF q
    <3> QED
      BY <1>1, <3>1, <3>2 DEF Places
  <2>4. q \in {"replace", "room"} /\ (q # "replace" => k \notin Held)
    OBVIOUS
  <2> HIDE DEF r, q
  <2>5. Fits(r) /\ ~Clears(r) /\ Promise(r) = 0 /\ Due(r) = 0
    BY <2>3, <2>4, LongestValue DEF Fits, Clears, Sets, Promise, Due
  <2>6. Promise(th[t]) = 0 /\ Due(th[t]) = 0
    BY <2>1, IdleFacts
  <2>7. Promise(r) + Due(th[t]) = Promise(th[t]) + Due(r) /\ Promise(r) <= Promise(th[t])
    BY <2>5, <2>6
  <2>8. /\ \A u \in Threads : ~Setting(u, r.key)
        /\ r.pc # "replace" => r.key \notin Held
    BY <2>1, <2>3, <2>4
  <2> QED
    BY <2>1, <2>2, <2>3, <2>5, <2>7, <2>8, PlaceInv, Zenon
<1> QED
  BY <1>2, <1>3, <1>4

\* A read moves its key to the end of the list.
LEMMA GetInv ==
    ASSUME MemoryInv, NEW t \in Threads, NEW k \in Keys, Get(t, k),
           overlapped' = (overlapped \/ ClearOverlaps')
    PROVE  MemoryInv'
<1>1. TypeOK /\ WithinEntries /\ th \in [Threads -> Places]
  BY PlaceFacts DEF MemoryInv
<1>2. /\ th[t] = Idle /\ k \in Held /\ order' = Append(Without(k), k)
      /\ size' = size /\ memUsed' = memUsed
  BY DEF Get, LruTouch
<1>3. /\ order' \in Seq(Keys) /\ IsInjective(order') /\ Held' = Held
      /\ Len(order') = Len(order)
  <2>1. order \in Seq(Keys) /\ IsInjective(order) /\ Len(order) \in Nat
    BY <1>1 DEF TypeOK
  <2>2. /\ Without(k) \in Seq(Keys) /\ IsInjective(Without(k))
        /\ ToSet(Without(k)) = Held \ {k} /\ Len(Without(k)) = Len(order) - 1
    BY <1>2, <2>1, WithoutFacts
  <2>3. k \notin ToSet(Without(k))
    BY <2>2
  <2>4. /\ order' \in Seq(Keys) /\ IsInjective(order')
        /\ ToSet(order') = (Held \ {k}) \cup {k} /\ Len(order') = Len(order) - 1 + 1
    BY <1>2, <2>2, <2>3, AppendFacts
  <2>5. Held' = Held
    BY <1>2, <2>4 DEF Held
  <2> QED
    BY <2>1, <2>4, <2>5
<1>4. PICK r \in Places : /\ th' = [th EXCEPT ![t] = r] /\ Fits(r)
                          /\ ~Sets(r) /\ ~Clears(r) /\ Promise(r) = 0 /\ Due(r) = 0
  <2>1. CASE th' = th
    <3>1. th' = [th EXCEPT ![t] = Idle]
      BY <1>1, <1>2, <2>1
    <3> QED
      BY <3>1, IdleFacts
  <2>2. CASE th' = [th EXCEPT ![t].pc = "expire", ![t].key = k]
    <3> DEFINE r == [Idle EXCEPT !.pc = "expire", !.key = k]
    <3>1. th' = [th EXCEPT ![t] = r]
      BY <1>1, <1>2, <2>2 DEF Places, Idle
    <3>2. r.pc = "expire" /\ r.key = k /\ r.cb = 0 /\ r.then = "idle" /\ r \in Places
      BY DEF Idle, Places, Positions
    <3> HIDE DEF r
    <3>3. /\ Fits(r) /\ ~Sets(r) /\ ~Clears(r) /\ Promise(r) = 0 /\ Due(r) = 0
      BY <3>2, LongestValue DEF Fits, Sets, Clears, Promise, Due
    <3> QED
      BY <3>1, <3>2, <3>3
  <2> QED
    BY <2>1, <2>2 DEF Get
<1>5. Promise(th[t]) = 0 /\ Due(th[t]) = 0
  BY <1>2, IdleFacts
<1>6. Total(size', Held') = Bytes(Held) /\ Bytes(Held) \in Nat /\ memUsed \in Int
  BY <1>1, <1>2, <1>3, BytesType DEF Bytes, TypeOK
<1>7. /\ memUsed' + Promise(r) + Bytes(Held) + Due(th[t])
           = memUsed + Promise(th[t]) + Total(size', Held') + Due(r)
      /\ memUsed' + Promise(r) <= memUsed + Promise(th[t])
  BY <1>2, <1>4, <1>5, <1>6
<1>8. /\ Len(order') <= MaxEntries /\ size' \in [Keys -> Sizes \cup {0}] /\ memUsed' \in Int
      /\ order # <<>> /\ \A j \in Held' \ Held : Setting(t, j)
  <2>1. \A j \in Held' \ Held : Setting(t, j)
    BY <1>3
  <2>2. order # <<>>
    BY <1>2 DEF Held, ToSet
  <2> QED
    BY <1>1, <1>2, <1>3, <2>1, <2>2 DEF TypeOK, WithinEntries
<1> QED
  BY <1>3, <1>4, <1>7, <1>8, ThreadMoves

\* The callback gives the bytes of a removed entry back.
LEMMA OnEvictInv ==
    ASSUME MemoryInv, NEW t \in Threads, OnEvict(t),
           overlapped' = (overlapped \/ ClearOverlaps')
    PROVE  MemoryInv'
<1>1. TypeOK /\ WithinEntries /\ th[t] \in Places /\ Fits(th[t])
  BY PlaceFacts DEF MemoryInv
<1>2. /\ th[t].pc = "callback" /\ memUsed' = memUsed - th[t].cb
      /\ order' = order /\ size' = size /\ Held' = Held
  BY DEF OnEvict, Held
<1> DEFINE s == [th[t] EXCEPT !.cb = 0, !.then = "idle"]
           r == At(s, th[t].then)
<1>3. th' = [th EXCEPT ![t] = r]
  BY DEF OnEvict
<1>4. /\ Promise(th[t]) = 0 /\ Due(th[t]) = th[t].cb /\ th[t].cb \in Nat
      /\ th[t].then \in {"idle", "room", "removing", "zero"}
  BY <1>1, <1>2 DEF Promise, Due, Fits, Places
<1>5. /\ r \in Places /\ Fits(r) /\ Promise(r) = 0 /\ Due(r) = 0
      /\ Sets(r) => Sets(th[t]) /\ r.key = th[t].key
      /\ Clears(r) => Clears(th[t])
  <2>1. CASE th[t].then = "idle"
    BY <2>1, IdleFacts DEF At
  <2>2. CASE th[t].then # "idle"
    <3>1. /\ r.pc = th[t].then /\ r.key = th[t].key /\ r.len = th[t].len
          /\ r.cb = 0 /\ r.then = "idle" /\ r \in Places
      BY <1>1, <2>2 DEF At, Places, Positions
    <3> HIDE DEF r
    <3> QED
      BY <1>1, <1>4, <2>2, <3>1, LongestValue DEF Fits, Promise, Due, Sets, Clears
  <2> QED
    BY <2>1, <2>2
<1> HIDE DEF r
<1>6. Total(size', Held') = Bytes(Held) /\ Bytes(Held) \in Nat /\ memUsed \in Int
  BY <1>1, <1>2, BytesType DEF Bytes, TypeOK
<1>7. /\ memUsed' + Promise(r) + Bytes(Held) + Due(th[t])
           = memUsed + Promise(th[t]) + Total(size', Held') + Due(r)
      /\ memUsed' + Promise(r) <= memUsed + Promise(th[t])
  BY <1>2, <1>4, <1>5, <1>6
<1>8. /\ order' \in Seq(Keys) /\ IsInjective(order') /\ Len(order') <= MaxEntries
      /\ size' \in [Keys -> Sizes \cup {0}]
  BY <1>1, <1>2 DEF TypeOK, WithinEntries
<1>9. memUsed' \in Int
  BY <1>2, <1>4, <1>6
<1>10. ~overlapped' /\ Clears(r) => order' = <<>>
  BY <1>2, <1>5 DEF MemoryInv, ClearAlone
<1>11. Sets(r) /\ r.pc # "replace" => r.key \notin Held'
  BY <1>2, <1>5 DEF MemoryInv, SetsApart
<1>12. /\ \A k \in Held' \ Held : Setting(t, k)
       /\ th[t] # Idle
  BY <1>2 DEF Idle
<1> QED
  BY <1>3, <1>5, <1>7, <1>8, <1>9, <1>10, <1>11, <1>12, ThreadMoves, Zenon

\* Set counts the value it is about to add.
LEMMA AccountsInv ==
    ASSUME MemoryInv, NEW t \in Threads, SetAccounts(t),
           overlapped' = (overlapped \/ ClearOverlaps')
    PROVE  MemoryInv'
<1>1. TypeOK /\ WithinEntries /\ th[t] \in Places /\ Fits(th[t])
  BY PlaceFacts DEF MemoryInv
<1>2. /\ th[t].pc = "account" /\ memUsed' = memUsed + th[t].len
      /\ order' = order /\ size' = size /\ Held' = Held
  BY DEF SetAccounts, Held
<1> DEFINE r == [th[t] EXCEPT !.pc = "add"]
<1>3. th' = [th EXCEPT ![t] = r]
  BY <1>1 DEF SetAccounts, Places, TypeOK
<1>4. Sets(th[t]) /\ th[t].len \in Nat /\ th[t].key \notin Held
  BY <1>1, <1>2, LongestValue DEF Sets, Fits, MemoryInv, SetsApart
<1>5. /\ r.pc = "add" /\ r.key = th[t].key /\ r.len = th[t].len
      /\ r.cb = th[t].cb /\ r.then = th[t].then /\ r \in Places
  BY <1>1 DEF Places, Positions
<1> HIDE DEF r
<1>6. /\ Fits(r) /\ Promise(r) = 0 /\ Due(r) = th[t].len /\ ~Clears(r)
      /\ Promise(th[t]) = th[t].len /\ Due(th[t]) = th[t].len
  BY <1>1, <1>2, <1>5 DEF Fits, Promise, Due, Sets, Clears
<1>7. Total(size', Held') = Bytes(Held) /\ Bytes(Held) \in Nat /\ memUsed \in Int
  BY <1>1, <1>2, BytesType DEF Bytes, TypeOK
<1>8. /\ memUsed' + Promise(r) + Bytes(Held) + Due(th[t])
           = memUsed + Promise(th[t]) + Total(size', Held') + Due(r)
      /\ memUsed' + Promise(r) <= memUsed + Promise(th[t]) /\ memUsed' \in Int
  BY <1>2, <1>4, <1>6, <1>7
<1>9. /\ order' \in Seq(Keys) /\ IsInjective(order') /\ Len(order') <= MaxEntries
      /\ size' \in [Keys -> Sizes \cup {0}]
  BY <1>1, <1>2 DEF TypeOK, WithinEntries
<1>10. /\ \A k \in Held' \ Held : Setting(t, k)
       /\ r.key \notin Held' /\ th[t] # Idle
  BY <1>2, <1>4, <1>5 DEF Idle
<1> QED
  BY <1>3, <1>4, <1>5, <1>6, <1>8, <1>9, <1>10, ThreadMoves, Zenon

\* Set adds the value, and the library evicts the oldest one if the list is
\* full.
LEMMA AddsInv ==
    ASSUME MemoryInv, NEW t \in Threads, SetAdds(t),
           overlapped' = (overlapped \/ ClearOverlaps')
    PROVE  MemoryInv'
<1> DEFINE k == th[t].key
           n == th[t].len
           old == Head(order)
           evicts == k \notin Held /\ Len(order) = MaxEntries
           s == IF evicts THEN Tail(order) ELSE Without(k)
           r == IF evicts THEN [Idle EXCEPT !.pc = "callback", !.cb = size[old]] ELSE Idle
           back == IF evicts THEN size[old] ELSE 0
           A == IF evicts THEN Held \ {old} ELSE Held
<1>1. TypeOK /\ WithinEntries /\ th[t] \in Places /\ Fits(th[t])
  BY PlaceFacts DEF MemoryInv
<1>2. /\ th[t].pc = "add" /\ memUsed' = memUsed /\ order' = Append(s, k)
      /\ size' = [j \in Keys |-> IF j = k THEN n
                                 ELSE IF evicts /\ j = old THEN 0 ELSE size[j]]
      /\ th' = [th EXCEPT ![t] = r]
  BY DEF SetAdds, LruAdd
<1>3. k \in Keys /\ n \in Sizes /\ n \in Nat /\ k \notin Held /\ Setting(t, k)
  BY <1>1, <1>2, LongestValue DEF Sets, Setting, Fits, MemoryInv, SetsApart
<1>4. /\ order \in Seq(Keys) /\ IsInjective(order) /\ Len(order) \in Nat
      /\ Len(order) <= MaxEntries /\ MaxEntries \in Nat \ {0}
  BY <1>1, CacheConstants DEF TypeOK, WithinEntries
<1>5. evicts => order # <<>>
  BY <1>4
<1>6. /\ s \in Seq(Keys) /\ IsInjective(s) /\ ToSet(s) = A
      /\ Len(s) \in Nat /\ Len(s) + 1 <= MaxEntries
      /\ evicts => old \in Held
  <2>1. CASE evicts
    BY <1>4, <1>5, <2>1, TailFacts
  <2>2. CASE ~evicts
    <3>1. s = Without(k) /\ A = Held
      BY <2>2
    <3>2. /\ Without(k) \in Seq(Keys) /\ IsInjective(Without(k))
          /\ ToSet(Without(k)) = Held \ {k} /\ Len(Without(k)) = Len(order)
      BY <1>3, <1>4, WithoutFacts
    <3>3. Len(order) + 1 <= MaxEntries
      BY <1>3, <1>4, <2>2
    <3>4. Held \ {k} = Held
      BY <1>3
    <3> HIDE DEF s, A
    <3> QED
      BY <1>4, <2>2, <3>1, <3>2, <3>3, <3>4
  <2> QED
    BY <2>1, <2>2
<1>7. /\ IsFiniteSet(Held) /\ Held \subseteq Keys /\ Bytes(Held) \in Nat
      /\ \A j \in Keys : size[j] \in Nat /\ size[j] <= Max(Sizes)
      /\ size \in [Keys -> Sizes \cup {0}] /\ memUsed \in Int
  BY <1>1, KeysOfList, BytesType, LongestValue DEF TypeOK, Held
<1>8. back \in Nat /\ back <= Max(Sizes)
  BY <1>6, <1>7, LongestValue
<1>9. k \notin A /\ IsFiniteSet(A) /\ A \subseteq Keys
  BY <1>3, <1>7, FS_RemoveElement
<1>10. /\ order' \in Seq(Keys) /\ IsInjective(order') /\ Len(order') <= MaxEntries
       /\ Held' = A \cup {k}
  <2> HIDE DEF s, A, k
  <2> QED
    BY <1>2, <1>3, <1>6, <1>9, AppendFacts DEF Held
<1>11. /\ size' \in [Keys -> Sizes \cup {0}]
       /\ size'[k] = n /\ \A j \in A : size'[j] = size[j]
  BY <1>2, <1>3, <1>7, <1>9
<1>12. Bytes(Held) = Total(size, A) + back
  <2>1. CASE evicts
    <3>1. Total(size, Held) = Total(size, Held \ {old}) + size[old]
      BY <1>6, <1>7, <2>1, TotalRemove
    <3> QED
      BY <2>1, <3>1 DEF Bytes
  <2>2. CASE ~evicts
    BY <1>7, <2>2 DEF Bytes
  <2> QED
    BY <2>1, <2>2
<1>13. /\ r \in Places /\ Fits(r) /\ ~Sets(r) /\ ~Clears(r)
       /\ Promise(r) = 0 /\ Due(r) = back
  <2>1. CASE evicts
    <3>1. /\ r.pc = "callback" /\ r.cb = back /\ r.then = "idle" /\ r \in Places
      BY <1>8, <2>1 DEF Idle, Places, Positions
    <3> HIDE DEF r, back
    <3> QED
      BY <1>8, <3>1 DEF Fits, Sets, Clears, Promise, Due
  <2>2. CASE ~evicts
    BY <2>2, IdleFacts
  <2> QED
    BY <2>1, <2>2
<1>14. Promise(th[t]) = 0 /\ Due(th[t]) = n
  BY <1>2 DEF Promise, Due
<1> HIDE DEF k, n, r, back, A, s
<1>15. Total(size', Held') = Total(size, A) + n /\ Total(size, A) \in Nat
  <2>1. Total(size', A) = Total(size, A)
    BY <1>11, TotalAgrees
  <2>2. \A j \in A \cup {k} : size'[j] \in Nat
    BY <1>3, <1>9, <1>11, LongestValue
  <2>3. Total(size', A \cup {k}) = Total(size', A) + size'[k]
    BY <1>9, <2>2, TotalAdd
  <2>4. Total(size, A) \in Nat
    BY <1>7, <1>9, TotalType
  <2> QED
    BY <1>10, <1>11, <2>1, <2>3, <2>4
<1>16. /\ memUsed' + Promise(r) + Bytes(Held) + Due(th[t])
            = memUsed + Promise(th[t]) + Total(size', Held') + Due(r)
       /\ memUsed' + Promise(r) <= memUsed + Promise(th[t]) /\ memUsed' \in Int
  <2>1. memUsed' = memUsed
    BY <1>2
  <2> QED
    BY <1>3, <1>7, <1>8, <1>12, <1>13, <1>14, <1>15, <2>1
<1>17. /\ \A j \in Held' \ Held : Setting(t, j)
       /\ th[t] # Idle
  BY <1>2, <1>3, <1>10 DEF Idle, A
<1>18. th' = [th EXCEPT ![t] = r]
  BY <1>2
<1> QED
  BY <1>10, <1>11, <1>13, <1>16, <1>17, <1>18, ThreadMoves, Zenon

\* With nothing in the list and nothing under way, nothing is counted.
LEMMA NothingCounted ==
    ASSUME MemoryInv, ~overlapped, order = <<>>,
           \A u \in Threads : Promise(th[u]) = 0 /\ Due(th[u]) = 0
    PROVE  memUsed = 0
<1>1. Held = {} /\ memUsed \in Int
  BY DEF Held, ToSet, MemoryInv, TypeOK
<1>2. Bytes(Held) = 0
  BY <1>1, TotalEmpty DEF Bytes
<1>3. \A u \in Threads : promised[u] = 0 /\ due[u] = 0
  BY DEF promised, due
<1>4. Total(promised, Threads) = 0 /\ Total(due, Threads) = 0
  BY <1>3, CacheConstants, TotalZero
<1>5. memUsed + 0 = 0 + 0
  BY <1>2, <1>4 DEF MemoryInv, Accounted
<1> QED
  BY <1>1, <1>5

\* Clear stores zero; alone in the cache it finds zero there.
LEMMA ZeroesInv ==
    ASSUME MemoryInv, NEW t \in Threads, ClearZeroes(t),
           overlapped' = (overlapped \/ ClearOverlaps')
    PROVE  MemoryInv'
<1>1. TypeOK /\ WithinEntries /\ th[t] \in Places /\ Fits(th[t])
  BY PlaceFacts DEF MemoryInv
<1>2. /\ th[t].pc = "zero" /\ memUsed' = 0 /\ th' = [th EXCEPT ![t] = Idle]
      /\ order' = order /\ size' = size /\ Held' = Held
  BY DEF ClearZeroes, Held
<1>3. Promise(th[t]) = 0 /\ Due(th[t]) = 0 /\ Clears(th[t])
  BY <1>1, <1>2 DEF Promise, Due, Fits, Clears
<1>4. ASSUME ~overlapped' PROVE memUsed = 0
  <2>1. ~overlapped
    BY <1>4
  <2>2. ~ClearOverlaps /\ order = <<>>
    BY <1>3, <2>1 DEF MemoryInv, ClearAlone
  <2>3. \A u \in Threads : u # t => th[u] = Idle
    BY <1>3, <2>2 DEF ClearOverlaps
  <2>4. \A u \in Threads : Promise(th[u]) = 0 /\ Due(th[u]) = 0
    BY <1>3, <2>3, IdleFacts
  <2> QED
    BY <2>1, <2>2, <2>4, NothingCounted
<1>5. Total(size', Held') = Bytes(Held) /\ Bytes(Held) \in Nat
  BY <1>1, <1>2, BytesType DEF Bytes
<1>6. ~overlapped' =>
         /\ memUsed' + Promise(Idle) + Bytes(Held) + Due(th[t])
              = memUsed + Promise(th[t]) + Total(size', Held') + Due(Idle)
         /\ memUsed' + Promise(Idle) <= memUsed + Promise(th[t])
  BY <1>2, <1>3, <1>4, <1>5, IdleFacts
<1>7. /\ order' \in Seq(Keys) /\ IsInjective(order') /\ Len(order') <= MaxEntries
      /\ size' \in [Keys -> Sizes \cup {0}] /\ memUsed' \in Int
      /\ \A k \in Held' \ Held : Setting(t, k)
      /\ order = <<>> => order' = <<>>
  BY <1>1, <1>2 DEF TypeOK, WithinEntries
<1> QED
  BY <1>2, <1>6, <1>7, IdleFacts, ThreadMoves, Zenon

\* The cache starts empty.
LEMMA MemoryInitInv == Init => MemoryInv
<1> SUFFICES ASSUME Init PROVE MemoryInv
  OBVIOUS
<1>1. /\ order = <<>> /\ size = [k \in Keys |-> 0] /\ memUsed = 0
      /\ th = [t \in Threads |-> Idle] /\ overlapped = FALSE
  BY DEF Init, NewMemoryCache
<1>2. TypeOK
  BY <1>1, IdleFacts DEF TypeOK, IsInjective
<1>3. \A t \in Threads : th[t] = Idle
  BY <1>1
<1>4. ThreadsFit /\ SetsApart /\ ClearAlone
  BY <1>1, <1>3, IdleFacts DEF ThreadsFit, SetsApart, ClearAlone, ClearOverlaps
<1>5. Held = {}
  BY <1>1 DEF Held, ToSet
<1>6. Bytes(Held) = 0
  BY <1>5, TotalEmpty DEF Bytes
<1>7. \A t \in Threads : promised[t] = 0 /\ due[t] = 0
  BY <1>3, IdleFacts DEF promised, due
<1>8. Total(promised, Threads) = 0 /\ Total(due, Threads) = 0
  BY <1>7, CacheConstants, TotalZero
<1>9. Accounted
  BY <1>1, <1>6, <1>8 DEF Accounted
<1>10. Allowed
  <2> SUFFICES ASSUME ValuesFit PROVE 0 <= Allowance
    BY <1>1, <1>8 DEF Allowed
  <2>1. Max(Sizes) \in Nat /\ Max(Sizes) <= MaxMemory /\ MaxMemory \in Nat
    <3>1. Max(Sizes) \in Sizes
      BY CacheConstants, MaxIsLargest
    <3> QED
      BY <3>1, LongestValue, CacheConstants DEF ValuesFit
  <2>2. PICK c \in Nat : c = Cardinality(Threads)
    BY CacheConstants, FS_CardinalityType
  <2>3. PICK m \in Nat : m = Max(Sizes)
    BY <2>1
  <2>4. 0 <= MaxMemory + (c - 1) * m
    <3>1. CASE c = 0
      BY <2>1, <2>3, <3>1
    <3>2. CASE c # 0
      <4>1. (c - 1) * m \in Nat
        BY <3>2
      <4> QED
        BY <2>1, <4>1
    <3> QED
      BY <3>1, <3>2
  <2> QED
    BY <2>2, <2>3, <2>4 DEF Allowance
<1>11. WithinEntries
  BY <1>1, CacheConstants DEF WithinEntries
<1> QED
  BY <1>2, <1>4, <1>9, <1>10, <1>11 DEF MemoryInv

\* Every step of every method keeps the invariant.
LEMMA MemoryNextInv == MemoryInv /\ [Next]_vars => MemoryInv'
<1> SUFFICES ASSUME MemoryInv, [Next]_vars PROVE MemoryInv'
  OBVIOUS
<1>1. CASE UNCHANGED vars
  BY <1>1 DEF vars, state, MemoryInv, TypeOK, ThreadsFit, SetsApart, Setting, ClearAlone,
              ClearOverlaps, Accounted, Allowed, Allowance, WithinEntries, Bytes, Held,
              promised, due
<1>2. CASE Next
  <2>1. PICK t \in Threads : ThreadStep(t)
    BY <1>2 DEF Next
  <2>2. overlapped' = (overlapped \/ ClearOverlaps')
    BY <1>2 DEF Next
  <2>3. \/ \E k \in Keys, n \in Sizes : SetStarts(t, k, n)
        \/ \E k \in Keys : Get(t, k)
        \/ \E k \in Keys : Delete(t, k) \/ DeleteByPrefixRemoves(t, k)
        \/ SetReplaces(t) \/ SetChecksRoom(t) \/ SetEvicts(t) \/ SetAccounts(t)
        \/ SetAdds(t) \/ OnEvict(t) \/ GetRemovesExpired(t) \/ DeleteByPrefixStarts(t)
        \/ ClearPurges(t) \/ ClearZeroes(t)
    BY <2>1 DEF ThreadStep
  <2> QED
    BY <2>2, <2>3, PlacesInv, GetInv, RemovalInv, AccountsInv, AddsInv, OnEvictInv, ZeroesInv
<1> QED
  BY <1>1, <1>2

\* With no method under way nothing is promised and nothing due.
LEMMA InvUsedIsExact == MemoryInv => MemUsedIsExact
<1> SUFFICES ASSUME MemoryInv, Quiet, ~overlapped PROVE memUsed = Bytes(Held)
  BY DEF MemUsedIsExact
<1>1. \A t \in Threads : promised[t] = 0 /\ due[t] = 0
  BY IdleFacts DEF Quiet, promised, due
<1>2. Total(promised, Threads) = 0 /\ Total(due, Threads) = 0
  BY <1>1, CacheConstants, TotalZero
<1>3. memUsed \in Int /\ Bytes(Held) \in Nat
  BY BytesType DEF MemoryInv, TypeOK
<1>4. memUsed + 0 = Bytes(Held) + 0
  BY <1>2 DEF MemoryInv, Accounted
<1> QED
  BY <1>3, <1>4

\* What is held is what is counted and promised, less what is due.
LEMMA InvDualLimits == MemoryInv => DualLimits
<1> SUFFICES ASSUME MemoryInv, ValuesFit, ~overlapped PROVE Bytes(Held) <= Allowance
  BY DEF MemoryInv, DualLimits, MemoryBounded
<1>1. TypeOK /\ Accounted /\ Allowed
  BY DEF MemoryInv
<1>2. memUsed \in Int /\ Bytes(Held) \in Nat
  BY <1>1, BytesType DEF TypeOK
<1>3. Total(due, Threads) \in Nat
  <2>1. \A t \in Threads : due[t] \in Nat
    BY <1>1, PromiseDueType DEF TypeOK, due
  <2> QED
    BY <2>1, CacheConstants, TotalType
<1>4. Total(promised, Threads) \in Nat
  <2>1. \A t \in Threads : promised[t] \in Nat
    BY <1>1, PromiseDueType DEF TypeOK, promised
  <2> QED
    BY <2>1, CacheConstants, TotalType
<1>5. Allowance \in Int
  <2>1. Cardinality(Threads) \in Nat
    BY CacheConstants, FS_CardinalityType
  <2> QED
    BY <2>1, LongestValue, CacheConstants DEF Allowance
<1>6. /\ memUsed + Total(promised, Threads) = Bytes(Held) + Total(due, Threads)
      /\ memUsed + Total(promised, Threads) <= Allowance
  BY <1>1 DEF Accounted, Allowed
<1> QED
  BY <1>2, <1>3, <1>4, <1>5, <1>6

\* memUsed is the sum of the lengths held whenever no method is under way, for
\* any number of threads, keys and lengths.
THEOREM MemoryUsedIsExact == Spec => []MemUsedIsExact
BY InvUsedIsExact, MemoryInitInv, MemoryNextInv, PTL DEF Spec

\* The two limits hold at every moment: never more entries than allowed, and no
\* more bytes than the limit and one value per thread but one.
THEOREM MemoryDualLimits == Spec => []DualLimits
BY InvDualLimits, MemoryInitInv, MemoryNextInv, PTL DEF Spec

-----------------------------------------------------------------------------
(* What a table query asks for                                             *)

\* The elements of a list that are given, and no others.
LEMMA GivenFacts ==
    ASSUME NEW U, NEW s \in Seq(U \cup {None})
    PROVE  /\ Given(s) \in Seq(U)
           /\ \A k \in DOMAIN Given(s) :
                 \E i \in DOMAIN s : s[i] # None /\ Given(s)[k] = s[i]
           /\ \A i \in DOMAIN s : s[i] # None =>
                 \E k \in DOMAIN Given(s) : Given(s)[k] = s[i]
<1> DEFINE n == Len(s)
           ss == [i \in 1 .. n |-> IF s[i] = None THEN <<>> ELSE <<s[i]>>]
<1>1. n \in Nat /\ DOMAIN s = 1 .. n /\ Given(s) = FlattenSeq(ss)
  BY DEF Given
<1>2. ASSUME NEW i \in 1 .. n
      PROVE  /\ ss[i] \in Seq(U)
             /\ s[i] = None => Len(ss[i]) = 0
             /\ s[i] # None => Len(ss[i]) = 1 /\ ss[i][1] = s[i]
  <2>1. CASE s[i] = None
    <3>1. ss[i] = <<>>
      BY <2>1
    <3> QED
      BY <2>1, <3>1, EmptySeq
  <2>2. CASE s[i] # None
    <3>1. s[i] \in U /\ ss[i] = <<s[i]>>
      BY <1>1, <2>2
    <3> QED
      BY <2>2, <3>1
  <2> QED
    BY <2>1, <2>2
<1>3. ss \in Seq(Seq(U)) /\ Len(ss) = n
  BY <1>1, <1>2
<1> HIDE DEF ss
<1>4. \A i \in 1 .. Len(ss) : Len(ss[i]) \in {0, 1}
  BY <1>2, <1>3
<1>5. /\ FlattenSeq(ss) \in Seq(U)
      /\ \A i \in 1 .. Len(ss) : Len(ss[i]) = 1 =>
            /\ Ahead(ss, i - 1) + 1 \in 1 .. Len(FlattenSeq(ss))
            /\ FlattenSeq(ss)[Ahead(ss, i - 1) + 1] = ss[i][1]
      /\ \A k \in 1 .. Len(FlattenSeq(ss)) :
            \E i \in 1 .. Len(ss) : /\ Len(ss[i]) = 1 /\ k = Ahead(ss, i - 1) + 1
                                    /\ FlattenSeq(ss)[k] = ss[i][1]
  BY <1>3, <1>4, KeptFacts
<1>6. DOMAIN FlattenSeq(ss) = 1 .. Len(FlattenSeq(ss))
  BY <1>5
<1>7. \A k \in DOMAIN Given(s) :
         \E i \in DOMAIN s : s[i] # None /\ Given(s)[k] = s[i]
  <2> SUFFICES ASSUME NEW k \in 1 .. Len(FlattenSeq(ss))
               PROVE  \E i \in 1 .. n : s[i] # None /\ FlattenSeq(ss)[k] = s[i]
    BY <1>1, <1>6
  <2>1. PICK i \in 1 .. n : Len(ss[i]) = 1 /\ FlattenSeq(ss)[k] = ss[i][1]
    BY <1>3, <1>5
  <2>2. s[i] # None /\ ss[i][1] = s[i]
    BY <1>2, <2>1
  <2> QED
    BY <2>1, <2>2
<1>8. \A i \in DOMAIN s : s[i] # None =>
         \E k \in DOMAIN Given(s) : Given(s)[k] = s[i]
  BY <1>1, <1>2, <1>3, <1>5, <1>6
<1> QED
  BY <1>1, <1>5, <1>7, <1>8

\* The parameters meet the placeholders of the filter they belong to.
LEMMA ArgsOfFacts ==
    ASSUME NEW fs \in Seq(StarRocksFilter)
    PROVE  /\ DOMAIN buildWhereClause(fs).clauses = DOMAIN fs
           /\ \A i \in DOMAIN fs :
                 /\ buildWhereClause(fs).clauses[i].op = fs[i].op
                 /\ buildWhereClause(fs).clauses[i].field = fs[i].field
                 /\ ArgsOf(buildWhereClause(fs), i) = FilterParams(fs[i])
<1> DEFINE n == Len(fs)
           w == buildWhereClause(fs)
           ss == [i \in 1 .. n |-> FilterParams(fs[i])]
<1>1. n \in Nat /\ DOMAIN fs = 1 .. n
  OBVIOUS
<1>2. /\ w.clauses = [i \in 1 .. n |-> [field |-> fs[i].field, op |-> fs[i].op,
                                        marks |-> Len(FilterParams(fs[i]))]]
      /\ w.params = FlattenSeq(ss)
  BY <1>1 DEF buildWhereClause
<1> HIDE DEF w
<1>3. ASSUME NEW i \in 1 .. n PROVE FilterParams(fs[i]) \in Seq(Int)
  <2>1. fs[i] \in StarRocksFilter
    BY <1>1
  <2>2. fs[i].val \in Int
    BY <2>1 DEF StarRocksFilter
  <2>3. CASE fs[i].op \in NullTests
    <3>1. FilterParams(fs[i]) = <<>>
      BY <2>3 DEF FilterParams
    <3> QED
      BY <3>1, EmptySeq
  <2>4. CASE fs[i].op \notin NullTests
    BY <2>2, <2>4 DEF FilterParams
  <2> QED
    BY <2>3, <2>4
<1>4. ss \in Seq(Seq(Int)) /\ Len(ss) = n /\ DOMAIN ss = 1 .. n
  BY <1>1, <1>3
<1>5. DOMAIN w.clauses = 1 .. n
      /\ \A i \in 1 .. n : /\ w.clauses[i].op = fs[i].op
                           /\ w.clauses[i].field = fs[i].field
                           /\ w.clauses[i].marks = Len(ss[i])
  BY <1>2
<1>6. [j \in DOMAIN w.clauses |-> w.clauses[j].marks] = Lengths(ss)
  BY <1>4, <1>5 DEF Lengths
<1>7. ASSUME NEW i \in 1 .. n PROVE ArgsOf(w, i) = FilterParams(fs[i])
  <2>1. MarksBefore(w.clauses, i) = Ahead(ss, i - 1)
    BY <1>6, Zenon DEF MarksBefore, Ahead
  <2>2. SubSeq(FlattenSeq(ss), Ahead(ss, i - 1) + 1, Ahead(ss, i - 1) + Len(ss[i])) = ss[i]
    <3> HIDE DEF ss
    <3> QED
      BY <1>4, FlattenSlice
  <2>3. ArgsOf(w, i) = SubSeq(w.params, MarksBefore(w.clauses, i) + 1,
                              MarksBefore(w.clauses, i) + w.clauses[i].marks)
    BY Zenon DEF ArgsOf
  <2>4. ArgsOf(w, i) = ss[i]
    BY <1>2, <1>5, <2>1, <2>2, <2>3, Zenon
  <2> QED
    BY <2>4
<1> QED
  BY <1>1, <1>5, <1>7 DEF w

\* What the request keeps of the filters is what they mean.
LEMMA MatchingIsWanted ==
    ASSUME NEW a \in StarRocksArgs
    PROVE  Matching(buildWhereClause(buildStarRocksQueryRequest(a).filters))
             = WantedIds(a, rows)
<1> DEFINE gs == Given(a.filters)
           fs == buildStarRocksQueryRequest(a).filters
           w == buildWhereClause(fs)
<1>1. /\ a.filters \in Seq(StarRocksFilter \cup {None})
  BY DEF StarRocksArgs
<1>2. /\ gs \in Seq(StarRocksFilter)
      /\ \A k \in DOMAIN gs : \E i \in DOMAIN a.filters :
            a.filters[i] # None /\ gs[k] = a.filters[i]
      /\ \A i \in DOMAIN a.filters : a.filters[i] # None =>
            \E k \in DOMAIN gs : gs[k] = a.filters[i]
  BY <1>1, GivenFacts
<1>3. fs = [k \in DOMAIN gs |-> [gs[k] EXCEPT !.op = convertFilterOperator(@)]]
  BY DEF buildStarRocksQueryRequest
<1> HIDE DEF gs
<1>4. ASSUME NEW k \in DOMAIN gs PROVE fs[k] = gs[k]
  <2>1. gs[k] \in StarRocksFilter
    BY <1>2
  <2>2. convertFilterOperator(gs[k].op) = gs[k].op
    BY <2>1 DEF StarRocksFilter, convertFilterOperator
  <2>3. fs[k] = [gs[k] EXCEPT !.op = convertFilterOperator(gs[k].op)]
    BY <1>3
  <2> QED
    BY <2>1, <2>2, <2>3 DEF StarRocksFilter
<1>5. fs = gs
  BY <1>2, <1>3, <1>4
<1> HIDE DEF fs
<1>6. /\ DOMAIN w.clauses = DOMAIN gs
      /\ \A k \in DOMAIN gs : /\ w.clauses[k].op = gs[k].op
                              /\ w.clauses[k].field = gs[k].field
                              /\ ArgsOf(w, k) = FilterParams(gs[k])
  BY <1>2, <1>5, ArgsOfFacts
<1> HIDE DEF w
<1>7. ASSUME NEW id \in DOMAIN rows
      PROVE  (\A k \in DOMAIN w.clauses :
                 Satisfies(w.clauses[k].op, Cell(id, w.clauses[k].field), ArgsOf(w, k)))
             <=> Wanted(a, id, rows[id])
  <2> DEFINE P(f) == Satisfies(f.op, IF f.field = "id" THEN id ELSE rows[id], <<f.val>>)
  <2>1. ASSUME NEW k \in DOMAIN gs
        PROVE  Satisfies(w.clauses[k].op, Cell(id, w.clauses[k].field), ArgsOf(w, k))
                 = P(gs[k])
    <3>1. Cell(id, w.clauses[k].field) = IF gs[k].field = "id" THEN id ELSE rows[id]
      BY <1>6 DEF Cell
    <3>2. CASE gs[k].op \in NullTests
      BY <1>6, <3>1, <3>2 DEF NullTests, Satisfies
    <3>3. CASE gs[k].op \notin NullTests
      <4>1. ArgsOf(w, k) = <<gs[k].val>>
        BY <1>6, <3>3 DEF FilterParams
      <4> QED
        BY <1>6, <3>1, <4>1, Zenon
    <3> QED
      BY <3>2, <3>3
  <2>2. (\A k \in DOMAIN w.clauses :
            Satisfies(w.clauses[k].op, Cell(id, w.clauses[k].field), ArgsOf(w, k)))
        <=> \A k \in DOMAIN gs : P(gs[k])
    BY <1>6, <2>1, Zenon
  <2> HIDE DEF P
  <2>3. (\A k \in DOMAIN gs : P(gs[k]))
        <=> \A i \in DOMAIN a.filters : a.filters[i] # None => P(a.filters[i])
    BY <1>2, Zenon
  <2>4. (\A i \in DOMAIN a.filters : a.filters[i] # None => P(a.filters[i]))
        <=> Wanted(a, id, rows[id])
    BY Zenon DEF Wanted, P
  <2> QED
    BY <2>2, <2>3, <2>4
<1>8. Matching(w) = WantedIds(a, rows)
  BY <1>7, Zenon DEF Matching, WantedIds
<1> QED
  BY <1>8 DEF w, fs

\* A page is what is behind its offset, as far as its limit or the end.
LEMMA PageFacts ==
    ASSUME NEW s \in Seq(Nat), NEW page,
           page.offset \in Nat \cup {None}, page.limit \in Nat \cup {None}
    PROVE  LET from == IF page.offset = None THEN 0 ELSE page.offset
               p == Page(page, s)
           IN  /\ p \in Seq(Nat) /\ Len(p) \in Nat
               /\ \A k \in 1 .. Len(p) : from + k <= Len(s) /\ p[k] = s[from + k]
               /\ p # <<>> => from + Len(p) <= Len(s)
               /\ page.limit # None => Len(p) <= page.limit
               /\ page.limit = None \/ Len(p) < page.limit => Len(s) <= from + Len(p)
<1> DEFINE from == IF page.offset = None THEN 0 ELSE page.offset
           to == IF page.limit = None THEN Len(s) ELSE from + page.limit
           end == IF to < Len(s) THEN to ELSE Len(s)
           p == Page(page, s)
<1>1. from \in Nat /\ Len(s) \in Nat
  OBVIOUS
<1>2. p = SubSeq(s, from + 1, end)
  BY DEF Page
<1>3. to \in Nat /\ (page.limit # None => page.limit \in Nat /\ to = from + page.limit)
      /\ (page.limit = None => to = Len(s))
  BY <1>1
<1> HIDE DEF from, p, to
<1>4. end \in Nat /\ end <= Len(s) /\ end <= to /\ (end = to \/ end = Len(s))
  BY <1>1, <1>3
<1> HIDE DEF end
<1>5. CASE from <= end
  <2> DEFINE l == end - from
  <2>1. l \in Nat /\ from + l = end
    BY <1>1, <1>4, <1>5
  <2> HIDE DEF l
  <2>2. /\ p \in Seq(Nat) /\ Len(p) = l
        /\ \A k \in 1 .. l : p[k] = s[from + k]
    <3>1. from + l <= Len(s)
      BY <1>4, <2>1
    <3>2. p = SubSeq(s, from + 1, from + l)
      BY <1>2, <2>1
    <3>3. /\ SubSeq(s, from + 1, from + l) \in Seq(Nat)
          /\ Len(SubSeq(s, from + 1, from + l)) = l
          /\ \A k \in 1 .. l : SubSeq(s, from + 1, from + l)[k] = s[from + k]
      BY <1>1, <2>1, <3>1, CutFacts
    <3> QED
      BY ONLY <3>2, <3>3
  <2>3. page.limit # None => l <= page.limit
    BY <1>1, <1>3, <1>4, <2>1
  <2>4. page.limit = None \/ l < page.limit => Len(s) <= from + l
    BY <1>1, <1>3, <1>4, <2>1
  <2>5. \A k \in 1 .. l : from + k <= Len(s)
    BY <1>1, <1>4, <2>1
  <2>6. from + l <= Len(s)
    BY <1>4, <2>1
  <2> QED
    BY <1>1, <2>1, <2>2, <2>3, <2>4, <2>5, <2>6 DEF from, p
<1>6. CASE end < from
  <2>1. p = <<>>
    BY <1>1, <1>2, <1>4, <1>6
  <2>2. p \in Seq(Nat) /\ Len(p) = 0
    BY <2>1, EmptySeq
  <2>3. end = Len(s)
    BY <1>1, <1>3, <1>4, <1>6
  <2> QED
    BY <1>1, <1>3, <1>6, <2>1, <2>2, <2>3 DEF from, p
<1> QED
  BY <1>1, <1>4, <1>5, <1>6

\* The answer of the database has each of the rows once.
LEMMA OrderedFacts ==
    ASSUME NEW sorting, NEW ids \in SUBSET Nat, IsFiniteSet(ids),
           NEW s \in Ordered(sorting, ids)
    PROVE  /\ s \in Seq(Nat) /\ Len(s) = Cardinality(ids) /\ Len(s) \in Nat
           /\ \A i \in 1 .. Len(s) : s[i] \in ids
           /\ \A i, j \in 1 .. Len(s) : i # j => s[i] # s[j]
<1>1. Cardinality(ids) \in Nat
  BY FS_CardinalityType
<1>2. s \in SetToSeqs(ids)
  BY DEF Ordered
<1> DEFINE n == Cardinality(ids)
<1> HIDE DEF n
<1>3. s \in [1 .. n -> ids] /\ \A i, j \in 1 .. n : i # j => s[i] # s[j]
  BY <1>2 DEF SetToSeqs, n
<1>4. n \in Nat
  BY <1>1 DEF n
<1>5. s \in Seq(Nat) /\ Len(s) = n
  <2>1. s \in [1 .. n -> Nat]
    BY <1>3
  <2>2. s \in Seq(Nat)
    BY <1>4, <2>1, SeqDef
  <2> QED
    BY <1>4, <2>1, <2>2, LenProperties
<1> QED
  BY <1>3, <1>4, <1>5 DEF n

\* The page a request asks for, once the database has accepted it.
LEMMA LimitFacts ==
    ASSUME NEW a \in StarRocksArgs,
           LET page == buildLimitClause(buildStarRocksQueryRequest(a)) IN
             /\ page.limit # None => page.limit >= 0
             /\ page.offset # None => page.offset >= 0
    PROVE  LET req == buildStarRocksQueryRequest(a)
               page == buildLimitClause(req)
           IN  /\ page.limit \in Nat \cup {None} /\ page.offset \in Nat \cup {None}
               /\ (IF page.offset = None THEN 0 ELSE page.offset)
                    = (IF OffsetOf(req) = None \/ OffsetOf(req) < 0 THEN 0
                       ELSE OffsetOf(req))
               /\ a.first # None /\ a.first >= 0 =>
                     /\ page.limit # None /\ page.limit <= a.first
                     /\ page.limit = IF kind = "starrocks" \/ a.first <= MaxQueryLimit
                                     THEN a.first ELSE MaxQueryLimit
               /\ a.after = None => OffsetOf(req) = a.offset
<1> DEFINE req == buildStarRocksQueryRequest(a)
           l == LimitOf(req)
           o == OffsetOf(req)
           page == buildLimitClause(req)
<1>1. /\ a.first \in Int \cup {None} /\ a.offset \in Int \cup {None}
      /\ a.limit \in Int \cup {None} /\ a.after \in Cursors \cup {None}
  BY DEF StarRocksArgs
<1>2. req.first = a.first /\ req.after = a.after /\ req.offset = a.offset
      /\ req.limit = a.limit
  BY DEF buildStarRocksQueryRequest
<1> HIDE DEF req
<1>3. l \in Int \cup {None} /\ (a.first # None => l = a.first)
  BY <1>1, <1>2 DEF LimitOf
<1>4. o \in Int \cup {None} /\ (a.after = None => o = a.offset)
  <2>1. CASE a.after = None
    BY <1>1, <1>2, <2>1 DEF OffsetOf
  <2>2. CASE a.after # None
    <3>1. a.after.n \in Int
      BY <1>1, <2>2 DEF Cursors
    <3> QED
      BY <1>2, <2>2, <3>1 DEF OffsetOf, decodeCursor
  <2> QED
    BY <2>1, <2>2
<1>5. None \notin Int /\ MaxQueryLimit \in Nat
  BY QueryConstants
<1> HIDE DEF l, o
<1>6. /\ page.limit \in Nat \cup {None} /\ page.offset \in Nat \cup {None}
      /\ (IF page.offset = None THEN 0 ELSE page.offset)
           = (IF o = None \/ o < 0 THEN 0 ELSE o)
      /\ a.first # None /\ a.first >= 0 =>
            /\ page.limit # None /\ page.limit <= a.first
            /\ page.limit = IF kind = "starrocks" \/ a.first <= MaxQueryLimit
                            THEN a.first ELSE MaxQueryLimit
  <2>1. page.limit # None => page.limit >= 0
    BY DEF req
  <2>2. page.offset # None => page.offset >= 0
    BY DEF req
  <2>3. CASE kind = "starrocks"
    <3>1. page.limit = l /\ page.offset = o
      BY <2>3 DEF buildLimitClause, l, o
    <3> HIDE DEF page
    <3> QED
      BY <1>1, <1>3, <1>4, <1>5, <2>1, <2>2, <2>3, <3>1
  <2>4. CASE kind # "starrocks"
    <3>1. /\ page.limit = IF l = None THEN None ELSE Clamped(l, MaxQueryLimit)
          /\ page.offset = IF o = None \/ o >= 0 THEN o ELSE 0
      BY <2>4 DEF buildLimitClause, l, o
    <3> HIDE DEF page
    <3>2. l # None => /\ Clamped(l, MaxQueryLimit) \in Nat
                      /\ l >= 0 => /\ Clamped(l, MaxQueryLimit) <= l
                                   /\ Clamped(l, MaxQueryLimit)
                                        = IF l <= MaxQueryLimit THEN l ELSE MaxQueryLimit
      BY <1>3, <1>5 DEF Clamped
    <3>3. page.limit \in Nat \cup {None}
      BY <3>1, <3>2
    <3>4. page.offset \in Nat \cup {None}
          /\ (IF page.offset = None THEN 0 ELSE page.offset)
                = (IF o = None \/ o < 0 THEN 0 ELSE o)
      BY <1>4, <1>5, <3>1
    <3>5. a.first # None /\ a.first >= 0 =>
             /\ page.limit # None /\ page.limit <= a.first
             /\ page.limit = IF kind = "starrocks" \/ a.first <= MaxQueryLimit
                             THEN a.first ELSE MaxQueryLimit
      BY <1>1, <1>3, <1>5, <2>4, <3>1, <3>2
    <3> QED
      BY <3>3, <3>4, <3>5
  <2> QED
    BY <2>3, <2>4
<1> QED
  BY <1>4, <1>6 DEF req, o

\* The rows asked for in their order.
LEMMA WantedOfFacts ==
    ASSUME NEW a, NEW V, NEW table \in Seq(V), NEW all, all = WantedOf(a, table)
    PROVE  /\ all \in Seq(Nat) /\ Len(all) \in Nat
           /\ Len(all) = Cardinality(WantedIds(a, table))
           /\ \A k \in 1 .. Len(all) : all[k] \in WantedIds(a, table)
           /\ \A id \in WantedIds(a, table) : \E k \in 1 .. Len(all) : all[k] = id
           /\ \A k, m \in 1 .. Len(all) : k < m => all[k] < all[m]
<1> DEFINE n == Len(table)
           W == WantedIds(a, table)
           ss == [i \in 1 .. n |-> IF Wanted(a, i, table[i]) THEN <<i>> ELSE <<>>]
<1>1. n \in Nat /\ DOMAIN table = 1 .. n /\ all = FlattenSeq(ss)
  BY DEF WantedOf
<1>2. ASSUME NEW i \in 1 .. n
      PROVE  /\ ss[i] \in Seq(Nat)
             /\ i \in W => Len(ss[i]) = 1 /\ ss[i][1] = i
             /\ i \notin W => Len(ss[i]) = 0
  <2>1. CASE Wanted(a, i, table[i])
    <3>1. ss[i] = <<i>> /\ i \in Nat /\ i \in W
      BY <1>1, <2>1 DEF WantedIds
    <3> QED
      BY <3>1
  <2>2. CASE ~Wanted(a, i, table[i])
    <3>1. ss[i] = <<>> /\ i \notin W
      BY <1>1, <2>2 DEF WantedIds
    <3> QED
      BY <3>1, EmptySeq
  <2> QED
    BY <2>1, <2>2
<1>3. ss \in Seq(Seq(Nat)) /\ Len(ss) = n
  BY <1>1, <1>2
<1>4. W \subseteq 1 .. n
  BY <1>1 DEF WantedIds
<1> HIDE DEF ss, n, W
<1>5. \A i \in 1 .. n : Len(ss[i]) \in {0, 1} /\ (Len(ss[i]) = 1 <=> i \in W)
  <2> SUFFICES ASSUME NEW i \in 1 .. n
               PROVE  Len(ss[i]) \in {0, 1} /\ (Len(ss[i]) = 1 <=> i \in W)
    OBVIOUS
  <2> QED
    BY <1>2
<1>6. /\ all \in Seq(Nat)
      /\ Len(all) = Cardinality({i \in 1 .. n : Len(ss[i]) = 1})
      /\ \A i \in 1 .. n : Len(ss[i]) = 1 =>
            /\ Ahead(ss, i - 1) + 1 \in 1 .. Len(all)
            /\ all[Ahead(ss, i - 1) + 1] = ss[i][1]
      /\ \A k \in 1 .. Len(all) :
            \E i \in 1 .. n : /\ Len(ss[i]) = 1 /\ k = Ahead(ss, i - 1) + 1
                              /\ all[k] = ss[i][1]
  <2>1. \A i \in 1 .. Len(ss) : Len(ss[i]) \in {0, 1}
    BY <1>3, <1>5
  <2>2. /\ FlattenSeq(ss) \in Seq(Nat)
        /\ Len(FlattenSeq(ss)) = Cardinality({i \in 1 .. Len(ss) : Len(ss[i]) = 1})
        /\ \A i \in 1 .. Len(ss) : Len(ss[i]) = 1 =>
              /\ Ahead(ss, i - 1) + 1 \in 1 .. Len(FlattenSeq(ss))
              /\ FlattenSeq(ss)[Ahead(ss, i - 1) + 1] = ss[i][1]
        /\ \A k \in 1 .. Len(FlattenSeq(ss)) :
              \E i \in 1 .. Len(ss) : /\ Len(ss[i]) = 1 /\ k = Ahead(ss, i - 1) + 1
                                      /\ FlattenSeq(ss)[k] = ss[i][1]
    BY <1>3, <2>1, KeptFacts
  <2> QED
    BY ONLY <1>1, <1>3, <2>2, Zenon
<1>7. {i \in 1 .. n : Len(ss[i]) = 1} = W
  BY <1>4, <1>5
<1>8. \A k \in 1 .. Len(all) : all[k] \in W
  <2> SUFFICES ASSUME NEW k \in 1 .. Len(all) PROVE all[k] \in W
    OBVIOUS
  <2>1. PICK i \in 1 .. n : Len(ss[i]) = 1 /\ all[k] = ss[i][1]
    BY <1>6
  <2> QED
    BY <1>2, <1>5, <2>1
<1>9. \A id \in W : \E k \in 1 .. Len(all) : all[k] = id
  <2> SUFFICES ASSUME NEW i \in W PROVE \E k \in 1 .. Len(all) : all[k] = i
    OBVIOUS
  <2>1. i \in 1 .. n /\ Len(ss[i]) = 1 /\ ss[i][1] = i
    BY <1>2, <1>4
  <2> QED
    BY <1>6, <2>1
<1>10. ASSUME NEW k \in 1 .. Len(all), NEW m \in 1 .. Len(all), k < m
       PROVE  all[k] < all[m]
  <2>1. PICK i \in 1 .. n : Len(ss[i]) = 1 /\ k = Ahead(ss, i - 1) + 1 /\ all[k] = ss[i][1]
    BY <1>6
  <2>2. PICK j \in 1 .. n : Len(ss[j]) = 1 /\ m = Ahead(ss, j - 1) + 1 /\ all[m] = ss[j][1]
    BY <1>6
  <2>3. all[k] = i /\ all[m] = j
    BY <1>2, <1>5, <2>1, <2>2
  <2>4. ~(j <= i)
    <3> SUFFICES ASSUME j <= i PROVE FALSE
      OBVIOUS
    <3>1. j - 1 \in 0 .. Len(ss) /\ i - 1 \in (j - 1) .. Len(ss)
      BY <1>1, <1>3
    <3>2. Ahead(ss, j - 1) <= Ahead(ss, i - 1)
      BY <1>3, <3>1, AheadGrows
    <3>3. Ahead(ss, j - 1) \in Nat /\ Ahead(ss, i - 1) \in Nat
      <4>1. i - 1 \in 0 .. Len(ss)
        BY <1>1, <1>3
      <4> QED
        BY <1>3, <3>1, <4>1, FlattenFacts
    <3> QED
      BY <1>10, <2>1, <2>2, <3>2, <3>3
  <2> QED
    BY <1>1, <2>3, <2>4
<1>11. Len(all) \in Nat
  BY <1>6
<1> QED
  BY <1>6, <1>7, <1>8, <1>9, <1>10, <1>11, Zenon DEF W

\* They stay where they are while the table grows.
LEMMA WantedOfGrows ==
    ASSUME NEW a, NEW old \in Seq(CellValues), NEW new \in Seq(CellValues),
           Len(old) <= Len(new), \A i \in DOMAIN old : new[i] = old[i]
    PROVE  /\ Len(WantedOf(a, old)) <= Len(WantedOf(a, new))
           /\ \A k \in 1 .. Len(WantedOf(a, old)) :
                 WantedOf(a, new)[k] = WantedOf(a, old)[k]
<1> DEFINE ss == [i \in DOMAIN old |-> IF Wanted(a, i, old[i]) THEN <<i>> ELSE <<>>]
           tt == [i \in DOMAIN new |-> IF Wanted(a, i, new[i]) THEN <<i>> ELSE <<>>]
<1>1. /\ Len(old) \in Nat /\ DOMAIN old = 1 .. Len(old)
      /\ Len(new) \in Nat /\ DOMAIN new = 1 .. Len(new)
  OBVIOUS
<1>2. WantedOf(a, old) = FlattenSeq(ss) /\ WantedOf(a, new) = FlattenSeq(tt)
  BY DEF WantedOf
<1>3. \A i \in Nat : <<i>> \in Seq(Nat)
  OBVIOUS
<1>4. ss \in Seq(Seq(Nat)) /\ Len(ss) = Len(old)
  <2>1. \A i \in DOMAIN old : ss[i] \in Seq(Nat)
    BY <1>1, <1>3, EmptySeq
  <2> QED
    BY <1>1, <2>1
<1>5. tt \in Seq(Seq(Nat)) /\ Len(tt) = Len(new)
  <2>1. \A i \in DOMAIN new : tt[i] \in Seq(Nat)
    BY <1>1, <1>3, EmptySeq
  <2> QED
    BY <1>1, <2>1
<1>6. \A i \in 1 .. Len(old) : ss[i] = tt[i]
  <2> SUFFICES ASSUME NEW i \in 1 .. Len(old) PROVE ss[i] = tt[i]
    OBVIOUS
  <2>1. i \in DOMAIN old /\ i \in DOMAIN new /\ new[i] = old[i]
    BY <1>1
  <2> QED
    BY <2>1
<1> HIDE DEF ss, tt
<1>7. Len(ss) <= Len(tt) /\ \A i \in 1 .. Len(ss) : ss[i] = tt[i]
  BY <1>4, <1>5, <1>6
<1> QED
  BY <1>2, <1>4, <1>5, <1>7, FlattenPrefix

\* A database that orders by id answers in that order.
LEMMA OrderedById ==
    ASSUME NEW a, Given(a.orderBy) = << [field |-> "id", dir |-> "ASC"] >>,
           NEW V, rows \in Seq(V),
           NEW s \in Ordered(buildStarRocksQueryRequest(a).orderBy, WantedIds(a, rows))
    PROVE  /\ Len(s) = Len(WantedOf(a, rows))
           /\ \A k \in 1 .. Len(s) : s[k] = WantedOf(a, rows)[k]
<1> DEFINE W == WantedIds(a, rows)
           os == Given(a.orderBy)
           sorting == buildStarRocksQueryRequest(a).orderBy
           all == WantedOf(a, rows)
<1>1. sorting # <<>> /\ sorting[1].dir = "ASC" /\ sorting[1].field = "id"
  <2>1. sorting = [k \in DOMAIN os |-> [os[k] EXCEPT !.dir = convertSortDirection(@)]]
    BY DEF buildStarRocksQueryRequest
  <2>2. DOMAIN os = {1} /\ os[1] = [field |-> "id", dir |-> "ASC"]
    OBVIOUS
  <2> HIDE DEF sorting, os
  <2>3. /\ 1 \in DOMAIN sorting
        /\ sorting[1] = [os[1] EXCEPT !.dir = convertSortDirection(os[1].dir)]
    BY <2>1, <2>2
  <2>4. sorting[1].dir = "ASC" /\ sorting[1].field = "id"
    BY <2>2, <2>3 DEF convertSortDirection
  <2> QED
    BY <2>3, <2>4
<1> HIDE DEF sorting
<1>2. W \in SUBSET Nat /\ IsFiniteSet(W)
  <2>1. DOMAIN rows = 1 .. Len(rows) /\ Len(rows) \in Nat
    OBVIOUS
  <2>2. IsFiniteSet(1 .. Len(rows)) /\ W \subseteq 1 .. Len(rows)
    BY <2>1, IntervalCardinality DEF WantedIds
  <2> QED
    BY <2>1, <2>2, FS_Subset
<1>3. s \in Ordered(sorting, W)
  BY DEF sorting
<1>4. /\ all \in Seq(Nat)
      /\ Len(all) = Cardinality(W)
      /\ \A k \in 1 .. Len(all) : all[k] \in W
      /\ \A id \in W : \E k \in 1 .. Len(all) : all[k] = id
      /\ \A k, m \in 1 .. Len(all) : k < m => all[k] < all[m]
  BY WantedOfFacts
<1> HIDE DEF W, all
<1>5. /\ s \in Seq(Nat) /\ Len(s) = Cardinality(W) /\ Len(s) \in Nat
      /\ \A i \in 1 .. Len(s) : s[i] \in W
      /\ \A i, j \in 1 .. Len(s) : i # j => s[i] # s[j]
  BY <1>2, <1>3, OrderedFacts
<1>6. \A i, j \in 1 .. Len(s) : i < j => s[i] < s[j]
  <2>1. \A i, j \in DOMAIN s : i < j => Cell(s[i], "id") <= Cell(s[j], "id")
    BY <1>1, <1>3 DEF Ordered
  <2>2. \A i, j \in DOMAIN s : i < j => s[i] <= s[j]
    BY <2>1 DEF Cell
  <2>3. DOMAIN s = 1 .. Len(s) /\ \A i \in 1 .. Len(s) : s[i] \in Nat
    BY <1>5
  <2>4. ASSUME NEW i \in 1 .. Len(s), NEW j \in 1 .. Len(s), i < j
        PROVE  s[i] < s[j]
    <3>1. s[i] <= s[j]
      BY <2>2, <2>3, <2>4
    <3>2. i # j
      BY <2>4
    <3>3. s[i] # s[j]
      BY <1>5, <3>2
    <3> QED
      BY <2>3, <3>1, <3>3
  <2> QED
    BY <2>4
<1>7. \A i \in 1 .. Len(s) : \E j \in 1 .. Len(all) : s[i] = all[j]
  BY <1>4, <1>5
<1>8. \A i \in 1 .. Len(all) : \E j \in 1 .. Len(s) : all[i] = s[j]
  <2> DEFINE n == Len(s)
             R == {s[j] : j \in 1 .. n}
  <2> SUFFICES W \subseteq R
    BY <1>4
  <2>1. n \in Nat /\ IsFiniteSet(1 .. n) /\ Cardinality(1 .. n) = n
    BY <1>5, IntervalCardinality
  <2>2. s \in Bijection(1 .. n, R)
    <3>1. s \in [1 .. n -> R]
      BY <1>5
    <3>2. \A i, j \in 1 .. n : s[i] = s[j] => i = j
      BY <1>5
    <3>3. \A r \in R : \E i \in 1 .. n : s[i] = r
      OBVIOUS
    <3> HIDE DEF R, n
    <3> QED
      BY <3>1, <3>2, <3>3 DEF Bijection, Injection, Surjection, IsInjective
  <2>3. R \subseteq W
    BY <1>5
  <2> HIDE DEF R, n
  <2>4. IsFiniteSet(R) /\ Cardinality(R) = n
    BY <2>1, <2>2, FS_Bijection DEF ExistsBijection
  <2>5. Cardinality(W) = n
    BY <1>5 DEF n
  <2> QED
    BY <1>2, <2>3, <2>4, <2>5, FS_Subset
<1>9. Len(s) = Len(all)
  BY <1>4, <1>5
<1>10. \A k \in 1 .. Len(s) : s[k] = all[k]
  BY <1>4, <1>5, <1>6, <1>7, <1>8, <1>9, IncreasingIsUnique
<1> QED
  BY <1>9, <1>10 DEF all

-----------------------------------------------------------------------------
(* Table queries: the resolver and the client                              *)

\* The fields of the arguments that the steps use.
LEMMA ArgsRecord ==
    ASSUME NEW a \in StarRocksArgs
    PROVE  /\ a.first \in Int \cup {None} /\ a.offset \in Int \cup {None}
           /\ a.limit \in Int \cup {None} /\ a.after \in Cursors \cup {None}
           /\ a.needCount \in BOOLEAN /\ Start(a.offset) \in Int
BY QueryConstants DEF StarRocksArgs, Start

\* So for the walk and the query.
LEMMA QueryRecord ==
    ASSUME QueryTypeOK
    PROVE  /\ rows \in Seq(CellValues) /\ walk.args \in StarRocksArgs
           /\ walk.at \in {"asking", "answered", "refused", "failed"}
           /\ walk.from \in Int \cup {None} /\ Start(walk.from) \in Int
           /\ walk.known \in Seq(CellValues)
           /\ walk.seen \in Seq(Nat) /\ walk.warned \in BOOLEAN /\ walk.pages \in Nat
           /\ walk.page \in Pages /\ walk.fresh \in BOOLEAN
           /\ walk.page.ids \in Seq(Nat) /\ walk.page.total \in Nat
           /\ walk.page.endCursor \in Cursors \cup {None}
           /\ query.at \in {"idle", "select", "count", "reply"}
           /\ query.data \in Seq(Nat) /\ query.total \in Nat \cup {None}
<1>1. walk \in Walks /\ query \in Queries /\ rows \in Seq(CellValues)
  BY DEF QueryTypeOK
<1>2. walk.page \in Pages
  BY <1>1 DEF Walks
<1>3. walk.page.ids \in Seq(Nat) /\ walk.page.total \in Nat
      /\ walk.page.endCursor \in Cursors \cup {None}
  BY <1>2 DEF Pages
<1>4. walk.from \in Int \cup {None}
  BY <1>1 DEF Walks
<1>5. Start(walk.from) \in Int
  BY <1>4 DEF Start
<1>6. /\ walk.args \in StarRocksArgs
      /\ walk.at \in {"asking", "answered", "refused", "failed"}
      /\ walk.known \in Seq(CellValues)
      /\ walk.seen \in Seq(Nat) /\ walk.warned \in BOOLEAN /\ walk.pages \in Nat
      /\ walk.fresh \in BOOLEAN
  BY <1>1 DEF Walks
<1>7. /\ query.at \in {"idle", "select", "count", "reply"}
      /\ query.data \in Seq(Nat) /\ query.total \in Nat \cup {None}
  BY <1>1 DEF Queries
<1> QED
  BY <1>1, <1>2, <1>3, <1>4, <1>5, <1>6, <1>7

\* The rows asked for are a finite set of numbers.
LEMMA WantedRowsFinite ==
    ASSUME NEW a, NEW V, NEW table \in Seq(V)
    PROVE  /\ WantedIds(a, table) \in SUBSET Nat /\ WantedIds(a, table) \subseteq DOMAIN table
           /\ IsFiniteSet(WantedIds(a, table)) /\ Cardinality(WantedIds(a, table)) \in Nat
<1>1. DOMAIN table = 1 .. Len(table) /\ Len(table) \in Nat
  OBVIOUS
<1>2. WantedIds(a, table) \subseteq 1 .. Len(table)
  BY <1>1 DEF WantedIds
<1>3. IsFiniteSet(1 .. Len(table))
  BY <1>1, IntervalCardinality
<1>4. IsFiniteSet(WantedIds(a, table))
  BY <1>2, <1>3, FS_Subset
<1>5. Cardinality(WantedIds(a, table)) \in Nat
  BY <1>4, FS_CardinalityType
<1> QED
  BY <1>1, <1>2, <1>4, <1>5

\* A client before its first query.
LEMMA QueryInitInv ==
    ASSUME NEW kinds, NEW tables, NEW args, tables \subseteq Seq(CellValues),
           args \subseteq StarRocksArgs, Before(kinds, tables, args)
    PROVE  QueryInv
<1>1. PICK a \in args :
         walk = [at |-> "asking", args |-> a, from |-> a.offset,
                 known |-> rows, seen |-> <<>>, warned |-> FALSE,
                 pages |-> 0, page |-> NoPage, fresh |-> TRUE]
  BY DEF Before
<1>2. rows \in Seq(CellValues) /\ query = [at |-> "idle", data |-> <<>>, total |-> None]
  BY DEF Before
<1>3. a \in StarRocksArgs
  OBVIOUS
<1>4. a.offset \in Int \cup {None} /\ Start(a.offset) \in Int
  BY <1>3, ArgsRecord
<1>5. <<>> \in Seq(Nat) /\ Len(<<>>) = 0
  BY EmptySeq
<1>6. /\ walk.at = "asking" /\ walk.args = a /\ walk.from = a.offset
      /\ walk.known = rows /\ walk.seen = <<>> /\ query.at = "idle"
  BY <1>1, <1>2
<1>7. QueryTypeOK
  <2>1. NoPage \in Pages
    BY <1>5 DEF NoPage, Pages
  <2>2. walk \in Walks
    BY <1>1, <1>2, <1>3, <1>4, <1>5, <2>1 DEF Walks
  <2>3. query \in Queries
    BY <1>2, <1>5 DEF Queries
  <2> QED
    BY <1>2, <2>2, <2>3 DEF QueryTypeOK
<1>8. ReadAnswersQuery /\ PageIsWanted /\ PageAnswersQuery
  BY <1>6 DEF ReadAnswersQuery, PageIsWanted, PageAnswersQuery, RowsAnswerTheFilters,
              PageWithinTotal
<1>9. TableGrows
  BY <1>2, <1>6 DEF TableGrows
<1>10. WalkSoFar
  <2>1. \A all, n : Behind(all, <<>>, n)
    BY <1>5 DEF Behind
  <2>2. Start(walk.args.offset) = Start(walk.from) + Len(walk.seen)
    BY <1>4, <1>5, <1>6
  <2> QED
    BY <1>6, <2>1, <2>2 DEF WalkSoFar
<1> QED
  BY <1>7, <1>8, <1>9, <1>10 DEF QueryInv

\* A call that fails ends the walk.
LEMMA QueryFailInv ==
    ASSUME QueryInv, walk.at = "asking",
           NEW how \in {"refused", "failed"}, Ends(how)
    PROVE  QueryInv'
<1>1. QueryTypeOK /\ TableGrows /\ WalkSoFar
  BY DEF QueryInv
<1>2. /\ walk' = [walk EXCEPT !.at = how] /\ rows' = rows /\ kind' = kind
      /\ query' = [at |-> "idle", data |-> <<>>, total |-> None]
  BY DEF Ends
<1>3. walk \in Walks
  BY <1>1 DEF QueryTypeOK
<1>4. /\ walk'.at = how /\ walk'.args = walk.args /\ walk'.from = walk.from
      /\ walk'.known = walk.known /\ walk'.seen = walk.seen
      /\ walk'.warned = walk.warned /\ query'.at = "idle"
  BY <1>2, <1>3 DEF Walks
<1>5. QueryTypeOK'
  <2>1. walk' \in Walks
    BY <1>2, <1>3 DEF Walks
  <2>2. query' \in Queries
    BY <1>2, EmptySeq DEF Queries
  <2> QED
    BY <1>1, <1>2, <2>1, <2>2 DEF QueryTypeOK
<1>6. ReadAnswersQuery' /\ PageIsWanted' /\ PageAnswersQuery'
  BY <1>4 DEF ReadAnswersQuery, PageIsWanted, PageAnswersQuery, RowsAnswerTheFilters,
              PageWithinTotal
<1>7. TableGrows'
  BY <1>1, <1>2, <1>4 DEF TableGrows
<1>8. WalkSoFar'
  BY <1>1, <1>2, <1>4 DEF WalkSoFar, WalksById, CutsAreTold, PageSize
<1> QED
  BY <1>5, <1>6, <1>7, <1>8 DEF QueryInv

\* The resolver has a request to send.
LEMMA StarrocksInv ==
    ASSUME QueryInv, Starrocks
    PROVE  QueryInv'
<1>1. CASE Ends("refused")
  BY <1>1, QueryFailInv DEF Starrocks
<1>2. CASE query' = [query EXCEPT !.at = "select"] /\ UNCHANGED <<kind, rows, walk>>
  <2>1. query \in Queries /\ walk.at = "asking"
    BY DEF QueryInv, QueryTypeOK, Starrocks
  <2>2. query' \in Queries /\ query'.at = "select"
    BY <1>2, <2>1 DEF Queries
  <2>3. QueryTypeOK'
    BY <1>2, <2>2 DEF QueryInv, QueryTypeOK
  <2>4. ReadAnswersQuery'
    BY <1>2, <2>1, <2>2 DEF ReadAnswersQuery
  <2>5. PageIsWanted' /\ PageAnswersQuery' /\ TableGrows'
    BY <1>2 DEF QueryInv, PageIsWanted, PageAnswersQuery, RowsAnswerTheFilters,
                PageWithinTotal, InFront, Request, TableGrows, WantedRows
  <2>6. WalkSoFar'
    BY <1>2, <2>2 DEF QueryInv, WalkSoFar, WalksById, CutsAreTold, PageSize
  <2> QED
    BY <2>3, <2>4, <2>5, <2>6 DEF QueryInv
<1> QED
  BY <1>1, <1>2 DEF Starrocks

\* The rows of a page are read.
LEMMA ExecuteSelectInv ==
    ASSUME QueryInv, ExecuteSelect
    PROVE  QueryInv'
<1>1. query.at = "select" /\ walk.at = "asking"
  BY DEF QueryInv, ReadAnswersQuery, ExecuteSelect
<1>2. CASE Ends("failed")
  BY <1>1, <1>2, QueryFailInv
<1>3. ASSUME Accepted(Build(Request)),
             NEW s \in Ordered(Build(Request).order, Matching(Build(Request).where)),
             query' = [query EXCEPT
                         !.at = IF Request.needCount THEN "count" ELSE "reply",
                         !.data = Page(Build(Request).page, s)],
             UNCHANGED <<kind, rows, walk>>
      PROVE  QueryInv'
  <2> DEFINE a == walk.args
             page == buildLimitClause(Request)
             from == IF page.offset = None THEN 0 ELSE page.offset
             p == Page(page, s)
             W == WantedIds(a, rows)
             all == WantedOf(a, rows)
  <2>1. QueryTypeOK /\ TableGrows /\ WalkSoFar
    BY DEF QueryInv
  <2>2. a \in StarRocksArgs /\ rows \in Seq(CellValues) /\ query \in Queries
    BY <2>1, QueryRecord DEF QueryTypeOK
  <2>3. Build(Request).page = page /\ Build(Request).order = Request.orderBy
        /\ Build(Request).where = buildWhereClause(Request.filters)
    BY DEF Build
  <2>4. Matching(Build(Request).where) = W
    BY <2>2, <2>3, MatchingIsWanted DEF Request
  <2>5. s \in Ordered(Request.orderBy, W)
    BY <1>3, <2>3, <2>4
  <2>6. W \in SUBSET Nat /\ IsFiniteSet(W) /\ Cardinality(W) \in Nat
    BY <2>2, WantedRowsFinite
  <2>7. /\ s \in Seq(Nat) /\ Len(s) = Cardinality(W) /\ Len(s) \in Nat
        /\ \A i \in 1 .. Len(s) : s[i] \in W
    BY <2>5, <2>6, OrderedFacts
  <2>8. /\ page.limit # None => page.limit >= 0
        /\ page.offset # None => page.offset >= 0
    BY <1>3, <2>3 DEF Accepted
  <2>9. /\ page.limit \in Nat \cup {None} /\ page.offset \in Nat \cup {None}
        /\ from = InFront
        /\ a.first # None /\ a.first >= 0 =>
              /\ page.limit # None /\ page.limit <= a.first
              /\ page.limit = PageSize
        /\ a.after = None => OffsetOf(Request) = a.offset
    BY <2>2, <2>8, LimitFacts DEF InFront, Request, PageSize
  <2> HIDE DEF page
  <2>10. /\ p \in Seq(Nat) /\ Len(p) \in Nat
         /\ \A k \in 1 .. Len(p) : from + k <= Len(s) /\ p[k] = s[from + k]
         /\ p # <<>> => from + Len(p) <= Len(s)
         /\ page.limit # None => Len(p) <= page.limit
         /\ page.limit = None \/ Len(p) < page.limit => Len(s) <= from + Len(p)
    BY <2>7, <2>9, PageFacts
  <2>11. /\ query'.data = p /\ query'.at \in {"count", "reply"}
         /\ query'.total = query.total
         /\ query'.at = "reply" => ~a.needCount
    BY <1>3, <2>2, <2>3 DEF Queries, Request, buildStarRocksQueryRequest
  <2>12. from \in Nat
    BY <2>9
  <2> HIDE DEF from, p, W, all, a
  <2>13. DOMAIN p = 1 .. Len(p) /\ \A k \in 1 .. Len(p) : p[k] \in W
    <3>1. DOMAIN p = 1 .. Len(p)
      BY <2>10
    <3>2. ASSUME NEW k \in 1 .. Len(p) PROVE p[k] \in W
      <4>1. from + k \in 1 .. Len(s) /\ p[k] = s[from + k]
        BY <2>7, <2>10, <2>12
      <4> QED
        BY <2>7, <4>1
    <3> QED
      BY <3>1, <3>2
  <2>14. QueryTypeOK'
    <3>1. query' \in Queries
      BY <1>3, <2>2, <2>3, <2>10 DEF Queries, p
    <3> QED
      BY <1>3, <2>1, <3>1 DEF QueryTypeOK
  <2>15. ReadAnswersQuery'
    <3>1. walk' = walk /\ rows' = rows /\ WantedRows' = W /\ InFront' = from
          /\ walk'.args = a
      BY <1>3, <2>9 DEF WantedRows, InFront, Request, W, a
    <3>2. walk'.at = "asking" /\ \A i \in DOMAIN query'.data : query'.data[i] \in W
      BY <1>1, <2>11, <2>13, <3>1
    <3>3. query'.data # <<>> => from + Len(query'.data) <= Cardinality(W)
      BY <2>7, <2>10, <2>11
    <3>4. a.first # None /\ a.first >= 0 => Len(query'.data) <= a.first
      <4> SUFFICES ASSUME a.first # None, a.first >= 0 PROVE Len(query'.data) <= a.first
        OBVIOUS
      <4>1. a.first \in Int /\ page.limit \in Nat /\ page.limit <= a.first
        BY <2>2, <2>9, ArgsRecord DEF a
      <4>2. Len(p) <= page.limit
        BY <2>9, <2>10
      <4> QED
        BY <2>10, <2>11, <4>1, <4>2
    <3> QED
      BY <2>11, <3>1, <3>2, <3>3, <3>4 DEF ReadAnswersQuery
  <2>16. PageIsWanted' /\ PageAnswersQuery' /\ TableGrows'
    BY <1>3 DEF QueryInv, PageIsWanted, PageAnswersQuery, RowsAnswerTheFilters,
                PageWithinTotal, InFront, Request, TableGrows, WantedRows
  <2>17. ASSUME WalksById, ~walk.warned
         PROVE  /\ Behind(all, p, Start(a.offset))
                /\ Len(p) < PageSize =>
                      Len(WantedOf(a, walk.known)) <= Start(a.offset) + Len(p)
    <3>1. a.first # None /\ a.first > 0 /\ a.after = None /\ Start(walk.from) >= 0
          /\ Given(a.orderBy) = << [field |-> "id", dir |-> "ASC"] >>
      BY <2>17 DEF WalksById, a
    <3>2. /\ Len(s) = Len(all)
          /\ \A k \in 1 .. Len(s) : s[k] = all[k]
      BY <2>2, <2>5, <3>1, OrderedById DEF Request, W, all, a
    <3>3. from = Start(a.offset)
      <4>1. Start(a.offset) = Start(walk.from) + Len(walk.seen)
        BY <1>1, <2>1, <2>17 DEF WalkSoFar, a
      <4>2. walk.seen \in Seq(Nat) /\ Start(walk.from) \in Int
        BY <2>1, QueryRecord
      <4>3. Start(a.offset) >= 0 /\ Start(a.offset) \in Int
        BY <3>1, <4>1, <4>2
      <4>4. OffsetOf(Request) = a.offset
        BY <2>9, <3>1
      <4>5. from = IF a.offset = None \/ a.offset < 0 THEN 0 ELSE a.offset
        BY <2>9, <4>4 DEF InFront
      <4>6. a.offset \in Int \cup {None}
        BY <2>2, ArgsRecord
      <4> QED
        BY <4>3, <4>5, <4>6 DEF Start
    <3>4. Behind(all, p, from)
      <4> SUFFICES ASSUME NEW k \in 1 .. Len(p)
                   PROVE  from + k <= Len(all) /\ p[k] = all[from + k]
        BY <2>13 DEF Behind
      <4>1. from + k \in 1 .. Len(s) /\ p[k] = s[from + k]
        BY <2>7, <2>10, <2>12
      <4> QED
        BY <2>7, <3>2, <4>1
    <3>5. ASSUME Len(p) < PageSize
          PROVE  Len(WantedOf(a, walk.known)) <= from + Len(p)
      <4>1. a.first \in Int
        BY <2>2, <3>1, ArgsRecord DEF a
      <4>2. Len(p) < page.limit
        BY <2>9, <3>1, <3>5, <4>1
      <4>3. Len(all) <= from + Len(p)
        BY <2>9, <2>10, <3>1, <3>2, <4>1, <4>2
      <4>4. Len(WantedOf(a, walk.known)) <= Len(all)
        <5>1. walk.known \in Seq(CellValues) /\ Len(walk.known) <= Len(rows)
              /\ \A i \in DOMAIN walk.known : rows[i] = walk.known[i]
          BY <2>1, QueryRecord DEF TableGrows
        <5> QED
          BY <2>2, <5>1, WantedOfGrows DEF all
      <4>5. Len(WantedOf(a, walk.known)) \in Nat /\ Len(all) \in Nat
        <5>1. walk.known \in Seq(CellValues)
          BY <2>1, QueryRecord
        <5> QED
          BY <2>2, <5>1, WantedOfFacts DEF all
      <4> QED
        BY <2>10, <2>12, <4>3, <4>4, <4>5
    <3> QED
      BY <3>3, <3>4, <3>5
  <2>18. WalkSoFar'
    <3> SUFFICES ASSUME WalksById', ~walk'.warned
                 PROVE  WalkSoFar'
      BY DEF WalkSoFar
    <3>1. WalksById /\ ~walk.warned /\ walk' = walk /\ rows' = rows
          /\ PageSize' = PageSize
      BY <1>3 DEF WalksById, CutsAreTold, PageSize
    <3> QED
      BY <1>1, <2>1, <2>11, <2>17, <3>1 DEF WalkSoFar, all, a
  <2> QED
    BY <2>14, <2>15, <2>16, <2>18 DEF QueryInv
<1> QED
  BY <1>2, <1>3 DEF ExecuteSelect

\* The rows are counted, after they were read.
LEMMA ExecuteCountInv ==
    ASSUME QueryInv, ExecuteCount
    PROVE  QueryInv'
<1>1. query.at = "count" /\ walk.at = "asking"
  BY DEF QueryInv, ReadAnswersQuery, ExecuteCount
<1>2. CASE Ends("failed")
  BY <1>1, <1>2, QueryFailInv
<1>3. CASE /\ query' = [query EXCEPT
                          !.at = "reply",
                          !.total = Cardinality(Matching(BuildCount(Request).where))]
           /\ UNCHANGED <<kind, rows, walk>>
  <2> DEFINE n == Cardinality(WantedRows)
  <2>1. QueryTypeOK /\ ReadAnswersQuery /\ WalkSoFar
    BY DEF QueryInv
  <2>2. walk.args \in StarRocksArgs /\ rows \in Seq(CellValues) /\ query \in Queries
    BY <2>1, QueryRecord DEF QueryTypeOK
  <2>3. Cardinality(Matching(BuildCount(Request).where)) = n
    BY <2>2, MatchingIsWanted DEF BuildCount, Request, WantedRows
  <2>4. n \in Nat /\ n # None
    BY <2>2, WantedRowsFinite, QueryConstants DEF WantedRows
  <2> HIDE DEF n
  <2>5. query' \in Queries /\ query'.at = "reply" /\ query'.total = n
        /\ query'.data = query.data
    BY <1>3, <2>2, <2>3, <2>4 DEF Queries
  <2>6. QueryTypeOK'
    BY <1>3, <2>1, <2>5 DEF QueryTypeOK
  <2>7. ReadAnswersQuery'
    <3>1. WantedRows' = WantedRows /\ InFront' = InFront /\ walk' = walk
      BY <1>3 DEF WantedRows, InFront, Request
    <3>2. /\ \A i \in DOMAIN query.data : query.data[i] \in WantedRows
          /\ query.data # <<>> => InFront + Len(query.data) <= n
          /\ walk.args.first # None /\ walk.args.first >= 0 =>
                Len(query.data) <= walk.args.first
      BY <1>1, <2>1 DEF ReadAnswersQuery, n
    <3> QED
      BY <1>1, <2>4, <2>5, <3>1, <3>2 DEF ReadAnswersQuery, n
  <2>8. PageIsWanted' /\ PageAnswersQuery' /\ TableGrows'
    BY <1>3 DEF QueryInv, PageIsWanted, PageAnswersQuery, RowsAnswerTheFilters,
                PageWithinTotal, InFront, Request, TableGrows, WantedRows
  <2>9. WalkSoFar'
    BY <1>1, <1>3, <2>1, <2>5 DEF WalkSoFar, WalksById, CutsAreTold, PageSize
  <2> QED
    BY <2>6, <2>7, <2>8, <2>9 DEF QueryInv
<1> QED
  BY <1>2, <1>3 DEF ExecuteCount

\* What is in front of a page is a number of rows.
LEMMA InFrontType == ASSUME walk.args \in StarRocksArgs PROVE InFront \in Nat
<1> DEFINE req == Request
<1>1. req.offset = walk.args.offset /\ req.after = walk.args.after
  BY DEF Request, buildStarRocksQueryRequest
<1>2. walk.args.offset \in Int \cup {None} /\ walk.args.after \in Cursors \cup {None}
  BY ArgsRecord
<1> HIDE DEF req
<1>3. OffsetOf(req) \in Int \cup {None}
  <2>1. CASE req.after = None
    BY <1>1, <1>2, <2>1 DEF OffsetOf
  <2>2. CASE req.after # None
    <3>1. req.after.n \in Int
      BY <1>1, <1>2, <2>2 DEF Cursors
    <3> QED
      BY <2>2, <3>1 DEF OffsetOf, decodeCursor
  <2> QED
    BY <2>1, <2>2
<1>4. InFront = IF OffsetOf(req) = None \/ OffsetOf(req) < 0 THEN 0 ELSE OffsetOf(req)
  BY DEF InFront, req
<1> QED
  BY <1>3, <1>4

\* The page is sent.
LEMMA ReplyInv ==
    ASSUME QueryInv, Reply
    PROVE  QueryInv'
<1> DEFINE m == IF Truncated(query.data) THEN MaxResultRows ELSE Len(query.data)
           data == SubSeq(query.data, 1, m)
           a == walk.args
           page == buildStarRocksConnection(data, query.total, a.offset, a.first)
           fresh == \A i \in DOMAIN data : \A j \in DOMAIN walk.seen :
                        data[i] # walk.seen[j]
<1>1. QueryTypeOK /\ ReadAnswersQuery /\ TableGrows /\ WalkSoFar
  BY DEF QueryInv
<1>2. query.at = "reply" /\ walk.at = "asking"
  BY <1>1 DEF Reply, ReadAnswersQuery
<1>3. /\ walk' = [walk EXCEPT
                    !.at = "answered", !.page = page, !.pages = walk.pages + 1,
                    !.warned = walk.warned \/ Truncated(query.data),
                    !.fresh = fresh, !.seen = walk.seen \o data]
      /\ query' = [at |-> "idle", data |-> <<>>, total |-> None]
      /\ rows' = rows /\ kind' = kind
  BY DEF Reply
<1>4. /\ a \in StarRocksArgs /\ rows \in Seq(CellValues) /\ walk \in Walks
      /\ query.data \in Seq(Nat) /\ query.total \in Nat \cup {None}
      /\ walk.seen \in Seq(Nat) /\ walk.pages \in Nat /\ walk.warned \in BOOLEAN
      /\ Start(walk.from) \in Int
  BY <1>1, QueryRecord DEF QueryTypeOK
<1>5. MaxResultRows \in Int /\ MaxQueryLimit \in Nat /\ None \notin Int
  BY QueryConstants
<1>6. /\ m \in Nat /\ m <= Len(query.data)
      /\ MaxResultRows > 0 => m <= MaxResultRows
      /\ ~Truncated(query.data) => m = Len(query.data)
  BY <1>4, <1>5 DEF Truncated
<1> HIDE DEF m
<1>7. /\ data \in Seq(Nat) /\ Len(data) = m /\ DOMAIN data = 1 .. m
      /\ \A k \in 1 .. m : data[k] = query.data[k]
      /\ m = Len(query.data) => data = query.data
  <2> DEFINE z == 0
  <2>1. z \in Nat /\ z + m = m /\ z + 1 = 1 /\ \A k \in 1 .. m : z + k = k
    BY <1>6
  <2>2. z + m <= Len(query.data)
    BY <1>6, <2>1
  <2> HIDE DEF z
  <2>3. /\ SubSeq(query.data, z + 1, z + m) \in Seq(Nat)
        /\ Len(SubSeq(query.data, z + 1, z + m)) = m
        /\ \A k \in 1 .. m : SubSeq(query.data, z + 1, z + m)[k] = query.data[z + k]
    BY ONLY <1>4, <1>6, <2>1, <2>2, CutFacts, SMTT(20)
  <2>4. /\ data \in Seq(Nat) /\ Len(data) = m
        /\ \A k \in 1 .. m : data[k] = query.data[k]
    BY <2>1, <2>3
  <2> HIDE DEF data
  <2>5. DOMAIN data = 1 .. m
    BY <2>4
  <2>6. m = Len(query.data) => data = query.data
    BY <1>4, <2>4, SeqEqual
  <2> QED
    BY <2>4, <2>5, <2>6
<1> HIDE DEF data
<1>8. /\ page.ids = data
      /\ page.hasNextPage = (a.first # None /\ Len(data) >= a.first)
      /\ page.total = IF query.total = None THEN 0 ELSE query.total
  BY DEF buildStarRocksConnection
<1>9. page \in Pages
  <2> DEFINE start == Start(a.offset)
             cur == IF data = <<>> THEN None ELSE encodeCursor(start + Len(data) - 1)
             tot == IF query.total = None THEN 0 ELSE query.total
             more == a.first # None /\ Len(data) >= a.first
             back == start > 0
  <2>1. page = [ids |-> data, hasNextPage |-> more, hasPreviousPage |-> back,
                endCursor |-> cur, total |-> tot]
    BY DEF buildStarRocksConnection, Start
  <2>2. start \in Int
    BY <1>4, ArgsRecord
  <2>3. cur \in Cursors \cup {None}
    BY <1>6, <1>7, <2>2 DEF encodeCursor, Cursors
  <2>4. tot \in Nat
    BY <1>4
  <2>5. more \in BOOLEAN /\ back \in BOOLEAN
    BY <1>4, <2>2, ArgsRecord
  <2> HIDE DEF cur, tot, more, back, page
  <2> QED
    BY <1>7, <2>1, <2>3, <2>4, <2>5 DEF Pages
<1> HIDE DEF page
<1>10. walk' \in Walks
  <2>1. fresh \in BOOLEAN
    BY Zenon
  <2>2. (walk.warned \/ Truncated(query.data)) \in BOOLEAN
    BY Zenon
  <2>3. walk.seen \o data \in Seq(Nat)
    BY <1>4, <1>7, ConcatProperties
  <2> DEFINE warned == walk.warned \/ Truncated(query.data)
             given == walk.seen \o data
  <2> HIDE DEF fresh, warned, given
  <2>4. walk' = [walk EXCEPT
                    !.at = "answered", !.page = page, !.pages = walk.pages + 1,
                    !.warned = warned, !.fresh = fresh, !.seen = given]
    BY <1>3 DEF warned, given
  <2>5. warned \in BOOLEAN /\ given \in Seq(Nat) /\ walk.pages + 1 \in Nat
    BY <1>4, <2>2, <2>3 DEF warned, given
  <2> QED
    BY <1>4, <1>9, <2>1, <2>4, <2>5 DEF Walks
<1>11. /\ walk'.at = "answered" /\ walk'.args = a /\ walk'.from = walk.from
       /\ walk'.known = walk.known /\ walk'.seen = walk.seen \o data
       /\ walk'.warned = (walk.warned \/ Truncated(query.data))
       /\ walk'.page = page /\ query'.at = "idle"
  BY <1>3, <1>4 DEF Walks
<1>12. WantedRows' = WantedRows /\ InFront' = InFront
  BY <1>3, <1>11 DEF WantedRows, InFront, Request
<1>13. /\ \A i \in DOMAIN query.data : query.data[i] \in WantedRows
       /\ query.data # <<>> => InFront + Len(query.data) <= Cardinality(WantedRows)
       /\ a.first # None /\ a.first >= 0 => Len(query.data) <= a.first
       /\ a.needCount =>
             /\ query.total # None
             /\ query.data # <<>> => InFront + Len(query.data) <= query.total
  BY <1>1, <1>2 DEF ReadAnswersQuery
<1> HIDE DEF a
<1>14. QueryTypeOK'
  <2>1. query' \in Queries
    BY <1>3, EmptySeq DEF Queries
  <2> QED
    BY <1>3, <1>4, <1>10, <2>1 DEF QueryTypeOK
<1>15. \A i \in DOMAIN data : data[i] \in WantedRows
  <2> SUFFICES ASSUME NEW i \in DOMAIN data PROVE data[i] \in WantedRows
    OBVIOUS
  <2>1. i \in 1 .. m /\ i \in DOMAIN query.data
    BY <1>4, <1>6, <1>7
  <2> QED
    BY <1>7, <1>13, <2>1
<1>16. PageIsWanted'
  BY <1>8, <1>11, <1>12, <1>15 DEF PageIsWanted
<1>17. ReadAnswersQuery' /\ TableGrows'
  BY <1>1, <1>3, <1>11 DEF ReadAnswersQuery, TableGrows
<1>18. RowsAnswerTheFilters'
  <2>1. \A i \in DOMAIN data : Wanted(a, data[i], rows[data[i]])
    BY <1>15 DEF WantedRows, WantedIds, a
  <2>2. MaxResultRows > 0 => Len(data) <= MaxResultRows
    BY <1>6, <1>7
  <2>3. a.first # None /\ a.first >= 0 => Len(data) <= a.first
    <3> SUFFICES ASSUME a.first # None, a.first >= 0 PROVE Len(data) <= a.first
      OBVIOUS
    <3>1. a.first \in Int
      BY <1>4, ArgsRecord
    <3>2. Len(query.data) <= a.first /\ Len(query.data) \in Nat
      BY <1>4, <1>13
    <3> QED
      BY <1>6, <1>7, <3>1, <3>2
  <2> QED
    BY <1>3, <1>8, <1>11, <2>1, <2>2, <2>3 DEF RowsAnswerTheFilters
<1>19. PageWithinTotal'
  <2> SUFFICES ASSUME a.needCount, data # <<>>
               PROVE  page.total >= InFront + Len(data)
    BY <1>8, <1>11, <1>12 DEF PageWithinTotal
  <2>1. query.total \in Nat /\ page.total = query.total
    BY <1>4, <1>8, <1>13
  <2>2. query.data # <<>>
    <3>1. m # 0
      BY <1>7, EmptySeq
    <3> QED
      BY <1>4, <1>6, <3>1, EmptySeq
  <2>3. InFront + Len(query.data) <= query.total
    BY <1>13, <2>2
  <2>4. InFront \in Nat
    BY <1>4, InFrontType DEF a
  <2> QED
    BY <1>4, <1>6, <1>7, <2>1, <2>3, <2>4
<1>20. WalkSoFar'
  <2> SUFFICES ASSUME WalksById', ~walk'.warned
               PROVE  WalkSoFar'
    BY DEF WalkSoFar
  <2>1. WalksById /\ ~walk.warned /\ ~Truncated(query.data)
    BY <1>3, <1>11 DEF WalksById, CutsAreTold, PageSize, a
  <2> DEFINE all == WantedOf(a, rows)
             at == Start(a.offset)
             old == Len(WantedOf(a, walk.known))
             f == Start(walk.from)
             given == walk.seen \o data
  <2>2. data = query.data /\ Len(data) \in Nat
        /\ (MaxResultRows > 0 => Len(data) <= MaxResultRows)
    BY <1>4, <1>6, <1>7, <2>1
  <2>3. /\ Behind(all, walk.seen, f)
        /\ at = f + Len(walk.seen)
        /\ Behind(all, data, at)
        /\ Len(data) < PageSize => old <= at + Len(data)
    BY <1>1, <1>2, <2>1, <2>2 DEF WalkSoFar, a
  <2>4. a.first # None /\ a.first \in Int
    BY <1>4, <2>1, ArgsRecord DEF WalksById, a
  <2>5. at \in Int /\ f \in Int /\ Len(walk.seen) \in Nat
    BY <1>4, ArgsRecord
  <2>6. /\ given \in Seq(Nat) /\ Len(given) = Len(walk.seen) + Len(data)
        /\ \A k \in 1 .. Len(given) :
              given[k] = IF k <= Len(walk.seen) THEN walk.seen[k]
                        ELSE data[k - Len(walk.seen)]
    <3>1. /\ given \in Seq(Nat) /\ Len(given) = Len(walk.seen) + Len(data)
          /\ \A k \in 1 .. Len(walk.seen) + Len(data) :
                given[k] = IF k <= Len(walk.seen) THEN walk.seen[k]
                          ELSE data[k - Len(walk.seen)]
      <4> DEFINE before == walk.seen
      <4>1. before \in Seq(Nat) /\ data \in Seq(Nat) /\ given = before \o data
        BY <1>4, <1>7
      <4> HIDE DEF before, data, given
      <4>2. /\ before \o data \in Seq(Nat)
            /\ Len(before \o data) = Len(before) + Len(data)
            /\ \A k \in 1 .. Len(before) + Len(data) :
                  (before \o data)[k] = IF k <= Len(before) THEN before[k]
                                          ELSE data[k - Len(before)]
        BY ONLY <4>1, ConcatProperties
      <4> QED
        BY ONLY <4>1, <4>2 DEF before
    <3> HIDE DEF given
    <3> QED
      BY ONLY <3>1
  <2> HIDE DEF all, at, f, given, old
  <2>7. at = f + Len(walk.seen) /\ Len(given) = Len(walk.seen) + Len(data)
    BY <2>3, <2>6
  <2>8. PICK n \in Nat : n = Len(walk.seen)
    BY <2>5
  <2>9. PICK d \in Nat : d = Len(data)
    BY <2>2
  <2>10. PICK g \in Int : g = f
    BY <2>5
  <2>11. at = g + n /\ Len(given) = n + d
    BY <2>7, <2>8, <2>9, <2>10
  <2>12. Behind(all, given, f)
    <3> SUFFICES ASSUME NEW k \in 1 .. Len(given)
                 PROVE  f + k <= Len(all) /\ given[k] = all[f + k]
      BY <2>6 DEF Behind
    <3>1. CASE k <= Len(walk.seen)
      <4>1. k \in DOMAIN walk.seen
        BY <1>4, <2>5, <3>1
      <4> QED
        BY <2>3, <2>6, <3>1, <4>1 DEF Behind
    <3>2. CASE ~(k <= Len(walk.seen))
      <4> DEFINE j == k - Len(walk.seen)
      <4>1. j \in DOMAIN data /\ at + j = f + k
        <5>1. k \in 1 .. n + d /\ ~(k <= n) /\ j = k - n
          BY <2>8, <2>11, <3>2
        <5> HIDE DEF j
        <5>2. j \in 1 .. d /\ (g + n) + j = g + k
          BY ONLY <5>1
        <5>3. DOMAIN data = 1 .. d
          BY <1>7, <2>9
        <5> QED
          BY <2>10, <2>11, <5>2, <5>3
      <4>2. given[k] = data[j]
        BY <2>6, <3>2
      <4> HIDE DEF j
      <4>3. at + j <= Len(all) /\ data[j] = all[at + j]
        BY <2>3, <4>1 DEF Behind
      <4> QED
        BY <4>1, <4>2, <4>3
    <3> QED
      BY <3>1, <3>2
  <2>13. at + Len(data) = f + Len(given)
    <3>1. (g + n) + d = g + (n + d)
      OBVIOUS
    <3> QED
      BY <2>9, <2>10, <2>11, <3>1
  <2>14. ~page.hasNextPage => old <= f + Len(given)
    <3> SUFFICES ASSUME ~page.hasNextPage PROVE old <= f + Len(given)
      OBVIOUS
    <3>1. Len(data) < a.first
      <4>1. ~(Len(data) >= a.first)
        BY <1>8, <2>4
      <4> QED
        BY ONLY <2>2, <2>4, <4>1
    <3>2. Len(data) < PageSize
      <4>1. PageSize = a.first \/ PageSize = MaxQueryLimit
        BY DEF PageSize, a
      <4>2. PageSize = a.first \/ (MaxResultRows > 0 /\ MaxResultRows < MaxQueryLimit)
        BY <2>1 DEF WalksById, CutsAreTold, a
      <4> QED
        BY <1>5, <2>2, <3>1, <4>1, <4>2
    <3> QED
      BY <2>3, <2>13, <3>2
  <2> QED
    BY <1>3, <1>8, <1>11, <2>12, <2>13, <2>14 DEF WalkSoFar, all, at, f, given, old
<1> QED
  BY <1>14, <1>16, <1>17, <1>18, <1>19, <1>20 DEF QueryInv, PageAnswersQuery

\* What is asked for is a matter of the filters.
LEMMA WantedByFilters ==
    ASSUME NEW a, NEW b, b.filters = a.filters
    PROVE  \A table : WantedOf(b, table) = WantedOf(a, table)
BY Zenon DEF WantedOf, Wanted

\* The client asks for the next page.
LEMMA NextPageInv ==
    ASSUME QueryInv, NextByOffset \/ NextByCursor
    PROVE  QueryInv'
<1>1. QueryTypeOK /\ TableGrows /\ WalkSoFar /\ ReadAnswersQuery
  BY DEF QueryInv
<1>2. walk.at = "answered" /\ query.at = "idle" /\ rows' = rows /\ query' = query
      /\ kind' = kind
  BY <1>1 DEF NextByOffset, NextByCursor, ReadAnswersQuery, QueryTypeOK, Queries
<1>3. walk \in Walks /\ walk.args \in StarRocksArgs /\ Start(walk.args.offset) \in Int
      /\ walk.page.ids \in Seq(Nat) /\ walk.page.endCursor \in Cursors \cup {None}
  BY <1>1, QueryRecord, ArgsRecord DEF QueryTypeOK
<1>4. ASSUME NEW b \in StarRocksArgs, b.filters = walk.args.filters,
             walk' = [walk EXCEPT !.at = "asking", !.args = b],
             WalksById' => /\ WalksById
                           /\ Start(b.offset) = Start(walk.args.offset) + Len(walk.page.ids)
      PROVE  QueryInv'
  <2>1. /\ walk'.at = "asking" /\ walk'.args = b /\ walk'.from = walk.from
        /\ walk'.known = walk.known /\ walk'.seen = walk.seen
        /\ walk'.warned = walk.warned /\ walk' \in Walks
    BY <1>3, <1>4 DEF Walks
  <2>2. QueryTypeOK'
    BY <1>1, <1>2, <2>1 DEF QueryTypeOK
  <2>3. ReadAnswersQuery' /\ PageIsWanted' /\ PageAnswersQuery'
    BY <1>2, <2>1 DEF ReadAnswersQuery, PageIsWanted, PageAnswersQuery,
                      RowsAnswerTheFilters, PageWithinTotal
  <2>4. TableGrows'
    BY <1>1, <1>2, <2>1 DEF TableGrows
  <2>5. WalkSoFar'
    <3> SUFFICES ASSUME WalksById', ~walk'.warned PROVE WalkSoFar'
      BY DEF WalkSoFar
    <3>1. WalksById /\ ~walk.warned
          /\ Start(b.offset) = Start(walk.args.offset) + Len(walk.page.ids)
      BY <1>4, <2>1
    <3>2. WantedOf(b, rows) = WantedOf(walk.args, rows)
      BY <1>4, WantedByFilters
    <3>3. /\ Behind(WantedOf(b, rows), walk.seen, Start(walk.from))
          /\ Start(b.offset) = Start(walk.from) + Len(walk.seen)
      BY <1>1, <1>2, <3>1, <3>2 DEF WalkSoFar
    <3> QED
      BY <1>2, <2>1, <3>3 DEF WalkSoFar
  <2> QED
    BY <2>2, <2>3, <2>4, <2>5 DEF QueryInv
<1>5. CASE NextByOffset
  <2> DEFINE o == Start(walk.args.offset) + Len(walk.page.ids)
             b == [walk.args EXCEPT !.offset = o]
  <2>1. walk' = [walk EXCEPT !.at = "asking", !.args = b]
    BY <1>3, <1>5 DEF NextByOffset, Start, Walks, StarRocksArgs
  <2>2. o \in Int /\ o # None
    BY <1>3, QueryConstants
  <2> HIDE DEF o
  <2>3. b \in StarRocksArgs
    BY <1>3, <2>2 DEF StarRocksArgs
  <2>4. b.filters = walk.args.filters /\ b.first = walk.args.first
        /\ b.after = walk.args.after /\ b.orderBy = walk.args.orderBy /\ b.offset = o
    BY <1>3, <2>2 DEF StarRocksArgs
  <2>5. Start(b.offset) = Start(walk.args.offset) + Len(walk.page.ids)
    BY <2>2, <2>4 DEF Start, o
  <2> HIDE DEF b
  <2>6. walk'.args = b /\ walk'.from = walk.from
    BY <1>3, <2>1 DEF Walks
  <2>7. WalksById' => WalksById
    BY <1>2, <2>4, <2>6 DEF WalksById, CutsAreTold, PageSize
  <2> QED
    BY <1>4, <2>1, <2>3, <2>4, <2>5, <2>7
<1>6. CASE NextByCursor
  <2> DEFINE c == walk.page.endCursor
             b == [walk.args EXCEPT !.after = c]
  <2>1. walk' = [walk EXCEPT !.at = "asking", !.args = b] /\ c # None
    BY <1>3, <1>6 DEF NextByCursor, Walks, StarRocksArgs
  <2>2. c \in Cursors
    BY <1>3, <2>1
  <2> HIDE DEF c
  <2>3. b \in StarRocksArgs /\ b.filters = walk.args.filters /\ b.after = c
    BY <1>3, <2>2 DEF StarRocksArgs
  <2> HIDE DEF b
  <2>4. walk'.args = b
    BY <1>3, <2>1 DEF Walks
  <2>5. ~WalksById'
    BY <2>1, <2>3, <2>4 DEF WalksById
  <2> QED
    BY <1>4, <2>1, <2>3, <2>5
<1> QED
  BY <1>5, <1>6

\* Another client appends a row.
LEMMA AppendRowInv ==
    ASSUME QueryInv, AppendRow
    PROVE  QueryInv'
<1>1. PICK v \in CellValues : rows' = Append(rows, v)
  BY DEF AppendRow
<1>2. walk' = walk /\ query' = query /\ kind' = kind
  BY DEF AppendRow
<1>3. QueryTypeOK /\ TableGrows /\ WalkSoFar /\ ReadAnswersQuery /\ PageIsWanted
      /\ PageAnswersQuery
  BY DEF QueryInv
<1>4. rows \in Seq(CellValues) /\ walk.known \in Seq(CellValues)
      /\ walk.args \in StarRocksArgs /\ walk.page.ids \in Seq(Nat)
      /\ query.data \in Seq(Nat) /\ Start(walk.from) \in Int
      /\ walk.seen \in Seq(Nat)
  BY <1>3, QueryRecord
<1>5. /\ rows' \in Seq(CellValues) /\ Len(rows) <= Len(rows')
      /\ \A i \in DOMAIN rows : i \in DOMAIN rows' /\ rows'[i] = rows[i]
  <2> DEFINE new == Append(rows, v)
  <2>1. /\ new \in Seq(CellValues) /\ Len(new) = Len(rows) + 1
        /\ \A i \in 1 .. Len(rows) : new[i] = rows[i]
    BY <1>4, AppendProperties
  <2> HIDE DEF new
  <2>2. Len(rows) \in Nat /\ DOMAIN rows = 1 .. Len(rows) /\ DOMAIN new = 1 .. Len(new)
    BY <1>4, <2>1
  <2>3. Len(rows) <= Len(new) /\ \A i \in DOMAIN rows : i \in DOMAIN new /\ new[i] = rows[i]
    BY <2>1, <2>2
  <2>4. rows' = new
    BY <1>1 DEF new
  <2> QED
    BY <2>1, <2>3, <2>4, Zenon
<1> DEFINE a == walk.args
<1>6. /\ WantedRows \subseteq WantedRows' /\ WantedRows' \in SUBSET Nat
      /\ \A id \in WantedRows : rows'[id] = rows[id]
      /\ Cardinality(WantedRows) \in Nat /\ Cardinality(WantedRows') \in Nat
      /\ Cardinality(WantedRows) <= Cardinality(WantedRows')
  <2> DEFINE W == WantedIds(a, rows)
             X == WantedIds(a, rows')
  <2>1. WantedRows = W /\ WantedRows' = X
    BY <1>2 DEF WantedRows
  <2>2. W \subseteq X /\ \A id \in W : rows'[id] = rows[id]
    BY <1>5 DEF WantedIds
  <2>3. Cardinality(W) \in Nat
    BY <1>4, WantedRowsFinite
  <2>4. Cardinality(X) \in Nat /\ IsFiniteSet(X) /\ X \in SUBSET Nat
    BY <1>5, WantedRowsFinite
  <2> HIDE DEF W, X
  <2>5. Cardinality(W) <= Cardinality(X)
    BY <2>2, <2>4, FS_Subset
  <2> QED
    BY <2>1, <2>2, <2>3, <2>4, <2>5
<1>7. QueryTypeOK'
  BY <1>2, <1>3, <1>5 DEF QueryTypeOK
<1>8. InFront' = InFront /\ InFront \in Nat
  BY <1>2, <1>4, InFrontType DEF InFront, Request
<1>9. ReadAnswersQuery'
  <2>1. ASSUME query.at \in {"count", "reply"}
        PROVE  /\ \A i \in DOMAIN query.data : query.data[i] \in WantedRows'
               /\ query.data # <<>> =>
                     InFront + Len(query.data) <= Cardinality(WantedRows')
    <3>1. /\ \A i \in DOMAIN query.data : query.data[i] \in WantedRows
          /\ query.data # <<>> => InFront + Len(query.data) <= Cardinality(WantedRows)
      BY <1>3, <2>1 DEF ReadAnswersQuery
    <3> DEFINE b == Cardinality(WantedRows)
               c == Cardinality(WantedRows')
    <3>2. b \in Nat /\ c \in Nat /\ b <= c
      BY <1>6
    <3>3. query.data # <<>> => InFront + Len(query.data) <= b
      BY <3>1
    <3> HIDE DEF b, c
    <3>4. query.data # <<>> => InFront + Len(query.data) <= c
      BY <1>4, <1>8, <3>2, <3>3
    <3> QED
      BY <1>6, <3>1, <3>4 DEF c
  <2> QED
    BY <1>2, <1>3, <1>8, <2>1 DEF ReadAnswersQuery
<1>10. PageIsWanted'
  BY <1>2, <1>3, <1>6 DEF PageIsWanted
<1>11. PageAnswersQuery'
  <2>1. RowsAnswerTheFilters'
    <3>1. ASSUME walk.at = "answered", NEW i \in DOMAIN walk.page.ids
          PROVE  Wanted(a, walk.page.ids[i], rows'[walk.page.ids[i]])
      <4>1. walk.page.ids[i] \in WantedRows
        BY <1>3, <3>1 DEF PageIsWanted
      <4>2. rows'[walk.page.ids[i]] = rows[walk.page.ids[i]]
        BY <1>6, <4>1
      <4>3. Wanted(a, walk.page.ids[i], rows[walk.page.ids[i]])
        BY <1>3, <3>1 DEF PageAnswersQuery, RowsAnswerTheFilters
      <4> QED
        BY <4>2, <4>3
    <3> QED
      BY <1>2, <1>3, <3>1 DEF RowsAnswerTheFilters, PageAnswersQuery
  <2>2. PageWithinTotal'
    BY <1>2, <1>3, <1>8 DEF PageAnswersQuery, PageWithinTotal
  <2> QED
    BY <2>1, <2>2 DEF PageAnswersQuery
<1>12. TableGrows'
  <2>1. Len(walk.known) <= Len(rows) /\ \A id \in DOMAIN walk.known : rows[id] = walk.known[id]
    BY <1>3 DEF TableGrows
  <2>2. PICK n \in Nat : n = Len(rows')
    BY <1>5
  <2>3. Len(walk.known) <= n
    BY <1>4, <1>5, <2>1, <2>2
  <2>4. \A id \in DOMAIN walk.known : rows'[id] = walk.known[id]
    <3> SUFFICES ASSUME NEW id \in DOMAIN walk.known PROVE rows'[id] = walk.known[id]
      OBVIOUS
    <3>1. id \in DOMAIN rows
      BY <1>4, <2>1
    <3> QED
      BY <1>5, <2>1, <3>1
  <2> QED
    BY <1>2, <2>2, <2>3, <2>4 DEF TableGrows
<1>13. WalkSoFar'
  <2> SUFFICES ASSUME WalksById', ~walk'.warned PROVE WalkSoFar'
    BY DEF WalkSoFar
  <2>1. WalksById /\ ~walk.warned /\ PageSize' = PageSize
    BY <1>2 DEF WalksById, CutsAreTold, PageSize
  <2> DEFINE all == WantedOf(a, rows)
             more == WantedOf(a, rows')
  <2>2. /\ Len(all) <= Len(more) /\ \A k \in 1 .. Len(all) : more[k] = all[k]
    <3> DEFINE new == rows'
    <3>1. new \in Seq(CellValues) /\ Len(rows) <= Len(new)
          /\ \A i \in DOMAIN rows : new[i] = rows[i]
      BY <1>5
    <3> HIDE DEF new
    <3>2. /\ Len(WantedOf(a, rows)) <= Len(WantedOf(a, new))
          /\ \A k \in 1 .. Len(WantedOf(a, rows)) : WantedOf(a, new)[k] = WantedOf(a, rows)[k]
      BY <1>4, <3>1, WantedOfGrows
    <3> QED
      BY <3>2 DEF new
  <2>3. Len(all) \in Nat
    BY <1>4, WantedOfFacts
  <2>4. Len(more) \in Nat
    BY <1>5, WantedOfFacts
  <2> HIDE DEF all, more
  <2>5. ASSUME NEW s \in Seq(Nat), NEW n \in Nat, Behind(all, s, n)
        PROVE  Behind(more, s, n)
    <3> SUFFICES ASSUME NEW k \in DOMAIN s
                 PROVE  n + k <= Len(more) /\ s[k] = more[n + k]
      BY DEF Behind
    <3>1. k \in Nat /\ k >= 1
      OBVIOUS
    <3>2. n + k <= Len(all) /\ s[k] = all[n + k]
      BY <2>5 DEF Behind
    <3>3. n + k \in 1 .. Len(all)
      BY <2>3, <3>1, <3>2
    <3>4. PICK m \in Nat : m = Len(more)
      BY <2>4
    <3>5. n + k <= m
      BY <2>2, <2>3, <3>1, <3>2, <3>4
    <3> QED
      BY <2>2, <3>2, <3>3, <3>4, <3>5
  <2>6. Start(walk.from) \in Nat
    BY <1>4, <2>1 DEF WalksById
  <2>7. Behind(more, walk.seen, Start(walk.from))
    BY <1>3, <1>4, <2>1, <2>5, <2>6 DEF WalkSoFar, all
  <2>8. query.at \in {"count", "reply"} => Behind(more, query.data, Start(a.offset))
    <3> SUFFICES ASSUME query.at \in {"count", "reply"}
                 PROVE  Behind(more, query.data, Start(a.offset))
      OBVIOUS
    <3>1. Behind(all, query.data, Start(a.offset))
      BY <1>3, <2>1 DEF WalkSoFar, all
    <3>2. Start(a.offset) = Start(walk.from) + Len(walk.seen)
      BY <1>3, <2>1 DEF WalkSoFar, ReadAnswersQuery
    <3>3. Start(a.offset) \in Nat
      BY <1>4, <2>6, <3>2
    <3> QED
      BY <1>4, <2>5, <3>1, <3>3
  <2> QED
    BY <1>2, <1>3, <2>1, <2>7, <2>8 DEF WalkSoFar, more
<1> QED
  BY <1>7, <1>9, <1>10, <1>11, <1>12, <1>13 DEF QueryInv

\* Every step keeps the invariant.
LEMMA QueryNextInv == QueryInv /\ [QueryNext]_queryVars => QueryInv'
<1> SUFFICES ASSUME QueryInv, [QueryNext]_queryVars PROVE QueryInv'
  OBVIOUS
<1>1. CASE UNCHANGED queryVars
  BY <1>1 DEF queryVars, QueryInv, QueryTypeOK, ReadAnswersQuery, PageIsWanted,
              PageAnswersQuery, RowsAnswerTheFilters, PageWithinTotal, TableGrows,
              WalkSoFar, WalksById, CutsAreTold, PageSize, WantedRows, InFront, Request
<1> QED
  BY <1>1, StarrocksInv, ExecuteSelectInv, ExecuteCountInv, ReplyInv, NextPageInv,
     AppendRowInv DEF QueryNext

\* The tables of this model are lists of cells.
LEMMA TablesAreLists == Tables \subseteq Seq(CellValues)
<1> SUFFICES ASSUME NEW n \in 0 .. MaxRows, NEW f \in [1 .. n -> CellValues]
             PROVE  f \in Seq(CellValues)
  BY DEF Tables
<1>1. n \in Nat
  BY QueryConstants
<1> QED
  BY <1>1, SeqDef

\* Whatever the table, the arguments, the limits and the rows that others
\* append: what a client has been sent and what is read for it is what it asked
\* for.
THEOREM QueryInvariance == QuerySpec => []QueryInv
<1>1. QueryInit => QueryInv
  BY QueryInitInv, TablesAreLists, QueryConstants DEF QueryInit
<1> QED
  BY <1>1, QueryNextInv, PTL DEF QuerySpec

\* A page holds rows the client asked for, within its limits, and a total that
\* covers them, for every table, combination of filters and history.
THEOREM QueryPageAnswersQuery == QuerySpec => []PageAnswersQuery
<1>1. QueryInv => PageAnswersQuery
  BY DEF QueryInv
<1> QED
  BY <1>1, QueryInvariance, PTL

\* A walk that ends has seen the rows that were there when it began.
LEMMA WalkFromInv == QueryInv => WalkSeesEverything
<1> SUFFICES ASSUME QueryInv, walk.at = "answered", ~walk.page.hasNextPage,
                    ~walk.warned, WalksById
             PROVE  LET all == WantedOf(walk.args, walk.known)
                    IN  IsPrefix(SubSeq(all, Start(walk.from) + 1, Len(all)), walk.seen)
  BY DEF WalkSeesEverything
<1> DEFINE old == WantedOf(walk.args, walk.known)
           all == WantedOf(walk.args, rows)
           f == Start(walk.from)
           rest == SubSeq(old, f + 1, Len(old))
           given == walk.seen
<1>1. QueryTypeOK /\ TableGrows /\ WalkSoFar
  BY DEF QueryInv
<1>2. /\ rows \in Seq(CellValues) /\ walk.known \in Seq(CellValues)
      /\ given \in Seq(Nat) /\ Start(walk.from) \in Int
  BY <1>1, QueryRecord
<1>3. f \in Nat
  BY <1>2 DEF WalksById
<1>4. Behind(all, given, f) /\ Len(old) <= f + Len(given)
  BY <1>1 DEF WalkSoFar
<1>5. /\ old \in Seq(Nat) /\ Len(old) \in Nat
  BY <1>2, WantedOfFacts
<1>6. Len(old) <= Len(all) /\ \A k \in 1 .. Len(old) : all[k] = old[k]
  <2>1. Len(walk.known) <= Len(rows) /\ \A i \in DOMAIN walk.known : rows[i] = walk.known[i]
    BY <1>1 DEF TableGrows
  <2> QED
    BY <1>2, <2>1, WantedOfGrows
<1> HIDE DEF old, all, f, given
<1>7. /\ rest \in Seq(Nat) /\ Len(rest) <= Len(given) /\ Len(rest) \in Nat
      /\ \A k \in 1 .. Len(rest) : f + k \in 1 .. Len(old) /\ rest[k] = old[f + k]
  <2>1. CASE f <= Len(old)
    <3> DEFINE l == Len(old) - f
    <3>1. l \in Nat /\ f + l = Len(old)
      BY <1>3, <1>5, <2>1
    <3> HIDE DEF l
    <3>2. rest = SubSeq(old, f + 1, f + l)
      BY <3>1
    <3>3. f + l <= Len(old)
      BY <3>1, <1>5
    <3>4. rest \in Seq(Nat) /\ Len(rest) = l /\ \A k \in 1 .. l : rest[k] = old[f + k]
      BY <1>3, <1>5, <3>1, <3>2, <3>3, CutFacts
    <3>5. l <= Len(given)
      BY <1>2, <1>3, <1>4, <3>1
    <3>6. \A k \in 1 .. l : f + k \in 1 .. Len(old)
      BY <1>3, <1>5, <3>1
    <3> HIDE DEF rest
    <3> QED
      BY <3>1, <3>4, <3>5, <3>6
  <2>2. CASE ~(f <= Len(old))
    <3>1. rest = <<>>
      BY <1>3, <1>5, <2>2
    <3>2. rest \in Seq(Nat) /\ Len(rest) = 0
      BY <3>1, EmptySeq
    <3> HIDE DEF rest
    <3> QED
      BY <1>2, <3>2
  <2> QED
    BY <2>1, <2>2
<1> HIDE DEF rest
<1>8. \A k \in 1 .. Len(rest) : rest[k] = given[k]
  <2> SUFFICES ASSUME NEW k \in 1 .. Len(rest) PROVE rest[k] = given[k]
    OBVIOUS
  <2>1. k \in DOMAIN given
    BY <1>2, <1>7
  <2>2. given[k] = all[f + k]
    BY <1>4, <2>1 DEF Behind
  <2>3. f + k \in 1 .. Len(old) /\ rest[k] = old[f + k]
    BY <1>7
  <2> QED
    BY <1>6, <2>2, <2>3
<1>9. SubSeq(rest, 1, Len(rest)) = SubSeq(given, 1, Len(rest))
  <2> DEFINE l == Len(rest)
             z == 0
  <2>1. z \in Nat /\ l \in Nat /\ z + l = l /\ z + 1 = 1 /\ z + l <= Len(rest)
        /\ z + l <= Len(given) /\ \A k \in 1 .. l : z + k = k
    BY <1>7
  <2> HIDE DEF l, z
  <2>2. /\ SubSeq(rest, z + 1, z + l) \in Seq(Nat) /\ Len(SubSeq(rest, z + 1, z + l)) = l
        /\ \A k \in 1 .. l : SubSeq(rest, z + 1, z + l)[k] = rest[z + k]
    BY ONLY <1>7, <2>1, CutFacts
  <2>3. /\ SubSeq(given, z + 1, z + l) \in Seq(Nat) /\ Len(SubSeq(given, z + 1, z + l)) = l
        /\ \A k \in 1 .. l : SubSeq(given, z + 1, z + l)[k] = given[z + k]
    BY ONLY <1>2, <2>1, CutFacts DEF given
  <2>4. \A k \in 1 .. l : rest[z + k] = given[z + k]
    BY <1>8, <2>1 DEF l
  <2> DEFINE x == SubSeq(rest, z + 1, z + l)
             y == SubSeq(given, z + 1, z + l)
  <2>5. x \in Seq(Nat) /\ y \in Seq(Nat) /\ Len(x) = Len(y)
        /\ \A k \in 1 .. Len(x) : x[k] = y[k]
    BY <2>1, <2>2, <2>3, <2>4
  <2> HIDE DEF x, y
  <2>6. x = y
    BY <2>5, SeqEqual
  <2> QED
    BY <2>1, <2>6 DEF x, y, l
<1> QED
  BY <1>7, <1>9 DEF IsPrefix, rest, old, f, given

\* A client that pages by offset and id until it is told there is no more has
\* every row it asked for that was there when it began, once and in order,
\* whatever is appended meanwhile.
THEOREM QueryWalkSeesEverything == QuerySpec => []WalkSeesEverything
BY WalkFromInv, QueryInvariance, PTL

-----------------------------------------------------------------------------
(* Template queries: the pages                                             *)

\* The rows a statement returns: as many as there are behind the offset, and those
\* if they are ordered by a unique column.
PageOfRows(req, limit, offset, got) ==
    /\ got \in Seq(Nat) /\ Len(got) \in Nat /\ Len(got) <= limit
    /\ \A i \in 1 .. Len(got) : got[i] \in 1 .. found
    /\ UniqueOrder(req) => \A i \in 1 .. Len(got) : got[i] = offset + i
    /\ offset <= found => offset + Len(got) <= found
    /\ offset > found => Len(got) = 0
    /\ offset <= found /\ Len(got) < limit => offset + Len(got) = found

LEMMA RowsFacts ==
    ASSUME found \in Nat, NEW req, NEW limit \in Nat, NEW offset \in Nat,
           NEW got \in Rows(req, limit, offset)
    PROVE  PageOfRows(req, limit, offset, got)
<1> DEFINE rest == found - offset
           least == Min({limit, rest})
           n == Max({0, least})
<1>1. /\ got \in [1 .. n -> 1 .. found]
      /\ UniqueOrder(req) => \A i \in 1 .. n : got[i] = offset + i
  BY DEF Rows
<1>2. rest \in Int
  OBVIOUS
<1> HIDE DEF rest
<1>3. least = IF limit <= rest THEN limit ELSE rest
  BY <1>2, LeastOfTwo
<1>4. least \in Int
  BY <1>2, <1>3
<1> HIDE DEF least
<1>5. n = IF 0 >= least THEN 0 ELSE least
  BY <1>4, LeastOfTwo
<1> HIDE DEF n
<1>6. n \in Nat
  BY <1>4, <1>5
<1>7. /\ got \in Seq(Nat) /\ Len(got) = n
      /\ \A i \in 1 .. n : got[i] \in 1 .. found
      /\ UniqueOrder(req) => \A i \in 1 .. n : got[i] = offset + i
  BY <1>1, <1>6
<1>8. /\ n <= limit
      /\ offset <= found => offset + n <= found
      /\ offset > found => n = 0
      /\ offset <= found /\ n < limit => offset + n = found
  <2>1. CASE limit <= rest
    <3>1. n = limit
      BY <1>3, <1>4, <1>5, <2>1
    <3> QED
      BY <2>1, <3>1 DEF rest
  <2>2. CASE ~(limit <= rest) /\ rest >= 0
    <3>1. n = rest
      BY <1>2, <1>3, <1>5, <2>2
    <3> QED
      BY <2>2, <3>1 DEF rest
  <2>3. CASE ~(limit <= rest) /\ ~(rest >= 0)
    <3>1. n = 0
      BY <1>2, <1>3, <1>5, <2>3
    <3> QED
      BY <2>3, <3>1 DEF rest
  <2> QED
    BY <2>1, <2>2, <2>3
<1> QED
  BY <1>6, <1>7, <1>8 DEF PageOfRows

\* The rows of a page, and when they are all that is left.
LEMMA TemplateReplyFacts ==
    ASSUME NEW data \in Seq(Nat), NEW req, NEW count, NEW reply,
           reply = TemplateReply(data, req, count),
           req.first # Absent => req.first \in Nat
    PROVE  /\ reply.nodes \in Seq(Nat) /\ Len(reply.nodes) <= Len(data)
           /\ \A k \in 1 .. Len(reply.nodes) : reply.nodes[k] = data[k]
           /\ ~reply.hasNextPage /\ ~reply.warned => Len(reply.nodes) = Len(data)
           /\ req.first # Absent => (reply.hasNextPage <=> Len(data) > req.first)
           /\ req.first = Absent /\ ~reply.warned /\ RowLimit > 0 => Len(data) <= RowLimit
           /\ reply.totalCount = count
<1> DEFINE cut == req.first # Absent /\ Len(data) > req.first
           page == IF cut THEN SubSeq(data, 1, req.first) ELSE data
           over == RowLimit > 0 /\ Len(page) > RowLimit
           m == IF over THEN RowLimit ELSE Len(page)
<1>1. /\ reply.nodes = IF over THEN SubSeq(page, 1, RowLimit) ELSE page
      /\ reply.hasNextPage = cut
      /\ reply.warned = over
      /\ reply.totalCount = count
  BY DEF TemplateReply
<1>2. RowLimit \in Int /\ Len(data) \in Nat
  BY RenderingConstants
<1>3. /\ page \in Seq(Nat) /\ Len(page) \in Nat /\ Len(page) <= Len(data)
      /\ \A k \in 1 .. Len(page) : page[k] = data[k]
      /\ ~cut => Len(page) = Len(data)
  <2>1. CASE cut
    <3> DEFINE f == req.first
    <3>1. f \in Nat /\ f <= Len(data)
      BY <1>2, <2>1
    <3>2. page = SubSeq(data, 1, f)
      BY <2>1
    <3> HIDE DEF f
    <3>3. /\ SubSeq(data, 1, f) \in Seq(Nat) /\ Len(SubSeq(data, 1, f)) = f
          /\ \A k \in 1 .. f : SubSeq(data, 1, f)[k] = data[k]
      BY <3>1, BeginningFacts
    <3> HIDE DEF page
    <3> QED
      BY <2>1, <3>1, <3>2, <3>3
  <2>2. CASE ~cut
    <3>1. page = data
      BY <2>2
    <3> HIDE DEF page
    <3> QED
      BY <1>2, <3>1
  <2> QED
    BY <2>1, <2>2
<1>4. req.first = Absent => ~cut
  OBVIOUS
<1>5. req.first # Absent => (cut <=> Len(data) > req.first)
  OBVIOUS
<1> HIDE DEF page, cut
<1>6. m \in Nat /\ m <= Len(page)
  BY <1>2, <1>3
<1>7. /\ reply.nodes \in Seq(Nat) /\ Len(reply.nodes) = m
      /\ \A k \in 1 .. m : reply.nodes[k] = page[k]
  <2>1. CASE over
    <3>1. reply.nodes = SubSeq(page, 1, m)
      BY <1>1, <2>1
    <3> HIDE DEF m, over
    <3>2. /\ SubSeq(page, 1, m) \in Seq(Nat) /\ Len(SubSeq(page, 1, m)) = m
          /\ \A k \in 1 .. m : SubSeq(page, 1, m)[k] = page[k]
      BY <1>3, <1>6, BeginningFacts
    <3> QED
      BY <3>1, <3>2
  <2>2. CASE ~over
    BY <1>1, <1>3, <2>2
  <2> QED
    BY <2>1, <2>2
<1> DEFINE nodes == reply.nodes
           warned == reply.warned
<1>9. PICK d \in Nat : d = Len(data)
  BY <1>2
<1>10. PICK p \in Nat : p = Len(page)
  BY <1>3
<1>11. /\ p <= d /\ (~cut => p = d) /\ m \in Nat /\ m <= p
       /\ Len(nodes) = m
       /\ \A k \in 1 .. p : page[k] = data[k]
       /\ \A k \in 1 .. m : nodes[k] = page[k]
  BY <1>3, <1>6, <1>7, <1>9, <1>10
<1>12. ~warned => m = p /\ (RowLimit > 0 => p <= RowLimit)
  <2>1. ~warned => ~over
    BY <1>1, Zenon
  <2>2. ~over => m = p /\ (RowLimit > 0 => p <= RowLimit)
    BY <1>2, <1>10
  <2> QED
    BY <2>1, <2>2
<1> HIDE DEF m, over
<1> HIDE DEF nodes, warned
<1>13. Len(nodes) <= d /\ \A k \in 1 .. Len(nodes) : nodes[k] = data[k]
  BY <1>11
<1>14. ~cut /\ ~warned => Len(nodes) = d
  BY <1>11, <1>12
<1>15. ~cut /\ ~warned /\ RowLimit > 0 => d <= RowLimit
  BY <1>11, <1>12
<1>16. /\ Len(reply.nodes) <= Len(data)
       /\ \A k \in 1 .. Len(reply.nodes) : reply.nodes[k] = data[k]
  BY <1>9, <1>13 DEF nodes
<1>17. ~reply.hasNextPage /\ ~reply.warned => Len(reply.nodes) = Len(data)
  BY <1>1, <1>9, <1>14 DEF nodes, warned
<1>18. req.first = Absent /\ ~reply.warned /\ RowLimit > 0 => Len(data) <= RowLimit
  BY <1>4, <1>9, <1>15 DEF warned
<1> QED
  BY <1>1, <1>5, <1>7, <1>16, <1>17, <1>18

\* A step that neither answers nor asks for another page.
LEMMA JobMovesInv ==
    ASSUME RenderInv, NEW v, job' = v, UNCHANGED <<request, found, seen>>,
           DOMAIN v = {"at", "params", "sql", "pos", "mode", "out", "reply"},
           v.at # "answered", job.at # "answered"
    PROVE  RenderInv'
<1>1. Skipped' = Skipped
  BY DEF Skipped
<1>2. RenderTypeOK'
  BY DEF RenderInv, RenderTypeOK
<1>3. TemplateWalkSoFar'
  BY <1>1 DEF RenderInv, TemplateWalkSoFar, RowsUpTo, UniqueOrder
<1> QED
  BY <1>2, <1>3 DEF RenderInv

\* The call is refused.
LEMMA RefuseInv ==
    ASSUME RenderInv, job.at # "answered", NEW why, why # "answered", Refuse(why)
    PROVE  RenderInv'
<1> DEFINE v == [job EXCEPT !.at = why]
<1>1. job' = v /\ UNCHANGED <<request, found, seen>>
  BY DEF Refuse
<1>2. /\ DOMAIN v = {"at", "params", "sql", "pos", "mode", "out", "reply"}
      /\ v.at # "answered"
  BY DEF RenderInv, RenderTypeOK
<1> HIDE DEF v
<1> QED
  BY <1>1, <1>2, JobMovesInv

\* The call up to the statement that is sent.
LEMMA RenderedInv ==
    ASSUME RenderInv, ValidateRequest \/ RenderTemplate \/ RenderTimesOut \/ Scan \/ ScanEnds
    PROVE  RenderInv'
<1> DEFINE Fields == {"at", "params", "sql", "pos", "mode", "out", "reply"}
<1>0. DOMAIN job = Fields
  BY DEF RenderInv, RenderTypeOK
<1>1. ASSUME NEW v, job' = v, UNCHANGED <<request, found, seen>>, DOMAIN v = Fields,
             v.at # "answered", job.at # "answered"
      PROVE  RenderInv'
  BY <1>1, JobMovesInv
<1>2. CASE ValidateRequest
  <2>1. /\ job.at = "idle"
        /\ \/ Refuse("invalid")
           \/ \E p \in validateParams(request.params, request.template.schemas) :
                 /\ job' = [job EXCEPT !.at = "render", !.params = p]
                 /\ UNCHANGED <<request, found, seen>>
    BY <1>2 DEF ValidateRequest
  <2>2. CASE Refuse("invalid")
    BY <2>1, <2>2, RefuseInv
  <2>3. ASSUME NEW p, job' = [job EXCEPT !.at = "render", !.params = p],
               UNCHANGED <<request, found, seen>>
        PROVE  RenderInv'
    <3> DEFINE v == [job EXCEPT !.at = "render", !.params = p]
    <3>1. DOMAIN v = Fields /\ v.at = "render" /\ job' = v
      BY <1>0, <2>3
    <3> HIDE DEF v
    <3> QED
      BY <1>1, <2>1, <2>3, <3>1
  <2> QED
    BY <2>1, <2>2, <2>3
<1>3. CASE RenderTemplate
  <2> DEFINE texts == TemplateExecute(request.template.parts, job.params)
             sql == Trimmed(CHOOSE s \in texts : TRUE)
             v == [job EXCEPT !.at = "scan", !.sql = sql]
  <2>1. /\ job.at = "render"
        /\ \/ Refuse("render failed") \/ Refuse("empty") \/ Refuse("unsafe")
           \/ job' = v /\ UNCHANGED <<request, found, seen>>
    BY <1>3, Zenon DEF RenderTemplate
  <2>2. DOMAIN v = Fields /\ v.at = "scan"
    BY <1>0
  <2> HIDE DEF v
  <2> QED
    BY <1>1, <2>1, <2>2, RefuseInv
<1>4. CASE RenderTimesOut
  BY <1>4, RefuseInv DEF RenderTimesOut
<1>5. CASE Scan
  <2> DEFINE turn == ScanTurn(job.mode,
                       SubSeq(job.sql, job.pos, Min({job.pos + 2, Len(job.sql)})))
             v == [job EXCEPT !.pos = job.pos + turn.eaten, !.mode = turn.mode,
                              !.out = job.out \o turn.emit]
  <2>1. /\ job.at = "scan"
        /\ Refuse("unsafe") \/ (job' = v /\ UNCHANGED <<request, found, seen>>)
    BY <1>5 DEF Scan
  <2> HIDE DEF turn
  <2>2. DOMAIN v = Fields /\ v.at = job.at
    BY <1>0
  <2> HIDE DEF v
  <2> QED
    BY <1>1, <2>1, <2>2, RefuseInv
<1>6. CASE ScanEnds
  <2> DEFINE v == [job EXCEPT !.at = "clean"]
  <2>1. /\ job.at = "scan"
        /\ Refuse("unsafe") \/ (job' = v /\ UNCHANGED <<request, found, seen>>)
    BY <1>6 DEF ScanEnds
  <2>2. DOMAIN v = Fields /\ v.at = "clean"
    BY <1>0
  <2> HIDE DEF v
  <2> QED
    BY <1>1, <2>1, <2>2, RefuseInv
<1> QED
  BY <1>2, <1>3, <1>4, <1>5, <1>6

\* The client asks for the next page.
LEMMA NextTemplatePageInv ==
    ASSUME RenderInv, NextTemplatePage
    PROVE  RenderInv'
<1> DEFINE n == Len(job.reply.nodes)
           o == n + Skipped
<1>1. RenderTypeOK /\ TemplateWalkSoFar /\ job.at = "answered"
  BY DEF RenderInv, NextTemplatePage
<1>2. request' = [request EXCEPT !.offset = o] /\ job' = NoCall /\ found' = found /\ seen' = seen
  BY DEF NextTemplatePage, Skipped
<1>3. n \in Nat /\ Skipped \in Int
  BY <1>1 DEF TemplateWalkSoFar, RenderTypeOK, Skipped
<1>4. o \in Int /\ o # Absent
  BY <1>3, RenderingConstants
<1>5. request.fromStart => RowsUpTo(o)
  <2>1. o = Skipped + n
    BY <1>3
  <2> QED
    BY <1>1, <2>1 DEF TemplateWalkSoFar
<1> HIDE DEF o
<1>6. /\ DOMAIN request' = DOMAIN request /\ request'.offset = o
      /\ request'.first = request.first /\ request'.fromStart = request.fromStart
      /\ request'.orderBy = request.orderBy
  BY <1>1, <1>2 DEF RenderTypeOK
<1>7. RenderTypeOK'
  BY <1>1, <1>2, <1>4, <1>6 DEF RenderTypeOK, NoCall
<1>8. Skipped' = o
  BY <1>4, <1>6 DEF Skipped
<1>9. job'.at = "idle"
  BY <1>2 DEF NoCall
<1>10. TemplateWalkSoFar'
  BY <1>2, <1>5, <1>6, <1>8, <1>9 DEF TemplateWalkSoFar, RowsUpTo, UniqueOrder
<1> QED
  BY <1>7, <1>10 DEF RenderInv

\* The statement is sent and a page answered.
LEMMA RunTemplateInv ==
    ASSUME RenderInv, RunTemplate
    PROVE  RenderInv'
<1> DEFINE limit == LimitOfPage(request.first)
           count == IF ~request.needCount THEN 0
                    ELSE IF request.template.countEnabled THEN found ELSE -1
<1>0. RenderTypeOK /\ TemplateWalkSoFar /\ job.at = "clean"
  BY DEF RenderInv, RunTemplate
<1>1. /\ wrapWithPagination(request).limit = limit
      /\ wrapWithPagination(request).offset = Skipped
  BY DEF wrapWithPagination, Skipped
<1>2. SUFFICES ASSUME NEW data \in Rows(request, limit, Skipped),
                      ~(limit < 0 \/ Skipped < 0),
                      ~(request.first = -1 /\ limit >= 0 /\ Skipped >= 0),
                      job' = [job EXCEPT !.at = "answered",
                                         !.reply = TemplateReply(data, request, count)],
                      seen' = seen \cup Range(TemplateReply(data, request, count).nodes),
                      request' = request, found' = found
               PROVE  RenderInv'
  <2> DEFINE w == wrapWithPagination(request)
             Answers(d) ==
                 /\ job' = [job EXCEPT !.at = "answered", !.reply = TemplateReply(d, request, count)]
                 /\ seen' = seen \cup Range(TemplateReply(d, request, count).nodes)
                 /\ request' = request /\ found' = found
  <2>1. \/ Refuse("invalid") \/ Refuse("query failed") \/ Refuse("panic")
        \/ /\ ~(w.limit < 0 \/ w.offset < 0)
           /\ ~(request.first = -1 /\ w.limit >= 0 /\ w.offset >= 0)
           /\ \E d \in Rows(request, w.limit, w.offset) : Answers(d)
    BY Zenon DEF RunTemplate
  <2> HIDE DEF w
  <2>2. ASSUME NEW why \in {"invalid", "query failed", "panic"}, Refuse(why)
        PROVE  RenderInv'
    BY <1>0, <2>2, RefuseInv
  <2>3. CASE /\ ~(w.limit < 0 \/ w.offset < 0)
             /\ ~(request.first = -1 /\ w.limit >= 0 /\ w.offset >= 0)
             /\ \E d \in Rows(request, w.limit, w.offset) : Answers(d)
    <3>1. PICK d \in Rows(request, w.limit, w.offset) : Answers(d)
      BY <2>3
    <3>2. w.limit = limit /\ w.offset = Skipped
      BY <1>1 DEF w
    <3> HIDE DEF limit, count
    <3> QED
      BY <1>2, <2>3, <3>1, <3>2
  <2> QED
    BY <2>1, <2>2, <2>3
<1> DEFINE reply == TemplateReply(data, request, count)
           nodes == reply.nodes
           v == [job EXCEPT !.at = "answered", !.reply = reply]
<1>3. /\ Skipped \in Nat /\ limit \in Nat
      /\ request.first # Absent => request.first \in Nat /\ limit = request.first + 1
      /\ request.first = Absent => limit = RowLimit + 1
      /\ RowLimit \in Int /\ found \in Nat
  <2>1. request.offset \in Int \cup {Absent} /\ request.first \in Int \cup {Absent}
        /\ found \in Nat
    BY <1>0 DEF RenderTypeOK
  <2>2. RowLimit \in Int
    BY RenderingConstants
  <2>3. Skipped \in Nat
    BY <1>2, <2>1 DEF Skipped
  <2>4. CASE request.first = Absent
    BY <1>2, <2>1, <2>2, <2>3, <2>4 DEF LimitOfPage
  <2>5. CASE request.first # Absent
    <3>1. request.first \in Int /\ limit = request.first + 1
      BY <2>1, <2>5 DEF LimitOfPage
    <3> HIDE DEF limit
    <3> QED
      BY <1>2, <2>1, <2>2, <2>3, <2>5, <3>1
  <2> QED
    BY <2>4, <2>5
<1> HIDE DEF limit
<1>4. /\ data \in Seq(Nat) /\ Len(data) \in Nat /\ Len(data) <= limit
      /\ \A i \in 1 .. Len(data) : data[i] \in 1 .. found
      /\ UniqueOrder(request) => \A i \in 1 .. Len(data) : data[i] = Skipped + i
      /\ Skipped <= found => Skipped + Len(data) <= found
      /\ Skipped > found => Len(data) = 0
      /\ Skipped <= found /\ Len(data) < limit => Skipped + Len(data) = found
  <2>1. PageOfRows(request, limit, Skipped, data)
    BY <1>3, RowsFacts
  <2> QED
    BY <2>1 DEF PageOfRows
<1> HIDE DEF count
<1>5. /\ reply.nodes \in Seq(Nat) /\ Len(reply.nodes) <= Len(data)
      /\ \A k \in 1 .. Len(reply.nodes) : reply.nodes[k] = data[k]
      /\ ~reply.hasNextPage /\ ~reply.warned => Len(reply.nodes) = Len(data)
      /\ request.first # Absent => (reply.hasNextPage <=> Len(data) > request.first)
      /\ request.first = Absent /\ ~reply.warned /\ RowLimit > 0 => Len(data) <= RowLimit
      /\ reply.totalCount = count
  BY <1>3, <1>4, TemplateReplyFacts
<1> HIDE DEF reply
<1>6. PICK n \in Nat : n = Len(nodes)
  BY <1>5
<1>7. PICK d \in Nat : d = Len(data)
  BY <1>4
<1>8. /\ n <= d /\ d <= limit
      /\ Skipped <= found => Skipped + d <= found
      /\ Skipped > found => d = 0
      /\ Skipped <= found /\ d < limit => Skipped + d = found
      /\ \A k \in 1 .. n : nodes[k] \in 1 .. found
      /\ UniqueOrder(request) => \A k \in 1 .. n : nodes[k] = Skipped + k
  <2>1. \A k \in 1 .. n : nodes[k] = data[k] /\ k \in 1 .. d
    BY <1>5, <1>6, <1>7
  <2> QED
    BY <1>4, <1>5, <1>6, <1>7, <2>1
<1>9. ~reply.hasNextPage /\ ~reply.warned /\ (RowLimit > 0 \/ request.first # Absent) =>
        n = d /\ d < limit
  <2> SUFFICES ASSUME ~reply.hasNextPage, ~reply.warned, RowLimit > 0 \/ request.first # Absent
               PROVE  n = d /\ d < limit
    OBVIOUS
  <2>1. n = d
    BY <1>5, <1>6, <1>7
  <2>2. CASE request.first = Absent
    <3>1. d <= RowLimit /\ limit = RowLimit + 1
      BY <1>3, <1>5, <1>7, <2>2
    <3> QED
      BY <1>3, <2>1, <3>1
  <2>3. CASE request.first # Absent
    <3>1. ~(d > request.first) /\ limit = request.first + 1 /\ request.first \in Nat
      BY <1>3, <1>5, <1>7, <2>3
    <3> QED
      BY <2>1, <3>1
  <2> QED
    BY <2>2, <2>3
<1>10. Range(nodes) = {nodes[k] : k \in 1 .. n}
  <2>1. DOMAIN nodes = 1 .. n
    BY <1>5, <1>6
  <2> HIDE DEF nodes
  <2> QED
    BY <2>1 DEF Range
<1> DEFINE R == {Skipped + k : k \in 1 .. n}
<1> HIDE DEF nodes
<1>11. Range(nodes) \subseteq 1 .. found /\ (UniqueOrder(request) => Range(nodes) = R)
  BY <1>8, <1>10
<1>12. (1 .. Skipped) \cup R = 1 .. (Skipped + n)
  <2>1. ASSUME NEW i \in 1 .. (Skipped + n) PROVE i \in (1 .. Skipped) \cup R
    <3>1. CASE i <= Skipped
      BY <1>3, <3>1
    <3>2. CASE i > Skipped
      <4>1. i - Skipped \in 1 .. n /\ Skipped + (i - Skipped) = i
        BY <1>3, <3>2
      <4> QED
        BY <4>1
    <3> QED
      BY <1>3, <3>1, <3>2
  <2>2. ASSUME NEW k \in 1 .. n PROVE Skipped + k \in 1 .. (Skipped + n)
    BY <1>3
  <2>3. 1 .. Skipped \subseteq 1 .. (Skipped + n)
    BY <1>3
  <2> QED
    BY <2>1, <2>2, <2>3
<1>13. seen' = seen \cup Range(nodes)
  BY <1>2 DEF nodes, reply
<1> HIDE DEF R
<1>14. /\ DOMAIN v = {"at", "params", "sql", "pos", "mode", "out", "reply"}
       /\ v.at = "answered" /\ v.reply = reply
  BY <1>0 DEF RenderTypeOK
<1> HIDE DEF v
<1>15. RenderTypeOK'
  BY <1>0, <1>2, <1>11, <1>13, <1>14 DEF RenderTypeOK
<1>16. Skipped' = Skipped /\ UniqueOrder(request') = UniqueOrder(request)
  BY <1>2 DEF Skipped, UniqueOrder
<1> DEFINE ended == ~reply.hasNextPage /\ ~reply.warned /\ (RowLimit > 0 \/ request.first # Absent)
<1>17. request.fromStart => /\ Skipped + n \in 0 .. found
                            /\ UniqueOrder(request) => seen' = 1 .. (Skipped + n)
                            /\ ended => Skipped + n = found
  <2> SUFFICES ASSUME request.fromStart
               PROVE  /\ Skipped + n \in 0 .. found
                      /\ UniqueOrder(request) => seen' = 1 .. (Skipped + n)
                      /\ ended => Skipped + n = found
    OBVIOUS
  <2>1. Skipped \in 0 .. found /\ (UniqueOrder(request) => seen = 1 .. Skipped)
    BY <1>0 DEF TemplateWalkSoFar, RowsUpTo
  <2>2. Skipped + n \in 0 .. found
    BY <1>3, <1>8, <2>1
  <2>3. ended => Skipped + n = found
    BY <1>3, <1>8, <1>9, <2>1
  <2> QED
    BY <1>11, <1>12, <1>13, <2>1, <2>2, <2>3
<1>18. request.needCount /\ request.template.countEnabled => reply.totalCount = found
  BY <1>5 DEF count
<1>19. TemplateWalkSoFar'
  <2>1. job'.at = "answered" /\ job'.reply = reply /\ Len(job'.reply.nodes) = n
    BY <1>2, <1>6, <1>14 DEF nodes, v, reply
  <2> QED
    BY <1>2, <1>16, <1>17, <1>18, <2>1 DEF TemplateWalkSoFar, RowsUpTo, UniqueOrder
<1> QED
  BY <1>15, <1>19 DEF RenderInv

\* The invariant holds before the first call.
LEMMA RenderInitInv ==
    ASSUME NEW requests, NEW sizes, requests \subseteq TemplateRequests,
           sizes \subseteq ResultSizes, BeforeRender(requests, sizes)
    PROVE  RenderInv
<1>1. request \in TemplateRequests /\ found \in ResultSizes /\ job = NoCall /\ seen = {}
  BY DEF BeforeRender
<1>2. found \in Nat
  BY <1>1, RenderingConstants
<1>3. RenderTypeOK
  BY <1>1, <1>2, RenderingConstants DEF RenderTypeOK, NoCall
<1>4. request.fromStart => Skipped = 0
  BY <1>1, RenderingConstants DEF Skipped
<1>5. {} = 1 .. 0 /\ 0 \in 0 .. found
  BY <1>2
<1>6. job.at = "idle"
  BY <1>1 DEF NoCall
<1>7. TemplateWalkSoFar
  BY <1>1, <1>4, <1>5, <1>6 DEF TemplateWalkSoFar, RowsUpTo
<1> QED
  BY <1>3, <1>7 DEF RenderInv

\* Every step keeps it.
LEMMA RenderNextInv == RenderInv /\ [RenderNext]_renderVars => RenderInv'
<1> SUFFICES ASSUME RenderInv, [RenderNext]_renderVars PROVE RenderInv'
  OBVIOUS
<1>1. CASE UNCHANGED renderVars
  BY <1>1 DEF renderVars, RenderInv, RenderTypeOK, TemplateWalkSoFar, Skipped, RowsUpTo,
              UniqueOrder
<1> QED
  BY <1>1, RenderedInv, RunTemplateInv, NextTemplatePageInv DEF RenderNext

\* A walk that ends has as many rows as there are, all of them if it is ordered.
LEMMA TemplateWalkFromInv == RenderInv => TemplateWalkSeesEverything
BY DEF RenderInv, RenderTypeOK, TemplateWalkSoFar, RowsUpTo, TemplateWalkSeesEverything

\* A client that follows hasNextPage from the start of a template's result has
\* as many rows as there are when there is no next page and no warning, every
\* one of them if it orders by a unique column, and a counted total is their
\* number: for any number of rows, any page size and any max_result_rows, but
\* that one that is not positive needs a page size.
THEOREM TemplateWalk == RenderSpec => []TemplateWalkSeesEverything
<1>1. RenderInit => RenderInv
  BY RenderInitInv DEF RenderInit
<1> QED
  BY <1>1, RenderNextInv, TemplateWalkFromInv, PTL DEF RenderSpec

-----------------------------------------------------------------------------
(* Template queries: parameters and rendering                              *)

\* What comes out of the functions of a pipeline, one after the other.
Pipes(v, fns, n, g) ==
    g = [k \in 0 .. n |-> IF k = 0 THEN {v} ELSE UNION {Apply(fns[k], w) : w \in g[k - 1]}]

LEMMA PipesExist ==
    ASSUME NEW v, NEW fns, NEW n \in Nat
    PROVE  \E g : Pipes(v, fns, n, g)
<1> DEFINE T == {k \in Nat : \E g : Pipes(v, fns, k, g)}
<1>1. 0 \in T
  <2> DEFINE g == [i \in 0 .. 0 |-> {v}]
  <2>1. Pipes(v, fns, 0, g)
    BY DEF Pipes
  <2> QED
    BY <2>1
<1>2. ASSUME NEW k \in T PROVE k + 1 \in T
  <2>1. PICK g : Pipes(v, fns, k, g)
    OBVIOUS
  <2> DEFINE Step(u, i) == IF i = 0 THEN {v} ELSE UNION {Apply(fns[i], w) : w \in u[i - 1]}
             h == [i \in 0 .. k + 1 |-> Step(g, i)]
  <2>2. \A i \in 0 .. k : h[i] = g[i]
    <3>1. g = [i \in 0 .. k |-> Step(g, i)]
      BY <2>1, Zenon DEF Pipes
    <3>2. k \in Nat
      OBVIOUS
    <3> HIDE DEF Step, T
    <3> QED
      BY <3>1, <3>2
  <2>3. \A i \in 0 .. k + 1 : Step(h, i) = Step(g, i)
    <3> SUFFICES ASSUME NEW i \in 0 .. k + 1 PROVE Step(h, i) = Step(g, i)
      OBVIOUS
    <3> HIDE DEF h
    <3>1. CASE i = 0
      BY <3>1, Zenon
    <3>2. CASE i # 0
      <4>1. i - 1 \in 0 .. k
        BY <3>2
      <4>2. h[i - 1] = g[i - 1]
        BY <2>2, <4>1
      <4> QED
        BY <3>2, <4>2, Zenon
    <3> QED
      BY <3>1, <3>2
  <2>4. h = [i \in 0 .. k + 1 |-> Step(h, i)]
    <3> HIDE DEF Step
    <3> QED
      BY <2>3
  <2>5. Pipes(v, fns, k + 1, h)
    BY <2>4, Zenon DEF Pipes
  <2>6. k + 1 \in Nat
    OBVIOUS
  <2> HIDE DEF h
  <2> QED
    BY <2>5, <2>6
<1>3. \A k \in Nat : k \in T
  <2>1. T \in SUBSET Nat
    OBVIOUS
  <2> HIDE DEF T
  <2> QED
    BY <1>1, <1>2, <2>1, Induction
<1> QED
  BY <1>3

LEMMA PipedIs ==
    ASSUME NEW v, NEW fns, Len(fns) \in Nat
    PROVE  \E g : Pipes(v, fns, Len(fns), g) /\ Piped(v, fns) = g[Len(fns)]
<1> DEFINE g == CHOOSE h : Pipes(v, fns, Len(fns), h)
<1>1. Pipes(v, fns, Len(fns), g)
  BY PipesExist
<1>2. Piped(v, fns) = g[Len(fns)]
  BY Zenon DEF Piped, Pipes
<1> HIDE DEF g
<1> QED
  BY <1>1, <1>2

\* The values of a type.
HasType(v, t) ==
    CASE t = "string" -> v.type = "string"
      [] t = "int" -> v.type = "int"
      [] t = "float" -> v.type \in {"int", "float"} /\ v.is \in Numerals
      [] t = "boolean" -> v.type = "bool"
      [] t = "string[]" -> v.type = "list" /\ \A i \in DOMAIN v.items : v.items[i].type = "string"
      [] t = "any" -> TRUE

\* A function takes every value of its type and gives values of the other.
LEMMA ApplyFits ==
    ASSUME NEW t, NEW fn, NEW u, <<t, fn, u>> \in Signatures, NEW v, HasType(v, t)
    PROVE  Apply(fn, v) # {} /\ \A w \in Apply(fn, v) : HasType(w, u)
<1>0. \A s : Text(s).type = "string"
  BY DEF Text
<1>1. ASSUME fn \in {"quote", "safeString", "safeLike"}, u = "string"
      PROVE  Apply(fn, v) # {} /\ \A w \in Apply(fn, v) : HasType(w, u)
  <2>1. \E s : Apply(fn, v) = {Text(s)}
    BY <1>1 DEF Apply
  <2> QED
    BY <1>0, <1>1, <2>1 DEF HasType
<1>2. ASSUME fn = "default", u = "any"
      PROVE  Apply(fn, v) # {} /\ \A w \in Apply(fn, v) : HasType(w, u)
  BY <1>2 DEF Apply, HasType
<1>3. ASSUME fn = "default", u = t, t \in {"int", "float"}
      PROVE  Apply(fn, v) # {} /\ \A w \in Apply(fn, v) : HasType(w, u)
  <2>1. HasType(Number("int", "1"), t)
    BY <1>3 DEF HasType, Number, Numerals, WholeNumerals, Unsigned
  <2>2. Apply(fn, v) = {IF Zero(v) THEN Number("int", "1") ELSE v}
    BY <1>3 DEF Apply
  <2> QED
    BY <1>3, <2>1, <2>2
<1>4. ASSUME fn = "safeInt", t = "int", u = "string"
      PROVE  Apply(fn, v) # {} /\ \A w \in Apply(fn, v) : HasType(w, u)
  <2>0. v.type = "int"
    BY <1>4 DEF HasType
  <2>1. convertInt(v) = {v}
    BY <2>0 DEF convertInt
  <2>2. safeInt(v) = {Spelled(v.is)}
    BY <2>1 DEF safeInt
  <2>3. Apply(fn, v) = {Text(Spelled(v.is))}
    BY <1>4, <2>2 DEF Apply
  <2> QED
    BY <1>0, <1>4, <2>3 DEF HasType
<1>5. ASSUME fn = "safeFloat", t = "float", u = "string"
      PROVE  Apply(fn, v) # {} /\ \A w \in Apply(fn, v) : HasType(w, u)
  <2>0. v.type \in {"int", "float"} /\ v.is \in Numerals
    BY <1>5 DEF HasType
  <2> DEFINE n == float64Of(v.is)
  <2>1. convertFloat(v) = {Number("float", n)}
    BY <2>0 DEF convertFloat
  <2>2. Number("float", n).is = n /\ n # "NaN"
    BY <2>0 DEF Number, Numerals, WholeNumerals, Unsigned, float64Of
  <2> HIDE DEF n
  <2>3. safeFloat(v) = {Spelled(n)}
    BY <2>1, <2>2 DEF safeFloat
  <2>4. Apply(fn, v) = {Text(Spelled(n))}
    BY <1>5, <2>3 DEF Apply
  <2> QED
    BY <1>0, <1>5, <2>4 DEF HasType
<1>6. ASSUME fn = "join", t = "string[]", u = "string"
      PROVE  Apply(fn, v) # {} /\ \A w \in Apply(fn, v) : HasType(w, u)
  <2>1. \E s : join(v) = {s}
    BY <1>6 DEF HasType, join
  <2>2. \E s : Apply(fn, v) = {Text(s)}
    BY <1>6, <2>1 DEF Apply
  <2> QED
    BY <1>0, <1>6, <2>2 DEF HasType
<1>7. \/ fn \in {"quote", "safeString", "safeLike"} /\ u = "string"
      \/ fn = "default" /\ u = "any"
      \/ fn = "default" /\ u = t /\ t \in {"int", "float"}
      \/ fn = "safeInt" /\ t = "int" /\ u = "string"
      \/ fn = "safeFloat" /\ t = "float" /\ u = "string"
      \/ fn = "join" /\ t = "string[]" /\ u = "string"
  BY DEF Signatures
<1> QED
  BY <1>1, <1>2, <1>3, <1>4, <1>5, <1>6, <1>7

\* A pipeline whose types meet takes every value of the first.
LEMMA PipelineTakes ==
    ASSUME NEW v, NEW fns, Len(fns) \in Nat, NEW t, Typed(fns, t), HasType(v, t)
    PROVE  Piped(v, fns) # {}
<1>1. PICK ts \in [0 .. Len(fns) -> ParamTypes \cup {"any"}] :
         /\ ts[0] = t
         /\ \A n \in 1 .. Len(fns) : <<ts[n - 1], fns[n], ts[n]>> \in Signatures
  BY DEF Typed
<1>2. PICK g : Pipes(v, fns, Len(fns), g) /\ Piped(v, fns) = g[Len(fns)]
  BY PipedIs
<1> DEFINE T == {n \in Nat : n <= Len(fns) => g[n] # {} /\ \A w \in g[n] : HasType(w, ts[n])}
<1>3. /\ g[0] = {v}
      /\ \A n \in 1 .. Len(fns) : g[n] = UNION {Apply(fns[n], w) : w \in g[n - 1]}
  <2> DEFINE Step(i) == IF i = 0 THEN {v} ELSE UNION {Apply(fns[i], w) : w \in g[i - 1]}
  <2>1. g = [i \in 0 .. Len(fns) |-> Step(i)]
    BY <1>2, Zenon DEF Pipes
  <2>2. Step(0) = {v}
    OBVIOUS
  <2>3. \A n \in 1 .. Len(fns) : Step(n) = UNION {Apply(fns[n], w) : w \in g[n - 1]}
    OBVIOUS
  <2> HIDE DEF Step
  <2>4. g[0] = Step(0) /\ \A n \in 1 .. Len(fns) : g[n] = Step(n)
    BY <2>1
  <2> QED
    BY <2>2, <2>3, <2>4, Zenon
<1>4. 0 \in T
  BY <1>1, <1>3
<1>5. ASSUME NEW n \in T PROVE n + 1 \in T
  <2> SUFFICES ASSUME n + 1 <= Len(fns)
               PROVE  g[n + 1] # {} /\ \A w \in g[n + 1] : HasType(w, ts[n + 1])
    OBVIOUS
  <2>1. n + 1 \in 1 .. Len(fns) /\ (n + 1) - 1 = n /\ n <= Len(fns)
    OBVIOUS
  <2>2. g[n] # {} /\ \A w \in g[n] : HasType(w, ts[n])
    BY <2>1
  <2>3. g[n + 1] = UNION {Apply(fns[n + 1], w) : w \in g[n]}
    BY <1>3, <2>1
  <2>4. <<ts[n], fns[n + 1], ts[n + 1]>> \in Signatures
    BY <1>1, <2>1
  <2>5. \A w \in g[n] : /\ Apply(fns[n + 1], w) # {}
                        /\ \A x \in Apply(fns[n + 1], w) : HasType(x, ts[n + 1])
    BY <2>2, <2>4, ApplyFits
  <2> QED
    BY ONLY <2>2, <2>3, <2>5
<1>6. \A n \in Nat : n \in T
  <2>1. T \in SUBSET Nat
    OBVIOUS
  <2> HIDE DEF T
  <2> QED
    BY <1>4, <1>5, <2>1, Induction
<1> QED
  BY <1>2, <1>6

\* A value as a schema leaves it.
Valued(s, v) ==
    \/ s.default # Absent /\ v = s.default
    \/ \E w : v \in convertParamType(w, s.type) /\ validateConstraints(s, v)

\* A schema changes its own parameter only.
LEMMA ValidatedFacts ==
    ASSUME NEW s, NEW p, NEW q \in Validated(s, p)
    PROVE  /\ s.name \in DOMAIN q => Valued(s, q[s.name])
           /\ \A x : x # s.name =>
                 /\ x \in DOMAIN q <=> x \in DOMAIN p
                 /\ x \in DOMAIN p => q[x] = p[x]
<1>1. CASE s.name \notin DOMAIN p
  <2> DEFINE filled == [x \in DOMAIN p \cup {s.name} |-> IF x = s.name THEN s.default ELSE p[x]]
  <2>1. q = p \/ (s.default # Absent /\ q = filled)
    BY <1>1 DEF Validated
  <2>2. CASE q = p
    BY <1>1, <2>2
  <2>3. CASE s.default # Absent /\ q = filled
    <3>1. /\ DOMAIN filled = DOMAIN p \cup {s.name}
          /\ filled[s.name] = s.default
          /\ \A x \in DOMAIN p : x # s.name => filled[x] = p[x]
      OBVIOUS
    <3> HIDE DEF filled
    <3>2. Valued(s, q[s.name])
      BY <2>3, <3>1 DEF Valued
    <3> QED
      BY <2>3, <3>1, <3>2
  <2> QED
    BY <2>1, <2>2, <2>3
<1>2. CASE s.name \in DOMAIN p
  <2>1. PICK v : /\ v \in convertParamType(p[s.name], s.type)
                 /\ validateConstraints(s, v)
                 /\ q = [p EXCEPT ![s.name] = v]
    BY <1>2 DEF Validated
  <2>2. /\ DOMAIN q = DOMAIN p /\ q[s.name] = v
        /\ \A x \in DOMAIN p : x # s.name => q[x] = p[x]
    BY <1>2, <2>1
  <2>3. Valued(s, v)
    BY <2>1 DEF Valued
  <2> QED
    BY <2>2, <2>3
<1> QED
  BY <1>1, <1>2

\* The maps that validateParams passes from one schema to the next.
Validates(params, schemas, n, g) ==
    g = [k \in 0 .. n |->
            IF k = 0 THEN {params} ELSE UNION {Validated(schemas[k], p) : p \in g[k - 1]}]

LEMMA ValidationsExist ==
    ASSUME NEW params, NEW schemas, NEW n \in Nat
    PROVE  \E g : Validates(params, schemas, n, g)
<1> DEFINE T == {k \in Nat : \E g : Validates(params, schemas, k, g)}
<1>1. 0 \in T
  <2> DEFINE g == [i \in 0 .. 0 |-> {params}]
  <2>1. Validates(params, schemas, 0, g)
    BY DEF Validates
  <2> QED
    BY <2>1
<1>2. ASSUME NEW k \in T PROVE k + 1 \in T
  <2>1. PICK g : Validates(params, schemas, k, g)
    OBVIOUS
  <2> DEFINE Step(u, i) == IF i = 0 THEN {params}
                           ELSE UNION {Validated(schemas[i], p) : p \in u[i - 1]}
             h == [i \in 0 .. k + 1 |-> Step(g, i)]
  <2>2. \A i \in 0 .. k : h[i] = g[i]
    <3>1. g = [i \in 0 .. k |-> Step(g, i)]
      BY <2>1, Zenon DEF Validates
    <3>2. k \in Nat
      OBVIOUS
    <3> HIDE DEF Step, T
    <3> QED
      BY <3>1, <3>2
  <2>3. \A i \in 0 .. k + 1 : Step(h, i) = Step(g, i)
    <3> SUFFICES ASSUME NEW i \in 0 .. k + 1 PROVE Step(h, i) = Step(g, i)
      OBVIOUS
    <3> HIDE DEF h
    <3>1. CASE i = 0
      BY <3>1, Zenon
    <3>2. CASE i # 0
      <4>1. i - 1 \in 0 .. k
        BY <3>2
      <4>2. h[i - 1] = g[i - 1]
        BY <2>2, <4>1
      <4> QED
        BY <3>2, <4>2, Zenon
    <3> QED
      BY <3>1, <3>2
  <2>4. h = [i \in 0 .. k + 1 |-> Step(h, i)]
    <3> HIDE DEF Step
    <3> QED
      BY <2>3
  <2>5. Validates(params, schemas, k + 1, h)
    BY <2>4, Zenon DEF Validates
  <2>6. k + 1 \in Nat
    OBVIOUS
  <2> HIDE DEF h
  <2> QED
    BY <2>5, <2>6
<1>3. \A k \in Nat : k \in T
  <2>1. T \in SUBSET Nat
    OBVIOUS
  <2> HIDE DEF T
  <2> QED
    BY <1>1, <1>2, <2>1, Induction
<1> QED
  BY <1>3

\* What has passed every schema is, for each of them, its default or a value
\* of its type within its constraints.
LEMMA ParamsAreValued ==
    ASSUME NEW params, NEW schemas, Len(schemas) \in Nat, DOMAIN schemas = 1 .. Len(schemas),
           \A i, j \in DOMAIN schemas : schemas[i].name = schemas[j].name => i = j,
           NEW q \in validateParams(params, schemas),
           NEW j \in DOMAIN schemas, schemas[j].name \in DOMAIN q
    PROVE  Valued(schemas[j], q[schemas[j].name])
<1> DEFINE n == Len(schemas)
           Good(k, p) == \A i \in 1 .. k : schemas[i].name \in DOMAIN p =>
                                            Valued(schemas[i], p[schemas[i].name])
<1>1. PICK g : Validates(params, schemas, n, g) /\ validateParams(params, schemas) = g[n]
  <2> DEFINE h == CHOOSE f : Validates(params, schemas, n, f)
  <2>1. Validates(params, schemas, n, h)
    BY ValidationsExist
  <2>2. validateParams(params, schemas) = h[n]
    BY Zenon DEF validateParams, Validates
  <2> HIDE DEF h
  <2> QED
    BY <2>1, <2>2
<1>2. /\ g[0] = {params}
      /\ \A k \in 1 .. n : g[k] = UNION {Validated(schemas[k], p) : p \in g[k - 1]}
  <2> DEFINE Step(i) == IF i = 0 THEN {params}
                        ELSE UNION {Validated(schemas[i], p) : p \in g[i - 1]}
  <2>1. g = [i \in 0 .. n |-> Step(i)]
    BY <1>1, Zenon DEF Validates
  <2>2. Step(0) = {params}
    OBVIOUS
  <2>3. \A k \in 1 .. n : Step(k) = UNION {Validated(schemas[k], p) : p \in g[k - 1]}
    OBVIOUS
  <2> HIDE DEF Step
  <2>4. g[0] = Step(0) /\ \A k \in 1 .. n : g[k] = Step(k)
    BY <2>1
  <2> QED
    BY <2>2, <2>3, <2>4, Zenon
<1> DEFINE T == {k \in Nat : k <= n => \A p \in g[k] : Good(k, p)}
<1>3. 0 \in T
  OBVIOUS
<1>4. ASSUME NEW k \in T PROVE k + 1 \in T
  <2> SUFFICES ASSUME k + 1 <= n, NEW p \in g[k + 1], NEW i \in 1 .. k + 1,
                      schemas[i].name \in DOMAIN p
               PROVE  Valued(schemas[i], p[schemas[i].name])
    OBVIOUS
  <2>1. k + 1 \in 1 .. n /\ (k + 1) - 1 = k /\ k <= n /\ k \in Nat
    OBVIOUS
  <2>2. PICK r \in g[k] : p \in Validated(schemas[k + 1], r)
    <3>1. g[k + 1] = UNION {Validated(schemas[k + 1], r) : r \in g[k]}
      BY <1>2, <2>1
    <3> QED
      BY ONLY <3>1, p \in g[k + 1]
  <2>3. Good(k, r)
    BY <2>1
  <2>4. CASE i = k + 1
    BY <2>2, <2>4, ValidatedFacts
  <2>5. CASE i # k + 1
    <3>1. i \in 1 .. k /\ i \in DOMAIN schemas /\ k + 1 \in DOMAIN schemas
      BY <2>1, <2>5
    <3>2. schemas[i].name # schemas[k + 1].name
      BY <2>5, <3>1
    <3>3. schemas[i].name \in DOMAIN r /\ p[schemas[i].name] = r[schemas[i].name]
      BY <2>2, <3>2, ValidatedFacts
    <3> QED
      BY <2>3, <3>1, <3>3
  <2> QED
    BY <2>4, <2>5
<1>5. \A k \in Nat : k \in T
  <2>1. T \in SUBSET Nat
    OBVIOUS
  <2> HIDE DEF T
  <2> QED
    BY <1>3, <1>4, <2>1, Induction
<1>6. q \in g[n] /\ n \in T /\ j \in 1 .. n
  BY <1>1, <1>5
<1> QED
  BY <1>6

\* Such a value has the type of the schema, unless it is a default of NaN.
LEMMA ValuedFits ==
    ASSUME NEW s, s.type \in ParamTypes, s.default # Absent => parseDefaultValue(s),
           NEW v, Valued(s, v), ~(v = s.default /\ s.default = Number("float", "NaN"))
    PROVE  HasType(v, s.type)
<1>1. CASE s.default # Absent /\ v = s.default
  <2>1. CASE s.type \in {"string", "boolean", "string[]"}
    BY <1>1, <2>1 DEF parseDefaultValue, HasType
  <2>2. CASE s.type = "int"
    <3>1. PICK n \in WholeNumerals : v = Number("int", n)
      BY <1>1, <2>2 DEF parseDefaultValue
    <3> QED
      BY <2>2, <3>1 DEF HasType, Number
  <2>3. CASE s.type = "float"
    <3>1. PICK n \in Numerals \cup {"NaN"} : v = Number("float", n)
      BY <1>1, <2>3 DEF parseDefaultValue
    <3>2. n \in Numerals
      BY <1>1, <3>1
    <3>3. v.type = "float" /\ v.is \in Numerals
      BY <3>1, <3>2 DEF Number
    <3> QED
      BY <2>3, <3>3 DEF HasType
  <2> QED
    BY <2>1, <2>2, <2>3 DEF ParamTypes
<1>2. ASSUME NEW w, v \in convertParamType(w, s.type) PROVE HasType(v, s.type)
  <2>1. CASE s.type = "string"
    BY <1>2, <2>1 DEF convertParamType, convertString, HasType
  <2>2. CASE s.type = "int"
    <3>1. v \in convertInt(w)
      BY <1>2, <2>2 DEF convertParamType
    <3>2. v.type = "int"
      BY <3>1 DEF convertInt, Number
    <3> QED
      BY <2>2, <3>2 DEF HasType
  <2>3. CASE s.type = "float"
    <3>1. v \in convertFloat(w)
      BY <1>2, <2>3 DEF convertParamType
    <3>2. \E n \in Numerals : v = Number("float", n)
      <4>1. \A n \in Numerals : float64Of(n) \in Numerals
        BY DEF float64Of, Numerals
      <4>2. \E n \in Numerals : v = Number("float", float64Of(n))
        BY <3>1 DEF convertFloat, Parsed
      <4> QED
        BY <4>1, <4>2
    <3>3. v.type = "float" /\ v.is \in Numerals
      BY <3>2 DEF Number
    <3> QED
      BY <2>3, <3>3 DEF HasType
  <2>4. CASE s.type = "boolean"
    BY <1>2, <2>4 DEF convertParamType, convertBoolean, HasType
  <2>5. CASE s.type = "string[]"
    BY <1>2, <2>5 DEF convertParamType, convertStringSlice, HasType
  <2> QED
    BY <2>1, <2>2, <2>3, <2>4, <2>5 DEF ParamTypes
<1> QED
  BY <1>1, <1>2 DEF Valued

\* A pipeline of one function.
LEMMA PipedOnce ==
    ASSUME NEW v, NEW fn
    PROVE  Piped(v, <<fn>>) = Apply(fn, v)
<1> DEFINE fns == <<fn>>
<1>1. Len(fns) = 1 /\ fns[1] = fn
  OBVIOUS
<1> HIDE DEF fns
<1>2. PICK g : Pipes(v, fns, 1, g) /\ Piped(v, fns) = g[1]
  BY <1>1, PipedIs
<1> DEFINE Step(i) == IF i = 0 THEN {v} ELSE UNION {Apply(fns[i], w) : w \in g[i - 1]}
<1>3. g = [i \in 0 .. 1 |-> Step(i)]
  BY <1>2, Zenon DEF Pipes
<1>4. Step(0) = {v} /\ Step(1) = UNION {Apply(fns[1], w) : w \in g[0]}
  OBVIOUS
<1> HIDE DEF Step
<1>5. g[0] = Step(0) /\ g[1] = Step(1)
  BY <1>3
<1>6. g[0] = {v} /\ Piped(v, fns) = UNION {Apply(fn, w) : w \in g[0]}
  BY <1>1, <1>2, <1>4, <1>5
<1> QED
  BY <1>6 DEF fns

\* A part whose functions suit its parameter gives a text, but for the cases
\* that ValidatedRenders names.
LEMMA PartGivesText ==
    ASSUME NEW part, part.param # Absent, Len(part.fns) \in Nat, NEW params,
           part.param \in DOMAIN params,
           NEW s, s.type \in ParamTypes, s.default # Absent => parseDefaultValue(s),
           Suits(part.fns, s), Valued(s, params[part.param]),
           ~(params[part.param] = s.default /\ s.default = Number("float", "NaN")),
           ~(part.fns = <<"safeInList">> /\ params[part.param].items = <<>>)
    PROVE  Evaluate(part, params) # {}
<1> DEFINE v == params[part.param]
           fns == part.fns
<1>1. Evaluate(part, params) = {Sprint(w) : w \in Piped(v, fns)}
  BY DEF Evaluate
<1>2. HasType(v, s.type)
  BY ValuedFits
<1> SUFFICES Piped(v, fns) # {}
  BY <1>1
<1>3. CASE Typed(fns, s.type)
  BY <1>2, <1>3, PipelineTakes
<1>4. CASE fns = <<"safeInList">> /\ s.type = "string[]"
  <2>1. v.type = "list" /\ \A i \in DOMAIN v.items : v.items[i].type = "string"
    BY <1>2, <1>4 DEF HasType
  <2>2. v.items # <<>>
    BY <1>4
  <2> HIDE DEF v
  <2>3. v \in {l \in convertStringSlice(v) : l.items # <<>>}
    BY <2>1, <2>2 DEF convertStringSlice
  <2>4. safeInList(v) # {}
    BY <2>3 DEF safeInList
  <2>5. Apply("safeInList", v) # {}
    BY <2>4 DEF Apply
  <2> QED
    BY <1>4, <2>5, PipedOnce
<1>5. CASE /\ fns = <<"safeIdentifier">> /\ s.type = "string" /\ s.default = Absent
           /\ s.enum # {} /\ \A e \in s.enum : safeIdentifier(Text(e)) # {}
  <2>1. v.type = "string"
    BY <1>2, <1>5 DEF HasType
  <2>2. Sprint(v) \in s.enum
    <3>1. validateConstraints(s, v)
      BY <1>5 DEF Valued
    <3> QED
      BY <1>5, <3>1 DEF validateConstraints
  <2> HIDE DEF v
  <2>3. Sprint(v) = v.chars /\ Sprint(Text(v.chars)) = v.chars
    BY <2>1 DEF Sprint, Text
  <2>4. safeIdentifier(v) = safeIdentifier(Text(v.chars))
    BY <2>3, Zenon DEF safeIdentifier
  <2>5. safeIdentifier(v) # {}
    BY <1>5, <2>2, <2>3, <2>4
  <2>6. Apply("safeIdentifier", v) # {}
    BY <2>5 DEF Apply
  <2> QED
    BY <1>5, <2>6, PipedOnce
<1> QED
  BY <1>3, <1>4, <1>5 DEF Suits

\* ValidatedRenders follows from where the parameters come from.
LEMMA ValidRenders == RenderedFromValid => ValidatedRenders
<1> DEFINE schemas == request.template.schemas
           parts == request.template.parts
<1> SUFFICES ASSUME RenderedFromValid, job.at = "render failed"
             PROVE  ValidatedRenders
  BY DEF ValidatedRenders
<1>1. PICK i \in DOMAIN parts : Evaluate(parts[i], job.params) = {}
  BY DEF RenderedFromValid
<1>2. job.params \in validateParams(request.params, schemas)
  BY DEF RenderedFromValid
<1> DEFINE part == parts[i]
<1>3. part.param # Absent
  BY <1>1 DEF Evaluate
<1>4. PICK r \in TemplateRequests : request.template = r.template
  BY DEF RenderedFromValid
<1>5. /\ Len(schemas) \in Nat /\ DOMAIN schemas = 1 .. Len(schemas)
      /\ \A j \in DOMAIN schemas :
            /\ schemas[j].type \in ParamTypes
            /\ schemas[j].default # Absent => parseDefaultValue(schemas[j])
            /\ \A k \in DOMAIN schemas : schemas[j].name = schemas[k].name => j = k
      /\ Len(part.fns) \in Nat
      /\ \E j \in DOMAIN schemas : schemas[j].name = part.param /\ Suits(part.fns, schemas[j])
  <2>1. schemas = r.template.schemas /\ parts = r.template.parts
    BY <1>4
  <2>2. /\ Len(r.template.schemas) \in Nat
        /\ DOMAIN r.template.schemas = 1 .. Len(r.template.schemas)
        /\ \A j \in DOMAIN r.template.schemas :
              /\ r.template.schemas[j].type \in ParamTypes
              /\ r.template.schemas[j].default # Absent =>
                    parseDefaultValue(r.template.schemas[j])
              /\ \A k \in DOMAIN r.template.schemas :
                    r.template.schemas[j].name = r.template.schemas[k].name => j = k
    BY ONLY TemplatesFit, r \in TemplateRequests, Zenon
  <2>3. \A n \in DOMAIN r.template.parts : r.template.parts[n].param # Absent =>
           /\ Len(r.template.parts[n].fns) \in Nat
           /\ \E j \in DOMAIN r.template.schemas :
                 /\ r.template.schemas[j].name = r.template.parts[n].param
                 /\ Suits(r.template.parts[n].fns, r.template.schemas[j])
    BY ONLY TemplatesFit, r \in TemplateRequests, Zenon
  <2> HIDE DEF schemas, parts
  <2> QED
    BY ONLY <1>1, <1>3, <2>1, <2>2, <2>3, Zenon
<1>6. PICK j \in DOMAIN schemas : schemas[j].name = part.param /\ Suits(part.fns, schemas[j])
  BY <1>5
<1> DEFINE s == schemas[j]
<1> SUFFICES ASSUME part.param \in DOMAIN job.params,
                    ~(part.fns = <<"safeInList">> /\ job.params[part.param].items = <<>>),
                    ~(s.default = Number("float", "NaN") /\ job.params[part.param] = s.default)
             PROVE  FALSE
  BY <1>1, <1>3, <1>6 DEF ValidatedRenders
<1>7. Valued(s, job.params[part.param])
  <2> DEFINE q == job.params
  <2>1. s.name \in DOMAIN q /\ q \in validateParams(request.params, schemas)
    BY <1>2, <1>6
  <2>2. \A k, l \in DOMAIN schemas : schemas[k].name = schemas[l].name => k = l
    BY <1>5
  <2> HIDE DEF q, schemas
  <2>3. Valued(schemas[j], q[schemas[j].name])
    BY <1>5, <2>1, <2>2, ParamsAreValued
  <2> QED
    BY <1>6, <2>3 DEF q
<1>8. s.type \in ParamTypes /\ (s.default # Absent => parseDefaultValue(s))
  BY <1>5
<1> HIDE DEF part, s
<1>9. Evaluate(part, job.params) # {}
  <2> DEFINE params == job.params
  <2> HIDE DEF params
  <2>1. /\ part.param # Absent /\ Len(part.fns) \in Nat /\ part.param \in DOMAIN params
        /\ Suits(part.fns, s) /\ Valued(s, params[part.param])
        /\ ~(params[part.param] = s.default /\ s.default = Number("float", "NaN"))
        /\ ~(part.fns = <<"safeInList">> /\ params[part.param].items = <<>>)
    BY <1>3, <1>5, <1>6, <1>7 DEF params, s
  <2>2. Evaluate(part, params) # {}
    BY <1>8, <2>1, PartGivesText
  <2> QED
    BY <2>2 DEF params
<1> QED
  BY <1>1, <1>9 DEF part

\* A step that keeps the request and leaves the call where neither is said of it.
LEMMA ElsewhereFromValid ==
    ASSUME RenderedFromValid, UNCHANGED request, job'.at \notin {"render", "render failed"}
    PROVE  RenderedFromValid'
BY DEF RenderedFromValid

\* The call is refused for another reason.
LEMMA RefuseFromValid ==
    ASSUME RenderedFromValid, "at" \in DOMAIN job, NEW why, Refuse(why),
           why \notin {"render", "render failed"}
    PROVE  RenderedFromValid'
<1>1. UNCHANGED request /\ job'.at = why
  BY DEF Refuse
<1> QED
  BY <1>1, ElsewhereFromValid

\* The steps keep it.
LEMMA FromValidNext ==
    ASSUME RenderTypeOK, RenderedFromValid, [RenderNext]_renderVars
    PROVE  RenderedFromValid'
<1> DEFINE Fields == {"at", "params", "sql", "pos", "mode", "out", "reply"}
           valid == validateParams(request.params, request.template.schemas)
<1>0. DOMAIN job = Fields /\ "at" \in DOMAIN job
  BY DEF RenderTypeOK
<1>1. CASE ValidateRequest
  <2>1. CASE Refuse("invalid")
    BY <1>0, <2>1, RefuseFromValid
  <2>2. CASE ~Refuse("invalid")
    <3>1. PICK p \in valid : /\ job' = [job EXCEPT !.at = "render", !.params = p]
                             /\ UNCHANGED <<request, found, seen>>
      BY <1>1, <2>2 DEF ValidateRequest
    <3>2. job'.at = "render" /\ job'.params = p
      BY <1>0, <3>1
    <3> QED
      BY <3>1, <3>2 DEF RenderedFromValid
  <2> QED
    BY <2>1, <2>2
<1>2. CASE RenderTemplate
  <2> DEFINE texts == TemplateExecute(request.template.parts, job.params)
             sql == Trimmed(CHOOSE s \in texts : TRUE)
  <2>1. job.at = "render"
    BY <1>2 DEF RenderTemplate
  <2>2. \/ texts = {} /\ Refuse("render failed")
        \/ Refuse("empty") \/ Refuse("unsafe")
        \/ job' = [job EXCEPT !.at = "scan", !.sql = sql] /\ UNCHANGED <<request, found, seen>>
    BY <1>2, Zenon DEF RenderTemplate
  <2>3. CASE texts = {} /\ Refuse("render failed")
    <3>1. UNCHANGED request /\ job'.at = "render failed" /\ job'.params = job.params
      BY <1>0, <2>3 DEF Refuse
    <3>2. \E i \in DOMAIN request.template.parts :
             Evaluate(request.template.parts[i], job.params) = {}
      BY <2>3 DEF TemplateExecute
    <3> QED
      BY <2>1, <3>1, <3>2 DEF RenderedFromValid
  <2>4. CASE Refuse("empty") \/ Refuse("unsafe")
    BY <1>0, <2>4, RefuseFromValid
  <2>5. CASE /\ job' = [job EXCEPT !.at = "scan", !.sql = sql]
             /\ UNCHANGED <<request, found, seen>>
    <3> HIDE DEF sql
    <3>1. job'.at = "scan"
      BY <1>0, <2>5
    <3> QED
      BY <2>5, <3>1, ElsewhereFromValid
  <2> QED
    BY <2>2, <2>3, <2>4, <2>5
<1>3. CASE RenderTimesOut
  BY <1>0, <1>3, RefuseFromValid DEF RenderTimesOut
<1>4. CASE Scan
  <2> DEFINE turn == ScanTurn(job.mode,
                       SubSeq(job.sql, job.pos, Min({job.pos + 2, Len(job.sql)})))
  <2>1. /\ job.at = "scan"
        /\ \/ Refuse("unsafe")
           \/ /\ job' = [job EXCEPT !.pos = @ + turn.eaten, !.mode = turn.mode,
                                    !.out = @ \o turn.emit]
              /\ UNCHANGED <<request, found, seen>>
    BY <1>4 DEF Scan
  <2> HIDE DEF turn
  <2>2. CASE Refuse("unsafe")
    BY <1>0, <2>2, RefuseFromValid
  <2>3. CASE ~Refuse("unsafe")
    <3>1. job'.at = "scan" /\ UNCHANGED request
      BY <1>0, <2>1, <2>3
    <3> QED
      BY <3>1, ElsewhereFromValid
  <2> QED
    BY <2>2, <2>3
<1>5. CASE ScanEnds
  <2>1. Refuse("unsafe") \/ (job' = [job EXCEPT !.at = "clean"] /\ UNCHANGED <<request, found, seen>>)
    BY <1>5 DEF ScanEnds
  <2>2. job'.at \in {"unsafe", "clean"} /\ UNCHANGED request
    BY <1>0, <2>1 DEF Refuse
  <2> QED
    BY <2>2, ElsewhereFromValid
<1>6. CASE RunTemplate
  <2>1. UNCHANGED request /\ job'.at \in {"invalid", "query failed", "panic", "answered"}
    BY <1>0, <1>6 DEF RunTemplate, Refuse
  <2> QED
    BY <2>1, ElsewhereFromValid
<1>7. CASE NextTemplatePage
  <2>1. request'.template = request.template /\ request'.params = request.params
    BY <1>7 DEF NextTemplatePage, RenderTypeOK
  <2>2. job'.at = "idle"
    BY <1>7 DEF NextTemplatePage, NoCall
  <2> QED
    BY <2>1, <2>2 DEF RenderedFromValid
<1>8. CASE UNCHANGED renderVars
  BY <1>8 DEF renderVars, RenderedFromValid
<1> QED
  BY <1>1, <1>2, <1>3, <1>4, <1>5, <1>6, <1>7, <1>8 DEF RenderNext

LEMMA FromValidInit ==
    ASSUME NEW requests, requests \subseteq TemplateRequests, NEW sizes,
           BeforeRender(requests, sizes)
    PROVE  RenderedFromValid
BY DEF BeforeRender, NoCall, RenderedFromValid

\* Parameters that validateParams lets through render, whatever the client
\* sends, for any number of schemas and parts and pipelines of any length, but
\* for the three cases the property names.
THEOREM TemplateValidatedRenders == RenderSpec => []ValidatedRenders
<1>1. RenderInit => RenderInv /\ RenderedFromValid
  BY RenderInitInv, FromValidInit DEF RenderInit
<1>2. RenderInv => RenderTypeOK
  BY DEF RenderInv
<1>3. RenderInv /\ RenderedFromValid /\ [RenderNext]_renderVars
         => RenderInv' /\ RenderedFromValid'
  BY <1>2, RenderNextInv, FromValidNext
<1> QED
  BY <1>1, <1>3, ValidRenders, PTL DEF RenderSpec

-----------------------------------------------------------------------------
(* Template queries: what the database reads                               *)

\* The states of a reader after each character.
Reads(sql, n, g) ==
    g = [k \in 0 .. n |-> IF k = 0 THEN NothingRead ELSE ReadChar(g[k - 1], sql[k])]

LEMMA ReadingsExist ==
    ASSUME NEW sql, NEW n \in Nat
    PROVE  \E g : Reads(sql, n, g)
<1> DEFINE T == {k \in Nat : \E g : Reads(sql, k, g)}
<1>1. 0 \in T
  <2> DEFINE g == [i \in 0 .. 0 |-> NothingRead]
  <2>1. Reads(sql, 0, g)
    BY DEF Reads
  <2> QED
    BY <2>1
<1>2. ASSUME NEW k \in T PROVE k + 1 \in T
  <2>1. PICK g : Reads(sql, k, g)
    OBVIOUS
  <2> DEFINE Step(u, i) == IF i = 0 THEN NothingRead ELSE ReadChar(u[i - 1], sql[i])
             h == [i \in 0 .. k + 1 |-> Step(g, i)]
  <2>2. \A i \in 0 .. k : h[i] = g[i]
    <3>1. g = [i \in 0 .. k |-> Step(g, i)]
      BY <2>1, Zenon DEF Reads
    <3>2. k \in Nat
      OBVIOUS
    <3> HIDE DEF Step, T
    <3> QED
      BY <3>1, <3>2
  <2>3. \A i \in 0 .. k + 1 : Step(h, i) = Step(g, i)
    <3> SUFFICES ASSUME NEW i \in 0 .. k + 1 PROVE Step(h, i) = Step(g, i)
      OBVIOUS
    <3> HIDE DEF h
    <3>1. CASE i = 0
      BY <3>1, Zenon
    <3>2. CASE i # 0
      <4>1. i - 1 \in 0 .. k
        BY <3>2
      <4>2. h[i - 1] = g[i - 1]
        BY <2>2, <4>1
      <4> QED
        BY <3>2, <4>2, Zenon
    <3> QED
      BY <3>1, <3>2
  <2>4. h = [i \in 0 .. k + 1 |-> Step(h, i)]
    <3> HIDE DEF Step
    <3> QED
      BY <2>3
  <2>5. Reads(sql, k + 1, h)
    BY <2>4, Zenon DEF Reads
  <2>6. k + 1 \in Nat
    OBVIOUS
  <2> HIDE DEF h
  <2> QED
    BY <2>5, <2>6
<1>3. \A k \in Nat : k \in T
  <2>1. T \in SUBSET Nat
    OBVIOUS
  <2> HIDE DEF T
  <2> QED
    BY <1>1, <1>2, <2>1, Induction
<1> QED
  BY <1>3

\* What a reader of a text has read at each character.
LEMMA ReadsFacts ==
    ASSUME NEW sql, NEW n \in Nat, NEW g, Reads(sql, n, g)
    PROVE  g[0] = NothingRead /\ \A k \in 1 .. n : g[k] = ReadChar(g[k - 1], sql[k])
<1> DEFINE Step(i) == IF i = 0 THEN NothingRead ELSE ReadChar(g[i - 1], sql[i])
<1>1. g = [i \in 0 .. n |-> Step(i)]
  BY Zenon DEF Reads
<1>2. Step(0) = NothingRead /\ \A k \in 1 .. n : Step(k) = ReadChar(g[k - 1], sql[k])
  OBVIOUS
<1> HIDE DEF Step
<1>3. g[0] = Step(0) /\ \A k \in 1 .. n : g[k] = Step(k)
  BY <1>1
<1> QED
  BY <1>2, <1>3, Zenon

LEMMA ReadingIs ==
    ASSUME NEW sql, Len(sql) \in Nat
    PROVE  \E g : Reads(sql, Len(sql), g) /\ Reading(sql) = g[Len(sql)]
<1> DEFINE g == CHOOSE h : Reads(sql, Len(sql), h)
<1>1. Reads(sql, Len(sql), g)
  BY ReadingsExist
<1>2. Reading(sql) = g[Len(sql)]
  BY Zenon DEF Reading, Reads
<1> HIDE DEF g
<1> QED
  BY <1>1, <1>2

\* Two readers of texts with the same beginning have read the same.
LEMMA ReadersAgree ==
    ASSUME NEW s, NEW t, NEW n \in Nat, NEW m \in Nat, n <= m, \A k \in 1 .. n : s[k] = t[k],
           NEW g, Reads(s, n, g), NEW h, Reads(t, m, h)
    PROVE  g[n] = h[n]
<1> DEFINE T == {k \in Nat : k <= n => g[k] = h[k]}
<1>1. 0 \in T
  BY ReadsFacts
<1>2. ASSUME NEW k \in T PROVE k + 1 \in T
  <2> SUFFICES ASSUME k + 1 <= n PROVE g[k + 1] = h[k + 1]
    OBVIOUS
  <2>1. k + 1 \in 1 .. n /\ k + 1 \in 1 .. m /\ (k + 1) - 1 = k /\ g[k] = h[k]
    OBVIOUS
  <2>2. g[k + 1] = ReadChar(g[k], s[k + 1]) /\ h[k + 1] = ReadChar(h[k], t[k + 1])
    BY <2>1, ReadsFacts
  <2> QED
    BY <2>1, <2>2
<1>3. \A k \in Nat : k \in T
  <2>1. T \in SUBSET Nat
    OBVIOUS
  <2> HIDE DEF T
  <2> QED
    BY <1>1, <1>2, <2>1, Induction
<1> QED
  BY <1>3

\* Nothing is read of nothing, and one more character is one more step.
LEMMA ReadingFacts ==
    ASSUME NEW U, NEW s \in Seq(U), NEW c \in U
    PROVE  Reading(s \o <<c>>) = ReadChar(Reading(s), c)
<1> DEFINE n == Len(s)
           t == s \o <<c>>
<1>1. n \in Nat /\ Len(t) = n + 1 /\ \A k \in 1 .. n : t[k] = s[k]
  OBVIOUS
<1>2. t[n + 1] = c
  OBVIOUS
<1> HIDE DEF t, n
<1>3. n + 1 \in Nat /\ n <= n + 1 /\ n + 1 \in 1 .. n + 1 /\ (n + 1) - 1 = n
  BY <1>1
<1>4. PICK g : Reads(s, n, g) /\ Reading(s) = g[n]
  BY <1>1, ReadingIs DEF n
<1>5. PICK h : Reads(t, n + 1, h) /\ Reading(t) = h[n + 1]
  BY <1>1, <1>3, ReadingIs
<1>6. g[n] = h[n]
  BY <1>1, <1>3, <1>4, <1>5, ReadersAgree
<1>7. h[n + 1] = ReadChar(h[n], t[n + 1])
  BY <1>3, <1>5, ReadsFacts
<1> QED
  BY <1>2, <1>4, <1>5, <1>6, <1>7 DEF t

LEMMA NothingIsRead == Reading(<<>>) = NothingRead
<1>1. Len(<<>>) = 0 /\ 0 \in Nat
  OBVIOUS
<1>2. PICK g : Reads(<<>>, 0, g) /\ Reading(<<>>) = g[0]
  BY <1>1, ReadingIs
<1> QED
  BY <1>1, <1>2, ReadsFacts

\* The parts of what was read, and a reading of such parts.
LEMMA ReadingParts ==
    ASSUME NEW sql
    PROVE  /\ \A st \in Readings(sql) :
                 /\ st.mode \in {"normal", "maybe", "string", "escape"}
                 /\ st.lit \in Seq(Written(sql)) /\ st.tokens \in Seq(TokensOf(sql))
                 /\ \A m : [st EXCEPT !.mode = m] =
                              [mode |-> m, lit |-> st.lit, tokens |-> st.tokens]
                 /\ \A m, l : [st EXCEPT !.mode = m, !.lit = l] =
                                 [mode |-> m, lit |-> l, tokens |-> st.tokens]
                 /\ \A t : [st EXCEPT !.tokens = t] =
                              [mode |-> st.mode, lit |-> st.lit, tokens |-> t]
           /\ \A m \in {"normal", "maybe", "string", "escape"}, l \in Seq(Written(sql)),
                 t \in Seq(TokensOf(sql)) :
                 [mode |-> m, lit |-> l, tokens |-> t] \in Readings(sql)
<1> DEFINE L == Seq(Written(sql))
           T == Seq(TokensOf(sql))
<1>1. Readings(sql) = [mode : {"normal", "maybe", "string", "escape"}, lit : L, tokens : T]
  BY Zenon DEF Readings
<1> HIDE DEF L, T
<1>2. \A st \in Readings(sql) :
         /\ st.mode \in {"normal", "maybe", "string", "escape"}
         /\ st.lit \in L /\ st.tokens \in T
         /\ DOMAIN st = {"mode", "lit", "tokens"}
  BY ONLY <1>1
<1>3. ASSUME NEW st \in Readings(sql)
      PROVE  /\ \A m : [st EXCEPT !.mode = m] =
                          [mode |-> m, lit |-> st.lit, tokens |-> st.tokens]
             /\ \A m, l : [st EXCEPT !.mode = m, !.lit = l] =
                             [mode |-> m, lit |-> l, tokens |-> st.tokens]
             /\ \A t : [st EXCEPT !.tokens = t] =
                          [mode |-> st.mode, lit |-> st.lit, tokens |-> t]
  <2>1. st = [mode |-> st.mode, lit |-> st.lit, tokens |-> st.tokens]
    BY ONLY <1>1, st \in Readings(sql)
  <2>2. PICK a, b, d : st = [mode |-> a, lit |-> b, tokens |-> d]
    BY <2>1, Zenon
  <2>3. st.mode = a /\ st.lit = b /\ st.tokens = d
    BY ONLY <2>2
  <2>4. \A m : [st EXCEPT !.mode = m] = [mode |-> m, lit |-> b, tokens |-> d]
    BY ONLY <2>2
  <2>5. ASSUME NEW m, NEW l
        PROVE  [st EXCEPT !.mode = m, !.lit = l] = [mode |-> m, lit |-> l, tokens |-> d]
    <3> DEFINE u == [st EXCEPT !.mode = m, !.lit = l]
    <3>1. DOMAIN u = {"mode", "lit", "tokens"} /\ u.mode = m /\ u.lit = l /\ u.tokens = d
      BY ONLY <2>2
    <3>2. u = [x \in DOMAIN u |-> u[x]]
      BY ONLY <2>2
    <3> HIDE DEF u
    <3>3. u = [mode |-> m, lit |-> l, tokens |-> d]
      BY ONLY <3>1, <3>2
    <3> QED
      BY <3>3 DEF u
  <2>6. \A t : [st EXCEPT !.tokens = t] = [mode |-> a, lit |-> b, tokens |-> t]
    BY ONLY <2>2
  <2> QED
    BY <2>3, <2>4, <2>5, <2>6, Zenon
<1>4. \A m \in {"normal", "maybe", "string", "escape"}, l \in L, t \in T :
         [mode |-> m, lit |-> l, tokens |-> t] \in Readings(sql)
  BY ONLY <1>1
<1> QED
  BY <1>2, <1>3, <1>4, Zenon DEF L, T

\* A token is a string, or a character other than the separator.
LEMMA TokenFacts ==
    ASSUME NEW sql
    PROVE  /\ \A l \in Seq(Written(sql)) : Token(TRUE, l) \in TokensOf(sql)
           /\ \A c \in Written(sql) : c # ";" => Token(FALSE, <<c>>) \in TokensOf(sql)
<1> DEFINE W == Written(sql)
           L == Seq(W)
<1>1. \A c \in W : <<c>> \in L /\ (c # ";" => <<c>> # <<";">>)
  <2>1. \A c \in W : <<c>> \in L
    BY ONLY TRUE
  <2>2. \A c : <<c>> = <<";">> => c = ";"
    <3>1. \A c : <<c>>[1] = c
      BY ONLY TRUE
    <3> QED
      BY ONLY <3>1, Zenon
  <2> QED
    BY <2>1, <2>2, Zenon
<1>2. TokensOf(sql) = [lit : BOOLEAN, chars : L] \ {[lit |-> FALSE, chars |-> <<";">>]}
  BY Zenon DEF TokensOf, Separator, Token
<1> HIDE DEF W, L
<1>3. \A b \in BOOLEAN, l \in L :
         b = TRUE \/ l # <<";">> => [lit |-> b, chars |-> l] \in TokensOf(sql)
  BY ONLY <1>2
<1> QED
  BY <1>1, <1>3, Zenon DEF Token, W, L

\* What the database makes of one more character, and where it stands then.
Passes(sql, st, c, next) ==
    /\ next \in Readings(sql)
    /\ st.mode = "string" => next.mode = IF c = "\\" THEN "escape"
                                         ELSE IF c = "'" THEN "maybe" ELSE "string"
    /\ st.mode = "escape" => next.mode = "string"
    /\ st.mode \in {"normal", "maybe"} => next.mode = IF c = "'" THEN "string" ELSE "normal"

LEMMA ReadCharFacts ==
    ASSUME NEW sql, NEW st \in Readings(sql), NEW c \in Written(sql),
           c # ";" \/ st.mode \in {"string", "escape"}
    PROVE  Passes(sql, st, c, ReadChar(st, c))
<1> DEFINE Read(m, l, t) == [mode |-> m, lit |-> l, tokens |-> t]
           L == Seq(Written(sql))
           T == Seq(TokensOf(sql))
           r == ReadChar(st, c)
           one == Token(FALSE, <<c>>)
           lit == Token(TRUE, st.lit)
<1>1. /\ st.mode \in {"normal", "maybe", "string", "escape"}
      /\ st.lit \in L /\ st.tokens \in T
      /\ \A m : [st EXCEPT !.mode = m] = Read(m, st.lit, st.tokens)
      /\ \A m, l : [st EXCEPT !.mode = m, !.lit = l] = Read(m, l, st.tokens)
      /\ \A t : [st EXCEPT !.tokens = t] = Read(st.mode, st.lit, t)
  BY ReadingParts, Zenon
<1>2. \A m \in {"normal", "maybe", "string", "escape"}, l \in L, t \in T :
         Read(m, l, t) \in Readings(sql) /\ Read(m, l, t).mode = m
  BY ReadingParts, Zenon
<1>3. Append(st.lit, c) \in L /\ <<>> \in L
  <2>1. \A W : \A s \in Seq(W), x \in W : Append(s, x) \in Seq(W) /\ <<>> \in Seq(W)
    BY ONLY TRUE
  <2> QED
    BY <1>1, <2>1, Zenon
<1>4. c # ";" => Append(st.tokens, one) \in T /\ st.tokens \o <<lit, one>> \in T
  <2>1. \A W : \A s \in Seq(W), x \in W, y \in W :
           Append(s, x) \in Seq(W) /\ s \o <<y, x>> \in Seq(W)
    BY ONLY TRUE
  <2>2. lit \in TokensOf(sql) /\ (c # ";" => one \in TokensOf(sql))
    BY <1>1, TokenFacts, Zenon
  <2> QED
    BY <1>1, <2>1, <2>2, Zenon
<1>5. CASE st.mode = "string"
  <2>1. r = IF c = "\\" THEN [st EXCEPT !.mode = "escape"]
            ELSE IF c = "'" THEN [st EXCEPT !.mode = "maybe"]
            ELSE [st EXCEPT !.mode = "string", !.lit = Append(st.lit, c)]
    BY ONLY <1>5 DEF ReadChar
  <2>2. r = IF c = "\\" THEN Read("escape", st.lit, st.tokens)
            ELSE IF c = "'" THEN Read("maybe", st.lit, st.tokens)
            ELSE Read("string", Append(st.lit, c), st.tokens)
    BY <1>1, <2>1, Zenon
  <2> HIDE DEF Read, L, T, r
  <2>3. r \in Readings(sql) /\ r.mode = IF c = "\\" THEN "escape"
                                        ELSE IF c = "'" THEN "maybe" ELSE "string"
    <3>1. CASE c = "\\"
      BY <1>1, <1>2, <2>2, <3>1, Zenon
    <3>2. CASE c # "\\" /\ c = "'"
      BY <1>1, <1>2, <2>2, <3>2, Zenon
    <3>3. CASE c # "\\" /\ c # "'"
      BY <1>1, <1>2, <1>3, <2>2, <3>3, Zenon
    <3> QED
      BY <3>1, <3>2, <3>3
  <2> QED
    BY <1>5, <2>3 DEF r, Passes
<1>6. CASE st.mode = "escape"
  <2>1. r = [st EXCEPT !.mode = "string", !.lit = Append(st.lit, c)]
    BY ONLY <1>6 DEF ReadChar
  <2>2. r = Read("string", Append(st.lit, c), st.tokens)
    BY <1>1, <2>1, Zenon
  <2> HIDE DEF Read, L, T, r
  <2>3. r \in Readings(sql) /\ r.mode = "string"
    BY <1>1, <1>2, <1>3, <2>2
  <2> QED
    BY <1>6, <2>3 DEF r, Passes
<1>7. CASE st.mode = "maybe"
  <2>1. r = IF c = "'" THEN [st EXCEPT !.mode = "string", !.lit = Append(st.lit, c)]
            ELSE Read("normal", <<>>, st.tokens \o <<lit, one>>)
    BY ONLY <1>7 DEF ReadChar
  <2>2. r = IF c = "'" THEN Read("string", Append(st.lit, c), st.tokens)
            ELSE Read("normal", <<>>, st.tokens \o <<lit, one>>)
    BY <1>1, <2>1, Zenon
  <2> DEFINE both == st.tokens \o <<lit, one>>
  <2>3. both \in T
    BY <1>4, <1>7
  <2> HIDE DEF Read, L, T, r, both
  <2>4. r \in Readings(sql) /\ r.mode = IF c = "'" THEN "string" ELSE "normal"
    <3>1. CASE c = "'"
      <4>1. r = Read("string", Append(st.lit, c), st.tokens)
        BY <2>2, <3>1, Zenon
      <4> QED
        BY ONLY <1>1, <1>2, <1>3, <3>1, <4>1, ZenonT(40)
    <3>2. CASE c # "'"
      <4>1. r = Read("normal", <<>>, both)
        BY <2>2, <3>2, Zenon DEF both
      <4> QED
        BY ONLY <1>2, <1>3, <2>3, <3>2, <4>1, Zenon
    <3> QED
      BY <3>1, <3>2
  <2> QED
    BY <1>7, <2>4 DEF r, Passes
<1>8. CASE st.mode = "normal"
  <2>1. r = IF c = "'" THEN [st EXCEPT !.mode = "string"]
            ELSE [st EXCEPT !.tokens = Append(st.tokens, one)]
    BY ONLY <1>8 DEF ReadChar
  <2>2. r = IF c = "'" THEN Read("string", st.lit, st.tokens)
            ELSE Read("normal", st.lit, Append(st.tokens, one))
    BY <1>1, <1>8, <2>1, Zenon
  <2>3. Append(st.tokens, one) \in T
    BY <1>4, <1>8
  <2> HIDE DEF Read, L, T, r
  <2>4. r \in Readings(sql) /\ r.mode = IF c = "'" THEN "string" ELSE "normal"
    <3>1. CASE c = "'"
      BY <1>1, <1>2, <2>2, <3>1, Zenon
    <3>2. CASE c # "'"
      BY <1>1, <1>2, <2>2, <2>3, <3>2, Zenon
    <3> QED
      BY <3>1, <3>2
  <2> QED
    BY <1>8, <2>4 DEF r, Passes
<1> QED
  BY <1>1, <1>5, <1>6, <1>7, <1>8

\* The first two of at most three characters of a text.
LEMMA FirstTwo ==
    ASSUME NEW U, NEW s \in Seq(U), Len(s) >= 1, NEW two, two = Min({2, Len(s)})
    PROVE  /\ Len(s) >= 2 => /\ SubSeq(s, 1, two) = <<s[1], s[2]>>
                             /\ SubSeq(s, 1, 2) = <<s[1], s[2]>>
           /\ Len(s) < 2 => SubSeq(s, 1, two) = <<s[1]>> /\ Len(s) = 1
<1> DEFINE m == Len(s)
<1>0. m \in Nat /\ m >= 1
  BY ONLY s \in Seq(U), Len(s) >= 1
<1>1. m \in Nat /\ two = IF 2 <= m THEN 2 ELSE m
  BY <1>0, LeastOfTwo
<1>2. m >= 2 => SubSeq(s, 1, 2) = <<s[1], s[2]>>
  <2> SUFFICES ASSUME m >= 2 PROVE SubSeq(s, 1, 2) = <<s[1], s[2]>>
    OBVIOUS
  <2> DEFINE a == SubSeq(s, 1, 2)
             b == <<s[1], s[2]>>
  <2>0. s[1] \in U /\ s[2] \in U
    BY <1>1
  <2>1. a \in Seq(U) /\ Len(a) = 2 /\ a[1] = s[1] /\ a[2] = s[2]
    BY <1>1
  <2>2. b \in Seq(U) /\ Len(b) = 2 /\ b[1] = s[1] /\ b[2] = s[2]
    BY ONLY <2>0
  <2> HIDE DEF a, b
  <2>3. \A i \in 1 .. 2 : a[i] = b[i]
    BY ONLY <2>1, <2>2
  <2>4. a = b
    BY <2>1, <2>2, <2>3, SeqEqual
  <2> QED
    BY <2>4 DEF a, b
<1>3. SubSeq(s, 1, 1) = <<s[1]>>
  <2> DEFINE a == SubSeq(s, 1, 1)
             b == <<s[1]>>
  <2>0. s[1] \in U
    BY <1>1
  <2>1. a \in Seq(U) /\ Len(a) = 1 /\ a[1] = s[1]
    BY <1>1
  <2>2. b \in Seq(U) /\ Len(b) = 1 /\ b[1] = s[1]
    BY ONLY <2>0
  <2> HIDE DEF a, b
  <2>3. \A i \in 1 .. 1 : a[i] = b[i]
    BY ONLY <2>1, <2>2
  <2>4. a = b
    BY <2>1, <2>2, <2>3, SeqEqual
  <2> QED
    BY <2>4 DEF a, b
<1> HIDE DEF m
<1> QED
  <2>1. m >= 1 /\ (m < 2 => m = 1)
    BY ONLY <1>0
  <2>2. CASE m >= 2
    <3>1. two = 2 /\ ~(m < 2)
      BY ONLY <1>1, <2>2
    <3> QED
      BY <1>2, <2>2, <3>1, Zenon DEF m
  <2>3. CASE m < 2
    <3>1. two = 1 /\ ~(m >= 2)
      BY ONLY <1>1, <2>1, <2>3
    <3> QED
      BY <1>3, <2>1, <2>3, <3>1, Zenon DEF m
  <2> QED
    BY ONLY <1>1, <2>2, <2>3

\* What the scanner has before it.
Window(sql, pos) == SubSeq(sql, pos, Min({pos + 2, Len(sql)}))
NextTwo(ahead) == SubSeq(ahead, 1, Min({2, Len(ahead)}))

LEMMA AheadFacts ==
    ASSUME NEW sql, PlainSQL(sql), NEW pos \in 1 .. Len(sql)
    PROVE  /\ sql[pos] \in Written(sql) /\ sql[pos] \notin {"dquote", "tick"}
           /\ Window(sql, pos)[1] = sql[pos]
           /\ Window(sql, pos) # <<"/", "*", "+">>
           /\ \/ /\ pos + 1 <= Len(sql) /\ sql[pos + 1] \in Written(sql)
                 /\ NextTwo(Window(sql, pos)) = <<sql[pos], sql[pos + 1]>>
              \/ ~(pos + 1 <= Len(sql)) /\ NextTwo(Window(sql, pos)) = <<sql[pos]>>
<1> DEFINE ahead == Window(sql, pos)
           U == Range(sql)
           n == Len(sql)
           last == Min({pos + 2, n})
           two == Min({2, Len(ahead)})
<1>1. sql \in Seq(U) /\ U \subseteq Written(sql) /\ U \cap {"dquote", "tick"} = {}
  BY Zenon DEF PlainSQL, Written
<1>2. \A i \in 1 .. n - 2 : SubSeq(sql, i, i + 2) # <<"/", "*", "+">>
  BY Zenon DEF PlainSQL
<1>3. ahead = SubSeq(sql, pos, last)
  BY Zenon DEF Window
<1> HIDE DEF U, ahead
<1>4. n \in Nat /\ pos \in 1 .. n /\ \A i \in 1 .. n : sql[i] \in U
  BY ONLY <1>1, pos \in 1 .. Len(sql)
<1>5. last = IF pos + 2 <= n THEN pos + 2 ELSE n
  BY <1>4, LeastOfTwo
<1> HIDE DEF n, last, two
<1>6. last \in pos .. n
  BY ONLY <1>4, <1>5
<1>7. /\ ahead \in Seq(U) /\ Len(ahead) = last - pos + 1
      /\ \A i \in 1 .. last - pos + 1 : ahead[i] = sql[pos + i - 1]
  BY ONLY <1>1, <1>3, <1>4, <1>6 DEF n
<1>8. ahead[1] = sql[pos] /\ (pos + 1 <= n => ahead[2] = sql[pos + 1] /\ Len(ahead) >= 2)
  BY ONLY <1>4, <1>5, <1>6, <1>7
<1>9. Len(ahead) >= 1 /\ (pos + 1 > n => Len(ahead) < 2)
  BY ONLY <1>4, <1>5, <1>6, <1>7
<1>10. ahead # <<"/", "*", "+">>
  <2> SUFFICES ASSUME ahead = <<"/", "*", "+">> PROVE FALSE
    OBVIOUS
  <2>1. Len(ahead) = 3
    BY ONLY ahead = <<"/", "*", "+">>
  <2>2. last = pos + 2 /\ pos \in 1 .. n - 2
    <3>1. last - pos + 1 = 3
      BY ONLY <1>7, <2>1
    <3> QED
      BY ONLY <1>4, <1>6, <3>1
  <2> QED
    BY <1>2, <1>3, <2>2, Zenon
<1>11. /\ Len(ahead) >= 2 => SubSeq(ahead, 1, two) = <<ahead[1], ahead[2]>>
       /\ Len(ahead) < 2 => SubSeq(ahead, 1, two) = <<ahead[1]>> /\ Len(ahead) = 1
  BY <1>7, <1>9, FirstTwo DEF two
<1>12. sql[pos] \in U /\ (pos + 1 <= n => sql[pos + 1] \in U)
  BY ONLY <1>4
<1>13. /\ sql[pos] \in Written(sql) /\ sql[pos] \notin {"dquote", "tick"}
       /\ pos + 1 <= n => sql[pos + 1] \in Written(sql)
  BY ONLY <1>1, <1>12
<1>14. (pos + 1 <= n) \/ (pos + 1 > n /\ ~(pos + 1 <= n))
  BY ONLY <1>4
<1>15. \/ pos + 1 <= n /\ NextTwo(ahead) = <<sql[pos], sql[pos + 1]>>
       \/ ~(pos + 1 <= n) /\ NextTwo(ahead) = <<sql[pos]>>
  BY <1>8, <1>9, <1>11, <1>14, Zenon DEF two, NextTwo
<1> QED
  BY <1>8, <1>10, <1>13, <1>15, Zenon DEF n, ahead

-----------------------------------------------------------------------------
(* Template queries: the turns of the scanner                              *)

\* The turns of the scanner, by what it has before it.
LEMMA ScanCases ==
    ASSUME NEW ahead, NEW pair, pair = NextTwo(ahead), NEW mode
    PROVE  /\ \/ ahead[1] \in QuoteMarks /\ ScanNormal(ahead) = Turn(1, <<ahead[1]>>, ahead[1])
              \/ pair = <<"-", "-">> /\ ScanNormal(ahead) = Turn(2, <<>>, "line")
              \/ ahead = <<"/", "*", "+">>
              \/ pair = <<"/", "*">> /\ ScanNormal(ahead) = Turn(2, <<>>, "block")
              \/ ScanNormal(ahead) = Turn(1, <<>>, "unsafe")
              \/ /\ ahead[1] \notin QuoteMarks \cup {";"}
                 /\ ScanNormal(ahead) = Turn(1, <<ahead[1]>>, "normal")
           /\ ScanComment(mode, ahead) \in {Turn(1, <<"\n">>, "normal"),
                                            Turn(2, <<" ">>, "normal"), Turn(1, <<>>, mode)}
           /\ LET escapes == {<<"\\", "\\">>, <<"\\", "'">>, <<"'", "'">>}
              IN  \/ pair \in escapes /\ ScanQuoted("'", ahead) = Turn(2, pair, "'")
                  \/ /\ ahead[1] = "'" /\ ScanQuoted("'", ahead) = Turn(1, <<"'">>, "normal")
                     /\ pair \notin escapes
                  \/ /\ ahead[1] # "'" /\ ScanQuoted("'", ahead) = Turn(1, <<ahead[1]>>, "'")
                     /\ pair \notin escapes
<1>1. \/ ahead[1] \in QuoteMarks /\ ScanNormal(ahead) = Turn(1, <<ahead[1]>>, ahead[1])
      \/ pair = <<"-", "-">> /\ ScanNormal(ahead) = Turn(2, <<>>, "line")
      \/ ahead = <<"/", "*", "+">>
      \/ pair = <<"/", "*">> /\ ScanNormal(ahead) = Turn(2, <<>>, "block")
      \/ ScanNormal(ahead) = Turn(1, <<>>, "unsafe")
      \/ /\ ahead[1] \notin QuoteMarks \cup {";"}
         /\ ScanNormal(ahead) = Turn(1, <<ahead[1]>>, "normal")
  <2> DEFINE c == ahead[1]
             quoted == c \in QuoteMarks
             dashes == pair = <<"-", "-">>
             hints == ahead = <<"/", "*", "+">>
             block == pair = <<"/", "*">>
             separates == c = ";"
             asked == Turn(1, <<c>>, c)
             plain == Turn(1, <<c>>, "normal")
             comment == Turn(2, <<>>, "line")
             hinted == Turn(3, ahead, "hint")
             blocked == Turn(2, <<>>, "block")
             refused == Turn(1, <<>>, "unsafe")
             turned == ScanNormal(ahead)
  <2>1. turned = CASE quoted -> asked
                   [] dashes -> comment
                   [] hints -> hinted
                   [] block /\ ~hints -> blocked
                   [] separates -> refused
                   [] OTHER -> plain
    BY Zenon DEF ScanNormal, NextTwo
  <2>2. quoted \in BOOLEAN /\ dashes \in BOOLEAN /\ hints \in BOOLEAN /\ block \in BOOLEAN
        /\ separates \in BOOLEAN
    OBVIOUS
  <2> HIDE DEF quoted, dashes, hints, block, separates, asked, plain, comment, hinted,
               blocked, refused, turned
  <2>3. \/ quoted /\ turned = asked
        \/ dashes /\ turned = comment
        \/ hints
        \/ block /\ turned = blocked
        \/ turned = refused
        \/ ~quoted /\ ~separates /\ turned = plain
    BY ONLY <2>1, <2>2
  <2> QED
    BY <2>3, Zenon DEF quoted, dashes, hints, block, separates, asked, plain, comment,
                       hinted, blocked, refused, turned
<1>2. ScanComment(mode, ahead) \in {Turn(1, <<"\n">>, "normal"),
                                    Turn(2, <<" ">>, "normal"), Turn(1, <<>>, mode)}
  BY Zenon DEF ScanComment
<1> DEFINE escapes == {<<"\\", "\\">>, <<"\\", "'">>, <<"'", "'">>}
<1>3. "'" # "hint"
  OBVIOUS
<1>4. \/ pair \in escapes /\ ScanQuoted("'", ahead) = Turn(2, pair, "'")
      \/ /\ ahead[1] = "'" /\ ScanQuoted("'", ahead) = Turn(1, <<"'">>, "normal")
         /\ pair \notin escapes
      \/ /\ ahead[1] # "'" /\ ScanQuoted("'", ahead) = Turn(1, <<ahead[1]>>, "'")
         /\ pair \notin escapes
  <2> DEFINE escaped == pair \in escapes
             closes == ahead[1] = "'"
             ended == pair = <<"*", "/">>
             hinted == "'" = "hint"
             both == Turn(2, pair, "'")
             last == Turn(1, <<"'">>, "normal")
             out == Turn(2, pair, "normal")
             one == Turn(1, <<ahead[1]>>, "'")
             turned == ScanQuoted("'", ahead)
  <2>1. turned = CASE ~hinted /\ escaped -> both
                   [] ~hinted /\ ~escaped /\ closes -> last
                   [] hinted /\ ended -> out
                   [] OTHER -> one
    BY Zenon DEF ScanQuoted, NextTwo
  <2>2. ~hinted
    BY <1>3
  <2> HIDE DEF escaped, closes, ended, hinted, both, last, out, one, turned
  <2>3. \/ escaped /\ turned = both
        \/ closes /\ turned = last /\ ~escaped
        \/ ~closes /\ turned = one /\ ~escaped
    BY ONLY <2>1, <2>2
  <2> QED
    BY <2>3, Zenon DEF escaped, closes, both, last, one, turned
<1> QED
  BY <1>1, <1>2, <1>4, Zenon

\* The turns of the scanner, by the next two characters.
Turns(sql, pos, mode, turn) ==
    LET c == sql[pos]
        more == pos + 1 <= Len(sql)
        d == sql[pos + 1]
    IN  /\ mode = "normal" =>
              \/ c = "'" /\ turn = Turn(1, <<c>>, "'")
              \/ turn \in {Turn(2, <<>>, "line"), Turn(2, <<>>, "block"),
                           Turn(1, <<>>, "unsafe")}
              \/ c \notin {"'", ";"} /\ turn = Turn(1, <<c>>, "normal")
        /\ mode \in {"line", "block"} =>
              turn \in {Turn(1, <<"\n">>, "normal"), Turn(2, <<" ">>, "normal"),
                        Turn(1, <<>>, mode)}
        /\ mode = "'" =>
              \/ /\ more /\ turn = Turn(2, <<c, d>>, "'")
                 /\ <<c, d>> \in {<<"\\", "\\">>, <<"\\", "'">>, <<"'", "'">>}
              \/ c = "'" /\ (more => d # "'") /\ turn = Turn(1, <<c>>, "normal")
              \/ /\ c # "'" /\ turn = Turn(1, <<c>>, "'")
                 /\ c = "\\" /\ more => d \notin {"'", "\\"}

LEMMA TurnFacts ==
    ASSUME NEW sql, PlainSQL(sql), NEW pos \in 1 .. Len(sql), NEW mode, NEW turn,
           turn = ScanTurn(mode, Window(sql, pos))
    PROVE  Turns(sql, pos, mode, turn)
<1> DEFINE ahead == Window(sql, pos)
           c == sql[pos]
           d == sql[pos + 1]
           more == pos + 1 <= Len(sql)
           pair == NextTwo(ahead)
<1>1. /\ c \notin {"dquote", "tick"} /\ ahead[1] = c
      /\ more => pair = <<c, d>>
      /\ ~more => pair = <<c>>
      /\ ahead # <<"/", "*", "+">>
  BY AheadFacts, Zenon
<1>2. turn = ScanTurn(mode, ahead)
  OBVIOUS
<1>3. CASE mode = "normal"
  <2>1. turn = ScanNormal(ahead)
    BY ONLY <1>2, <1>3 DEF ScanTurn
  <2> DEFINE others == {Turn(2, <<>>, "line"), Turn(2, <<>>, "block"), Turn(1, <<>>, "unsafe")}
  <2>2. pair \in {<<"-", "-">>, <<"/", "*">>} => c # "'"
    <3>1. pair[1] = c
      <4>1. \A x, y : <<x>>[1] = x /\ <<x, y>>[1] = x
        BY ONLY TRUE
      <4>2. pair = <<c, d>> \/ pair = <<c>>
        BY <1>1, Zenon
      <4> HIDE DEF pair, c, d
      <4> QED
        BY ONLY <4>1, <4>2, Zenon
    <3>2. <<"-", "-">>[1] # "'" /\ <<"/", "*">>[1] # "'"
      BY ONLY TRUE
    <3> QED
      BY <3>1, <3>2, Zenon
  <2>3. QuoteMarks = {"'", "dquote", "tick"}
    BY DEF QuoteMarks
  <2>4. \/ c \in QuoteMarks /\ turn = Turn(1, <<c>>, c)
        \/ c # "'" /\ turn \in others
        \/ turn = Turn(1, <<>>, "unsafe")
        \/ c \notin QuoteMarks \cup {";"} /\ turn = Turn(1, <<c>>, "normal")
    BY <1>1, <2>1, <2>2, ScanCases, Zenon
  <2>5. \/ c = "'" /\ turn = Turn(1, <<c>>, "'")
        \/ turn \in others
        \/ c \notin {"'", ";"} /\ turn = Turn(1, <<c>>, "normal")
    BY <1>1, <2>3, <2>4, Zenon
  <2> QED
    BY <1>3, <2>5, Zenon DEF Turns
<1>4. CASE mode \in {"line", "block"}
  <2>1. turn = ScanComment(mode, ahead)
    BY ONLY <1>2, <1>4 DEF ScanTurn
  <2>2. turn \in {Turn(1, <<"\n">>, "normal"), Turn(2, <<" ">>, "normal"), Turn(1, <<>>, mode)}
    BY <2>1, ScanCases, Zenon
  <2>3. mode # "normal" /\ mode # "'"
    BY ONLY <1>4
  <2> QED
    BY <2>2, <2>3, Zenon DEF Turns
<1>5. CASE mode = "'"
  <2> DEFINE escapes == {<<"\\", "\\">>, <<"\\", "'">>, <<"'", "'">>}
  <2>1. turn = ScanQuoted("'", ahead)
    BY ONLY <1>2, <1>5 DEF ScanTurn
  <2>2. \/ pair \in escapes /\ turn = Turn(2, pair, "'")
        \/ c = "'" /\ turn = Turn(1, <<"'">>, "normal") /\ pair \notin escapes
        \/ c # "'" /\ turn = Turn(1, <<c>>, "'") /\ pair \notin escapes
    <3>1. /\ \/ pair \in escapes /\ ScanQuoted("'", ahead) = Turn(2, pair, "'")
             \/ /\ ahead[1] = "'" /\ ScanQuoted("'", ahead) = Turn(1, <<"'">>, "normal")
                /\ pair \notin escapes
             \/ /\ ahead[1] # "'" /\ ScanQuoted("'", ahead) = Turn(1, <<ahead[1]>>, "'")
                /\ pair \notin escapes
      BY ScanCases, Zenon
    <3> HIDE DEF pair, ahead, c, escapes
    <3> QED
      BY <1>1, <2>1, <3>1, Zenon
  <2>3. pair \in escapes => more
    <3>1. \A x : Len(<<x>>) = 1
      BY ONLY TRUE
    <3>2. \A s \in escapes : Len(s) = 2
      BY ONLY TRUE
    <3>3. 1 # 2
      OBVIOUS
    <3> QED
      BY <1>1, <3>1, <3>2, <3>3, Zenon
  <2>4. more /\ pair \notin escapes =>
           /\ c = "'" => d # "'"
           /\ c = "\\" => d \notin {"'", "\\"}
    BY <1>1, Zenon
  <2>5. mode # "normal" /\ mode \notin {"line", "block"}
    BY ONLY <1>5
  <2>6. \/ more /\ turn = Turn(2, <<c, d>>, "'") /\ <<c, d>> \in escapes
        \/ c = "'" /\ (more => d # "'") /\ turn = Turn(1, <<c>>, "normal")
        \/ /\ c # "'" /\ turn = Turn(1, <<c>>, "'")
           /\ c = "\\" /\ more => d \notin {"'", "\\"}
    BY <1>1, <2>2, <2>3, <2>4, Zenon
  <2> QED
    BY <2>5, <2>6, Zenon DEF Turns
<1> QED
  BY <1>3, <1>4, <1>5, Zenon DEF Turns

\* One more character that the scanner passes on is one more that is read.
LEMMA PassedOn ==
    ASSUME NEW sql, NEW out \in Seq(Written(sql)), Reading(out) \in Readings(sql),
           NEW c \in Written(sql), c # ";" \/ Reading(out).mode \in {"string", "escape"}
    PROVE  /\ out \o <<c>> \in Seq(Written(sql))
           /\ Passes(sql, Reading(out), c, Reading(out \o <<c>>))
<1> DEFINE W == Written(sql)
<1>0. out \in Seq(W) /\ c \in W
  OBVIOUS
<1>1. out \o <<c>> \in Seq(W)
  <2> HIDE DEF W
  <2> QED
    BY ONLY <1>0
<1>2. Reading(out \o <<c>>) = ReadChar(Reading(out), c)
  <2> HIDE DEF W
  <2> QED
    BY <1>0, ReadingFacts
<1>3. Passes(sql, Reading(out), c, ReadChar(Reading(out), c))
  BY ReadCharFacts
<1> QED
  BY <1>1, <1>2, <1>3, Zenon

LEMMA TwoCharacters ==
    ASSUME NEW U, NEW x \in U, NEW y \in U
    PROVE  <<x>> \in Seq(U) /\ <<y>> \in Seq(U) /\ <<x>> \o <<y>> = <<x, y>>
<1> DEFINE a == <<x>>
           b == <<y>>
           p == <<x, y>>
<1>1. /\ a \in Seq(U) /\ b \in Seq(U) /\ p \in Seq(U)
      /\ Len(a) = 1 /\ Len(b) = 1 /\ Len(p) = 2
      /\ a[1] = x /\ b[1] = y /\ p[1] = x /\ p[2] = y
  OBVIOUS
<1> HIDE DEF a, b, p
<1>2. a \o b \in Seq(U) /\ Len(a \o b) = 2 /\ (a \o b)[1] = x /\ (a \o b)[2] = y
  <2>1. /\ a \o b \in Seq(U) /\ Len(a \o b) = Len(a) + Len(b)
        /\ \A i \in 1 .. Len(a) + Len(b) :
              (a \o b)[i] = IF i <= Len(a) THEN a[i] ELSE b[i - Len(a)]
    BY <1>1, ConcatProperties
  <2> QED
    BY <1>1, <2>1
<1>3. \A i \in 1 .. 2 : (a \o b)[i] = p[i]
  BY ONLY <1>1, <1>2
<1>4. a \o b = p
  BY <1>1, <1>2, <1>3, SeqEqual
<1> QED
  BY <1>1, <1>4 DEF a, b, p

LEMMA TurnParts ==
    ASSUME NEW n, NEW s, NEW m
    PROVE  Turn(n, s, m).eaten = n /\ Turn(n, s, m).emit = s /\ Turn(n, s, m).mode = m
BY DEF Turn

\* What keeps the two in step at the next turn, k characters on.
Agrees(sql, k, pos, to, out) ==
    LET st == Reading(out)
        more == pos + 1 <= Len(sql)
    IN  /\ out \in Seq(Written(sql)) /\ st \in Readings(sql)
        /\ \/ to \in {"normal", "line", "block"} /\ st.mode \in {"normal", "maybe"}
           \/ to = "'" /\ st.mode \in {"string", "escape"}
        /\ st.mode = "escape" => k = 1 /\ (more => sql[pos + 1] \notin {"'", "\\"})
        /\ to = "normal" /\ st.mode = "maybe" => k = 1 /\ (more => sql[pos + 1] # "'")

LEMMA AgreesInStep ==
    ASSUME NEW sql, NEW pos \in Nat \ {0}, NEW k \in {1, 2}, NEW to, NEW out, NEW e, NEW turn,
           turn = Turn(k, e, to), Agrees(sql, k, pos, to, out \o e)
    PROVE  InStep(sql, pos + turn.eaten, turn.mode, out \o turn.emit)
<1> DEFINE o == out \o e
           p == pos + k
           st == Reading(o)
<1>1. turn.eaten = k /\ turn.emit = e /\ turn.mode = to
  BY TurnParts
<1>2. p \in Nat \ {0} /\ (k = 1 => p = pos + 1)
  OBVIOUS
<1>3. /\ o \in Seq(Written(sql)) /\ st \in Readings(sql)
      /\ \/ to \in {"normal", "line", "block"} /\ st.mode \in {"normal", "maybe"}
         \/ to = "'" /\ st.mode \in {"string", "escape"}
      /\ st.mode = "escape" => k = 1 /\ (pos + 1 <= Len(sql) => sql[pos + 1] \notin {"'", "\\"})
      /\ to = "normal" /\ st.mode = "maybe" =>
            k = 1 /\ (pos + 1 <= Len(sql) => sql[pos + 1] # "'")
  BY Zenon DEF Agrees
<1> HIDE DEF o, p, st
<1>4. p <= Len(sql) => /\ st.mode = "escape" => sql[p] \notin {"'", "\\"}
                       /\ to = "normal" /\ st.mode = "maybe" => sql[p] # "'"
  BY ONLY <1>2, <1>3, Zenon
<1>5. InStep(sql, p, to, o)
  BY <1>2, <1>3, <1>4, Zenon DEF InStep, st
<1> QED
  BY <1>1, <1>5, Zenon DEF o, p

\* The scanner and the database stay in step.
LEMMA ScanInStep ==
    ASSUME NEW sql, PlainSQL(sql), NEW pos, NEW mode, NEW out, InStep(sql, pos, mode, out),
           pos <= Len(sql), NEW turn, turn = ScanTurn(mode, Window(sql, pos)),
           turn.mode # "unsafe"
    PROVE  InStep(sql, pos + turn.eaten, turn.mode, out \o turn.emit)
<1> DEFINE Goal == InStep(sql, pos + turn.eaten, turn.mode, out \o turn.emit)
           st == Reading(out)
           W == Written(sql)
           c == sql[pos]
           d == sql[pos + 1]
           more == pos + 1 <= Len(sql)
           Ok(k, to, o) == Agrees(sql, k, pos, to, o)
<1> SUFFICES Goal
  OBVIOUS
<1>1. /\ pos \in Nat \ {0} /\ out \in Seq(W) /\ st \in Readings(sql)
      /\ \/ mode \in {"normal", "line", "block"} /\ st.mode \in {"normal", "maybe"}
         \/ mode = "'" /\ st.mode \in {"string", "escape"}
      /\ st.mode = "escape" => c \notin {"'", "\\"}
      /\ mode = "normal" /\ st.mode = "maybe" => c # "'"
  BY DEF InStep
<1>2. pos \in 1 .. Len(sql)
  <2>1. sql \in Seq(Range(sql))
    BY Zenon DEF PlainSQL
  <2>2. Len(sql) \in Nat
    BY ONLY <2>1
  <2> QED
    BY <1>1, <2>2
<1>3. c \in W /\ (more => d \in W)
  BY <1>2, AheadFacts
<1>4. " " \in W /\ "\n" \in W
  BY DEF Written
<1>5. Turns(sql, pos, mode, turn)
  BY <1>2, TurnFacts
<1>6. /\ mode = "normal" =>
            \/ c = "'" /\ turn = Turn(1, <<c>>, "'")
            \/ turn \in {Turn(2, <<>>, "line"), Turn(2, <<>>, "block"), Turn(1, <<>>, "unsafe")}
            \/ c \notin {"'", ";"} /\ turn = Turn(1, <<c>>, "normal")
      /\ mode \in {"line", "block"} =>
            turn \in {Turn(1, <<"\n">>, "normal"), Turn(2, <<" ">>, "normal"),
                      Turn(1, <<>>, mode)}
      /\ mode = "'" =>
            \/ /\ more /\ turn = Turn(2, <<c, d>>, "'")
               /\ <<c, d>> \in {<<"\\", "\\">>, <<"\\", "'">>, <<"'", "'">>}
            \/ c = "'" /\ (more => d # "'") /\ turn = Turn(1, <<c>>, "normal")
            \/ /\ c # "'" /\ turn = Turn(1, <<c>>, "'")
               /\ c = "\\" /\ more => d \notin {"'", "\\"}
  BY <1>5, Zenon DEF Turns
<1>7. ASSUME NEW k \in {1, 2}, NEW to, NEW e, turn = Turn(k, e, to), Ok(k, to, out \o e)
      PROVE  Goal
  BY <1>1, <1>7, AgreesInStep
<1>8. ASSUME NEW k, NEW to, NEW o \in Seq(W), Reading(o) \in Readings(sql),
             \/ to \in {"normal", "line", "block"} /\ Reading(o).mode \in {"normal", "maybe"}
             \/ to = "'" /\ Reading(o).mode \in {"string", "escape"},
             Reading(o).mode = "escape" => k = 1 /\ (more => d \notin {"'", "\\"}),
             to = "normal" /\ Reading(o).mode = "maybe" => k = 1 /\ (more => d # "'")
      PROVE  Ok(k, to, o)
  BY <1>8, Zenon DEF Agrees
<1>9. \A x \in W : x # ";" \/ st.mode \in {"string", "escape"} =>
         out \o <<x>> \in Seq(W) /\ Passes(sql, st, x, Reading(out \o <<x>>))
  BY <1>1, PassedOn
<1>10. ASSUME NEW to, NEW k, to \in {"line", "block"}, st.mode \in {"normal", "maybe"}
       PROVE  Ok(k, to, out \o <<>>)
  <2>1. out \o <<>> = out
    BY <1>1, ConcatEmptySeq
  <2>2. Ok(k, to, out)
    BY <1>1, <1>8, <1>10
  <2> QED
    BY <2>1, <2>2, Zenon
<1> HIDE DEF Goal, st, W, c, d, more, Ok
<1>11. CASE mode = "normal"
  <2>1. st.mode \in {"normal", "maybe"}
    BY ONLY <1>1, <1>11
  <2>2. ASSUME c # ";"
        PROVE  /\ out \o <<c>> \in Seq(W) /\ Reading(out \o <<c>>) \in Readings(sql)
               /\ Reading(out \o <<c>>).mode = IF c = "'" THEN "string" ELSE "normal"
    <3>1. out \o <<c>> \in Seq(W) /\ Passes(sql, st, c, Reading(out \o <<c>>))
      BY <1>3, <1>9, <2>2, Zenon
    <3> QED
      BY <2>1, <3>1, Zenon DEF Passes
  <2>3. CASE c = "'" /\ turn = Turn(1, <<c>>, "'")
    <3> DEFINE o == out \o <<c>>
    <3>1. o \in Seq(W) /\ Reading(o) \in Readings(sql) /\ Reading(o).mode = "string"
      BY <2>2, <2>3
    <3> HIDE DEF o
    <3>2. Ok(1, "'", o)
      BY <1>8, <3>1
    <3> QED
      BY <1>7, <2>3, <3>2 DEF o
  <2>4. CASE turn \in {Turn(2, <<>>, "line"), Turn(2, <<>>, "block")}
    <3>1. PICK to \in {"line", "block"} : turn = Turn(2, <<>>, to)
      BY <2>4, Zenon
    <3>2. Ok(2, to, out \o <<>>)
      BY <1>10, <2>1
    <3> QED
      BY <1>7, <3>1, <3>2
  <2>5. CASE c \notin {"'", ";"} /\ turn = Turn(1, <<c>>, "normal")
    <3> DEFINE o == out \o <<c>>
    <3>1. o \in Seq(W) /\ Reading(o) \in Readings(sql) /\ Reading(o).mode = "normal"
      BY <2>2, <2>5
    <3> HIDE DEF o
    <3>2. Ok(1, "normal", o)
      BY <1>8, <3>1
    <3> QED
      BY <1>7, <2>5, <3>2 DEF o
  <2>6. turn # Turn(1, <<>>, "unsafe")
    <3>1. Turn(1, <<>>, "unsafe").mode = "unsafe"
      BY TurnParts
    <3> QED
      BY <3>1, Zenon
  <2> QED
    BY <1>6, <1>11, <2>3, <2>4, <2>5, <2>6, Zenon
<1>12. CASE mode \in {"line", "block"}
  <2>1. st.mode \in {"normal", "maybe"}
    BY ONLY <1>1, <1>12
  <2>2. ASSUME NEW k \in {1, 2}, NEW b \in {" ", "\n"}, turn = Turn(k, <<b>>, "normal")
        PROVE  Goal
    <3> DEFINE o == out \o <<b>>
    <3>1. b \in W /\ b # ";" /\ b # "'"
      BY <1>4
    <3>2. o \in Seq(W) /\ Passes(sql, st, b, Reading(o))
      BY <1>9, <3>1, Zenon
    <3> HIDE DEF o
    <3>3. Reading(o) \in Readings(sql) /\ Reading(o).mode = "normal"
      BY <2>1, <3>1, <3>2, Zenon DEF Passes
    <3>4. Ok(k, "normal", o)
      BY <1>8, <3>2, <3>3
    <3> QED
      BY <1>7, <2>2, <3>4 DEF o
  <2>3. CASE turn = Turn(1, <<>>, mode)
    <3>1. Ok(1, mode, out \o <<>>)
      BY <1>10, <1>12, <2>1
    <3> QED
      BY <1>7, <2>3, <3>1
  <2> QED
    BY <1>6, <1>12, <2>2, <2>3
<1>13. CASE mode = "'"
  <2>1. st.mode \in {"string", "escape"}
    BY ONLY <1>1, <1>13
  <2> DEFINE o == out \o <<c>>
  <2>2. o \in Seq(W) /\ Passes(sql, st, c, Reading(o))
    BY <1>3, <1>9, <2>1, Zenon
  <2>3. CASE /\ more /\ turn = Turn(2, <<c, d>>, "'")
             /\ <<c, d>> \in {<<"\\", "\\">>, <<"\\", "'">>, <<"'", "'">>}
    <3>1. c \in {"'", "\\"} /\ d \in {"'", "\\"} /\ (c = "'" => d = "'")
      BY ONLY <2>3
    <3>2. st.mode = "string"
      BY ONLY <1>1, <2>1, <3>1
    <3>3. d \in W /\ d # ";"
      BY ONLY <1>3, <2>3, <3>1
    <3> DEFINE o2 == o \o <<d>>
    <3>4. o2 = out \o <<c, d>>
      <4>1. <<c>> \in Seq(W) /\ <<d>> \in Seq(W) /\ <<c>> \o <<d>> = <<c, d>>
        BY <1>3, <3>3, TwoCharacters
      <4>2. (out \o <<c>>) \o <<d>> = out \o (<<c>> \o <<d>>)
        BY <1>1, <4>1, ConcatAssociative
      <4> QED
        BY <4>1, <4>2, Zenon
    <3> HIDE DEF o
    <3>5. Reading(o) \in Readings(sql) /\ Reading(o).mode = IF c = "\\" THEN "escape" ELSE "maybe"
      <4>1. Reading(o) \in Readings(sql)
            /\ Reading(o).mode = IF c = "\\" THEN "escape"
                                 ELSE IF c = "'" THEN "maybe" ELSE "string"
        BY <2>2, <3>2, Zenon DEF Passes
      <4> QED
        BY ONLY <3>1, <4>1
    <3>6. o2 \in Seq(W) /\ Passes(sql, Reading(o), d, Reading(o2))
      BY <2>2, <3>3, <3>5, PassedOn DEF W
    <3> HIDE DEF o2
    <3>7. Reading(o2) \in Readings(sql) /\ Reading(o2).mode = "string"
      <4>1. Reading(o).mode = "escape" \/ (Reading(o).mode = "maybe" /\ d = "'")
        BY ONLY <3>1, <3>5
      <4> QED
        BY ONLY <3>6, <4>1, Zenon DEF Passes
    <3>8. Ok(2, "'", o2)
      BY <1>8, <3>6, <3>7
    <3> QED
      BY <1>7, <2>3, <3>4, <3>8
  <2> HIDE DEF o
  <2>4. CASE c = "'" /\ (more => d # "'") /\ turn = Turn(1, <<c>>, "normal")
    <3>1. st.mode = "string"
      BY ONLY <1>1, <2>1, <2>4
    <3>2. Reading(o) \in Readings(sql) /\ Reading(o).mode = "maybe"
      BY ONLY <2>2, <2>4, <3>1 DEF Passes
    <3>3. Ok(1, "normal", o)
      BY <1>8, <2>2, <2>4, <3>2
    <3> QED
      BY <1>7, <2>4, <3>3 DEF o
  <2>5. CASE /\ c # "'" /\ turn = Turn(1, <<c>>, "'")
             /\ c = "\\" /\ more => d \notin {"'", "\\"}
    <3>1. /\ Reading(o) \in Readings(sql) /\ Reading(o).mode \in {"string", "escape"}
          /\ Reading(o).mode = "escape" => c = "\\"
      BY ONLY <2>1, <2>2, <2>5 DEF Passes
    <3>2. Ok(1, "'", o)
      BY <1>8, <2>2, <2>5, <3>1
    <3> QED
      BY <1>7, <2>5, <3>2 DEF o
  <2> QED
    BY <1>6, <1>13, <2>3, <2>4, <2>5, Zenon
<1>14. mode \in {"normal", "line", "block", "'"}
  BY ONLY <1>1
<1> QED
  BY <1>11, <1>12, <1>13, <1>14

\* A call that gives up has nothing to show.
LEMMA RefuseScanned ==
    ASSUME DOMAIN job = {"at", "params", "sql", "pos", "mode", "out", "reply"},
           NEW why, why \notin {"idle", "render", "scan", "clean", "answered"}, Refuse(why)
    PROVE  ScannedAsRead'
<1>1. job'.at = why
  BY DEF Refuse
<1> QED
  BY <1>1 DEF ScannedAsRead

\* Nothing has been read when the scan starts.
LEMMA ScanStarts ==
    ASSUME NEW sql
    PROVE  InStep(sql, 1, "normal", <<>>)
<1>1. Reading(<<>>) = NothingRead /\ NothingRead.mode = "normal"
  BY NothingIsRead DEF NothingRead
<1>2. NothingRead \in Readings(sql)
  <2>1. <<>> \in Seq(Written(sql)) /\ <<>> \in Seq(TokensOf(sql))
    BY EmptySeq
  <2> QED
    BY <2>1, ReadingParts, Zenon DEF NothingRead
<1>3. <<>> \in Seq(Written(sql)) /\ 1 \in Nat \ {0}
  BY EmptySeq
<1>4. "normal" # "escape" /\ "normal" # "maybe"
  OBVIOUS
<1> QED
  BY <1>1, <1>2, <1>3, <1>4, Zenon DEF InStep

LEMMA ScannedNext ==
    ASSUME RenderTypeOK, ScannedAsRead, [RenderNext]_renderVars
    PROVE  ScannedAsRead'
<1> DEFINE Fields == {"at", "params", "sql", "pos", "mode", "out", "reply"}
<1>0. DOMAIN job = Fields
  BY DEF RenderTypeOK
<1>1. CASE ValidateRequest
  <2>1. job.at = "idle" /\ job.pos = 1 /\ job.mode = "normal" /\ job.out = <<>>
    BY <1>1 DEF ValidateRequest, ScannedAsRead
  <2>2. Refuse("invalid") \/ \E p : job' = [job EXCEPT !.at = "render", !.params = p]
    BY <1>1, Zenon DEF ValidateRequest
  <2>3. ASSUME NEW p, job' = [job EXCEPT !.at = "render", !.params = p]
        PROVE  ScannedAsRead'
    <3>1. job'.at = "render" /\ job'.pos = job.pos /\ job'.mode = job.mode /\ job'.out = job.out
      BY ONLY <1>0, <2>3
    <3> QED
      BY <2>1, <3>1 DEF ScannedAsRead
  <2> QED
    BY <1>0, <2>2, <2>3, RefuseScanned
<1>2. CASE RenderTemplate
  <2> DEFINE sql == Trimmed(CHOOSE s \in TemplateExecute(request.template.parts, job.params) : TRUE)
  <2>1. job.at = "render" /\ job.pos = 1 /\ job.mode = "normal" /\ job.out = <<>>
    BY <1>2 DEF RenderTemplate, ScannedAsRead
  <2>2. \/ Refuse("render failed") \/ Refuse("empty") \/ Refuse("unsafe")
        \/ job' = [job EXCEPT !.at = "scan", !.sql = sql]
    BY <1>2, Zenon DEF RenderTemplate
  <2>3. CASE job' = [job EXCEPT !.at = "scan", !.sql = sql]
    <3> HIDE DEF sql
    <3>1. job'.at = "scan" /\ job'.pos = job.pos /\ job'.mode = job.mode /\ job'.out = job.out
      BY ONLY <1>0, <2>3
    <3>2. InStep(job'.sql, job'.pos, job'.mode, job'.out)
      BY <2>1, <3>1, ScanStarts, Zenon
    <3> QED
      BY <3>1, <3>2 DEF ScannedAsRead
  <2> QED
    BY <1>0, <2>2, <2>3, RefuseScanned
<1>3. CASE RenderTimesOut
  BY <1>0, <1>3, RefuseScanned DEF RenderTimesOut
<1>4. CASE Scan
  <2> DEFINE turn == ScanTurn(job.mode, Window(job.sql, job.pos))
  <2>1. /\ job.at = "scan" /\ job.pos <= Len(job.sql)
        /\ \/ Refuse("unsafe")
           \/ /\ turn.mode # "unsafe"
              /\ job' = [job EXCEPT !.pos = @ + turn.eaten, !.mode = turn.mode,
                                    !.out = @ \o turn.emit]
    BY <1>4, Zenon DEF Scan, Window
  <2>2. CASE /\ turn.mode # "unsafe"
             /\ job' = [job EXCEPT !.pos = @ + turn.eaten, !.mode = turn.mode,
                                   !.out = @ \o turn.emit]
    <3> HIDE DEF turn
    <3>1. /\ job'.at = job.at /\ job'.sql = job.sql /\ job'.pos = job.pos + turn.eaten
          /\ job'.mode = turn.mode /\ job'.out = job.out \o turn.emit
      BY ONLY <1>0, <2>2
    <3>2. PlainSQL(job.sql) => InStep(job.sql, job.pos, job.mode, job.out)
      BY <2>1 DEF ScannedAsRead
    <3>3. PlainSQL(job'.sql) => InStep(job'.sql, job'.pos, job'.mode, job'.out)
      <4>1. ASSUME PlainSQL(job.sql)
            PROVE  InStep(job.sql, job.pos + turn.eaten, turn.mode, job.out \o turn.emit)
        BY <2>1, <2>2, <3>2, <4>1, ScanInStep DEF turn
      <4> QED
        BY <3>1, <4>1, Zenon
    <3> QED
      BY <2>1, <3>1, <3>3 DEF ScannedAsRead
  <2> QED
    BY <1>0, <2>1, <2>2, RefuseScanned
<1>5. CASE ScanEnds
  <2>1. \/ Refuse("unsafe")
        \/ /\ job.at = "scan" /\ job.mode \in {"normal", "line"}
           /\ job' = [job EXCEPT !.at = "clean"]
    BY <1>5 DEF ScanEnds
  <2>2. CASE /\ job.at = "scan" /\ job.mode \in {"normal", "line"}
             /\ job' = [job EXCEPT !.at = "clean"]
    <3>1. job'.at = "clean" /\ job'.sql = job.sql /\ job'.out = job.out
      BY ONLY <1>0, <2>2
    <3>2. PlainSQL(job.sql) => InStep(job.sql, job.pos, job.mode, job.out)
      BY <2>2 DEF ScannedAsRead
    <3>3. PlainSQL(job.sql) => /\ Reading(job.out) \in Readings(job.sql)
                               /\ Reading(job.out).mode \in {"normal", "maybe"}
      <4>1. job.mode # "'"
        BY ONLY <2>2
      <4> QED
        BY ONLY <3>2, <4>1, Zenon DEF InStep
    <3>4. PlainSQL(job'.sql) => /\ Reading(job'.out) \in Readings(job'.sql)
                                /\ Reading(job'.out).mode \in {"normal", "maybe"}
      BY <3>1, <3>3, Zenon
    <3> QED
      BY <3>1, <3>4 DEF ScannedAsRead
  <2> QED
    BY <1>0, <2>1, <2>2, RefuseScanned
<1>6. CASE RunTemplate
  <2>1. /\ job.at = "clean"
        /\ \/ Refuse("invalid") \/ Refuse("query failed") \/ Refuse("panic")
           \/ \E reply : job' = [job EXCEPT !.at = "answered", !.reply = reply]
    BY <1>6, Zenon DEF RunTemplate
  <2>2. ASSUME NEW reply, job' = [job EXCEPT !.at = "answered", !.reply = reply]
        PROVE  ScannedAsRead'
    <3>1. job'.at = "answered" /\ job'.sql = job.sql /\ job'.out = job.out
      BY ONLY <1>0, <2>2
    <3>2. PlainSQL(job'.sql) => /\ Reading(job'.out) \in Readings(job'.sql)
                                /\ Reading(job'.out).mode \in {"normal", "maybe"}
      BY <2>1, <3>1 DEF ScannedAsRead
    <3> QED
      BY <3>1, <3>2 DEF ScannedAsRead
  <2> QED
    BY <1>0, <2>1, <2>2, RefuseScanned
<1>7. CASE NextTemplatePage
  <2>1. job' = NoCall
    BY <1>7 DEF NextTemplatePage
  <2>2. job'.at = "idle" /\ job'.pos = 1 /\ job'.mode = "normal" /\ job'.out = <<>>
    BY <2>1 DEF NoCall
  <2> QED
    BY <2>2 DEF ScannedAsRead
<1>8. CASE UNCHANGED renderVars
  <2>1. job' = job
    BY <1>8 DEF renderVars
  <2> QED
    BY <2>1 DEF ScannedAsRead
<1> QED
  BY <1>1, <1>2, <1>3, <1>4, <1>5, <1>6, <1>7, <1>8 DEF RenderNext

LEMMA ScannedInit == job = NoCall => ScannedAsRead
<1> SUFFICES ASSUME job = NoCall PROVE ScannedAsRead
  OBVIOUS
<1>1. job.at = "idle" /\ job.pos = 1 /\ job.mode = "normal" /\ job.out = <<>>
  BY DEF NoCall
<1> QED
  BY <1>1 DEF ScannedAsRead

LEMMA ScannedIsOne == ScannedAsRead => OneStatement
<1> SUFFICES ASSUME ScannedAsRead, job.at \in {"clean", "answered"}, PlainSQL(job.sql)
             PROVE  /\ Reading(job.out).mode \in {"normal", "maybe"}
                    /\ \A i \in DOMAIN ReadSQL(job.out) : ReadSQL(job.out)[i] # Separator
  BY DEF OneStatement
<1> DEFINE st == Reading(job.out)
           T == TokensOf(job.sql)
<1>1. st \in Readings(job.sql) /\ st.mode \in {"normal", "maybe"}
  BY DEF ScannedAsRead
<1>2. st.tokens \in Seq(T) /\ Token(TRUE, st.lit) \in T
  BY <1>1, ReadingParts, TokenFacts
<1>3. ReadSQL(job.out) = IF st.mode = "maybe" THEN Append(st.tokens, Token(TRUE, st.lit))
                         ELSE st.tokens
  BY Zenon DEF ReadSQL
<1>4. Separator \notin T
  BY DEF TokensOf
<1> HIDE DEF st, T
<1>5. ReadSQL(job.out) \in Seq(T)
  <2>1. \A U : \A s \in Seq(U), x \in U : Append(s, x) \in Seq(U)
    BY ONLY TRUE
  <2> QED
    BY <1>2, <1>3, <2>1, Zenon
<1>6. \A i \in DOMAIN ReadSQL(job.out) : ReadSQL(job.out)[i] \in T
  BY ONLY <1>5
<1> QED
  BY <1>1, <1>4, <1>6, Zenon DEF st

\* The SQL that leaves the scanner is read as one statement, all strings closed,
\* for any templates, parameters and SQL: the scanner, which drops comments and
\* refuses separators, is inside of strings exactly where the database is.
THEOREM TemplateOneStatement == RenderSpec => []OneStatement
<1>1. RenderInit => RenderInv /\ ScannedAsRead
  BY RenderInitInv, ScannedInit DEF RenderInit, BeforeRender
<1>2. RenderInv => RenderTypeOK
  BY DEF RenderInv
<1>3. RenderInv /\ ScannedAsRead /\ [RenderNext]_renderVars => (RenderInv /\ ScannedAsRead)'
  BY <1>2, RenderNextInv, ScannedNext
<1> QED
  BY <1>1, <1>3, ScannedIsOne, PTL DEF RenderSpec

-----------------------------------------------------------------------------
(* Template queries: the escaping of strings                               *)

\* One more list is behind the others in the flattened list.
LEMMA FlattenAppend ==
    ASSUME NEW U, NEW ss \in Seq(Seq(U)), NEW x \in Seq(U)
    PROVE  FlattenSeq(ss \o <<x>>) = FlattenSeq(ss) \o x
<1> DEFINE tt == ss \o <<x>>
           n == Len(ss)
           f == FlattenSeq(ss)
           g == FlattenSeq(tt)
<1>1. tt \in Seq(Seq(U)) /\ Len(tt) = n + 1 /\ n \in Nat /\ tt[n + 1] = x
      /\ \A i \in 1 .. n : ss[i] = tt[i]
  <2> DEFINE S == Seq(U)
  <2>1. ss \in Seq(S) /\ x \in S
    OBVIOUS
  <2> HIDE DEF S
  <2>2. tt \in Seq(S) /\ Len(tt) = n + 1 /\ n \in Nat /\ tt[n + 1] = x
        /\ \A i \in 1 .. n : ss[i] = tt[i]
    BY ONLY <2>1
  <2> QED
    BY <2>2 DEF S
<1> HIDE DEF tt
<1>2. f \in Seq(U) /\ Len(f) = Ahead(ss, n)
  BY FlattenFacts
<1>3. /\ g \in Seq(U) /\ Len(g) = Ahead(tt, Len(tt))
      /\ \A i \in 1 .. Len(tt) : Ahead(tt, i) = Ahead(tt, i - 1) + Len(tt[i])
      /\ \A i \in 1 .. Len(tt) : \A j \in 1 .. Len(tt[i]) :
            g[Ahead(tt, i - 1) + j] = tt[i][j]
  <2>1. tt \in Seq(Seq(U))
    BY <1>1
  <2> HIDE DEF n, f
  <2> QED
    BY ONLY <2>1, FlattenFacts
<1>4. \A k \in 1 .. Len(f) : g[k] = f[k]
  <2>1. Len(ss) <= Len(tt) /\ \A i \in 1 .. Len(ss) : ss[i] = tt[i]
    BY <1>1
  <2> QED
    BY <1>1, <2>1, FlattenPrefix
<1>5. Ahead(ss, n) = Ahead(tt, n)
  <2>1. Len(ss) <= Len(tt) /\ \A i \in 1 .. Len(ss) : ss[i] = tt[i]
    BY <1>1
  <2>2. \A i \in 0 .. Len(ss) : Ahead(ss, i) = Ahead(tt, i)
    BY <1>1, <2>1, AheadAgrees
  <2> QED
    BY <1>1, <2>2
<1>6. n + 1 \in 1 .. Len(tt) /\ (n + 1) - 1 = n
  BY <1>1
<1>7. Len(g) = Len(f) + Len(x) /\ \A j \in 1 .. Len(x) : g[Len(f) + j] = x[j]
  <2>1. Ahead(tt, n + 1) = Ahead(tt, n) + Len(x)
    BY <1>1, <1>3, <1>6
  <2>2. \A j \in 1 .. Len(x) : g[Ahead(tt, n) + j] = x[j]
    BY <1>1, <1>3, <1>6
  <2> QED
    BY <1>1, <1>2, <1>3, <1>5, <2>1, <2>2, Zenon
<1> HIDE DEF f, g, n
<1>8. f \o x \in Seq(U) /\ Len(f \o x) = Len(f) + Len(x)
      /\ \A i \in 1 .. Len(f) + Len(x) : (f \o x)[i] = IF i <= Len(f) THEN f[i] ELSE x[i - Len(f)]
  BY <1>2, ConcatProperties
<1>9. Len(f) \in Nat /\ Len(x) \in Nat
  BY <1>2
<1>10. \A i \in 1 .. Len(g) : g[i] = (f \o x)[i]
  <2> SUFFICES ASSUME NEW i \in 1 .. Len(g) PROVE g[i] = (f \o x)[i]
    OBVIOUS
  <2>1. CASE i <= Len(f)
    <3>1. i \in 1 .. Len(f) /\ i \in 1 .. Len(f) + Len(x)
      BY ONLY <1>7, <1>9, <2>1, i \in 1 .. Len(g)
    <3> QED
      BY <1>4, <1>8, <2>1, <3>1
  <2>2. CASE ~(i <= Len(f))
    <3> DEFINE j == i - Len(f)
    <3>1. j \in 1 .. Len(x) /\ i = Len(f) + j /\ i \in 1 .. Len(f) + Len(x)
      BY ONLY <1>7, <1>9, <2>2, i \in 1 .. Len(g)
    <3>2. (f \o x)[i] = x[j]
      BY <1>8, <2>2, <3>1
    <3> HIDE DEF j
    <3> QED
      BY <1>7, <3>1, <3>2, Zenon
  <2> QED
    BY <2>1, <2>2
<1>11. g = f \o x
  BY <1>3, <1>7, <1>8, <1>10, SeqEqual
<1> QED
  BY <1>11 DEF f, g, tt

\* Every text but the empty one is another and one more character.
LEMMA LastCharacter ==
    ASSUME NEW U, NEW s \in Seq(U), NEW n \in Nat, Len(s) = n + 1
    PROVE  /\ SubSeq(s, 1, n) \in Seq(U) /\ Len(SubSeq(s, 1, n)) = n /\ s[n + 1] \in U
           /\ s = SubSeq(s, 1, n) \o <<s[n + 1]>>
<1> DEFINE t == SubSeq(s, 1, n)
           x == s[n + 1]
<1>1. t \in Seq(U) /\ Len(t) = n /\ x \in U /\ \A i \in 1 .. n : t[i] = s[i]
  OBVIOUS
<1> HIDE DEF t
<1>2. t \o <<x>> \in Seq(U) /\ Len(t \o <<x>>) = n + 1
      /\ (t \o <<x>>)[n + 1] = x /\ \A i \in 1 .. n : (t \o <<x>>)[i] = t[i]
  <2> HIDE DEF x
  <2> QED
    BY ONLY <1>1, n \in Nat
<1>3. \A i \in 1 .. Len(s) : s[i] = (t \o <<x>>)[i]
  <2>1. \A i \in 1 .. n + 1 : i \in 1 .. n \/ i = n + 1
    OBVIOUS
  <2> QED
    BY <1>1, <1>2, <2>1, Zenon
<1>4. s = t \o <<x>>
  <2> DEFINE u == t \o <<x>>
  <2>1. u \in Seq(U) /\ Len(u) = Len(s) /\ \A i \in 1 .. Len(s) : s[i] = u[i]
    BY <1>2, <1>3
  <2> HIDE DEF u
  <2>2. s = u
    BY <2>1, SeqEqual
  <2> QED
    BY <2>2 DEF u
<1> QED
  BY <1>1, <1>4 DEF t

\* A text replaced, character by character.
Instead(x, c, by) == IF x = c THEN by ELSE <<x>>

LEMMA ReplacedFacts ==
    ASSUME NEW U, NEW s \in Seq(U), NEW c, NEW by \in Seq(U)
    PROVE  /\ Replaced(s, c, by) \in Seq(U)
           /\ s = <<>> => Replaced(s, c, by) = <<>>
           /\ \A x \in U : Replaced(s \o <<x>>, c, by) =
                              Replaced(s, c, by) \o Instead(x, c, by)
<1> DEFINE One(x) == Instead(x, c, by)
           Parts(u) == [i \in DOMAIN u |-> One(u[i])]
<1>1. \A x \in U : One(x) \in Seq(U)
  BY DEF Instead
<1>2. \A u : Replaced(u, c, by) = FlattenSeq(Parts(u))
  BY Zenon DEF Replaced, Instead
<1> HIDE DEF One
<1>3. \A u \in Seq(U) : Parts(u) \in Seq(Seq(U)) /\ Len(Parts(u)) = Len(u)
  <2> DEFINE S == Seq(U)
  <2>1. \A x \in U : One(x) \in S
    BY <1>1
  <2> HIDE DEF S
  <2>2. \A u \in Seq(U) : Parts(u) \in Seq(S) /\ Len(Parts(u)) = Len(u)
    BY ONLY <2>1
  <2> QED
    BY <2>2 DEF S
<1>4. Replaced(s, c, by) \in Seq(U)
  <2>1. Parts(s) \in Seq(Seq(U))
    BY <1>3
  <2> HIDE DEF Parts
  <2> QED
    BY <1>2, <2>1, FlattenFacts
<1>5. s = <<>> => Replaced(s, c, by) = <<>>
  <2> SUFFICES ASSUME s = <<>> PROVE FlattenSeq(Parts(s)) = <<>>
    BY <1>2
  <2>1. Len(Parts(s)) = 0 /\ Parts(s) = <<>>
    OBVIOUS
  <2> HIDE DEF Parts
  <2> QED
    BY <2>1 DEF FlattenSeq
<1>6. ASSUME NEW x \in U
      PROVE  Replaced(s \o <<x>>, c, by) = Replaced(s, c, by) \o One(x)
  <2> DEFINE t == s \o <<x>>
             n == Len(s)
  <2>1. t \in Seq(U) /\ Len(t) = n + 1 /\ n \in Nat /\ t[n + 1] = x
        /\ DOMAIN t = 1 .. n + 1 /\ DOMAIN s = 1 .. n /\ \A i \in 1 .. n : t[i] = s[i]
    OBVIOUS
  <2> HIDE DEF t
  <2> DEFINE a == Parts(s)
             b == Parts(t)
             o == One(x)
             e == a \o <<o>>
  <2>2. a \in Seq(Seq(U)) /\ Len(a) = n /\ b \in Seq(Seq(U)) /\ Len(b) = n + 1 /\ o \in Seq(U)
    BY <1>1, <1>3, <2>1
  <2>3. \A i \in 1 .. n : b[i] = a[i]
    BY ONLY <2>1
  <2>4. b[n + 1] = o
    BY ONLY <2>1
  <2> HIDE DEF a, b, o, n
  <2>5. e \in Seq(Seq(U)) /\ Len(e) = n + 1 /\ e[n + 1] = o /\ \A i \in 1 .. n : e[i] = a[i]
    <3> DEFINE S == Seq(U)
    <3>1. a \in Seq(S) /\ o \in S /\ Len(a) = n
      BY <2>2
    <3> HIDE DEF S
    <3>2. e \in Seq(S) /\ Len(e) = n + 1 /\ e[n + 1] = o /\ \A i \in 1 .. n : e[i] = a[i]
      BY ONLY <3>1
    <3> QED
      BY <3>2 DEF S
  <2>6. \A i \in 1 .. n + 1 : b[i] = e[i]
    <3>1. \A i \in 1 .. n + 1 : i \in 1 .. n \/ i = n + 1
      BY ONLY <2>1
    <3> QED
      BY <2>3, <2>4, <2>5, <3>1, Zenon
  <2> HIDE DEF e
  <2>7. b = e
    BY <2>2, <2>5, <2>6, SeqEqual
  <2>8. FlattenSeq(b) = FlattenSeq(a) \o o
    BY <2>2, <2>7, FlattenAppend DEF e
  <2> QED
    BY <1>2, <2>8, Zenon DEF a, b, o, t
<1> QED
  BY <1>4, <1>5, <1>6, Zenon DEF One

\* What is left of a text, and its escaped form, as functions of its characters.
Remains(s) == Replaced(s, "NUL", <<>>)
Backslashed(s) == Replaced(s, "\\", <<"\\", "\\">>)
Doubled(s) == Replaced(s, "'", <<"'", "'">>)
Escaped(s) == Doubled(Backslashed(Remains(s)))

\* The escaped form of a text with one more character.
LEMMA EscapedFacts ==
    ASSUME NEW U, {"'", "\\"} \subseteq U, NEW s \in Seq(U)
    PROVE  /\ Remains(s) \in Seq(U) /\ Escaped(s) \in Seq(U)
           /\ s = <<>> => Remains(s) = <<>> /\ Escaped(s) = <<>>
           /\ \A x \in U :
                 /\ x = "NUL" => Remains(s \o <<x>>) = Remains(s) /\ Escaped(s \o <<x>>) = Escaped(s)
                 /\ x # "NUL" => Remains(s \o <<x>>) = Remains(s) \o <<x>>
                 /\ x \in {"'", "\\"} =>
                       Escaped(s \o <<x>>) = (Escaped(s) \o <<x>>) \o <<x>>
                 /\ x \notin {"NUL", "'", "\\"} => Escaped(s \o <<x>>) = Escaped(s) \o <<x>>
<1> DEFINE k == Remains(s)
           b == Backslashed(k)
           e == Doubled(b)
<1>1. /\ <<>> \in Seq(U) /\ <<"\\", "\\">> \in Seq(U) /\ <<"'", "'">> \in Seq(U)
      /\ "'" \in U /\ "\\" \in U
  <2>1. "'" \in U /\ "\\" \in U
    OBVIOUS
  <2>2. \A x \in U : <<x, x>> \in Seq(U) /\ <<>> \in Seq(U)
    BY ONLY TRUE
  <2> QED
    BY <2>1, <2>2, Zenon
<1>2. \A t \in Seq(U) :
         /\ Remains(t) \in Seq(U)
         /\ t = <<>> => Remains(t) = <<>>
         /\ \A x \in U : Remains(t \o <<x>>) = Remains(t) \o Instead(x, "NUL", <<>>)
  <2> DEFINE by == <<>>
  <2>1. by \in Seq(U)
    BY <1>1
  <2> HIDE DEF by
  <2>2. \A t \in Seq(U) :
           /\ Replaced(t, "NUL", by) \in Seq(U)
           /\ t = <<>> => Replaced(t, "NUL", by) = <<>>
           /\ \A x \in U : Replaced(t \o <<x>>, "NUL", by) =
                              Replaced(t, "NUL", by) \o Instead(x, "NUL", by)
    BY <2>1, ReplacedFacts
  <2> QED
    BY <2>2, Zenon DEF by, Remains
<1>3. \A t \in Seq(U) :
         /\ Backslashed(t) \in Seq(U)
         /\ t = <<>> => Backslashed(t) = <<>>
         /\ \A x \in U : Backslashed(t \o <<x>>) =
                            Backslashed(t) \o Instead(x, "\\", <<"\\", "\\">>)
  <2> DEFINE by == <<"\\", "\\">>
  <2>1. by \in Seq(U)
    BY <1>1
  <2> HIDE DEF by
  <2>2. \A t \in Seq(U) :
           /\ Replaced(t, "\\", by) \in Seq(U)
           /\ t = <<>> => Replaced(t, "\\", by) = <<>>
           /\ \A x \in U : Replaced(t \o <<x>>, "\\", by) =
                              Replaced(t, "\\", by) \o Instead(x, "\\", by)
    BY <2>1, ReplacedFacts
  <2> QED
    BY <2>2, Zenon DEF by, Backslashed
<1>4. \A t \in Seq(U) :
         /\ Doubled(t) \in Seq(U)
         /\ t = <<>> => Doubled(t) = <<>>
         /\ \A x \in U : Doubled(t \o <<x>>) =
                            Doubled(t) \o Instead(x, "'", <<"'", "'">>)
  <2> DEFINE by == <<"'", "'">>
  <2>1. by \in Seq(U)
    BY <1>1
  <2> HIDE DEF by
  <2>2. \A t \in Seq(U) :
           /\ Replaced(t, "'", by) \in Seq(U)
           /\ t = <<>> => Replaced(t, "'", by) = <<>>
           /\ \A x \in U : Replaced(t \o <<x>>, "'", by) =
                              Replaced(t, "'", by) \o Instead(x, "'", by)
    BY <2>1, ReplacedFacts
  <2> QED
    BY <2>2, Zenon DEF by, Doubled
<1>5. k \in Seq(U) /\ b \in Seq(U) /\ e \in Seq(U) /\ Escaped(s) = e
  BY <1>2, <1>3, <1>4, Zenon DEF Escaped
<1>6. s = <<>> => Remains(s) = <<>> /\ Escaped(s) = <<>>
  BY <1>2, <1>3, <1>4, <1>5, Zenon
\* Two characters are one and another.
<1>7. ASSUME NEW t \in Seq(U), NEW x \in U
      PROVE  t \o <<x, x>> = (t \o <<x>>) \o <<x>> /\ t \o <<x>> \in Seq(U) /\ t \o <<>> = t
  <2>1. <<x>> \in Seq(U) /\ <<x>> \o <<x>> = <<x, x>>
    BY TwoCharacters
  <2>2. (t \o <<x>>) \o <<x>> = t \o (<<x>> \o <<x>>)
    BY <2>1, ConcatAssociative
  <2>3. t \o <<x>> \in Seq(U)
    BY <2>1, ConcatProperties
  <2>4. t \o <<>> = t
    BY ConcatEmptySeq
  <2> QED
    BY <2>1, <2>2, <2>3, <2>4, Zenon
<1>8. ASSUME NEW x \in U
      PROVE  /\ x = "NUL" => Remains(s \o <<x>>) = k /\ Escaped(s \o <<x>>) = e
             /\ x # "NUL" => Remains(s \o <<x>>) = k \o <<x>>
             /\ x \in {"'", "\\"} => Escaped(s \o <<x>>) = (e \o <<x>>) \o <<x>>
             /\ x \notin {"NUL", "'", "\\"} => Escaped(s \o <<x>>) = e \o <<x>>
  <2> HIDE DEF k, b, e
  <2>0. b = Backslashed(k) /\ e = Doubled(b) /\ k = Remains(s)
    BY DEF k, b, e
  <2>1. CASE x = "NUL"
    <3>1. Remains(s \o <<x>>) = k
      BY <1>2, <1>5, <1>7, <2>0, <2>1, Zenon DEF Instead
    <3>2. x \notin {"'", "\\"}
      BY ONLY <2>1
    <3> QED
      BY <2>0, <2>1, <3>1, <3>2, Zenon DEF Escaped
  <2>2. CASE x # "NUL"
    <3>1. Remains(s \o <<x>>) = k \o <<x>>
      BY <1>2, <2>0, <2>2, Zenon DEF Instead
    <3>2. Escaped(s \o <<x>>) = Doubled(Backslashed(k \o <<x>>))
      BY <3>1, Zenon DEF Escaped
    <3>3. CASE x = "\\"
      <4>0. Backslashed(k \o <<x>>) = b \o Instead(x, "\\", <<"\\", "\\">>)
        BY <1>3, <1>5, <2>0, Zenon
      <4>1. Backslashed(k \o <<x>>) = (b \o <<x>>) \o <<x>> /\ b \o <<x>> \in Seq(U)
        BY <1>5, <1>7, <3>3, <4>0, Zenon DEF Instead
      <4>2. x # "'"
        BY ONLY <3>3
      <4>3. Doubled((b \o <<x>>) \o <<x>>) = Doubled(b \o <<x>>) \o <<x>>
        BY <1>4, <4>1, <4>2, Zenon DEF Instead
      <4>4. Doubled(b \o <<x>>) = e \o <<x>>
        <5>1. Doubled(b \o <<x>>) = Doubled(b) \o Instead(x, "'", <<"'", "'">>)
          BY <1>4, <1>5, Zenon
        <5>2. Instead(x, "'", <<"'", "'">>) = <<x>>
          BY <4>2, Zenon DEF Instead
        <5> QED
          BY <2>0, <5>1, <5>2, Zenon
      <4> QED
        BY <2>2, <3>1, <3>2, <3>3, <4>1, <4>3, <4>4, Zenon
    <3>4. CASE x # "\\"
      <4>1. Backslashed(k \o <<x>>) = b \o <<x>>
        BY <1>3, <1>5, <2>0, <3>4, Zenon DEF Instead
      <4>2. Doubled(b \o <<x>>) = e \o Instead(x, "'", <<"'", "'">>)
        <5>1. Doubled(b \o <<x>>) = Doubled(b) \o Instead(x, "'", <<"'", "'">>)
          BY <1>4, <1>5, Zenon
        <5> QED
          BY <2>0, <5>1, Zenon
      <4>3. e \o <<x, x>> = (e \o <<x>>) \o <<x>>
        BY <1>5, <1>7, Zenon
      <4> QED
        BY <2>2, <3>1, <3>2, <3>4, <4>1, <4>2, <4>3, Zenon DEF Instead
    <3> QED
      BY <3>3, <3>4
  <2> QED
    BY <2>1, <2>2
<1> QED
  BY <1>5, <1>6, <1>8, Zenon

\* What was read: where the reader stands, the string so far, and the tokens.
Read(m, l, t) == [mode |-> m, lit |-> l, tokens |-> t]

\* What a character adds to a string that is being read.
LEMMA StringReads ==
    ASSUME NEW l, NEW t, NEW m, NEW st, st = Read(m, l, t), NEW x
    PROVE  /\ m = "string" /\ x \notin {"'", "\\"} => ReadChar(st, x) = Read("string", Append(l, x), t)
           /\ m = "string" /\ x = "\\" => ReadChar(st, x) = Read("escape", l, t)
           /\ m = "string" /\ x = "'" => ReadChar(st, x) = Read("maybe", l, t)
           /\ m = "escape" /\ x = "\\" => ReadChar(st, x) = Read("string", Append(l, x), t)
           /\ m = "maybe" /\ x = "'" => ReadChar(st, x) = Read("string", Append(l, x), t)
           /\ m = "normal" /\ x = "'" => ReadChar(st, x) = Read("string", l, t)
<1> DEFINE longer == Append(l, x)
<1>1. /\ st.mode = m /\ st.lit = l
      /\ [st EXCEPT !.mode = "escape"] = Read("escape", l, t)
      /\ [st EXCEPT !.mode = "maybe"] = Read("maybe", l, t)
      /\ [st EXCEPT !.mode = "string"] = Read("string", l, t)
      /\ [st EXCEPT !.mode = "string", !.lit = longer] = Read("string", longer, t)
  <2> HIDE DEF longer
  <2>1. ASSUME NEW m2
        PROVE  [st EXCEPT !.mode = m2] = Read(m2, l, t)
    BY DEF Read
  <2> DEFINE u == [st EXCEPT !.mode = "string", !.lit = longer]
  <2>2. u = Read("string", longer, t)
    <3>1. /\ DOMAIN u = {"mode", "lit", "tokens"} /\ u.mode = "string"
          /\ u.lit = longer /\ u.tokens = t
      BY DEF Read
    <3>2. u = [i \in DOMAIN u |-> u[i]]
      BY DEF Read
    <3> HIDE DEF u
    <3> QED
      BY ONLY <3>1, <3>2 DEF Read
  <2>3. st.mode = m /\ st.lit = l
    BY DEF Read
  <2> QED
    BY <2>1, <2>2, <2>3
<1>2. m = "string" /\ x \notin {"'", "\\"} =>
         ReadChar(st, x) = [st EXCEPT !.mode = "string", !.lit = longer]
  BY ONLY <1>1 DEF ReadChar
<1>3. m = "string" /\ x = "\\" => ReadChar(st, x) = [st EXCEPT !.mode = "escape"]
  BY ONLY <1>1 DEF ReadChar
<1>4. m = "string" /\ x = "'" => ReadChar(st, x) = [st EXCEPT !.mode = "maybe"]
  BY ONLY <1>1 DEF ReadChar
<1>5. m = "escape" /\ x = "\\" => ReadChar(st, x) = [st EXCEPT !.mode = "string", !.lit = longer]
  BY ONLY <1>1 DEF ReadChar
<1>6. m = "maybe" /\ x = "'" => ReadChar(st, x) = [st EXCEPT !.mode = "string", !.lit = longer]
  BY ONLY <1>1 DEF ReadChar
<1>7. m = "normal" /\ x = "'" => ReadChar(st, x) = [st EXCEPT !.mode = "string"]
  BY ONLY <1>1 DEF ReadChar
<1> QED
  BY <1>1, <1>2, <1>3, <1>4, <1>5, <1>6, <1>7

\* A list grows at its end.
LEMMA AppendIs ==
    ASSUME NEW U, NEW s \in Seq(U), NEW x \in U
    PROVE  Append(s, x) = s \o <<x>> /\ s \o <<x>> \in Seq(U)
OBVIOUS

\* Lists joined one way or the other.
Joins(U) == /\ \A a, b \in Seq(U) : a \o b \in Seq(U)
            /\ \A a, b, c \in Seq(U) : a \o (b \o c) = (a \o b) \o c

LEMMA JoinedFacts ==
    ASSUME NEW U
    PROVE  Joins(U)
<1>1. \A a, b \in Seq(U) : a \o b \in Seq(U)
  BY ConcatProperties
<1>2. ASSUME NEW a \in Seq(U), NEW b \in Seq(U), NEW c \in Seq(U)
      PROVE  a \o (b \o c) = (a \o b) \o c
  BY ConcatAssociative
<1> QED
  BY <1>1, <1>2 DEF Joins

\* One more character of a text, escaped, is read as that character.
LEMMA EscapedReadsOn ==
    ASSUME NEW U, {"'", "\\"} \subseteq U, NEW o \in Seq(U), NEW t, NEW r \in Seq(U),
           NEW x \in U, Reading(o \o Escaped(r)) = Read("string", Remains(r), t)
    PROVE  Reading(o \o Escaped(r \o <<x>>)) = Read("string", Remains(r \o <<x>>), t)
<1> DEFINE one == <<x>>
           s == r \o one
           e == Escaped(r)
           k == Remains(r)
           oe == o \o e
           es == Escaped(s)
           ks == Remains(s)
<1>1. /\ e \in Seq(U) /\ k \in Seq(U)
      /\ x = "NUL" => ks = k /\ es = e
      /\ x # "NUL" => ks = k \o one
      /\ x \in {"'", "\\"} => es = (e \o one) \o one
      /\ x \notin {"NUL", "'", "\\"} => es = e \o one
  <2>1. \A y \in U :
           /\ y = "NUL" => Remains(r \o <<y>>) = Remains(r) /\ Escaped(r \o <<y>>) = Escaped(r)
           /\ y # "NUL" => Remains(r \o <<y>>) = Remains(r) \o <<y>>
           /\ y \in {"'", "\\"} => Escaped(r \o <<y>>) = (Escaped(r) \o <<y>>) \o <<y>>
           /\ y \notin {"NUL", "'", "\\"} => Escaped(r \o <<y>>) = Escaped(r) \o <<y>>
    BY EscapedFacts
  <2>2. Remains(r) \in Seq(U) /\ Escaped(r) \in Seq(U)
    BY EscapedFacts
  <2> QED
    BY <2>1, <2>2, Zenon
<1>2. one \in Seq(U)
  OBVIOUS
<1>3. /\ \A a, b \in Seq(U) : a \o b \in Seq(U)
      /\ \A a, b, c \in Seq(U) : a \o (b \o c) = (a \o b) \o c
  <2>1. Joins(U)
    BY JoinedFacts
  <2> QED
    BY ONLY <2>1, Zenon DEF Joins
<1>4. Append(k, x) = k \o one
  BY <1>1, AppendIs
<1>5. \A a \in Seq(U) : Reading(a \o one) = ReadChar(Reading(a), x)
  BY ReadingFacts
<1>6. Reading(oe) = Read("string", k, t)
  OBVIOUS
<1> HIDE DEF one, s, e, k, es, ks
<1>7. /\ oe \in Seq(U) /\ oe \o one \in Seq(U)
      /\ o \o (e \o one) = oe \o one
      /\ o \o ((e \o one) \o one) = (oe \o one) \o one
  <2>1. oe \in Seq(U) /\ oe \o one \in Seq(U) /\ e \o one \in Seq(U)
    BY <1>1, <1>2, <1>3, Zenon
  <2>2. o \o (e \o one) = oe \o one
    BY ONLY <1>1, <1>2, <1>3, o \in Seq(U), Zenon
  <2> DEFINE f == e \o one
  <2>3. o \o (f \o one) = (o \o f) \o one
    <3>1. f \in Seq(U) /\ o \in Seq(U)
      BY <2>1
    <3> HIDE DEF f
    <3> QED
      BY ONLY <1>2, <1>3, <3>1, Zenon
  <2> QED
    BY <2>1, <2>2, <2>3, Zenon
<1> HIDE DEF oe
<1>8. /\ Reading(oe \o one) = ReadChar(Read("string", k, t), x)
      /\ Reading((oe \o one) \o one) = ReadChar(Reading(oe \o one), x)
  BY <1>5, <1>6, <1>7, Zenon
<1>9. CASE x = "NUL"
  BY <1>1, <1>6, <1>9, Zenon DEF oe, es, ks, s, one
<1>10. CASE x \in {"'", "\\"}
  <2> DEFINE m == IF x = "'" THEN "maybe" ELSE "escape"
  <2>1. ReadChar(Read("string", k, t), x) = Read(m, k, t)
    BY <1>10, StringReads
  <2>2. ReadChar(Read(m, k, t), x) = Read("string", Append(k, x), t)
    BY <1>10, StringReads
  <2>3. x # "NUL"
    BY ONLY <1>10
  <2>4. Reading(o \o es) = Read("string", ks, t)
    BY <1>1, <1>4, <1>7, <1>8, <1>10, <2>1, <2>2, <2>3, Zenon
  <2> QED
    BY <2>4 DEF es, ks, s, one
<1>11. CASE x \notin {"NUL", "'", "\\"}
  <2>1. ReadChar(Read("string", k, t), x) = Read("string", Append(k, x), t)
    BY <1>11, StringReads
  <2>2. x # "NUL"
    BY ONLY <1>11
  <2>3. Reading(o \o es) = Read("string", ks, t)
    BY <1>1, <1>4, <1>7, <1>8, <1>11, <2>1, <2>2, Zenon
  <2> QED
    BY <2>3 DEF es, ks, s, one
<1> QED
  BY <1>9, <1>10, <1>11

\* Behind an opening quote the escaped form of a text is read as the text.
LEMMA EscapedReads ==
    ASSUME NEW U, {"'", "\\"} \subseteq U, NEW o \in Seq(U), NEW t,
           Reading(o) = Read("string", <<>>, t)
    PROVE  \A s \in Seq(U) : /\ o \o Escaped(s) \in Seq(U)
                             /\ Reading(o \o Escaped(s)) = Read("string", Remains(s), t)
<1> DEFINE P(s) == Reading(o \o Escaped(s)) = Read("string", Remains(s), t)
           T == {n \in Nat : \A s \in Seq(U) : Len(s) = n => P(s)}
<1>1. \A s \in Seq(U) :
         /\ Remains(s) \in Seq(U) /\ Escaped(s) \in Seq(U)
         /\ s = <<>> => Remains(s) = <<>> /\ Escaped(s) = <<>>
  BY EscapedFacts
<1>2. \A s \in Seq(U) : o \o Escaped(s) \in Seq(U)
  <2>1. \A e \in Seq(U) : o \o e \in Seq(U)
    BY ConcatProperties
  <2> QED
    BY <1>1, <2>1, Zenon
<1>3. 0 \in T
  <2> SUFFICES ASSUME NEW s \in Seq(U), Len(s) = 0 PROVE P(s)
    OBVIOUS
  <2>1. s = <<>>
    BY EmptySeq
  <2>2. Remains(s) = <<>> /\ Escaped(s) = <<>>
    BY <1>1, <2>1
  <2>3. o \o <<>> = o
    BY ConcatEmptySeq
  <2> QED
    BY <2>2, <2>3, Zenon
<1>4. \A r \in Seq(U), x \in U : P(r) => P(r \o <<x>>)
  <2> SUFFICES ASSUME NEW r \in Seq(U), NEW x \in U, P(r) PROVE P(r \o <<x>>)
    OBVIOUS
  <2> QED
    BY EscapedReadsOn
<1>5. \A n \in Nat : \A s \in Seq(U) :
         Len(s) = n + 1 =>
            /\ SubSeq(s, 1, n) \in Seq(U) /\ Len(SubSeq(s, 1, n)) = n /\ s[n + 1] \in U
            /\ s = SubSeq(s, 1, n) \o <<s[n + 1]>>
  BY LastCharacter
<1> HIDE DEF P
<1>6. ASSUME NEW n \in T PROVE n + 1 \in T
  <2>1. n \in Nat /\ n + 1 \in Nat /\ \A s \in Seq(U) : Len(s) = n => P(s)
    OBVIOUS
  <2>2. \A s \in Seq(U) : Len(s) = n + 1 => P(s)
    BY <1>4, <1>5, <2>1, Zenon
  <2> QED
    BY <2>1, <2>2, Zenon
<1>7. \A n \in Nat : n \in T
  <2>1. T \in SUBSET Nat
    OBVIOUS
  <2> HIDE DEF T
  <2> QED
    BY <1>3, <1>6, <2>1, Induction
<1>8. \A s \in Seq(U) : P(s)
  <2> SUFFICES ASSUME NEW s \in Seq(U) PROVE P(s)
    OBVIOUS
  <2>1. Len(s) \in T
    BY <1>7
  <2> QED
    BY <2>1
<1> QED
  BY <1>2, <1>8 DEF P

\* Whatever the SQL before it, as long as that ends outside of strings, the
\* database reads what quote makes of a text as one string literal, which is the
\* text without its NUL characters: no character of it ends the string.
THEOREM QuoteReadsBack ==
    ASSUME NEW U, {"'", "\\"} \subseteq U, NEW out \in Seq(U), NEW s \in Seq(U), NEW t,
           Reading(out) = [mode |-> "normal", lit |-> <<>>, tokens |-> t]
    PROVE  /\ Reading(out \o quote(Text(s))) =
                 [mode |-> "maybe", lit |-> Replaced(s, "NUL", <<>>), tokens |-> t]
           /\ ReadSQL(out \o quote(Text(s))) = Append(t, Literal(Text(s))[1])
<1> DEFINE q == <<"'">>
           o == out \o q
           e == Escaped(s)
           k == Remains(s)
<1>1. "'" \in U /\ q \in Seq(U)
  OBVIOUS
<1>2. o \in Seq(U) /\ Reading(o) = ReadChar(Reading(out), "'")
  BY <1>1, ReadingFacts, ConcatProperties
<1>3. Reading(o) = Read("string", <<>>, t)
  <2>1. Reading(out) = Read("normal", <<>>, t)
    BY DEF Read
  <2> QED
    BY <1>2, <2>1, StringReads
<1>4. o \o e \in Seq(U) /\ Reading(o \o e) = Read("string", k, t)
  <2> HIDE DEF o, e, k
  <2> QED
    BY <1>2, <1>3, EscapedReads DEF e, k
<1>5. Reading((o \o e) \o q) = Read("maybe", k, t)
  <2> DEFINE f == o \o e
  <2>1. f \in Seq(U) /\ Reading(f) = Read("string", k, t)
    BY <1>4
  <2> HIDE DEF f, k
  <2>2. Reading(f \o q) = ReadChar(Reading(f), "'")
    BY <1>1, <2>1, ReadingFacts
  <2>3. Reading(f \o q) = Read("maybe", k, t)
    BY <2>1, <2>2, StringReads
  <2> QED
    BY <2>3 DEF f
<1>6. quote(Text(s)) = q \o e \o q
  <2>1. Text(s).type = "string" /\ Text(s).chars = s
    BY DEF Text
  <2>2. Sprint(Text(s)) = s
    BY <2>1 DEF Sprint
  <2>3. safeString(Text(s)) = e
    BY <2>2, Zenon DEF safeString, Escaped, Doubled, Backslashed, Remains
  <2> QED
    BY <2>3, Zenon DEF quote
<1>7. out \o quote(Text(s)) = (o \o e) \o q
  <2>1. e \in Seq(U)
    BY EscapedFacts
  <2>2. /\ \A a, b \in Seq(U) : a \o b \in Seq(U)
        /\ \A a, b, c \in Seq(U) : a \o (b \o c) = (a \o b) \o c
    <3>1. Joins(U)
      BY JoinedFacts
    <3> QED
      BY ONLY <3>1, Zenon DEF Joins
  <2>3. out \in Seq(U) /\ q \in Seq(U)
    BY <1>1
  <2> HIDE DEF e, q, o
  <2>4. out \o (q \o e) = (out \o q) \o e /\ q \o e \in Seq(U)
    BY ONLY <2>1, <2>2, <2>3, Zenon
  <2>5. out \o ((q \o e) \o q) = (out \o (q \o e)) \o q
    BY ONLY <2>2, <2>3, <2>4, Zenon
  <2> QED
    BY <1>6, <2>4, <2>5, Zenon DEF o
<1>8. Reading(out \o quote(Text(s))) = Read("maybe", k, t)
  BY <1>5, <1>7, Zenon
<1> DEFINE st == Reading(out \o quote(Text(s)))
<1>9. st.mode = "maybe" /\ st.lit = k /\ st.tokens = t
  BY <1>8 DEF Read
<1>10. ReadSQL(out \o quote(Text(s))) = Append(t, Token(TRUE, k))
  <2> HIDE DEF k
  <2> QED
    BY <1>9, Zenon DEF ReadSQL
<1>11. Literal(Text(s))[1] = Token(TRUE, k)
  <2>1. Text(s).chars = s
    BY DEF Text
  <2>2. Literal(Text(s)) = <<Token(TRUE, k)>>
    BY <2>1, Zenon DEF Literal, Remains
  <2> QED
    BY <2>2
<1> QED
  BY <1>8, <1>10, <1>11, Zenon DEF Read, Remains

-----------------------------------------------------------------------------
(* The composition                                                         *)

\* The service keeps the invariants of its parts in whichever part takes steps,
\* with the other parts wherever they stand.
THEOREM ServiceInvariants ==
    ServiceSpec => [](/\ StartsAsConfigured /\ ConnsCounted /\ MetricsAnswered
                      /\ PageAnswersQuery /\ WalkSeesEverything
                      /\ TemplateWalkSeesEverything /\ ValidatedRenders /\ OneStatement
                      /\ MemUsedIsExact /\ DualLimits)
<1> DEFINE ServiceInv == /\ StartInv /\ MetricInv /\ QueryInv
                         /\ RenderInv /\ RenderedFromValid /\ ScannedAsRead
                         /\ MemoryInv
<1>1. ServiceInit => ServiceInv
  <2>1. ServiceInit => boot = NewBoot
    BY DEF ServiceInit, StartInit
  <2>2. ServiceInit => QueryInv
    <3>1. AQuery \in StarRocksArgs
      BY QueryConstants DEF AQuery
    <3>2. <<>> \in Seq(CellValues)
      BY EmptySeq
    <3>3. Before({AKind}, {<<>>}, {AQuery}) => QueryInv
      <4> DEFINE kinds == {AKind}
                 tables == {<<>>}
                 args == {AQuery}
      <4>1. tables \subseteq Seq(CellValues) /\ args \subseteq StarRocksArgs
        BY <3>1, <3>2
      <4> HIDE DEF kinds, tables, args
      <4>2. Before(kinds, tables, args) => QueryInv
        BY <4>1, QueryInitInv
      <4> QED
        BY <4>2 DEF kinds, tables, args
    <3>4. QueryInit => QueryInv
      BY QueryInitInv, TablesAreLists, QueryConstants DEF QueryInit
    <3> QED
      BY <3>3, <3>4 DEF ServiceInit
  <2>3. ServiceInit => RenderInv /\ RenderedFromValid /\ ScannedAsRead
    <3> DEFINE requests == {ARequest}
               sizes == {ASize}
    <3>1. requests \subseteq TemplateRequests /\ sizes \subseteq ResultSizes
      BY RenderingConstants DEF ARequest, ASize
    <3> HIDE DEF requests, sizes
    <3>2. BeforeRender(requests, sizes) => RenderInv /\ RenderedFromValid /\ ScannedAsRead
      BY <3>1, RenderInitInv, FromValidInit, ScannedInit DEF BeforeRender
    <3>3. RenderInit => RenderInv /\ RenderedFromValid /\ ScannedAsRead
      BY RenderInitInv, FromValidInit, ScannedInit DEF RenderInit, BeforeRender
    <3> QED
      BY <3>2, <3>3 DEF ServiceInit, requests, sizes
  <2> QED
    BY <2>1, <2>2, <2>3, StartInitInv, MetricInvInit, MemoryInitInv DEF ServiceInit
<1>2. ServiceInv /\ [ServiceNext]_serviceVars => ServiceInv'
  <2>1. [ServiceNext]_serviceVars =>
            /\ [StartNext]_startVars /\ [QueryNext]_queryVars
            /\ [MetricNext]_metricVars /\ [RenderNext]_renderVars /\ [Next]_vars
    BY DEF ServiceNext, serviceVars
  <2>2. RenderInv => RenderTypeOK
    BY DEF RenderInv
  <2> QED
    BY <2>1, <2>2, StartNextInv, QueryNextInv, MetricInvNext, RenderNextInv,
       FromValidNext, ScannedNext, MemoryNextInv
<1>3. /\ QueryInv => PageAnswersQuery
      /\ MetricInv => ConnsCounted /\ MetricsAnswered
  BY DEF QueryInv, MetricInv
<1>4. ServiceInv => /\ StartsAsConfigured /\ ConnsCounted /\ MetricsAnswered
                    /\ PageAnswersQuery /\ WalkSeesEverything
                    /\ TemplateWalkSeesEverything /\ ValidatedRenders /\ OneStatement
                    /\ MemUsedIsExact /\ DualLimits
  BY <1>3, StartInvProperty, WalkFromInv, TemplateWalkFromInv, ValidRenders,
      ScannedIsOne, InvUsedIsExact, InvDualLimits
<1> QED
  BY <1>1, <1>2, <1>4, PTL DEF ServiceSpec
=============================================================================
