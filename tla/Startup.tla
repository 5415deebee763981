------------------------------ MODULE Startup -------------------------------
(***************************************************************************)
(* How the process comes up: main loads the configuration, validates it    *)
(* and builds the components one after the other; a component that cannot  *)
(* be built ends the process (logger.Fatal).  Validation and construction  *)
(* look at the same settings with code of their own, so they can disagree. *)
(*                                                                         *)
(* A setting is represented by the cases the code tells apart: a memory    *)
(* size is "256MB", "1.5GB" (a fraction), "4096" (no unit), "0MB" or       *)
(* "lots"; a key file holds an RSA or an ECDSA key, PEM of something else  *)
(* ("pem"), other bytes ("garbage"), or is "absent".                       *)
(***************************************************************************)
EXTENDS Integers, Sequences, SequencesExt

CONSTANT Configs   \* the configuration files the process is started with

VARIABLES
    config,   \* the configuration, as the file and the environment give it
    boot      \* where main is, what it has built, and why it gave up

startVars == <<config, boot>>

NewBoot == [step |-> "load", fatal |-> "", redis |-> FALSE, cache |-> "none",
            limiter |-> "none", auth |-> "none", mutations |-> FALSE,
            engine |-> FALSE]

StartInit == config \in Configs /\ boot = NewBoot

Dies(why) == boot' = [boot EXCEPT !.step = "dead", !.fatal = why]
                /\ UNCHANGED config

Built(next, b) == boot' = [b EXCEPT !.step = next] /\ UNCHANGED config

-----------------------------------------------------------------------------
(* config: loading and validation                                          *)

\* GRAPHQL_AUTH_METHOD, when set, even to nothing, replaces the method of the
\* file; "none" means no method.
EffectiveMethod(c) ==
    LET m == IF c.env = "unset" THEN c.method ELSE c.env IN
    IF m = "none" THEN "" ELSE m

\* A file that cannot be read or decoded ends the process.
LoadConfig ==
    /\ boot.step = "load"
    /\ \/ Dies("load")
       \/ /\ config' = [config EXCEPT !.method = EffectiveMethod(config)]
          /\ boot' = [boot EXCEPT !.step = "validate"]

TrimSpace(s) == IF s = "jwt " THEN "jwt" ELSE s

\* config.ParseSizeString: a number, fractions too, and KB, MB or GB.
ParseSizeString(s) == s \in {"256MB", "1.5GB"}

validatePEMFile(key) == key \in {"rsa", "ecdsa"}

\* An empty algorithm counts as HS256.  The kind of the key is not looked at.
validateJWTConfig(j) ==
    LET algo == IF j.algorithm = "" THEN "HS256" ELSE j.algorithm IN
    \/ algo = "HS256" /\ j.secret >= 32 /\ j.key = ""
    \/ algo \in {"RS256", "ES256"} /\ j.key # "" /\ validatePEMFile(j.key)
                                   /\ j.secret = 0

ProperName(s) == s # "" /\ s # "a b"

\* Some table is allowed, and each one some columns with proper names; the
\* name of the table itself is not looked at.
validateStarRocksWhitelist(ds) ==
    /\ ds.tables # {}
    /\ \A t \in ds.tables :
          t.columns # {} /\ \A c \in t.columns : ProperName(c)

\* The enabled sources have a name and a type, and no two the same name.
DatasourcesValid(dss) ==
    \A i \in DOMAIN dss : dss[i].enabled =>
        /\ dss[i].name # "" /\ dss[i].type # "" /\ dss[i].pool >= 0
        /\ \A j \in DOMAIN dss :
              dss[j].enabled /\ dss[j].name = dss[i].name => i = j
        /\ dss[i].type = "starrocks" => validateStarRocksWhitelist(dss[i])

\* Templates have proper names, no two the same, a file, and parameters of
\* the five types; the limits are positive.
validateSQLTemplates(t) ==
    t.enabled =>
        /\ t.source # "" /\ t.limits > 0
        /\ \A i \in DOMAIN t.templates :
              /\ ProperName(t.templates[i].name) /\ t.templates[i].file # ""
              /\ t.templates[i].param \in {"string", "int", "float", "boolean",
                                           "string[]"}
              /\ \A j \in DOMAIN t.templates :
                    t.templates[j].name = t.templates[i].name => i = j

AuthValid(c) ==
    LET m == TrimSpace(c.method) IN
    m # "" => m \in {"jwt", "apikey"} /\ (m = "jwt" => validateJWTConfig(c.jwt))

ValidateConfig(c) ==
    /\ c.port > 0 /\ c.mode \in {"production", "development"}
    /\ DatasourcesValid(c.datasources)
    /\ AuthValid(c)
    /\ c.proxies = "cidr"
    /\ c.requests > 0 /\ c.window > 0
    /\ c.backend \in {"memory", "redis"}
    /\ c.memory # "" => ParseSizeString(c.memory)
    /\ c.sampling = "fraction"
    /\ validateSQLTemplates(c.templates)

Validate ==
    /\ boot.step = "validate"
    /\ IF ValidateConfig(config) THEN Built("redis", boot) ELSE Dies("validate")

-----------------------------------------------------------------------------
(* main: the components                                                    *)

\* Mutant: only the limiter is asked.
needsRedis_Limiter(c) == c.rateMode = "distributed"

needsRedis(c) ==
    c.rateMode = "distributed" \/ (c.cache /\ c.backend = "redis")

\* The address of the limiter, else that of the cache, else a default; the
\* database number goes with the address, the password does not.
resolveRedisAddr(c) ==
    IF c.redis.limiter # "" THEN c.redis.limiter
    ELSE IF c.redis.cache # "" THEN c.redis.cache ELSE "localhost"

\* The client connects lazily: a failed ping is only logged.
InitRedis ==
    /\ boot.step = "redis"
    /\ Built("cache", [boot EXCEPT !.redis = needsRedis(config)
                                             /\ resolveRedisAddr(config) # ""])

\* cache.parseMemorySize: whole numbers, the unit may be missing.
parseMemorySize(s) == s \in {"", "256MB", "4096"}

InitCache ==
    /\ boot.step = "cache"
    /\ CASE ~config.cache -> Built("limiter", boot)
         [] config.cache /\ config.backend = "redis" ->
              IF boot.redis THEN Built("limiter", [boot EXCEPT !.cache = "redis"])
              ELSE Dies("no redis")
         [] OTHER ->
              IF parseMemorySize(config.memory)
              THEN Built("limiter", [boot EXCEPT !.cache = "memory"])
              ELSE Dies("memory size")

InitRateLimiter ==
    /\ boot.step = "limiter"
    /\ IF config.rateMode # "distributed"
       THEN Built("audit", [boot EXCEPT !.limiter = "local"])
       ELSE IF boot.redis THEN Built("audit", [boot EXCEPT !.limiter = "fallback"])
       ELSE Dies("no redis")

\* The audit file may not open, a sanitization rule may not compile.
InitAudit ==
    /\ boot.step = "audit"
    /\ \/ Built("auth", boot)
       \/ Dies("audit file")
       \/ Dies("sanitization rule")

\* The key must be one of the algorithm; there is no default algorithm here.
NewJWTAuthenticator(j) ==
    \/ j.algorithm = "HS256" /\ j.secret > 0
    \/ j.algorithm = "RS256" /\ j.key = "rsa"
    \/ j.algorithm = "ES256" /\ j.key = "ecdsa"

\* Every key has an identifier and a hash, and a date of expiry that parses.
NewAPIKeyAuthenticator(keys) ==
    \A k \in keys : k.id # "" /\ k.hash # "" /\ k.expires \in {"", "date"}

\* Any other method, an empty one too, means no authentication.
InitAuth ==
    /\ boot.step = "auth"
    /\ CASE config.method = "jwt" ->
              IF NewJWTAuthenticator(config.jwt)
              THEN Built("mutations", [boot EXCEPT !.auth = "jwt"])
              ELSE Dies("jwt")
         [] config.method = "apikey" ->
              IF NewAPIKeyAuthenticator(config.keys)
              THEN Built("mutations", [boot EXCEPT !.auth = "apikey"])
              ELSE Dies("apikey")
         [] OTHER -> Built("mutations", boot)

\* The first source of that name, enabled, of a type that takes writes.
ValidateMutationsConfig(c) ==
    c.mutations.enabled =>
        /\ \E i \in DOMAIN c.datasources :
              LET ds == c.datasources[i] IN
              /\ ds.name = c.mutations.source /\ ds.enabled
              /\ \A j \in 1..(i - 1) : c.datasources[j].name # ds.name
              /\ ds.type \in {"starrocks", "clickhouse"}
        /\ c.mutations.batch <= c.mutations.affected

\* The whitelists of the source must parse, the writable inside the readable.
InitMutations ==
    /\ boot.step = "mutations"
    /\ CASE ~ValidateMutationsConfig(config) -> Dies("mutations")
         [] ValidateMutationsConfig(config) /\ ~config.mutations.enabled ->
              Built("templates", boot)
         [] OTHER ->
              IF config.mutations.writable = "within"
              THEN Built("templates", [boot EXCEPT !.mutations = TRUE])
              ELSE Dies("writable tables")

TemplateSourceFits(c) ==
    \E i \in DOMAIN c.datasources :
        /\ c.datasources[i].enabled /\ c.datasources[i].type = "starrocks"
        /\ c.datasources[i].name = c.templates.source

\* Templates need a StarRocks source that is up when the process starts; a
\* development server goes on without them.  The Fatal for an engine that cannot
\* be built is not reached in any mode: loadAll reports what fails to load and
\* returns no error, and NewTemplateEngine has no other.
InitTemplates ==
    /\ boot.step = "templates"
    /\ IF ~config.templates.enabled THEN Built("serving", boot)
       ELSE \/ /\ TemplateSourceFits(config)
               /\ Built("serving", [boot EXCEPT !.engine = TRUE])
            \/ IF config.mode = "development" THEN Built("serving", boot)
               ELSE Dies("template source")

Settled == boot.step \in {"serving", "dead"} /\ UNCHANGED startVars

StartNext ==
    \/ LoadConfig \/ Validate \/ InitRedis \/ InitCache \/ InitRateLimiter
    \/ InitAudit \/ InitAuth \/ InitMutations \/ InitTemplates \/ Settled

StartSpec == StartInit /\ [][StartNext]_startVars

-----------------------------------------------------------------------------
(* Properties                                                              *)

\* Whatever needs Redis finds a client: the two fatal branches for a missing
\* client are never taken (needsRedis, InitCache, InitRateLimiter).
RedisIsThereWhenNeeded == boot.fatal # "no redis"

\* A process that serves does what its configuration says: a method of
\* authentication that is set is enforced, unless blanks surround it, and in
\* production templates that are enabled have their engine.
ServesAsConfigured ==
    boot.step = "serving" =>
        /\ config.method \notin {"", "jwt "} => boot.auth = config.method
        /\ config.cache => boot.cache = config.backend
        /\ config.mode = "production" /\ config.templates.enabled => boot.engine
        /\ config.mutations.enabled => boot.mutations

\* No valid configuration dies for want of Redis, and none serves less than it
\* asks for.
StartsAsConfigured == RedisIsThereWhenNeeded /\ ServesAsConfigured

-----------------------------------------------------------------------------
(* Inductive invariant                                                     *)

Boots ==
    [step : {"load", "validate", "redis", "cache", "limiter", "audit", "auth",
             "mutations", "templates", "serving", "dead"},
     fatal : {"", "load", "validate", "no redis", "memory size", "audit file",
              "sanitization rule", "jwt", "apikey", "mutations", "writable tables",
              "template source"},
     redis : BOOLEAN, cache : {"none", "redis", "memory"},
     limiter : {"none", "local", "fallback"}, auth : {"none", "jwt", "apikey"},
     mutations : BOOLEAN, engine : BOOLEAN]

StartTypeOK == boot \in Boots

\* The order in which main works: what a step finds done.
AfterTemplates == {"serving"}
AfterMutations == AfterTemplates \cup {"templates"}
AfterAuth == AfterMutations \cup {"mutations"}
AfterCache == AfterAuth \cup {"auth", "audit", "limiter"}
AfterRedis == AfterCache \cup {"cache"}
AfterValidation == AfterRedis \cup {"redis"}

\* Every component is built from a configuration that was found valid, and what
\* was built fits it.
BuiltAsConfigured ==
    /\ boot.step \in AfterValidation => ValidateConfig(config)
    /\ boot.step \in AfterRedis => (boot.redis <=> needsRedis(config))
    /\ boot.step \in AfterCache => (config.cache => boot.cache = config.backend)
    /\ boot.step \in AfterAuth =>
          (config.method \notin {"", "jwt "} => boot.auth = config.method)
    /\ boot.step \in AfterMutations => (config.mutations.enabled => boot.mutations)
    /\ boot.step \in AfterTemplates =>
          (config.mode = "production" /\ config.templates.enabled => boot.engine)

StartInv == StartTypeOK /\ BuiltAsConfigured /\ RedisIsThereWhenNeeded
=============================================================================
