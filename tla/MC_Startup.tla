---------------------------- MODULE MC_Startup ------------------------------
EXTENDS Startup

Events == [name |-> "events", columns |-> {"id"}]
ReaderKey == [id |-> "reader", hash |-> "h", expires |-> ""]
Daily == [name |-> "daily", file |-> "daily.sql", param |-> "int"]

StarrocksSource == [name |-> "analytics_db", type |-> "starrocks", enabled |-> TRUE,
              pool |-> 1, tables |-> {Events}]
PrometheusSource == [StarrocksSource EXCEPT !.name = "metrics", !.type = "prometheus"]
Base ==
    [port |-> 1, mode |-> "production", datasources |-> <<StarrocksSource, PrometheusSource>>,
     method |-> "jwt", env |-> "unset",
     jwt |-> [algorithm |-> "RS256", secret |-> 0, key |-> "rsa"],
     keys |-> {ReaderKey}, proxies |-> "cidr", requests |-> 1, window |-> 1,
     rateMode |-> "local", cache |-> TRUE, backend |-> "memory",
     memory |-> "256MB", redis |-> [limiter |-> "", cache |-> "r2"],
     sampling |-> "fraction",
     templates |-> [enabled |-> TRUE, source |-> "analytics_db", limits |-> 1,
                    templates |-> <<Daily>>],
     mutations |-> [enabled |-> TRUE, source |-> "analytics_db", batch |-> 1,
                    affected |-> 1, writable |-> "within"]]

MCConfigs ==
    {[Base EXCEPT !.port = p, !.mode = m] : p \in {0, 1}, m \in {"production", "development", "x"}}
    \cup {[Base EXCEPT !.method = m, !.env = e, !.keys = k] :
            m \in {"", "none", "jwt", "jwt ", "apikey", "basic"},
            e \in {"unset", "", "none", "apikey"}, 
            k \in {{ReaderKey}, {ReaderKey, [ReaderKey EXCEPT !.hash = ""]},
                   {[ReaderKey EXCEPT !.expires = "soon"]}}}
    \cup {[Base EXCEPT !.jwt = [algorithm |-> a, secret |-> s, key |-> k]] :
            a \in {"", "HS256", "RS256", "ES256", "PS256"}, s \in {0, 8, 32},
            k \in {"", "absent", "garbage", "pem", "rsa", "ecdsa"}}
    \cup {[Base EXCEPT !.cache = c, !.backend = b, !.rateMode = r, !.memory = s,
                       !.redis = [limiter |-> l, cache |-> ""]] :
            c \in BOOLEAN, b \in {"memory", "redis", "disk"},
            r \in {"local", "distributed"}, l \in {"", "r1"},
            s \in {"", "256MB", "1.5GB", "4096", "0MB", "lots"}}
    \cup {[Base EXCEPT !.mode = m, !.datasources = <<ds, PrometheusSource>>,
                       !.templates.source = t, !.mutations.source = w] :
            m \in {"production", "development"},
            ds \in {StarrocksSource, [StarrocksSource EXCEPT !.enabled = FALSE],
                    [StarrocksSource EXCEPT !.name = "metrics"],
                    [StarrocksSource EXCEPT !.tables = {}],
                    [StarrocksSource EXCEPT !.tables =
                        {Events, [Events EXCEPT !.columns = {"a b"}]}],
                    [StarrocksSource EXCEPT !.type = "clickhouse"],
                    [StarrocksSource EXCEPT !.pool = -1]},
            t \in {"", "analytics_db", "metrics"}, w \in {"", "analytics_db", "metrics"}}
    \cup {[Base EXCEPT !.templates.enabled = e, !.templates.limits = l,
                       !.templates.templates = ts,
                       !.mutations.enabled = f, !.mutations.affected = n,
                       !.mutations.writable = w] :
            e \in BOOLEAN, f \in BOOLEAN, l \in {0, 1}, n \in {0, 1},
            ts \in {<<Daily>>, <<Daily, Daily>>, <<[Daily EXCEPT !.param = "date"]>>},
            w \in {"within", "beyond", "malformed"}}
=============================================================================
