\* Two instances whose clocks differ by half a second; a window of two seconds,
\* one key more than the local table holds.  Bans outlast the failure window.
CONSTANTS
    i1 = i1
    i2 = i2
    Callers = {c1, c2, c3}
    Probes = {p1, p2}
    MaxOutages = 3
    Cancels = TRUE
    Keys = {k1, k2}
    Kinds = {"local", "distributed"}
    Instances = {i1, i2}
    Skew <- MCSkew
    Spread = 1
    Second = 2
    Burst = 2
    Interval = 2
    MaxEntries = 1
    Counts = {1, 2}
    SharedRedis = TRUE
    MaxTime = 12
    Addresses = {a1}
    Threshold = 2
    FailureWindow = 2
    BanDuration = 3
    MaxClock = 7
    Nobody = Nobody
    Conns = {n1, n2}
    Sites <- MCSites
    ApiKeys <- MCApiKeys
    Algorithm = "RS256"
    MaxDepth = 2
SPECIFICATION ServerSpec
INVARIANTS AtMostOneProbe BansAreJust LimitsHold DrainedBeforeClose
PROPERTIES ProbeSwitchesBack LocalKeepsBudget SharedKeepsBudget RunsToTheEnd
CHECK_DEADLOCK FALSE
