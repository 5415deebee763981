\* Memory: more keys than entries fit, and as many long values as entries fit
\* are over what two threads may hold; k1 and k2 share the prefix.
CONSTANTS
    Configs <- MCConfigs
    None = None
    Kinds = {"starrocks", "clickhouse"}
    QueryArgs <- MCQueryArgs
    AllowedTables <- MCAllowedTables
    Malformed = {"a b"}
    MaxResultRows = 2
    MaxQueryLimit = 3
    MaxRows = 3
    MaxPages = 4
    Nothing = Nothing
    Calls = {c1, c2}
    MetricArgs <- MCMetricArgs
    Responses <- MCResponses
    MaxDataPoints = 2
    Unsafe = {"}"}
    TemplateRequests <- MCTemplateRequests
    Absent = Absent
    MaxRenderedSQLLen = 9
    RowLimit = 2
    UniqueColumns <- MCUniqueColumns
    ResultSizes = {0, 1, 3, 4}
    NoKey = NoKey
    Keys = {k1, k2, k3, k4}
    Threads = {t1, t2}
    Prefixed = {k1, k2}
    Sizes = {1, 2}
    MaxEntries = 3
    MaxMemory = 3
SPECIFICATION ServiceSpec
SYMMETRY MCSymmetry
INVARIANTS StartsAsConfigured PageAnswersQuery WalkSeesEverything
           ConnsCounted 
           ReadsAsMeant ValidatedRenders TemplateWalkSeesEverything
           MemUsedIsExact DualLimits
CHECK_DEADLOCK FALSE
