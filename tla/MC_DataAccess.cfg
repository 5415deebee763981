\* The unit of the reconnect loop is 5s, the default reconnect_interval;
\* 12 units are the default maximum of 60s; MaxDuration is 2^63-1 ns in units
\* of 5s, and 30 the last attempt whose product it can hold.
CONSTANTS
    Loops = {"reconnect", "do"}
    InitialInterval = 1
    MaxInterval = 12
    MaxDuration = 1844674407
    MaxAttempts = 30
    MaxRetries = 3
    Loads = {l1, l2, l3}
    Sources = {s1, s2}
    Timers = {i1, i2}
    MaxBatch = 2
    NoTimer = NoTimer
    Nobody = Nobody
    Null = Null
    Threads = {t1}
    Reloads = {r1, r2}
    MaxEdits = 2
    Workloads <- MCAccessWorkloads
    BadNames = {"a b"}
    WritableTables <- MCWritableTables
    ReadableTables <- MCReadableTables
    MutationSource = "ds"
    MaxBatchSize = 2
    MaxSQLLength = 6
    MaxAffectedRows = 1
SPECIFICATION AccessSpec
INVARIANTS RetriesBackOff OnItsWay
           StatementsDoWhatWasAsked AuditTellsTheTruth
PROPERTIES WaitsNeverShrink LoadsReturn SwitchFollowsFile
CHECK_DEADLOCK FALSE
