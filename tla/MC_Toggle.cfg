SPECIFICATION MutationSpec
CONSTANTS
    Null = Null
    Threads = {t1}
    Reloads = {r1}
    MaxEdits = 1
    Workloads <- MCToggle
    BadNames = {"a b"}
    WritableTables <- MCWritableTables
    ReadableTables <- MCReadableTables
    MutationSource = "ds"
    MaxBatchSize = 2
    MaxSQLLength = 6
    MaxAffectedRows = 1
INVARIANT ToggledMutationsWork
CHECK_DEADLOCK FALSE
