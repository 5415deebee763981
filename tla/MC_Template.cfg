\* A server without a template that can be loaded, and no edits left, is at rest.
CONSTANTS
    NoValue = NoValue
    NoOne = NoOne
    NoTemplate = NoTemplate
    Mutation = m
    t1 = t1
    Names = {n1}
    Threads = {t1, t2, t3}
    Reloaders = {w1, m}
    Keys <- MCKeys
    DatasourceOf <- MCDatasourceOf
    Values <- MCValues
    EmptyValues <- MCEmptyValues
    Backends = {"memory"}
    Workloads <- MCWorkloads
    MaxVersion = 2
    RowCounts = {1}
    MaxConcurrentQueries = 2
SPECIFICATION FairSpec
PROPERTIES RegistryAdvances CatchesUp QueriesEnd
CHECK_DEADLOCK FALSE
