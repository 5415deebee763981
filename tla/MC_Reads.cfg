\* Three goroutines on one key, with either backend; version 1 is an empty
\* result.
CONSTANTS
    k1 = k1
    k2 = k2
    NoValue = NoValue
    NoOne = NoOne
    Threads = {t1, t2, t3}
    Keys = {k1}
    DatasourceOf <- MCOneDatasource
    Values <- MCValues
    MaxVersion = 2
    EmptyValues = {1}
    Backends = {"memory", "redis"}
SPECIFICATION FairSpec
INVARIANTS SingleLoader MonotonicReads CachedIsLoaded
PROPERTY CallsReturn
