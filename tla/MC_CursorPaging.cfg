CONSTANTS
    None = None
    Kinds = {"starrocks", "clickhouse"}
    QueryArgs <- MCCursorArgs
    AllowedTables <- MCAllowedTables
    Malformed = {"a b"}
    MaxResultRows = 2
    MaxQueryLimit = 3
    MaxRows = 3
    MaxPages = 4
SPECIFICATION QuerySpec
INVARIANT CursorPagesAdvance
CHECK_DEADLOCK FALSE
