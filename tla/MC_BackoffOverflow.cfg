CONSTANTS
    Loops = {"reconnect"}
    InitialInterval = 1
    MaxInterval = 12
    MaxDuration = 1844674407
    MaxAttempts = 31
    MaxRetries = 3
SPECIFICATION LoopSpec
INVARIANT WaitsAsDocumented
CHECK_DEADLOCK FALSE
