CONSTANTS
    Loops = {"adapter"}
    InitialInterval = 1
    MaxInterval = 12
    MaxDuration = 1844674407
    MaxAttempts = 30
    MaxRetries = 3
SPECIFICATION LoopSpec
INVARIANT TransientIsRetried
CHECK_DEADLOCK FALSE
