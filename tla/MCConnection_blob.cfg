SPECIFICATION Spec
CONSTANTS
    Scripts <- ManyGets
    ReqPerEvent = 1
    InitRsize = 4
    MaxAllocs = 1
    LineMax = 3
    SndBuf = 2
    Waits <- Delays
    Faults = FALSE
    Hangup = FALSE
    IntMax = 8
    MaxLives = 1
INVARIANT
    BlobHeldForDelay
CHECK_DEADLOCK FALSE
