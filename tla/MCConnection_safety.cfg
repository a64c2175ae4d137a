SPECIFICATION Spec
CONSTANTS
    Scripts <- MixedScripts
    ReqPerEvent = 1
    InitRsize = 4
    MaxAllocs = 1
    LineMax = 3
    SndBuf = 2
    Waits <- Delays
    Faults = TRUE
    Hangup = TRUE
    IntMax = 8
    MaxLives = 2
INVARIANTS
    TypeOK
    WakeupArmed
    ReadBufferSound
    RequestBudget
    RetainedUntilSent
PROPERTY
    ServiceSpec
CHECK_DEADLOCK FALSE
