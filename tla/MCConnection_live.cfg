SPECIFICATION FairSpec
CONSTANTS
    Scripts <- PoliteScripts
    ReqPerEvent = 1
    InitRsize = 4
    MaxAllocs = 1
    LineMax = 3
    SndBuf = 2
    Waits <- NoDelays
    Faults = FALSE
    Hangup = TRUE
    IntMax = 8
    MaxLives = 2
PROPERTIES
    AllAnswered
    HangupCloses
CHECK_DEADLOCK FALSE
