SPECIFICATION FairSpec
CONSTANTS
    NThreads = 3
    NBackends = 2
    Ported = {0}
    NAddrs = 2
    Faults = TRUE
    Main = Main
    Nobody = Nobody
INVARIANTS
    TypeOK
    ReadyToDispatch
    WakeupPending
PROPERTY
    StartsUp
CHECK_DEADLOCK FALSE
