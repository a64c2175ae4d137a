SPECIFICATION Spec
CONSTANTS
    NThreads = 3
    NBackends = 2
    Ported = {0}
    NAddrs = 2
    Faults = FALSE
    Main = Main
    Nobody = Nobody
INVARIANT
    BackendsAsNamed
CHECK_DEADLOCK FALSE
