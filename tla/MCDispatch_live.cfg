SPECIFICATION FairSpec
CONSTANTS
    Clients = {c1, c2, c3}
    Fds = {f1, f2, f3}
    Conns = {k1, k2, k3}
    NThreads = 2
    FreeTotal = 2
    PipeSize = 2
    Faults = FALSE
    None = None
PROPERTY
    Adopted
CHECK_DEADLOCK FALSE
