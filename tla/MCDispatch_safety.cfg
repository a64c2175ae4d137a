SPECIFICATION Spec
CONSTANTS
    Clients = {c1, c2, c3, c4}
    Fds = {f1, f2, f3}
    Conns = {k1, k2, k3}
    NThreads = 2
    FreeTotal = 1
    PipeSize = 2
    Faults = TRUE
    None = None
SYMMETRY Symmetry
INVARIANTS
    TypeOK
    ConnExclusive
    FdExclusive
    NoneStranded
CHECK_DEADLOCK FALSE
