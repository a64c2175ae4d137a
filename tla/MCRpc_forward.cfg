SPECIFICATION FairSpec
CONSTANTS
    c1 = c1
    c2 = c2
    c3 = c3
    b1 = b1
    b2 = b2
    Clients = {c1, c2, c3}
    Backends = {b1, b2}
    Threads <- MCThreads
    RpcInit = 1
    PtrBytes = 8
    ReqPerEvent = 1
    Split = TRUE
    Faults = TRUE
    Wild = Wild
    Null = Null
INVARIANTS
    TypeOK
    QueueOrdered
    RespondAfterAll
    StaysInSync
PROPERTY
    RpcAnswered
CHECK_DEADLOCK FALSE
