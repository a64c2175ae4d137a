SPECIFICATION Spec
CONSTANTS
    i1 = i1
    i2 = i2
    Workers = {w1, w2}
    Main = Main
    Ids = {i1, i2}
    KeyOf <- Collide
    Conns = {c1, c2, c3}
    Entries = {e1, e2, e3, e4}
    TestUsers <- OneUser
    RefMod = 11
    ZeroId = i1
    Reorder = TRUE
    Faults = TRUE
    Removal = TRUE
    MaxOpens = 3
    Null = Null
SYMMETRY Symmetry
INVARIANTS
    TypeOK
    ChainsSound
    RefcountExact
    SharedByClient
CHECK_DEADLOCK FALSE
