SPECIFICATION FairSpec
CONSTANTS
    Lines <- AllLines
    Lengths <- AllTexts
    MaxLine = 9
    MaxText = 3
    MaxTokens = 3
    KeyMax = 2
    ItemInit = 1
    Faults = {"items", "iov"}
    IntBits = 5
    LongBits = 7
INVARIANTS TypeOK KeysInOrder AllServed WellFormedReply 
PROPERTY Finishes
CHECK_DEADLOCK FALSE
