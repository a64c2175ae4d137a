SPECIFICATION Spec
CONSTANTS
    Lines <- AllLines
    Lengths <- AllTexts
    MaxLine = 7
    MaxText = 1
    MaxTokens = 3
    KeyMax = 2
    ItemInit = 1
    Faults = {"items", "iov"}
    IntBits = 5
    LongBits = 7
INVARIANT OomReported
CHECK_DEADLOCK FALSE
