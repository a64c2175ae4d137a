SPECIFICATION Spec
CONSTANTS
    MaxPayload = 3
    IovMax = 2
    MsgInit = 2
    Starts <- ClientAndBackend
    Replies <- SomeReplies
    Requests <- Gets
    Faults = {"iov", "event"}
    MaxBytes = 9
INVARIANTS TypeOK MsgRanges ClosedOnlyByPeer
PROPERTY StreamSpec
CHECK_DEADLOCK FALSE
