SPECIFICATION FairSpec
CONSTANTS
    Calls = {c1, c2, c3}
    Concurrent = 3
    MaxNotices = 1
    PipeSize = 1
    CanExit = TRUE
INVARIANTS Responses HandshakeFirst
PROPERTIES CallsReturn
CHECK_DEADLOCK FALSE
