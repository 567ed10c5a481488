SPECIFICATION FairSpec
CONSTANTS
    Streams = {s1, s2}
    Requests = {r1}
    MaxChunks = 4
INVARIANTS WholeBody OneLoop
PROPERTIES CallsEnd
CHECK_DEADLOCK FALSE
