SPECIFICATION FairSpec
CONSTANTS
    MaxRequests = 2
    MaxAgents = 4
    MaxUpsets = 2
INVARIANTS OneAgent SignalFiles
PROPERTIES StoppedIsStopped RequestsServed
CHECK_DEADLOCK FALSE
