SPECIFICATION Spec
CONSTANTS
    Inputs = {"photo", "/reset", "/cal"}
    VisionModel = TRUE
    MAX_TOOL_ROUNDS = 2
    MAX_HISTORY = 8
    MaxTurns = 4
    MaxCalls = 4
    MaxBatch = 2
    MaxErrors = 1
    MaxRestarts = 1
INVARIANTS HistoryAccepted MessageReachesModel WaitsIffPrompted RepliesUsedOnce TaskBounded
CHECK_DEADLOCK FALSE
