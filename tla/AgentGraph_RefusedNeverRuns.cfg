SPECIFICATION Spec
CONSTANTS
    Inputs = {"Y", "N"}
    VisionModel = TRUE
    MAX_TOOL_ROUNDS = 2
    MAX_HISTORY = 8
    MaxTurns = 2
    MaxCalls = 2
    MaxBatch = 1
    MaxErrors = 0
    MaxRestarts = 0
INVARIANTS RefusedNeverRuns
CHECK_DEADLOCK FALSE
