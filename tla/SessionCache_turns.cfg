SPECIFICATION Spec
CONSTANTS
    Users = {u1, u2, u3, u4}
    MAX_SESSIONS = 2
    Threads = 2
    MaxTurns = 6
SYMMETRY Symmetry
INVARIANTS SessionsBounded NoTurnFails
CHECK_DEADLOCK FALSE
