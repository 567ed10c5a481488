SPECIFICATION FairSpec
CONSTANTS
    Users = {u1, u2}
    MAX_TOOL_ROUNDS = 1
    MAX_CHARS = 3
    MaxText = 7
    AnswerLen = 2
    MaxTurns = 3
    MaxErrors = 1
INVARIANTS AnswerText SkillsOffered
PROPERTIES TurnsEnd
CHECK_DEADLOCK FALSE
