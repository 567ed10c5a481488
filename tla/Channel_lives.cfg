SPECIFICATION FairChannelSpec
CONSTANTS
    Users = {"u1", "u2"}
    Owner = "u1"
    Main = "main"
    MaxMsgs = 2
    MaxCodes = 2
    MaxRuns = 2
    MaxPolls = 3
INVARIANTS ChannelTypeOK SessionSurvives CursorSound ReplyInContext
PROPERTIES LoginEnds
CHECK_DEADLOCK FALSE
