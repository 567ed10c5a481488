SPECIFICATION FairSpec
CONSTANTS
    Users = {u1, u2}
    Texts = {a, b}
    MaxMsgs = 2
    MaxBatch = 2
    MaxLogins = 2
    MaxMerged = 3
INVARIANTS OneThreadPerUser ArrivalOrder Accounted
PROPERTIES KeepsLines EveryMessageSettles
CHECK_DEADLOCK FALSE
