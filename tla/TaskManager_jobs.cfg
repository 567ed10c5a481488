SPECIFICATION FairSpec
CONSTANTS
    Tasks = {t1, t2, t3}
    Submitters = 2
    Workers = 2
    MaxSecond = 1
    Subtitled = {t1, t2}
INVARIANTS OwnerNotified 
PROPERTIES EveryJobReported
CHECK_DEADLOCK FALSE
