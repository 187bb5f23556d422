SPECIFICATION FairSpec
CONSTANTS
    NULL = NULL
    Entries = {1, 2, 3}
    Operators = {o1, o2}
    replay_max_batch = 2
    MaxPoison = 1
INVARIANT DrainTypeOK
PROPERTY MakesProgress
CHECK_DEADLOCK FALSE
