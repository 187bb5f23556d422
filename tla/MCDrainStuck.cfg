SPECIFICATION FairSpec
CONSTANTS
    NULL = NULL
    Entries = {1, 2, 3}
    Operators = {o1}
    replay_max_batch = 2
    MaxPoison = 2
PROPERTY MakesProgress
CHECK_DEADLOCK FALSE
