SPECIFICATION ReplayFairSpec
CONSTANTS
    NULL = NULL
    Procs = {w1, o1}
    Workers = {w1}
    Operators = {o1}
    Events = {e1, e2}
    Contents <- CollidingContents
    Accounts <- OneAccount
    Keys <- CollidingKeys
    advisory_lock_key <- CollidingKey
    Faults <- Transient
    MaxAttempts = 2
    BatchSize = 2
    MaxMinor = 2
    ReplayMaxBatch = 1
    Verdicts = {}
    MaxCalls = 1
PROPERTIES RequestsEnd EventuallySettled
CHECK_DEADLOCK FALSE
