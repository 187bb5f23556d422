SPECIFICATION CalmSpec
CONSTANTS
    NULL = NULL
    Procs = {w1, o1, o2}
    Workers = {w1}
    Operators = {o1, o2}
    Events = {e1}
    Contents <- ReplayedContents
    Accounts <- OneAccount
    Keys <- OneAccountKeys
    advisory_lock_key <- EntityKey
    Faults <- NoFaults
    MaxAttempts = 2
    BatchSize = 1
    MaxMinor = 2
    ReplayMaxBatch = 1
    Verdicts = {}
    MaxCalls = 2
INVARIANTS DeadLetteredAwaitsDecision
CHECK_DEADLOCK FALSE
