SPECIFICATION ReplaySpec
CONSTANTS
    NULL = NULL
    Procs = {w1, o1, o2}
    Workers = {w1}
    Operators = {o1, o2}
    Events = {e1}
    Contents <- OneCredit
    Accounts <- OneAccount
    Keys <- OneAccountKeys
    advisory_lock_key <- EntityKey
    Faults <- Transient
    MaxAttempts = 1
    BatchSize = 1
    MaxMinor = 2
    ReplayMaxBatch = 1
    Verdicts = {"discarded"}
    MaxCalls = 2
SYMMETRY ReplaySymmetry
INVARIANTS ReplayTypeOK CreditedOnce
PROPERTIES VerdictStands ImplementsAccountBook
CHECK_DEADLOCK FALSE
