SPECIFICATION Spec
CONSTANTS
    NULL = NULL
    Procs = {w1, w2}
    Workers = {w1, w2}
    Events = {e1, e2, e3}
    Contents <- SnapshotContents
    Accounts <- OneAccount
    Keys <- OneAccountKeys
    advisory_lock_key <- EntityKey
    Faults <- Transient
    MaxAttempts = 2
    BatchSize = 1
    MaxMinor = 2
SYMMETRY Symmetry
INVARIANTS EffectAtMostOncePerKey NewestSnapshotWins
CHECK_DEADLOCK FALSE
