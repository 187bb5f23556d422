SPECIFICATION Spec
CONSTANTS
    NULL = NULL
    Procs = {w1, w2}
    Workers = {w1, w2}
    Events = {e1, e2}
    Contents <- MixedContents
    Accounts <- OneAccount
    Keys <- OneAccountKeys
    advisory_lock_key <- EntityKey
    Faults <- TransientAndBug
    MaxAttempts = 3
    BatchSize = 2
    MaxMinor = 2
SYMMETRY Symmetry
INVARIANTS TypeOK NoDrift HighWaterMark NoEffectLost PendingHasBudget
    DeadLetteredIsListed AttemptNumbersIncrease AttemptCountBounded LoadIsExact
    EffectlessIsSuperseded
PROPERTIES ImplementsAccountBook
CHECK_DEADLOCK FALSE
