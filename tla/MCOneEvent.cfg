SPECIFICATION Spec
CONSTANTS
    NULL = NULL
    Never = Never
    base_seconds = 1
    cap_seconds = 5
    MAX_EXPONENT = 3
    SchemaWait = 5
    PollInterval = 3
    BatchSize = 2
    WorkTime = 2
    MigrationTimes <- Landings
    RestartBudget = 1
    Weather <- Away
    Bugs <- OneBug
INVARIANT DrainsOneEvent
