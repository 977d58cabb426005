SPECIFICATION Spec
CONSTANTS
    Job = {j1, j2}
    TaskId = {t1, t2}
    MaxRetries = 2
    Unique = TRUE
    Deadlined = {j1}
    NoUrl = {}
    Concurrency = 2
    MaxFaults = 2
    NoTask = NoTask
    NoJob = NoJob
SYMMETRY Symmetry
INVARIANTS
    TypeOK
    ArchivedIsExhausted
    AttemptsWithinOption
    TakenOnce
    OneTaskWhileUnique
PROPERTIES
    ImplementsContract
CHECK_DEADLOCK FALSE
