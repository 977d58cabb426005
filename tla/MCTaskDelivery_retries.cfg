SPECIFICATION Spec
CONSTANTS
    Job = {j1}
    TaskId = {t1}
    MaxRetries = 0
    Unique = FALSE
    Deadlined = {}
    NoUrl = {}
    Concurrency = 1
    MaxFaults = 0
    NoTask = NoTask
    NoJob = NoJob
INVARIANTS
    AttemptsWithinOption
CHECK_DEADLOCK FALSE
