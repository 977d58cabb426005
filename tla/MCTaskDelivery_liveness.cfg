SPECIFICATION FairSpec
CONSTANTS
    Job = {j1, j2}
    TaskId = {t1, t2}
    MaxRetries = 1
    Unique = FALSE
    Deadlined = {j1}
    NoUrl = {j2}
    Concurrency = 1
    MaxFaults = 2
    NoTask = NoTask
    NoJob = NoJob
PROPERTIES
    EventuallySettled
CHECK_DEADLOCK FALSE
