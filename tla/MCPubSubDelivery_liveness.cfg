SPECIFICATION FairSpec
CONSTANTS
    Job = {j1, j2}
    Worker = {w1}
    MaxRetries = 1
    MaxFaults = 2
    NoMessage = NoMessage
PROPERTIES
    EventuallySettled
CHECK_DEADLOCK FALSE
