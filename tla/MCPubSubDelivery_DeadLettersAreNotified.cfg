SPECIFICATION Spec
CONSTANTS
    Job = {j1}
    Worker = {w1}
    MaxRetries = 1
    MaxFaults = 0
    NoMessage = NoMessage
INVARIANTS
    DeadLettersAreNotified
CHECK_DEADLOCK FALSE
