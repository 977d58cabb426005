SPECIFICATION Spec
CONSTANTS
    Job = {j1, j2}
    Worker = {w1, w2}
    MaxRetries = 1
    MaxFaults = 2
    NoMessage = NoMessage
SYMMETRY Symmetry
INVARIANTS
    TypeOK
    NoSilentLoss
    WrapsMatchRetries
    GivenUpOnlyAfterFailure
    NoWorkAfterOutcome
PROPERTIES
    ImplementsContract
CHECK_DEADLOCK FALSE
