SPECIFICATION MCSpec
CONSTANTS
    Recorder = {r1, r2}
    Subject = {s1, s2}
    MinutesPerDay = 2
    DaysPerMonth = 3
    MaxTime = 8
    MaxMetrics = 2
    MaxFaults = 1
    Idle = Idle
    Measured <- MCMeasured
    MaxMeasured = 3
    Query <- MCQuery
    NoName = NoName
    Event = {e1, e2, e3}
    Active = active
    archived = archived
    State = {active, archived}
    orders = orders
    quoted = quoted
    Service = {orders, quoted}
    Quoted = {quoted}
    DefaultLimit = 3
    MaxBigint = 3
    MaxWrites = 2
    Blank = Blank
    Bad = Bad
    Nil = Nil
INVARIANTS
    TypeOK
    RecordedIsShown
    NothingTwice
    AnswersAreOfToday
    SumsTypeOK
    AnswerAddsUp
    ListTypeOK
    WalkMissesNothing
SYMMETRY Symmetry
CHECK_DEADLOCK FALSE
