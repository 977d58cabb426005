SPECIFICATION FairSpec
CONSTANTS
    p1 = p1
    p2 = p2
    Process = {p1, p2}
    Scope <- MCScope
    Topic = {t1}
    Request = {r1}
    MaxEvents = 3
    None = None
INVARIANTS
    TypeOK
    ClientOutlivesHandlers
    GivesUpOnlyAfterRace
PROPERTIES
    RequestsAreAnswered
    SignalledExits
    SomebodyListens
CHECK_DEADLOCK FALSE
