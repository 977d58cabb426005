SPECIFICATION FairSpec
CONSTANTS
    Event = {e1, e2}
    pubsub = pubsub
    task = task
    ms1 = ms1
    ms2 = ms2
    Refresher <- MCRefresher
    MemStore <- MCMemStore
    Deployment <- MCDeployment
    MaxWrites = 3
INVARIANTS
    TypeOK
    ServedIsActive
    CacheIsASnapshot
    KnownSinceStart
PROPERTIES
    NeverGoesBack
    EventuallyCurrent
CHECK_DEADLOCK FALSE
