SPECIFICATION Spec
CONSTANTS
    Event = {e1}
    pubsub = pubsub
    task = task
    ms1 = ms1
    ms2 = ms2
    Refresher <- MCRefresher
    MemStore <- MCMemStore
    Deployment <- MCDeployment
    MaxWrites = 3
INVARIANTS
    ListedIsVisible
CHECK_DEADLOCK FALSE
