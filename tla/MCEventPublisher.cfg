SPECIFICATION FairSpec
CONSTANTS
    c1 = c1
    c2 = c2
    d1 = d1
    k1 = k1
    k2 = k2
    Client <- MCClient
    Data = {d1}
    DataOf <- MCSameData
    Handler = {h1, h2}
    Consumer = {k1, k2}
    Listing <- MCListing
    Unique = TRUE
    MaxRefreshes = 1
    MaxFaults = 1
    NotServed = NotServed
    NoClient = NoClient
    NoHandler = NoHandler
INVARIANTS
    TypeOK
    PromiseKept
    DuplicatesOnlyAfterFailure
PROPERTIES
    RetriesGetThrough
CHECK_DEADLOCK FALSE
