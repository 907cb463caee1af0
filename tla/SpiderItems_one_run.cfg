SPECIFICATION FairSpec
CONSTANTS
    i1 = i1
    i2 = i2
    a1 = a1
    a2 = a2
    Items = {i1, i2}
    Sellers = {"seller"}
    SellerOf <- OneSeller
    Accounts = {a1, a2}
    Strategies = {"rotate", "auto", "fixed"}
    Mode = "on_failure"
    AccountRetries = 0
    ProxyRetries = 2
    BlacklistTtls = {0, 300}
    MaxPages = 2
    DebugLimits = {2}
    Concurrency = 2
    MaxFaults = 2
    MaxDeletes = 1
INVARIANT TypeOK
INVARIANT WorkedOnOnce
INVARIANT BrowserOutlivesJobs
INVARIANT SuccessIsStored
INVARIANT VisitsAreShared
PROPERTY RotatesAway
PROPERTY RunEnds
CHECK_DEADLOCK FALSE
