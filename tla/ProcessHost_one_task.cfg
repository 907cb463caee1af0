SPECIFICATION FairSpec
CONSTANTS
    t1 = t1
    p1 = p1
    p2 = p2
    Tasks = {t1}
    Tenants = {"acme"}
    TenantOf <- Owners
    Cron = {t1}
    Procs = {p1, p2}
    Requests = {"r1"}
    MaxEvents = 1
PROPERTY ClosedTenantStops
INVARIANT TypeOK
INVARIANT NoStraySpider
INVARIANT FlagSettles
PROPERTY CutRunsAreRestored
