SPECIFICATION FairSpec
CONSTANTS
    w1 = w1
    w2 = w2
    h1 = h1
    h2 = h2
    Handlers = {h1}
    Workers = {w1}
    WorkerName <- OwnName
    MaxTaskId = 1
    InitialTasks = {1}
    Ops = {"start", "stop", "create", "update", "delete"}
    PatchedFlags = {TRUE, FALSE}
    UseRedis = TRUE
    MaxJobs = 2
    MaxCrashes = 1
    MaxFaults = 1
INVARIANT NoStraySpider
INVARIANT NoDuplicateActive
PROPERTY JobsFinish
PROPERTY ExitClearsFlag
