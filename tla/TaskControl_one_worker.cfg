SPECIFICATION Spec
CONSTANTS
    w1 = w1
    w2 = w2
    h1 = h1
    h2 = h2
    Handlers = {h1, h2}
    Workers = {w1}
    WorkerName <- OwnName
    MaxTaskId = 1
    InitialTasks = {1}
    Ops = {"start", "stop"}
    PatchedFlags = {}
    UseRedis = TRUE
    MaxJobs = 3
    MaxCrashes = 1
    MaxFaults = 1
SYMMETRY HandlerSymmetry
INVARIANT TypeOK
INVARIANT FlagAgrees
PROPERTY StopEndsSpider
