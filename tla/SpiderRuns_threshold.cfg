SPECIFICATION Spec
CONSTANTS
    r1 = r1
    r2 = r2
    Threshold = 3
    PauseTime = 3
    DayLength = 2
    MaxTime = 0
    MaxWrites = 6
    MaxFailures = 3
    Runs = {r1}
    AttemptLimit = 2
    MaxLaunches = 3
    MaxUploads = 1
    MaxFaults = 0
PROPERTY OpensAtThreshold
CHECK_DEADLOCK FALSE
