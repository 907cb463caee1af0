SPECIFICATION Spec
CONSTANTS
    r1 = r1
    r2 = r2
    Threshold = 2
    PauseTime = 3
    DayLength = 2
    MaxTime = 2
    MaxWrites = 6
    MaxFailures = 3
    Runs = {r1, r2}
    AttemptLimit = 2
    MaxLaunches = 3
    MaxUploads = 1
    MaxFaults = 1
PROPERTY OneOutcome
CHECK_DEADLOCK FALSE
