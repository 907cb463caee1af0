SPECIFICATION GuardSpec
CONSTANTS
    Threshold = 2
    PauseTime = 3
    DayLength = 2
    MaxTime = 8
    MaxWrites = 3
    MaxFailures = 4
INVARIANT GuardTypeOK
INVARIANT ToldOnceADay
PROPERTY OpensAtThreshold
