SPECIFICATION Spec
CONSTANTS
    q1 = q1
    q2 = q2
    t1 = t1
    t2 = t2
    platform = platform
    c1 = c1
    Requests = {q1, q2}
    Tenants = {t1, t2, platform}
    Platform = platform
    Codes = {c1}
    Durations = {1, 2}
    Changes <- SomeChanges
    MaxTime = 1
    MaxUpdates = 2
SYMMETRY Symmetry
INVARIANT TypeOK
INVARIANT RegisteredWhole
INVARIANT SpentIsRefused
PROPERTY DisableHolds
PROPERTY ExtensionAdds
CHECK_DEADLOCK FALSE
