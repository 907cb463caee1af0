SPECIFICATION Spec
CONSTANTS
    w1 = w1
    w2 = w2
    g1 = g1
    r1 = r1
    Generate = {g1}
    Reanalyze = {r1}
    Workers = {w1, w2}
    WorkerName <- OwnName
    Records = 2
    StepCount = 4
    MaxLate = 1
    MaxCrashes = 1
    MaxFaults = 1
SYMMETRY WorkerSymmetry
INVARIANT StepsAgree
INVARIANT CompletedIsReal
PROPERTY AnswerStays
PROPERTY BridgesDoNotOverlap
CHECK_DEADLOCK FALSE
