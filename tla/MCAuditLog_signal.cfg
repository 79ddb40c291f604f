SPECIFICATION Spec
CONSTANTS
    QueueDepth = 2
    SaveEveryN = 2
    Interval = 2
    Chained = TRUE
    Fsync = FALSE
    FaultKinds = {}
    MaxEvents = 3
    MaxRuns = 1
INVARIANTS
    CloseDrains
CHECK_DEADLOCK FALSE
