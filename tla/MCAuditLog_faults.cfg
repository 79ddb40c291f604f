SPECIFICATION Spec
CONSTANTS
    QueueDepth = 2
    SaveEveryN = 2
    Interval = 2
    Chained = TRUE
    Fsync = FALSE
    FaultKinds = {"write", "torn", "save", "manifest", "crash", "oneshot"}
    MaxEvents = 4
    MaxRuns = 2
INVARIANTS
    SeqsNeverReused
    RenumberBound
    ManifestsHold
PROPERTIES
    ImplementsSink
CHECK_DEADLOCK FALSE
