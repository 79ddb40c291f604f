SPECIFICATION FairSpec
CONSTANTS
    QueueDepth = 2
    SaveEveryN = 2
    Interval = 2
    Chained = TRUE
    Fsync = TRUE
    FaultKinds = {"sync", "manifest"}
    MaxEvents = 4
    MaxRuns = 3
INVARIANTS
    TypeOK
    LogLinked
    UnpinnedTailBounded
    CloseDrainsUnlessSignalled
PROPERTIES
    QueuedIsTaken
    CloseTerminates
CHECK_DEADLOCK FALSE
