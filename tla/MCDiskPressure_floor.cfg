SPECIFICATION DiskSpec
CHECK_DEADLOCK FALSE
CONSTANTS
    Volumes <- SmallVolumes
    WarnPct = 40
    CritPct = 60
    EmergencyPct = 90
    WarnFree = 3
    CritFree = 2
    MaxInFlight = 1
    MaxBurst = 1
    MaxArchives = 2
INVARIANT EitherThresholdTriggers
