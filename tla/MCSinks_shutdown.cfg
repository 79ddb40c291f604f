SPECIFICATION Spec
CHECK_DEADLOCK FALSE
CONSTANTS
    w1 = w1
    w2 = w2
    s1 = s1
    s2 = s2
    Writers = {w1, w2}
    Rotator = Rotator
    Closer = Closer
    Sessions = {s1}
    NoSession = NoSession
    Events = {1, 2, 3}
    SizeCap = 2
    MaxPending = 2
    Rotation = 1
    MaxNow = 2
    MaxRuns = 2
    MaxFaults = 1
SYMMETRY Symmetry
INVARIANTS TypeOK RecordingsHold FinalisedAtExit RowsAccounted ShutdownFlushes
