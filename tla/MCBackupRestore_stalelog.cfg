SPECIFICATION Spec
CHECK_DEADLOCK FALSE
CONSTANTS
    Processes <- AllCommands
    MaxFiles = 2
    MaxDecisions = 2
INVARIANT RestoreReplaces
