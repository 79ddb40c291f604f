SPECIFICATION HousekeepingSpec
CHECK_DEADLOCK FALSE
CONSTRAINT WellPaired
CONSTANTS
    DamageKinds <- AllDamage
    MaxRows = 4
    MaxFiles = 2
    MaxDamage = 2
    Processes <- AllCommands
    MaxDatabases = 3
    MaxDecisions = 2
    PolicyDays = {1, 2, 3}
    MaxDay = 3
    MaxBatches = 2
INVARIANTS HousekeepingTypeOK  FirstFindingLocates CleanMeansWritten OpenIsMigrated BackupIsSnapshot  
