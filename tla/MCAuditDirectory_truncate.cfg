SPECIFICATION Spec
CHECK_DEADLOCK FALSE
CONSTANTS
    DamageKinds <- TailOnly
    MaxRows = 2
    MaxFiles = 1
    MaxDamage = 1
INVARIANTS TailTruncationCaught
