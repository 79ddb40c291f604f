SPECIFICATION ControlSpec
CHECK_DEADLOCK FALSE
CONSTANTS
    h1 = h1
    h2 = h2
    w1 = w1
    w2 = w2
    own = own
    org = org
    Handlers <- TwoHandlers
    Situations <- Everything
    MaxWrites = 4
    MaxHttp = 2
    Names <- TwoNames
    Writers <- TwoWriters
    MaxCommands = 3
    MaxEdits = 1
    Servers <- TwoWriters
    MaxAdds = 3
    Volumes = {8}
    WarnPct = 40
    CritPct = 50
    EmergencyPct = 60
    WarnFree = 3
    CritFree = 2
    MaxAdmitted = 1
    MaxBurst = 1
    MaxArchives = 2
    Keys = {"a", "b", "c"}
    Sensitive = {"c"}
    MaxKeys = 2
    Window = 3
    Sigma = 1
    MinActions = 2
    DayHours = 2
    MaxClock = 3
    MaxRequests = 6
    MaxDeciding = 2
INVARIANTS ControlTypeOK WritesStay GrantsGenuine AcknowledgedDeniesStand  AnomalyIsBounded RulesMeanWhatTheySay  
PROPERTIES NeverFailsOpen Converges
