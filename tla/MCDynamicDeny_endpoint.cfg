SPECIFICATION FairSpec
CHECK_DEADLOCK FALSE
CONSTANTS
    h1 = h1
    h2 = h2
    Handlers <- OneHandler
    Situations <- Calm
    MaxWrites = 3
    MaxHttp = 1
PROPERTY ConvergesWithEndpoint
