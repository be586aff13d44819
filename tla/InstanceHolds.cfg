SPECIFICATION FairSpec
CONSTANTS
    Commands = {p1}
    MaxDial = 1
    Environments <- Deployments
    MaxStops = 1
CHECK_DEADLOCK FALSE
INVARIANTS
    GiveUpTakesTime
    CommandsFailFast
    BootPatience
    ReadyMeansUsable
    PortAsValidated
PROPERTIES
    Heals
