CONSTANTS
    Services <- MCServices
    PortServices = {"unit-manager"}
    Rounds = 3
    Recycled = FALSE
    MaxPid = 12
    MaxCommands = 3
    MaxFaults = 1
SPECIFICATION FairSpec
INVARIANTS
    StopLeavesNothing
    OneInstance
PROPERTIES
    ServicesComeBack
CHECK_DEADLOCK FALSE
