CONSTANTS
    NPorts = 8
    MaxUnits = 4
    MaxOwned = 2
    MaxCrashes = 1
    MaxRequests = 1
    LateInference = FALSE
SPECIFICATION FairSpec
INVARIANTS
    PortsHeldOnce
    NoUseAfterFree
PROPERTIES
    ExitFreesUnit
    ImplementsLease
CHECK_DEADLOCK FALSE
