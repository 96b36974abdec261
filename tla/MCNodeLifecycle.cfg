CONSTANTS
    CharValues = 8
    CharIsSigned = TRUE
    Requests = {1, 2, 3}
    Url <- MCUrl
    Json <- MCJson
    MaxStarts = 2
    MaxCrashes = 1
    MaxSilent = 1
SPECIFICATION FairSpec
INVARIANTS
    TasksHaveChannels
    UnitsAccountedFor
    ReadAsSent
PROPERTIES
    StopEnds
    
CHECK_DEADLOCK FALSE
