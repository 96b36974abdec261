CONSTANTS
    Servers <- MCServers
    Callers <- MCCallers
    Host <- MCHost
    Target <- MCTarget
    Wanted <- MCWanted
    ActionsOf <- MCActionsOf
    Parsers = {"events"}
    Serial = {"session1", "session2"}
    MaxCalls <- MCMaxCalls
    MaxEnds <- MCMaxEnds
SPECIFICATION FairSpec
INVARIANTS
    FirstActionIsKnown
PROPERTIES
    ImplementsRemoteCall
    CallsReturn
    StopsEnd
CHECK_DEADLOCK FALSE
