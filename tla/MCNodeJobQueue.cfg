CONSTANTS
    Producers = {s1, s2}
    Consumers = {w1, w2}
    MaxSize = 2
    MaxPush = 2
SPECIFICATION FairQueueSpec
INVARIANTS
    NoLostWakeup
    StopIsClean
PROPERTIES
    ImplementsFifo
    AcceptedJobsAreServed
    StopReturns
CHECK_DEADLOCK FALSE
