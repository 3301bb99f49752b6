SPECIFICATION FairInterruptSpec
CONSTANTS
    Callers = {d1, d2}
    Transports <- EveryTransport
    Capacity = 1
    MaxSessions = 2
    MaxCalls = 1
    MaxRequests = 2
    MaxStops = 1
INVARIANT NoStaleCancel
PROPERTY StopEndsSession ExitReturns
CHECK_DEADLOCK FALSE
