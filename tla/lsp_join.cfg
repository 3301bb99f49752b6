SPECIFICATION FairInterruptSpec
CONSTANTS
    Callers = {d1}
    Transports <- EveryTransport
    Capacity = 2
    MaxSessions = 1
    MaxCalls = 1
    MaxRequests = 1
    MaxStops = 0
PROPERTY JoinReturns
CHECK_DEADLOCK FALSE
