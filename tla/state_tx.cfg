SPECIFICATION FairSpec
CONSTANTS
    Procs = {p1, p2}
    None = None
    Torn = Torn
    Length <- MCLength
    Kinds <- Transactional
    MaxOps = 3
    MaxFaults = 2
CHECK_DEADLOCK FALSE
INVARIANT NeverTorn AckedSurvives
PROPERTY ImplementsStore EveryOperationReturns
