SPECIFICATION FairSpec
CONSTANTS
    Threads = {t1}
    Modes <- MCModes
    MaxRequests = 2
    MaxAutoIters = 2
    MaxIdentical = 2
    MaxToolErrors = 2
    MaxPhaseIters = 2
    MaxInvestigation = 1
    MaxDeclared = 1
    MaxSessions = 2
INVARIANTS AnswersAreKept AutoWorkParksForCause
PROPERTIES RetryIsNotIdle SessionSettles
CHECK_DEADLOCK FALSE
