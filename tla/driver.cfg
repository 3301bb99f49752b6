SPECIFICATION FairSpec
CONSTANTS
    Steps = 2
    MaxCritiqueIters = 1
    MaxNoProgressIters = 1
    MaxLlmRequests = 2
    WalkCap = 1
    Parallel <- EveryWalk
    Stubs = 2
    MaxFindings = 2
    MaxHostEvents = 2
    MaxKills = 1
INVARIANT OneSessionEnd RetryBudget QueueIsShort HostIsHeeded
PROPERTY CapStopsTheLoop ShutdownExits QueuedCommandRuns
