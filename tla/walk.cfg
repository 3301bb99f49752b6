SPECIFICATION FairSpec
CONSTANTS
    N = 2
    MaxParallel <- SerialOrAll
    Heads <- Directories
    MaxRetries = 1
    MaxEntries = 2
INVARIANT WorktreesLive AdvanceIsJudged
PROPERTY WalkReturns
CHECK_DEADLOCK FALSE
