SPECIFICATION Spec
CONSTANTS
    N = 3
    MaxParallel <- PoolOfTwo
    Heads <- StaleHeadOrNoGit
    MaxRetries = 1
    MaxEntries = 1
INVARIANT CapReachesWorkers
PROPERTY PoolKeepsPromise
CHECK_DEADLOCK FALSE
