SPECIFICATION FairSpec
CONSTANTS
    Clients = {1, 2, 3}
    Observers = {o1}
    Malformed = TRUE
    MaxSays = 1
    MaxEvents = 2
CHECK_DEADLOCK FALSE
INVARIANT HelloFirst ClientSeesHistory ObserversMissNothing
PROPERTY SendReturns LatestIsServed
