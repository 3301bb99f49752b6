SPECIFICATION Spec
CONSTANTS
    Paths = {p, q}
    MaxCalls = 2
    MaxOps = 3
    MaxAnswers = 3
    MaxSessions = 2
SYMMETRY MCSymmetry
INVARIANTS StaleNeedsLapse LastReadIsKept ResultsFollowCalls PanelShowsAll
CHECK_DEADLOCK FALSE
