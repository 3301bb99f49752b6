SPECIFICATION Spec
CONSTANTS
    Procs = {p1, p2}
    Peers = {q}
    Versions = {v1, v2}
    Drafts = {d1, d2}
    MaxRuns = 3
    MaxChanges = 1
SYMMETRY MCSymmetry
INVARIANTS
    CorpusOfOneIngest
    FreshIsTrue
CHECK_DEADLOCK FALSE
