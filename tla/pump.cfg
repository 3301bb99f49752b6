SPECIFICATION Spec
CONSTANTS
    Windows = {w1, w2}
    MaxSessions = 2
    MaxHosts = 4
SYMMETRY MCSymmetry
INVARIANTS
    OneWindowDrives
    NoStray
CHECK_DEADLOCK FALSE
