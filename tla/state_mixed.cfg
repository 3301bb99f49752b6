SPECIFICATION Spec
CONSTANTS
    Procs = {p1, p2}
    None = None
    Torn = Torn
    Length <- MCLength
    Kinds <- EveryKind
    MaxOps = 3
    MaxFaults = 1
CHECK_DEADLOCK FALSE
SYMMETRY ProcSymmetry
INVARIANT LockDiscipline OneFlow LossNeedsRace ResetIsFinal
