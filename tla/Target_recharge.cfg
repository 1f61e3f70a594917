CONSTANTS
    Proc = {p1}
    Run = {r1}
    Auth = {a1, a2}
    Foreign = {}
    Stray = {}
    None = None
    DailyCap = 2
    MaxFaults = 1
SYMMETRY Symmetry
SPECIFICATION Spec
CHECK_DEADLOCK FALSE
INVARIANT ChargedOnce
