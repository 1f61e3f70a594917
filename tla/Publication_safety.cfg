CONSTANTS
    Proc = {p1, p2}
    Run = {r1}
    Tx = {t1, t2}
    None = None
    MaxFaults = 1
SYMMETRY Symmetry
SPECIFICATION Spec
CHECK_DEADLOCK FALSE
INVARIANT TypeOK
INVARIANT SentIsRecorded
PROPERTY ImplementsAnchoring
