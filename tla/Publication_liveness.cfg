CONSTANTS
    Proc = {p1, p2}
    Run = {r1}
    Tx = {t1}
    None = None
    MaxFaults = 1
SPECIFICATION FairSpec
CHECK_DEADLOCK FALSE
PROPERTY MinedCandidateResolved
