CONSTANTS
    Proc = {p1}
    Call = {c1}
    Pass = {k1}
    Run = {r1}
    Auth = {a1}
    None = None
    Limit = 1
    MaxDay = 0
    MaxFaults = 0
SPECIFICATION FairSpec
CHECK_DEADLOCK FALSE
PROPERTY KeyEventuallyFree
