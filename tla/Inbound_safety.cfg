CONSTANTS
    Proc = {p1, p2}
    Call = {c1, c2}
    Pass = {k1}
    Run = {r1, r2}
    Auth = {a1, a2}
    None = None
    Limit = 1
    MaxDay = 1
    MaxFaults = 1
SYMMETRY Symmetry
SPECIFICATION Spec
CHECK_DEADLOCK FALSE
INVARIANT TypeOK
INVARIANT CapacityHolds
INVARIANT RecordConsistent
PROPERTY ImplementsPaymentLedger
PROPERTY AmbiguousResolvedByChain
