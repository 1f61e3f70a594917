CONSTANTS
    Proc = {p1, p2}
    Caller = {c1}
    Stopping = {p1, p2}
    Free = Free
    MaxFaults = 2
SPECIFICATION Spec
SYMMETRY Symmetry
CHECK_DEADLOCK FALSE
INVARIANT TypeOK
INVARIANT LeaderHoldsLock
INVARIANT NoOrphanedLock
INVARIANT ClosedSessionUnused
PROPERTY ImplementsFencedWriter
