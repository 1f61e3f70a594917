CONSTANTS
    r1 = r1
    r2 = r2
    None = None
    Run = {r1, r2}
    Evidence <- MCEvidence
    Requests <- MCRequests
    Contracts <- MCContracts
    Overlap = 2
    ChunkSize = 2
    Lag = 1
    Depth = 1
    MaxBlock = 4
    MaxTime = 2
    MaxFaults = 1
SPECIFICATION GateSpec
ACTION_CONSTRAINT Commuting
SYMMETRY Symmetry
CHECK_DEADLOCK FALSE
INVARIANTS
    TypeOK
    IndexComplete
    IndexSound
    ShownProved
    LocateExact
    AllowProved
    NewestDecides
