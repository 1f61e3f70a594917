CONSTANTS
    Proc = {p1}
    Run = {r1}
    Auth = {a1, a2}
    Foreign = {f1}
    Stray = {}
    None = None
    DailyCap = 2
    MaxFaults = 1
SPECIFICATION FairSpec
ACTION_CONSTRAINT SignedInOrder
CHECK_DEADLOCK FALSE
INVARIANTS
    TypeOK
    NoReplacementWhileLive
PROPERTIES
    FinalKept
    CompleteAwaitsAttempt
    ImplementsTargetLedger
    ChargeCredited
