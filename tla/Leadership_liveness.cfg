CONSTANTS
    Proc = {p1, p2}
    Caller = {c1}
    Stopping = {}
    Free = Free
    MaxFaults = 1
SPECIFICATION FairSpec
PROPERTY LeaderEmerges
PROPERTY LostIsTransient
