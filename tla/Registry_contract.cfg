CONSTANTS
    RunId = {r1}
    Account = {writer, other}
    Writer = writer
    Evidence = {e1, big}
    Oversize = {big}
    Bitmaps <- MCBitmaps
    NoRecord = NoRecord
    NoSignature = NoSignature
    BadSignature = BadSignature
SPECIFICATION Spec
CHECK_DEADLOCK FALSE
INVARIANT TypeOK
INVARIANT ReadersAgree
 
PROPERTY WriteOnce
