CONSTANTS
    text = text
    note = note
    None = None
    blank = blank
    cheap = cheap
    dear = dear
    InputField = {text, note, blank}
    Nameless = blank
    Terms = {cheap, dear}
    Challenge = text
    Contracts <- MCContracts
    FixedAnswers <- MCFixedAnswers
    ProbeAnswers <- MCProbeAnswers
    FreshAnswers <- MCFreshAnswers
SPECIFICATION Spec
CHECK_DEADLOCK FALSE
INVARIANTS
    TypeOK
    ReadAlike
    VerifiedEarned
    PaymentPublished
    AttemptNotJudged
    ProbeRefused
