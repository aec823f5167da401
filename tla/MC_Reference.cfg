SPECIFICATION Spec
CONSTANTS
    None = None
    Sentinel = Sentinel
    CurrentYear = 2026
    MaxSyncs = 2
    Symbols <- MCSymbols
    Entries <- MCEntries
    Answers <- MCAnswers
    u1 = u1
    u2 = u2
    q1 = q1
    q2 = q2
    Underlyings = {u1, u2}
    Contracts <- MCContracts
    Quoted <- MCQuoted
    Configured = TRUE
    Cap = 1
    ChainTTL = 1
    QuoteTTL = 1
    Months = 2
    MaxFlight = 2
    MaxPaid = 3
    MaxBlind = 1
    MaxAnswers = 3
    NearCount = 3
    HalfWindow = 2
INVARIANTS
    RecordsAgree
    SpendIsBounded
    ExposuresAreTrue
PROPERTY StepsAreHonest
SYMMETRY Alike
CHECK_DEADLOCK FALSE
