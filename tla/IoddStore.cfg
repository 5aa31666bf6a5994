SPECIFICATION FairSpec
CONSTANTS
    Callers = {c1, c2, c3}
    Keys = {k1}
    Remote = {"network", "cache"}
    RetryAfter = 2
    NoEntry = NoEntry
    NoFailure = NoFailure
    NoResult = NoResult
INVARIANTS
    TypeOK
    LookupShared
    WaitersServed
PROPERTIES
    LeftAlone
    FoundStays
    ResolvesAtLast
