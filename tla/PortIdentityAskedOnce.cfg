SPECIFICATION Spec
CONSTANTS
    Callers = {c1, c2}
    Ports = {p1}
    Identified = {dev1}
    VendorOnly = VendorOnly
    Anonymous = Anonymous
    Empty = Empty
    Unreachable = Unreachable
    Wishes = {2}
    EmptyTtl = 1
    Cap = 2
    NoEntry = NoEntry
    NoResult = NoResult
INVARIANT AskedOnce
