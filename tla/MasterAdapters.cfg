SPECIFICATION Spec
SYMMETRY Symmetry
CONSTANTS
    Scans = {s1, s2}
    Devices = {dev1, dev2}
    Nobody = Nobody
    Callers = {c1, c2}
    Ports = {p1, p2}
    Aliases = {p1, p2, lamp}
    Unlisted = Unlisted
INVARIANTS
    TypeOK
    EmptyIsEmpty
    UndisturbedTellsAll
    AtMostOnce
    NotFoundIsTrue
    OldNamesDieOut
