SPECIFICATION Spec
SYMMETRY Symmetry
CONSTANTS
    Ports = {p1, p2}
    Keys = {k1, k2}
    Junk = Junk
    Messages = {m1}
    Ticks = {t1, t2}
    MaxMeasured = 1
    Params = {a1, a2}
    Unknown = Unknown
    Names = {n1, n2}
    Values = {v1, v2}
    Bad = Bad
    Sockets = {s1, s2}
    Watched = {s1, s2}
    Texts = {x1, x2}
    Paths = {f1, f2}
    Broken = Broken
    MessageIoddCache = 2
    FolderFiles = {g1}
    Searches = {q1, q2}
    Wanted = {d1, d2}
    Translation = Translation
    Stray = Stray
    Stamps = {w1, w2}
    NotIndexed = NotIndexed
    NoFile = NoFile
INVARIANTS
    TypeOK
    NothingLost
    NoSilentWrite
    LeastRecentlyUsed
PROPERTY
    TimerGoesForward
