SPECIFICATION FairSpec
CONSTANTS
    Callers = {c1, c2}
    Finders = {f1}
    Devices = {dev}
    MaxIodd = 1
    NoEntry = NoEntry
    Refused = Refused
    Nothing = Nothing
INVARIANTS
    TypeOK
    NamedFilesWhole
PROPERTIES
    StaleBeatsNothing
    CallsEnd
    IsCatalogue
