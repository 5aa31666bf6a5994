SPECIFICATION Spec
CONSTANTS
    Callers = {c1, c2}
    Finders = {f1, f2}
    Devices = {dev1, dev2}
    MaxIodd = 1
    NoEntry = NoEntry
    Refused = Refused
    Nothing = Nothing
PROPERTIES
    NothingForgotten
