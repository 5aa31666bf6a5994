SPECIFICATION FairSpec
CONSTANTS
    NPorts = 1
    Devices = {dev1, dev2}
    Anonymous = Anonymous
    NullId = NullId
    Empty = Empty
    Unreachable = Unreachable
    Healths = {well, ill}
    Unread = Unread
    Unknown = Unknown
    NoState = NoState
    Messages = {m1}
INVARIANTS
    TypeOK
    NoChangeLost
    OutageIsNoChange
PROPERTIES
    MessagesChain
    TimerSilentWhenClosed
    EventuallyTold
