SPECIFICATION Spec
CONSTANTS
    Writes = {w1, w2}
    Fields = {valve1, valve2}
    Values = {Zero, One}
    Zero = Zero
    Typo = Typo
INVARIANTS
    TypeOK
    BaseWasReal
PROPERTIES
    AloneLeavesOthers
