SPECIFICATION Spec
CONSTANTS
    Menus = {m1, m2, m3}
    m1 = m1
    m2 = m2
    m3 = m3
    Temp = Temp
    on = on
    NotShown = NotShown
    NoWord = NoWord
    PathWord = PathWord
    Misspelt = Misspelt
    NoVariant = NoVariant
    Anything = Anything
    Files <- TheFiles
    Supplied <- TheConditions
    Numbers <- TheNumbers
    Texts = {on}
    Strings <- TheStrings
    Paddings <- ThePaddings
INVARIANTS
    KeysUnique
    FieldsHold
    NeverGuessed
CHECK_DEADLOCK FALSE
