SPECIFICATION Spec
CONSTANTS
    Note = {n1, n2}
    Silent = {n2}
    Slot = {s1, s2}
    MaxClicks = 2
    Nothing = Nothing
CHECK_DEADLOCK FALSE
SYMMETRY Symmetry
INVARIANTS
    TypeOK
    NoTwice
    ToldStaysListed
    TickedStaysRead
