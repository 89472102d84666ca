SPECIFICATION Spec
CONSTANTS
    Product = {p1, p2}
    Slot = {s1, s2}
    MaxQuantity = 2
    MaxActs = 3
    MaxFailures = 1
    Nobody = Nobody
CHECK_DEADLOCK FALSE
SYMMETRY Symmetry
INVARIANTS
    TypeOK
    RemovedStaysOut
    OnlyStaleReads
