SPECIFICATION FairSpec
CONSTANTS
    Product = {p1, p2}
    Warehouse = {w1}
    Key = {k1}
    NoKey = NoKey
    Call = {c1, c2}
    MaxQty = 1
    MaxCalls = 2
    LowStock = 1
    SeedRows <- OneStocked
    Seed <- OneStockedQ
    Crashes = TRUE
CHECK_DEADLOCK FALSE
INVARIANTS
    BatchDeductedOnce
    ChangesAnnounced
PROPERTIES
    LowEventuallyAlerted
