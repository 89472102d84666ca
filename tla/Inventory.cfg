SPECIFICATION Spec
CONSTANTS
    Product = {p1}
    Warehouse = {w1, w2}
    Key = {k1}
    NoKey = NoKey
    Call = {c1, c2}
    MaxQty = 2
    MaxCalls = 3
    LowStock = 1
    SeedRows <- OneStocked
    Seed <- OneStockedQ
    Crashes = TRUE
CHECK_DEADLOCK FALSE
SYMMETRY Symmetry
INVARIANTS
    TypeOK
    AckMeansRecorded
    NoNegativeStock
    LedgerBalances
    NoSilentLow
PROPERTIES
    OnlyAdjustUncovers
