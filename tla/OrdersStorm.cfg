SPECIFICATION Spec
CONSTANTS
    Product = {p1}
    Warehouse = {w1}
    w1 = w1
    p1 = p1
    stocked = {}
    NoWarehouse = NoWarehouse
    NoKey = NoKey
    NoProduct = NoProduct
    NoCall = NoCall
    Order = {o1, o2}
    Worker = {a, b}
    Call = {c1, c2}
    MaxQty = 1
    MaxCalls = 4
    LowStock = 0
    SeedRows <- MCRows
    Seed <- MCSeed2
    Crashes = FALSE
    Lines <- MCOne
    WarehouseOf <- MCFrom
    Till = {}
    Card = {}
    Guest = {}
    Coupon = {}
    MaxUses = 1
    Mishap = {"crash", "sameOrder"}
    MaxRequests = 5
CHECK_DEADLOCK FALSE
SYMMETRY SymmetryAll
INVARIANTS
    TakenOnce
