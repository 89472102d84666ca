SPECIFICATION Spec
CONSTANTS
    Product = {p1, p2}
    Warehouse = {w1}
    w1 = w1
    p1 = p1
    stocked = {}
    NoWarehouse = NoWarehouse
    NoKey = NoKey
    NoProduct = NoProduct
    NoCall = NoCall
    Order = {o1}
    Worker = {a}
    Call = {c1, c2}
    MaxQty = 1
    MaxCalls = 16
    LowStock = 0
    SeedRows <- MCRows
    Seed <- MCSeed1
    Crashes = FALSE
    Lines <- MCEach
    WarehouseOf <- MCFrom
    Till = {}
    Card = {o1}
    Guest = {}
    Coupon = {}
    MaxUses = 1
    Mishap = {}
    MaxRequests = 7
CHECK_DEADLOCK FALSE
SYMMETRY Symmetry
INVARIANTS
    NothingHeldForCancelled
