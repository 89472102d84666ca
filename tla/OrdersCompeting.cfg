SPECIFICATION Spec
CONSTANTS
    Product = {p1, p2}
    Warehouse = {w1}
    w1 = w1
    p1 = p1
    stocked = {}
    NoWarehouse = NoWarehouse
    NoKey = NoKey
    NoProduct = NoProduct
    NoCall = NoCall
    Order = {o1, o2, o3, o4}
    Worker = {a, b}
    Call = {c1, c2}
    MaxQty = 1
    MaxCalls = 16
    LowStock = 0
    SeedRows <- MCRows
    Seed <- MCSeed1
    Crashes = FALSE
    Lines <- MCEach
    WarehouseOf <- MCFrom
    Till = {o3}
    Card = {o1}
    Guest = {o4}
    Coupon = {o1, o3}
    MaxUses = 1
    Mishap = {}
    MaxRequests = 7
CHECK_DEADLOCK FALSE
SYMMETRY Symmetry
INVARIANTS
    TypeOK
    ReservedAccounted
    HistoryCurrent
    PromoCounted
