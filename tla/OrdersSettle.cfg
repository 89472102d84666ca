SPECIFICATION FairSpec
CONSTANTS
    Product = {p1}
    Warehouse = {w1}
    w1 = w1
    p1 = p1
    stocked = {o1}
    NoWarehouse = NoWarehouse
    NoKey = NoKey
    NoProduct = NoProduct
    NoCall = NoCall
    Order = {o1, o2}
    Worker = {a}
    Call = {c1, c2}
    MaxQty = 1
    MaxCalls = 8
    LowStock = 0
    SeedRows <- MCRows
    Seed <- MCSeed1
    Crashes = TRUE
    Lines <- MCOne
    WarehouseOf <- MCMixed
    Till = {}
    Card = {o1, o2}
    Guest = {}
    Coupon = {}
    MaxUses = 1
    Mishap = {"timeout", "latePayment", "recall", "stuck", "refundFails"}
    MaxRequests = 5
CHECK_DEADLOCK FALSE
INVARIANTS
    ShippedMeansDeducted
    RefundedMeansCancelled
PROPERTIES
    UsesInventory
    RequestsEnd
    PaymentSettles
