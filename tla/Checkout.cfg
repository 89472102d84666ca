SPECIFICATION Spec
CONSTANTS
    City = {c1, c2}
    Showroom = {r1}
    Unit = {u1, u2}
    MaxEdits = 4
    MaxFailures = 1
    MaxOrders = 2
    None = None
CHECK_DEADLOCK FALSE
INVARIANTS
    TypeOK
    AddressFits
    OrderedOnce
    PromoFollowsTotal
PROPERTIES
    SubmitEnds
