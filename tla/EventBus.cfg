SPECIFICATION FairSpec
CONSTANTS
    Event = {e1, e2}
    e1 = e1
    e2 = e2
    Queue = {q1}
    Process = {p1, p2}
    Slot = {s1, s2}
    RoutingKey <- MCCreated
    Binding <- MCToOrders
    Handlers <- MCByKey
    Bundle <- MCAny
    NoEvent = NoEvent
    Limit = 2
    Mishap = {"kill", "storeFails", "claimFails", "handlerFails"}
    MaxOutages = 1
    MaxAccidents = 2
CHECK_DEADLOCK FALSE
INVARIANTS
    TypeOK
    NothingVanishes
    OnlyFailuresLose
PROPERTIES
    Delivers
    EventuallySettled
