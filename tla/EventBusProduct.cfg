SPECIFICATION Spec
CONSTANTS
    Event = {e1, e2}
    e1 = e1
    e2 = e2
    Queue = {q1}
    Process = {p1, p2}
    Slot = {s1, s2}
    RoutingKey <- MCChanged
    Binding <- MCToStock
    Handlers <- MCByQueue
    Bundle <- MCAny
    NoEvent = NoEvent
    Limit = 2
    Mishap = {}
    MaxOutages = 0
    MaxAccidents = 2
CHECK_DEADLOCK FALSE
INVARIANTS
    OnlyFailuresLose
