SPECIFICATION Spec
CONSTANTS
    a = a
    c = c
    d = d
    o1 = o1
    l1 = l1
    l2 = l2
    Txns = {x1, x2, x3}
    Slots = {a, c, d}
    Published = {a}
    Requests <- Contended
    Start <- McStart
    Learners = {l1, l2}
    Orders = {o1}
    Owner <- McOwner
    Count <- McCount
    Expires <- McExpires
    NoOrder = NoOrder
    NoSlot = NoSlot
    NoLearner = NoLearner
INVARIANTS UnitsBackBookings
PROPERTIES EveryRequestEnds BookedOnce ImplementsUnitLedger
CHECK_DEADLOCK FALSE
