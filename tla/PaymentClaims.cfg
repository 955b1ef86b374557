SPECIFICATION Spec
CONSTANTS
    a = a
    b = b
    l1 = l1
    t1 = t1
    m1 = m1
    p1 = p1
    x1 = x1
    Txns = {x1, x2, x3}
    Slots = {a, b}
    Learners = {l1}
    Methods = {m1}
    SlotTeacher <- McSlotTeacher
    MethodTeacher <- McMethodTeacher
    PurchaseLearner <- McPurchaseLearner
    PurchaseTeacher <- McPurchaseTeacher
    NoLearner = NoLearner
    NoTeacher = NoTeacher
    NoMethod = NoMethod
    Booked <- McBooked
    Requests <- AllRequests
INVARIANTS
    OneActiveClaim
    NoClaimOnPackagedLesson
    RefundsWithinClaim
CHECK_DEADLOCK FALSE
PROPERTY EveryRequestEnds
