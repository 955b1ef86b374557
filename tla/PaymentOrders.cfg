SPECIFICATION Spec
CONSTANTS
    plain = plain
    slot = slot
    pkg = pkg
    sub1 = sub1
    sub2 = sub2
    te = te
    t1 = t1
    t2 = t2
    t3 = t3
    Scenes <- SmallScenes
    Orders = {plain, slot, pkg, sub1}
    Product <- AllProducts
    Teacher <- OneTeacher
    Teachers = {te}
    Txns = {t1, t2, t3}
    Valid = {t1, t2}
    Requests = {r1, r2}
    MaxFaults = 2
    NoOrder = NoOrder
    NoTxn = NoTxn
INVARIANTS
    TypeOK
    PaidMeansCaptured
    RecordedMeansFulfilled
    AcknowledgedMeansFulfilled
    RunsNeedFaults
PROPERTIES PaidIsFinal CapturedIsFulfilled
CHECK_DEADLOCK FALSE
