SPECIFICATION Spec
CONSTANTS
    plain = plain
    slot = slot
    pkg = pkg
    sub1 = sub1
    sub2 = sub2
    te = te
    t1 = t1
    t2 = t2
    t3 = t3
    Scenes <- OneScene
    Orders = {sub1, sub2}
    Product <- AllProducts
    Teacher <- OneTeacher
    Teachers = {te}
    Txns = {t1, t2}
    Valid = {t1, t2}
    Requests = {r1}
    MaxFaults = 1
    NoOrder = NoOrder
    NoTxn = NoTxn
INVARIANT AppliedOnce
CHECK_DEADLOCK FALSE
