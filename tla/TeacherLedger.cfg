SPECIFICATION Spec
CONSTANTS
    a = a
    b = b
    c = c
    l1 = l1
    l2 = l2
    t1 = t1
    Txns = {x1, x2, x3}
    Lessons = {a, b, c}
    PairOf <- McPairOf
    Price <- McPrice
    CompletedAt <- McCompletedAt
    Requests <- AllRequests
SYMMETRY Symmetry
INVARIANTS
    CoverageWithinPrice
    OldestFirst
CHECK_DEADLOCK FALSE
