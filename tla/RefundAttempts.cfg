SPECIFICATION Spec
CONSTANTS
    c1 = c1
    c2 = c2
    k1 = k1
    NoKey = NoKey
    Clients = {c1, c2}
    Key <- OneKey
    Amount = 2
    MaxAttempts = 2
    MaxSends = 2
    MaxFaults = 2
INVARIANTS
    TypeOK
    ReversedWithinAllocation
    RefundBookedOnce
    RefundAccountedFor
    OneCallPerAttempt
PROPERTY AttemptsSettle
CHECK_DEADLOCK FALSE
