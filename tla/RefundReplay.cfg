SPECIFICATION Spec
CONSTANTS
    c1 = c1
    c2 = c2
    k1 = k1
    NoKey = NoKey
    Clients = {c1, c2}
    Key <- SameKey
    Amount = 1
    MaxAttempts = 2
    MaxSends = 1
    MaxFaults = 1
INVARIANT OneCallPerAttempt
CHECK_DEADLOCK FALSE
