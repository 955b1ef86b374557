SPECIFICATION Spec
CONSTANTS
    None = None
    e1 = e1
    Events = {e1, e2}
    Workers = {w1, w2}
    Order <- McOrder
    Before <- McBefore
    MAX_ATTEMPTS = 2
    MaxChanges = 3
    MaxTurns = 1
    MaxFaults = 1
INVARIANTS TypeOK CacheAtToken
PROPERTIES CacheConverges 
CHECK_DEADLOCK FALSE
