SPECIFICATION Spec
CONSTANTS
    None = None
    e1 = e1
    Events = {e1}
    Workers = {w1, w2}
    Order <- McOrder
    Before <- McBefore
    MAX_ATTEMPTS = 2
    MaxChanges = 2
    MaxTurns = 0
    MaxFaults = 0
PROPERTY OverlapIsSafe
CHECK_DEADLOCK FALSE
