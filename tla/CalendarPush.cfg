SPECIFICATION Spec
CONSTANTS
    Slots = {s1}
    Workers = {w1, w2}
    MAX_ATTEMPTS = 2
    INTENT_MAX_ATTEMPTS = 2
    MaxEpoch = 1
    MaxJobs = 3
    MaxFaults = 1
INVARIANTS TypeOK DeletesOnlyCancelled BindingMatchesStamp
PROPERTY CancelledIsUnbound
CHECK_DEADLOCK FALSE
