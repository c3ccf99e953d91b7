\* Two workers hold tasks for one object.
SPECIFICATION Spec
CONSTANTS
    k1 = k1
    k2 = k2
    w1 = w1
    w2 = w2
    Keys <- OneKey
    Deletable <- NoKey
    Workers <- TwoWorkers
    N = 1
    max_backoff_attempts = 1
    MaxVersion = 2
    MaxFaults = 0
    MaxLate = 0
INVARIANT ConvergedWhenQuiescent
CHECK_DEADLOCK FALSE
