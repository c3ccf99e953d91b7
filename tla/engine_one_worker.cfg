\* One worker, no late PUT: PUTs are applied in the order they are sent.
SPECIFICATION Spec
CONSTANTS
    k1 = k1
    k2 = k2
    w1 = w1
    w2 = w2
    Keys <- OneKey
    Deletable <- OneKey
    Workers <- OneWorker
    N = 2
    max_backoff_attempts = 1
    MaxVersion = 2
    MaxFaults = 3
    MaxLate = 0
INVARIANT ConvergedWhenQuiescent
PROPERTY WritesReachEndpoints
CHECK_DEADLOCK FALSE
