\* Two workers, two endpoints, an object written twice and deleted.
SPECIFICATION Spec
CONSTANTS
    k1 = k1
    k2 = k2
    w1 = w1
    w2 = w2
    Keys <- OneKey
    Deletable <- OneKey
    Workers <- TwoWorkers
    N = 2
    max_backoff_attempts = 1
    MaxVersion = 2
    MaxFaults = 2
    MaxLate = 1
SYMMETRY WorkerSymmetry
INVARIANT TypeOK
INVARIANT NoWriteForgotten
INVARIANT TasksBounded
CHECK_DEADLOCK FALSE
