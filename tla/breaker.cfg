\* Three workers race on one breaker.
SPECIFICATION Spec
CONSTANTS
    w1 = w1
    w2 = w2
    w3 = w3
    Workers <- ThreeWorkers
    FAILURE_THRESHOLD = 2
    OPEN_TIMEOUT = 1
    MaxFailureCount = 3
INVARIANT TypeOK
INVARIANT NeverRestsPastThreshold
INVARIANT HalfOpenIsProbed
PROPERTY RecoversWhenUp
