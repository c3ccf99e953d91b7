\* Three tasks, two failed LevelDB operations, a crash, both outcomes of the relock.
SPECIFICATION Spec
CONSTANTS
    p1 = p1
    p2 = p2
    w1 = w1
    w2 = w2
    Producers <- TwoProducers
    Workers <- TwoWorkers
    NoThread = NoThread
    RelockOutcomes <- EitherOutcome
    MaxTasks = 3
    MaxFaults = 2
    MaxCrashes = 1
INVARIANT TypeOK
INVARIANT CacheBackedByStore
INVARIANT StoredIsCached
INVARIANT DequeuesInOrder
INVARIANT AckedStaysQueued
PROPERTY CachedEventuallyFinished
CHECK_DEADLOCK FALSE
