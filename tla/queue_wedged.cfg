\* The relock blocks.
SPECIFICATION Spec
CONSTANTS
    p1 = p1
    p2 = p2
    w1 = w1
    w2 = w2
    Producers <- TwoProducers
    Workers <- TwoWorkers
    NoThread = NoThread
    RelockOutcomes <- Blocks
    MaxTasks = 2
    MaxFaults = 0
    MaxCrashes = 0

PROPERTY AckedEventuallyFinished
CHECK_DEADLOCK FALSE
