\* One client, two chunks, a crash and one failed LevelDB or file operation or encryption.
SPECIFICATION Spec
CONSTANTS
    t1 = t1
    c1 = c1
    c2 = c2
    Clients <- OneClient
    Chunks <- TwoChunks
    NoClient = NoClient
    gc_batch_size = 2
    MaxRefs = 1
    MaxFaults = 1
    MaxCrashes = 1
INVARIANT TypeOK
INVARIANT ReferencedChunksKept
PROPERTY StopReturns
PROPERTY GarbageCollected
