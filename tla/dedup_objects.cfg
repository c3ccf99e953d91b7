\* Two clients, objects of up to two chunks whose bits collide, a fault, a crash.
\* When all puts and deletes are done nothing is left to do.
SPECIFICATION Spec
CONSTANTS
    t1 = t1
    t2 = t2
    k1 = k1
    k2 = k2
    c1 = c1
    c2 = c2
    Clients <- TwoClients
    Keys <- TwoKeys
    Chunks <- TwoChunks
    Bits <- TwoBits
    Pos <- Nested
    NoHash = NoHash
    None = None
    Torn = Torn
    MaxLen = 2
    MaxPuts = 2
    MaxFaults = 1
    MaxCrashes = 1
CHECK_DEADLOCK FALSE
SYMMETRY Symmetries
INVARIANT TypeOK
INVARIANT CountedChunksFound
INVARIANT ReadsBack
INVARIANT CountsCoverManifests
