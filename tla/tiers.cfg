\* Two sessions and the index on one object written twice, in both layouts, and a write
\* or a rename that fails.
SPECIFICATION Spec
CONSTANTS
    s1 = s1
    s2 = s2
    k1 = k1
    Sessions <- TwoSessions
    Decay = Decay
    Maintenance = Maintenance
    NoProc = NoProc
    Keys <- OneKey
    None = None
    Torn = Torn
    Garbage = Garbage
    Level <- DefaultLevel
    Empty = {2}
    BasePaths <- BothBases
    MaxVersion = 2
    MaxRequests = 3
    MaxFaults = 1
SYMMETRY Symmetries
INVARIANT TypeOK
INVARIANT HotMeansInHotTier
INVARIANT ObjectSurvives
INVARIANT ServesNewestUnlessDisturbed
PROPERTY ReadsPlaintext
CHECK_DEADLOCK FALSE
