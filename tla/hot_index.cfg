\* Two sessions on one object: a first access is above one and a half times the
\* threshold, as with the code's defaults, and counts reach 0 before and after the
\* bonus ends.  When Stop was called and all is done the system may stop.
SPECIFICATION Spec
CONSTANTS
    o1 = o1
    s1 = s1
    s2 = s2
    Objects <- OneObject
    Sessions <- TwoSessions
    min_hot_access_count = 3
    hot_threshold_score = 3
    DecayNum = 1
    DecayDen = 2
    Horizon = 2
    Weight = 2
    MaxAccesses = 5
    MaxFaults = 2
CHECK_DEADLOCK FALSE
INVARIANT TypeOK
INVARIANT HotTierIsTracked
PROPERTY CoolsOrFreezes
