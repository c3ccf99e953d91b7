\* Two threads, four entries, the last of them always healthy.
SPECIFICATION Spec
CONSTANTS
    s1 = s1
    s2 = s2
    Sessions <- TwoSessions
    N = 4
    Width = 3
    Threads = 2
    Steady <- LastEntry
SYMMETRY Symmetries
INVARIANT TypeOK
INVARIANT RoundRobin
INVARIANT RefusedOnlyIfDisturbed
