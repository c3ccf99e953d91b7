--------------------------- MODULE MCLoadBalancer ---------------------------
(* Small instances of LoadBalancer.                                         *)
EXTENDS LoadBalancer, TLC

CONSTANTS s1, s2

TwoSessions == {s1, s2}
LastEntry   == {N - 1}

\* Sessions are interchangeable.
Symmetries == Permutations(Sessions)
=============================================================================
