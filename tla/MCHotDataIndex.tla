--------------------------- MODULE MCHotDataIndex ---------------------------
(* Small instances of HotDataIndex.                                        *)
EXTENDS HotDataIndex

CONSTANTS o1, s1, s2

OneObject   == {o1}
TwoSessions == {s1, s2}
=============================================================================
