------------------------- MODULE MCReplicationEngine ------------------------
(* Small instances of ReplicationEngine.                                    *)
EXTENDS ReplicationEngine, TLC

CONSTANTS k1, k2, w1, w2

OneKey     == {k1}
TwoKeys    == {k1, k2}
NoKey      == {}
OneWorker  == {w1}
TwoWorkers == {w1, w2}

\* Workers are interchangeable (used with invariants only).
WorkerSymmetry == Permutations(Workers)
=============================================================================
