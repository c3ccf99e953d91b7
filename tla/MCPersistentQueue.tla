-------------------------- MODULE MCPersistentQueue -------------------------
(* Small instances of PersistentQueue: two request threads, two workers.   *)
EXTENDS PersistentQueue

CONSTANTS p1, p2, w1, w2

TwoProducers == {p1, p2}
TwoWorkers   == {w1, w2}
EitherOutcome == {"blocks", "grants"}
Blocks == {"blocks"}
=============================================================================
