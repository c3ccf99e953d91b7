------------------------- MODULE MCDedupChunkStore --------------------------
(* Small instances of DedupChunkStore.                                      *)
EXTENDS DedupChunkStore

CONSTANTS t1, c1, c2

OneClient  == {t1}
TwoChunks  == {c1, c2}

=============================================================================
