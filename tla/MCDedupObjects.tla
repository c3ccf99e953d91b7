--------------------------- MODULE MCDedupObjects ---------------------------
(* Small instances of DedupObjects.                                        *)
EXTENDS DedupObjects, TLC

CONSTANTS t1, t2, k1, k2, c1, c2

TwoClients == {t1, t2}
TwoKeys    == {k1, k2}
TwoChunks  == {c1, c2}
TwoBits    == {1, 2}

\* The bits of c2 are among those of c1: once c1 is in the filter, c2 seems to be.
Nested == c1 :> {1, 2} @@ c2 :> {2}

\* Clients and keys are interchangeable, chunks are not.
Symmetries == Permutations(Clients) \cup Permutations(Keys)
=============================================================================
