--------------------------- MODULE MCTieredStore ----------------------------
(* Small instances of TieredStore.                                          *)
EXTENDS TieredStore, TLC

CONSTANTS s1, s2, k1

TwoSessions == {s1, s2}
OneKey      == {k1}

\* The defaults of config_loader.h.
DefaultLevel == [t \in Tiers |-> CASE t = "Hot" -> 0 [] t = "Warm" -> 5 [] t = "Cold" -> 9]

\* The default, and storage_warm_path equal to storage_path.
BothBases == {"base", "Warm"}
OwnBase   == {"base"}

Symmetries == Permutations(Sessions)
=============================================================================
