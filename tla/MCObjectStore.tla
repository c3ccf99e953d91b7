--------------------------- MODULE MCObjectStore ----------------------------
(* Small instances of ObjectStore.                                          *)
EXTENDS ObjectStore, TLC

CONSTANTS t1, t2, k1, k2, u1, u2, d1, d2

OneClient  == {t1}
TwoClients == {t1, t2}
OneKey     == {k1}
TwoKeys    == {k1, k2}
OneUpload  == {u1}
TwoUploads == {u1, u2}
OneDatum   == {d1}
TwoData    == {d1, d2}

\* Members of each set are interchangeable.
Symmetries ==
    UNION {Permutations(S) : S \in {Clients, Keys, Uploads, Data}}
=============================================================================
