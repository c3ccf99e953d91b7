-------------------------- MODULE DedupObjectsProofs ------------------------
(***************************************************************************)
(* What DedupObjects' run checks on a small instance, for every set of     *)
(* clients, keys and chunks, every Bloom filter and objects of any length: *)
(* the filter never denies a counted chunk, what was put reads back, and   *)
(* the counts cover the manifests.                                         *)
(***************************************************************************)
EXTENDS DedupObjects, FiniteSetTheorems, TLAPS

-----------------------------------------------------------------------------
(* Sequences of chunks and hashes.                                         *)

\* SeqsOf has the sequences up to MaxLen.
LEMMA SeqsOfIs ==
    ASSUME NEW S
    PROVE  SeqsOf(S) = {s \in Seq(S) : Len(s) <= MaxLen}
<1>0. MaxLen \in Nat
  BY ValueAssumption
<1>1. ASSUME NEW s \in SeqsOf(S) PROVE s \in Seq(S) /\ Len(s) <= MaxLen
  <2>1. PICK n \in 0..MaxLen : s \in [1..n -> S]
    BY DEF SeqsOf
  <2>2. n \in Nat /\ n <= MaxLen
    BY <1>0
  <2>3. s \in Seq(S) /\ Len(s) = n
    BY <2>1, <2>2
  <2> QED
    BY <2>2, <2>3
<1>2. ASSUME NEW s \in Seq(S), Len(s) <= MaxLen PROVE s \in SeqsOf(S)
  <2>1. s \in [1..Len(s) -> S] /\ Len(s) \in Nat
    OBVIOUS
  <2>2. Len(s) \in 0..MaxLen
    BY <1>0, <1>2, <2>1
  <2> QED
    BY <2>1, <2>2 DEF SeqsOf
<1> QED
  BY <1>1, <1>2

LEMMA EmptySeq ==
    ASSUME NEW S
    PROVE  <<>> \in SeqsOf(S)
<1>1. <<>> \in Seq(S) /\ Len(<<>>) = 0 /\ 0 <= MaxLen
  BY ValueAssumption
<1> QED
  BY <1>1, SeqsOfIs

\* Inside StoreChunk, the chunk is one.
LEMMA CurrentType ==
    ASSUME TypeOK, InLoop, NEW t \in Clients, pc[t] \notin {"idle", "manifest"}
    PROVE  Current(t) \in Chunks
<1>1. todo[t] \in Seq(Chunks) /\ todo[t] # <<>>
  BY SeqsOfIs DEF TypeOK, InLoop
<1> QED
  BY <1>1 DEF Current

\* StoreChunk returns: the manifest grows by one hash, the loop moves on.
LEMMA ReturnType ==
    ASSUME TypeOK, InLoop, NEW t \in Clients, NEW h \in Chunks \cup {NoHash}, Return(t, h),
           pc[t] \notin {"idle", "manifest"}
    PROVE  /\ pc' \in [Clients -> Positions]
           /\ todo' \in [Clients -> SeqsOf(Chunks)]
           /\ hashes' \in [Clients -> SeqsOf(Chunks \cup {NoHash})]
           /\ InLoop'
           /\ pc'[t] \in {"probe", "manifest"}
           /\ \A u \in Clients \ {t} : /\ pc'[u] = pc[u] /\ todo'[u] = todo[u]
                                       /\ hashes'[u] = hashes[u]
           /\ Len(hashes'[t]) = Len(hashes[t]) + 1 /\ Len(hashes[t]) \in Nat
           /\ \A i \in 1..Len(hashes[t]) : hashes'[t][i] = hashes[t][i]
           /\ hashes'[t][Len(hashes[t]) + 1] = h
           /\ Len(hashes[t]) + 1 \in 1..MaxLen
<1>0. MaxLen \in Nat
  BY ValueAssumption
<1>1. /\ todo[t] \in Seq(Chunks) /\ Len(todo[t]) <= MaxLen /\ todo[t] # <<>>
      /\ hashes[t] \in Seq(Chunks \cup {NoHash})
      /\ Len(hashes[t]) + Len(todo[t]) <= MaxLen
  BY SeqsOfIs DEF TypeOK, InLoop
<1>2. /\ Tail(todo[t]) \in Seq(Chunks) /\ Len(Tail(todo[t])) = Len(todo[t]) - 1
      /\ Len(todo[t]) \in Nat \ {0}
  BY <1>1
<1>3. /\ Append(hashes[t], h) \in Seq(Chunks \cup {NoHash})
      /\ Len(Append(hashes[t], h)) = Len(hashes[t]) + 1
      /\ Len(hashes[t]) \in Nat
      /\ \A i \in 1..Len(hashes[t]) : Append(hashes[t], h)[i] = hashes[t][i]
      /\ Append(hashes[t], h)[Len(hashes[t]) + 1] = h
  BY <1>1
<1> DEFINE m == Len(hashes[t])
           n == Len(todo[t])
<1>4. m \in Nat /\ n \in Nat \ {0} /\ m + n <= MaxLen
  BY <1>1, <1>2, <1>3
<1>5. /\ m + 1 \in 1..MaxLen /\ (m + 1) + (n - 1) <= MaxLen
       /\ m + 1 <= MaxLen /\ n - 1 <= MaxLen
  <2> HIDE DEF m, n
  <2> QED
    BY <1>0, <1>4
<1>6. Tail(todo[t]) \in SeqsOf(Chunks) /\ Append(hashes[t], h) \in SeqsOf(Chunks \cup {NoHash})
  <2>1. Len(Append(hashes[t], h)) <= MaxLen /\ Len(Tail(todo[t])) <= MaxLen
    BY <1>2, <1>3, <1>5
  <2> QED
    BY <1>2, <1>3, <2>1, SeqsOfIs
<1>7. /\ todo' = [todo EXCEPT ![t] = Tail(todo[t])]
      /\ hashes' = [hashes EXCEPT ![t] = Append(hashes[t], h)]
      /\ pc' = [pc EXCEPT ![t] = AtChunk(Tail(todo[t]))]
  BY DEF Return, Goto
<1>8. /\ AtChunk(Tail(todo[t])) \in {"probe", "manifest"}
      /\ AtChunk(Tail(todo[t])) = "probe" => Tail(todo[t]) # <<>>
  BY DEF AtChunk
<1>9. InLoop'
  <2> SUFFICES ASSUME NEW u \in Clients
               PROVE  /\ pc'[u] \notin {"idle", "manifest"} => todo'[u] # <<>>
                      /\ pc'[u] # "idle" => Len(hashes'[u]) + Len(todo'[u]) <= MaxLen
    BY DEF InLoop
  <2>1. CASE u = t
    <3>1. hashes'[t] = Append(hashes[t], h) /\ todo'[t] = Tail(todo[t])
          /\ pc'[t] = AtChunk(Tail(todo[t]))
      BY <1>7 DEF TypeOK
    <3>2. Len(Append(hashes[t], h)) + Len(Tail(todo[t])) <= MaxLen
      BY <1>2, <1>3, <1>5
    <3> QED
      BY <1>8, <2>1, <3>1, <3>2
  <2>2. CASE u # t
    BY <1>7, <2>2 DEF TypeOK, InLoop
  <2> QED
    BY <2>1, <2>2
<1>10. Len(hashes[t]) + 1 \in 1..MaxLen
  BY <1>5
<1> QED
  BY <1>3, <1>6, <1>7, <1>8, <1>9, <1>10 DEF TypeOK, Positions

-----------------------------------------------------------------------------
(* The inductive invariant.                                                *)

\* The position of one client after a step.
LEMMA GotoType ==
    ASSUME TypeOK, NEW t \in Clients, NEW p \in Positions, Goto(t, p)
    PROVE  /\ pc' \in [Clients -> Positions]
           /\ pc'[t] = p /\ \A u \in Clients \ {t} : pc'[u] = pc[u]
BY DEF Goto, TypeOK

\* No overlap goes unnoted in a step that begins no store.
LEMMA RivalsKept ==
    ASSUME Inv, disturbed \subseteq disturbed',
           \A u \in Clients : pc'[u] \notin {"idle", "probe", "manifest"} =>
               pc[u] \notin {"idle", "probe", "manifest"} /\ Current(u)' = Current(u)
    PROVE  \A u \in Clients : pc'[u] \notin {"idle", "probe", "manifest"} /\ Rivals(u)' # {} =>
               Current(u)' \in disturbed'
<1> SUFFICES ASSUME NEW u \in Clients, pc'[u] \notin {"idle", "probe", "manifest"},
                    Rivals(u)' # {}
             PROVE  Current(u)' \in disturbed'
  OBVIOUS
<1>1. PICK v \in Clients \ {u} : /\ pc'[v] \notin {"idle", "probe", "manifest"}
                                 /\ Current(v)' = Current(u)'
  BY DEF Rivals
<1>2. /\ pc[u] \notin {"idle", "probe", "manifest"} /\ Current(u)' = Current(u)
      /\ pc[v] \notin {"idle", "probe", "manifest"} /\ Current(v)' = Current(v)
  BY <1>1
<1>3. v \in Rivals(u)
  BY <1>1, <1>2 DEF Rivals
<1> QED
  BY <1>2, <1>3 DEF Inv, OverlapsNoted

\* A put begins: the chunks are given, none is in the store.
LEMMA PutObjectInv ==
    ASSUME Inv, NEW t \in Clients, NEW k \in Keys, NEW x \in SeqsOf(Chunks),
           PutObject(t, k, x)
    PROVE  Inv'
<1> USE DEF store, local, history
<1>0. /\ x \in Seq(Chunks) /\ Len(x) <= MaxLen /\ <<>> \in SeqsOf(Chunks \cup {NoHash})
      /\ MaxLen \in Nat
  BY SeqsOfIs, EmptySeq, ValueAssumption
<1>1. /\ AtChunk(x) \in {"probe", "manifest"} /\ AtChunk(x) \in Positions
      /\ AtChunk(x) = "probe" => x # <<>>
      /\ pc[t] = "idle" /\ Goto(t, AtChunk(x))
      /\ todo' = [todo EXCEPT ![t] = x] /\ hashes' = [hashes EXCEPT ![t] = <<>>]
      /\ UNCHANGED <<store, local, mixed, history>>
  BY DEF PutObject, AtChunk, Positions
<1>2. /\ pc'[t] \in {"probe", "manifest"}
      /\ \A u \in Clients \ {t} : pc'[u] = pc[u] /\ todo'[u] = todo[u] /\ hashes'[u] = hashes[u]
      /\ todo'[t] = x /\ hashes'[t] = <<>>
  BY <1>1, GotoType DEF Inv, TypeOK
<1>3. \A u \in Clients \ {t} : Current(u)' = Current(u)
  BY <1>2 DEF Current
<1>4. TypeOK'
  <2>1. pc' \in [Clients -> Positions]
    BY <1>1, GotoType DEF Inv
  <2>2. /\ key' \in [Clients -> Keys] /\ todo' \in [Clients -> SeqsOf(Chunks)]
        /\ hashes' \in [Clients -> SeqsOf(Chunks \cup {NoHash})]
    BY <1>0 DEF PutObject, Inv, TypeOK
  <2>3. puts' \in Nat /\ UNCHANGED <<faults, crashes>>
    BY DEF PutObject, Inv, TypeOK
  <2> QED
    BY <1>1, <2>1, <2>2, <2>3 DEF Inv, TypeOK
<1>5. InLoop'
  <2>1. Len(<<>>) + Len(x) <= MaxLen
    BY <1>0
  <2>2. pc'[t] = AtChunk(x)
    BY <1>1, GotoType DEF Inv
  <2> QED
    BY <1>1, <1>2, <2>1, <2>2 DEF Inv, InLoop
<1>6. FilterFollows' /\ CountedChunksFound'
  BY <1>1, <1>2, <1>3 DEF Inv, FilterFollows, CountedChunksFound
<1>7. OverlapsNoted'
  BY <1>1, <1>2, <1>3, RivalsKept DEF Inv, OverlapsNoted, TypeOK
<1>8. CountsFresh'
  BY <1>1, <1>2, <1>3 DEF Inv, CountsFresh
<1>9. FilesWhole'
  BY <1>1, <1>2, <1>3 DEF Inv, FilesWhole
<1>10. ListedIsCounted'
  BY <1>1, <1>2 DEF Inv, ListedIsCounted, Listed
<1> QED
  BY <1>4, <1>5, <1>6, <1>7, <1>8, <1>9, <1>10 DEF Inv

\* The manifest is stored, or not.
LEMMA PutManifestInv ==
    ASSUME Inv, NEW t \in Clients, PutManifest(t)
    PROVE  Inv'
<1> USE DEF history
<1>0. <<>> \in SeqsOf(Chunks \cup {NoHash}) /\ "idle" \in Positions
  BY EmptySeq DEF Positions
<1>1. /\ pc[t] = "manifest" /\ Goto(t, "idle")
      /\ hashes' = [hashes EXCEPT ![t] = <<>>] /\ UNCHANGED <<bits, ref, file, todo, unset, mixed, history>>
      /\ val' = [val EXCEPT ![t] = 0]
  BY DEF PutManifest, EndPut
<1>2. /\ pc'[t] = "idle"
      /\ \A u \in Clients \ {t} : pc'[u] = pc[u] /\ hashes'[u] = hashes[u] /\ val'[u] = val[u]
      /\ hashes'[t] = <<>> /\ key[t] \in Keys /\ hashes[t] \in SeqsOf(Chunks \cup {NoHash})
  BY <1>0, <1>1, GotoType DEF Inv, TypeOK, Positions
<1>3. \A u \in Clients : Current(u)' = Current(u)
  BY <1>1 DEF Current
<1>4. TypeOK'
  <2>1. faults' \in Nat
    BY DEF PutManifest, Fault, Inv, TypeOK
  <2>2. manifest' \in [Keys -> SeqsOf(Chunks \cup {NoHash}) \cup {None, Torn}]
    BY <1>2 DEF PutManifest, Inv, TypeOK
  <2>3. /\ word' \in [Clients -> SUBSET Bits] /\ val' \in [Clients -> Nat]
    BY DEF PutManifest, EndPut, Inv, TypeOK
  <2>4. pc' \in [Clients -> Positions]
    BY <1>0, <1>1, GotoType DEF Inv
  <2>5. hashes' \in [Clients -> SeqsOf(Chunks \cup {NoHash})]
    BY <1>0, <1>1 DEF Inv, TypeOK
  <2>6. UNCHANGED <<key, puts, crashes>>
    BY DEF PutManifest, EndPut
  <2> QED
    BY <1>1, <2>1, <2>2, <2>3, <2>4, <2>5, <2>6 DEF Inv, TypeOK
<1>5. InLoop'
  BY <1>1, <1>2 DEF Inv, InLoop
<1>6. FilterFollows' /\ CountedChunksFound'
  BY <1>1, <1>2, <1>3 DEF Inv, FilterFollows, CountedChunksFound
<1>7. OverlapsNoted'
  BY <1>1, <1>2, <1>3, RivalsKept DEF Inv, OverlapsNoted, TypeOK
<1>8. CountsFresh'
  BY <1>1, <1>2, <1>3 DEF Inv, CountsFresh
<1>9. FilesWhole'
  BY <1>1, <1>2, <1>3 DEF Inv, FilesWhole
<1>10. ListedIsCounted'
  <2>1. \A k \in Keys : manifest'[k] \in {manifest[k], hashes[t]} /\ (manifest'[k] # manifest[k] => manifest'[k] = hashes[t])
    BY <1>2 DEF PutManifest, Inv, TypeOK
  <2> QED
    BY <1>1, <1>2, <2>1 DEF Inv, ListedIsCounted, Listed
<1> QED
  BY <1>4, <1>5, <1>6, <1>7, <1>8, <1>9, <1>10 DEF Inv

\* A manifest is removed.
LEMMA DeleteObjectInv ==
    ASSUME Inv, NEW t \in Clients, NEW k \in Keys, DeleteObject(t, k)
    PROVE  Inv'
<1> USE DEF DeleteObject, put, local, history
<1>1. \A u \in Clients : Current(u)' = Current(u)
  BY DEF Current
<1>2. TypeOK' /\ InLoop'
  BY DEF Inv, TypeOK, InLoop
<1>3. FilterFollows' /\ CountedChunksFound'
  BY <1>1 DEF Inv, FilterFollows, CountedChunksFound
<1>4. OverlapsNoted' /\ CountsFresh' /\ FilesWhole'
  BY <1>1 DEF Inv, TypeOK, OverlapsNoted, Rivals, CountsFresh, FilesWhole
<1>5. ListedIsCounted'
  BY DEF Inv, TypeOK, ListedIsCounted, Listed
<1> QED
  BY <1>2, <1>3, <1>4, <1>5 DEF Inv

\* The filter is asked: a store that overlaps another is noted here.
LEMMA StoreChunkInv ==
    ASSUME Inv, NEW t \in Clients, StoreChunk(t)
    PROVE  Inv'
<1> USE DEF store, put
<1>0. /\ pc[t] = "probe" /\ Goto(t, IF probably_contains(Current(t)) THEN "lookup" ELSE "insert")
      /\ unset' = [unset EXCEPT ![t] = Pos[Current(t)]]
      /\ disturbed' = disturbed \cup
             {d \in {Current(t)} : Rivals(t) # {} \/ (ref[Current(t)] > 0 /\ ~probably_contains(Current(t)))}
      /\ UNCHANGED <<store, put, word, val, mixed, lost, unwritten, uncounted, puts, faults,
                     crashes>>
  BY DEF StoreChunk
<1>1. Current(t) \in Chunks /\ Pos[Current(t)] \subseteq Bits
  BY <1>0, CurrentType, FilterAssumption DEF Inv
<1>2. /\ pc'[t] \in {"lookup", "insert"}
      /\ pc'[t] = "lookup" <=> probably_contains(Current(t))
      /\ \A u \in Clients \ {t} : pc'[u] = pc[u] /\ unset'[u] = unset[u]
      /\ unset'[t] = Pos[Current(t)]
  BY <1>0, GotoType DEF Inv, TypeOK, Positions
<1>3. \A u \in Clients : Current(u)' = Current(u)
  BY <1>0 DEF Current
<1>4. TypeOK'
  BY <1>0, <1>1, GotoType DEF Inv, TypeOK, Positions
<1>5. InLoop'
  BY <1>0, <1>2 DEF Inv, InLoop
<1>6. FilterFollows' /\ CountedChunksFound'
  BY <1>0, <1>2, <1>3 DEF Inv, FilterFollows, CountedChunksFound, probably_contains
<1>7. OverlapsNoted'
  <2>1. ASSUME NEW u \in Clients, pc'[u] \notin {"idle", "probe", "manifest"}, Rivals(u)' # {}
        PROVE  Current(u)' \in disturbed'
    <3>1. PICK v \in Clients \ {u} : /\ pc'[v] \notin {"idle", "probe", "manifest"}
                                     /\ Current(v) = Current(u)
      BY <1>3, <2>1 DEF Rivals
    <3>2. CASE t \in {u, v}
      BY <1>0, <1>2, <1>3, <2>1, <3>1, <3>2 DEF Rivals
    <3>3. CASE t \notin {u, v}
      BY <1>0, <1>2, <1>3, <2>1, <3>1, <3>3 DEF Rivals, Inv, OverlapsNoted
    <3> QED
      BY <3>2, <3>3
  <2>2. \A u \in mixed' : pc'[u] = "write" /\ Current(u)' \in disturbed'
    BY <1>0, <1>2, <1>3 DEF Inv, TypeOK, OverlapsNoted
  <2> QED
    BY <2>1, <2>2 DEF OverlapsNoted
<1>8. CountsFresh'
  BY <1>0, <1>1, <1>2, <1>3 DEF Inv, TypeOK, CountsFresh
<1>9. FilesWhole'
  BY <1>0, <1>2, <1>3 DEF Inv, FilesWhole
<1>10. ListedIsCounted'
  BY <1>0 DEF Inv, ListedIsCounted, Listed
<1> QED
  BY <1>4, <1>5, <1>6, <1>7, <1>8, <1>9, <1>10 DEF Inv

\* LevelDB is read: the count is the one to add to, or there is none.
LEMMA LookUpInv ==
    ASSUME Inv, NEW t \in Clients, LookUp(t)
    PROVE  Inv'
<1> USE DEF store, put
<1> DEFINE New == IF unset[t] = {} THEN "encrypt" ELSE "insert"
<1>0. /\ pc[t] = "lookup"
      /\ val' = [val EXCEPT ![t] = ref[Current(t)]]
      /\ UNCHANGED <<store, put, unset, word, mixed, lost, disturbed, unwritten, puts, crashes>>
      /\ uncounted \subseteq uncounted'
  BY DEF LookUp
<1>1. Current(t) \in Chunks /\ ref[Current(t)] \in Nat
  BY <1>0, CurrentType DEF Inv, TypeOK
<1>2. /\ \/ Goto(t, "count") /\ ref[Current(t)] > 0
         \/ Goto(t, New) /\ (ref[Current(t)] = 0 \/ Current(t) \in uncounted')
      /\ uncounted' \subseteq Chunks /\ faults' \in Nat
  BY <1>1 DEF LookUp, Fault, Inv, TypeOK
<1>3. /\ pc' \in [Clients -> Positions]
      /\ \A u \in Clients \ {t} : pc'[u] = pc[u]
      /\ \/ pc'[t] = "count" /\ ref[Current(t)] > 0
         \/ /\ pc'[t] = New
            /\ ref[Current(t)] = 0 \/ Current(t) \in uncounted'
  <2>1. "count" \in Positions /\ New \in Positions
    BY DEF Positions
  <2> QED
    BY <1>2, <2>1, GotoType DEF Inv
<1>4. val'[t] = ref[Current(t)] /\ \A u \in Clients \ {t} : val'[u] = val[u]
  BY <1>0 DEF Inv, TypeOK
<1>5. \A u \in Clients : Current(u)' = Current(u)
  BY <1>0 DEF Current
<1>6. TypeOK'
  BY <1>0, <1>1, <1>2, <1>3 DEF Inv, TypeOK
<1>7. InLoop'
  BY <1>0, <1>3 DEF Inv, InLoop
<1>8. FilterFollows' /\ CountedChunksFound'
  BY <1>0, <1>3, <1>5 DEF Inv, FilterFollows, CountedChunksFound
<1>9. OverlapsNoted'
  BY <1>0, <1>3, <1>5, RivalsKept DEF Inv, OverlapsNoted, TypeOK
<1>10. CountsFresh'
  BY <1>0, <1>1, <1>3, <1>4, <1>5 DEF Inv, CountsFresh
<1>11. FilesWhole'
  BY <1>0, <1>3, <1>5 DEF Inv, FilesWhole
<1>12. ListedIsCounted'
  BY <1>0 DEF Inv, ListedIsCounted, Listed
<1> QED
  BY <1>6, <1>7, <1>8, <1>9, <1>10, <1>11, <1>12 DEF Inv

\* The word of the filter is loaded.
LEMMA LoadWordInv ==
    ASSUME Inv, NEW t \in Clients, LoadWord(t)
    PROVE  Inv'
<1> USE DEF store, put, history
<1>0. /\ pc[t] = "insert" /\ Goto(t, "set") /\ "set" \in Positions
      /\ word' = [word EXCEPT ![t] = bits]
      /\ UNCHANGED <<store, put, unset, val, mixed, history, puts, faults, crashes>>
  BY DEF LoadWord, Positions
<1>2. /\ pc' \in [Clients -> Positions] /\ pc'[t] = "set"
      /\ \A u \in Clients \ {t} : pc'[u] = pc[u]
  BY <1>0, GotoType DEF Inv
<1>3. \A u \in Clients : Current(u)' = Current(u)
  BY <1>0 DEF Current
<1>4. TypeOK'
  BY <1>0, <1>2 DEF Inv, TypeOK
<1>5. InLoop'
  BY <1>0, <1>2 DEF Inv, InLoop
<1>6. FilterFollows' /\ CountedChunksFound'
  BY <1>0, <1>2, <1>3 DEF Inv, FilterFollows, CountedChunksFound
<1>7. OverlapsNoted'
  BY <1>0, <1>2, <1>3, RivalsKept DEF Inv, OverlapsNoted, TypeOK
<1>8. CountsFresh'
  BY <1>0, <1>2, <1>3 DEF Inv, CountsFresh
<1>9. FilesWhole'
  BY <1>0, <1>2, <1>3 DEF Inv, FilesWhole
<1>10. ListedIsCounted'
  BY <1>0 DEF Inv, ListedIsCounted, Listed
<1> QED
  BY <1>4, <1>5, <1>6, <1>7, <1>8, <1>9, <1>10 DEF Inv

\* The word is stored: what it undoes is lost, nothing disappears otherwise.
LEMMA StoreWordInv ==
    ASSUME Inv, NEW t \in Clients, NEW b \in unset[t], StoreWord(t, b)
    PROVE  Inv'
<1> USE DEF put
<1> DEFINE p == IF unset[t] = {b} THEN "encrypt" ELSE "insert"
<1>0. /\ pc[t] = "set" /\ Goto(t, p) /\ p \in Positions
      /\ bits' = word[t] \cup {b} /\ lost' = (lost \cup bits) \ bits'
      /\ unset' = [unset EXCEPT ![t] = unset[t] \ {b}]
      /\ UNCHANGED <<ref, file, manifest, put, word, val, mixed, disturbed, unwritten,
                     uncounted, puts, faults, crashes>>
  BY DEF StoreWord, Positions
<1>1. bits \cup lost \subseteq bits' \cup lost' /\ b \in bits' /\ b \in Bits
  BY <1>0 DEF Inv, TypeOK
<1>2. /\ pc' \in [Clients -> Positions] /\ pc'[t] = p
      /\ \A u \in Clients \ {t} : pc'[u] = pc[u] /\ unset'[u] = unset[u]
      /\ unset'[t] = unset[t] \ {b}
  BY <1>0, GotoType DEF Inv, TypeOK
<1>3. \A u \in Clients : Current(u)' = Current(u)
  BY <1>0 DEF Current
<1>4. TypeOK'
  BY <1>0, <1>1, <1>2 DEF Inv, TypeOK
<1>5. InLoop'
  BY <1>0, <1>2 DEF Inv, InLoop
<1>6. FilterFollows'
  <2>1. Pos[Current(t)] \ unset[t] \subseteq bits \cup lost
    BY <1>0 DEF Inv, FilterFollows
  <2>2. Pos[Current(t)] \ (unset[t] \ {b}) \subseteq bits' \cup lost'
    BY <1>1, <2>1
  <2>3. pc'[t] = "encrypt" => Pos[Current(t)] \subseteq bits' \cup lost'
    BY <1>2, <2>2
  <2>4. \A u \in Clients \ {t} :
           /\ pc'[u] \in {"lookup", "count", "encrypt", "write", "create"} =>
                 Pos[Current(u)] \subseteq bits' \cup lost'
           /\ pc'[u] \in {"insert", "set"} =>
                 Pos[Current(u)] \ unset'[u] \subseteq bits' \cup lost'
    BY <1>1, <1>2 DEF Inv, FilterFollows
  <2> QED
    BY <1>2, <1>3, <2>2, <2>3, <2>4 DEF FilterFollows
<1>7. CountedChunksFound'
  BY <1>0, <1>1 DEF Inv, CountedChunksFound
<1>8. OverlapsNoted'
  BY <1>0, <1>2, <1>3, RivalsKept DEF Inv, OverlapsNoted, TypeOK
<1>9. CountsFresh'
  BY <1>0, <1>2, <1>3 DEF Inv, CountsFresh
<1>10. FilesWhole'
  BY <1>0, <1>2, <1>3 DEF Inv, FilesWhole
<1>11. ListedIsCounted'
  BY <1>0 DEF Inv, ListedIsCounted, Listed
<1> QED
  BY <1>4, <1>5, <1>6, <1>7, <1>8, <1>9, <1>10, <1>11 DEF Inv

\* The chunk's file is opened: whoever writes it already, too, is noted.
LEMMA OpenFileInv ==
    ASSUME Inv, NEW t \in Clients, OpenFile(t)
    PROVE  Inv'
<1> USE DEF put, local, history
<1> DEFINE others == {u \in Rivals(t) : pc[u] = "write"}
<1>0. /\ pc[t] = "encrypt" /\ Goto(t, "write") /\ "write" \in Positions
      /\ file' = [file EXCEPT ![Current(t)] = "torn"]
      /\ mixed' = IF others = {} THEN mixed ELSE mixed \cup others \cup {t}
      /\ UNCHANGED <<bits, ref, manifest, put, local, history, puts, faults, crashes>>
  BY DEF OpenFile, Positions
<1>1. Current(t) \in Chunks /\ others \subseteq Clients
  BY <1>0, CurrentType DEF Inv, Rivals
<1>2. /\ pc' \in [Clients -> Positions] /\ pc'[t] = "write"
      /\ \A u \in Clients \ {t} : pc'[u] = pc[u]
  BY <1>0, GotoType DEF Inv
<1>3. \A u \in Clients : Current(u)' = Current(u)
  BY <1>0 DEF Current
<1>4. TypeOK'
  BY <1>0, <1>1, <1>2 DEF Inv, TypeOK
<1>5. InLoop'
  BY <1>0, <1>2 DEF Inv, InLoop
<1>6. FilterFollows' /\ CountedChunksFound'
  BY <1>0, <1>2, <1>3 DEF Inv, FilterFollows, CountedChunksFound
<1>7. OverlapsNoted'
  <2>1. others # {} => Current(t) \in disturbed
    BY <1>0 DEF Inv, OverlapsNoted
  <2>2. \A u \in others : pc[u] = "write" /\ Current(u) = Current(t) /\ u # t
    BY DEF Rivals
  <2>3. \A u \in mixed' : pc'[u] = "write" /\ Current(u) \in disturbed
    BY <1>0, <1>1, <1>2, <2>1, <2>2 DEF Inv, TypeOK, OverlapsNoted
  <2>4. disturbed' = disturbed
    BY <1>0
  <2>5. \A u \in Clients : pc'[u] \notin {"idle", "probe", "manifest"} /\ Rivals(u)' # {} =>
               Current(u)' \in disturbed'
    BY <1>0, <1>2, <1>3, RivalsKept
  <2>6. mixed' \subseteq Clients
    BY <1>4 DEF TypeOK
  <2> QED
    BY <1>3, <2>3, <2>4, <2>5, <2>6 DEF OverlapsNoted
<1>8. CountsFresh'
  BY <1>0, <1>2, <1>3 DEF Inv, CountsFresh
<1>9. FilesWhole'
  <2>1. Current(t) \in disturbed \cup uncounted \/ ref[Current(t)] = 0
    BY <1>0 DEF Inv, CountsFresh
  <2>2. Current(t) \in disturbed \/ \A u \in Clients : pc[u] = "create" => Current(u) # Current(t)
    BY <1>0 DEF Inv, OverlapsNoted, Rivals
  <2>3. \A c \in Chunks \ {Current(t)} : file'[c] = file[c]
    BY <1>0 DEF Inv, TypeOK
  <2> QED
    BY <1>0, <1>2, <1>3, <2>1, <2>2, <2>3 DEF Inv, FilesWhole
<1>10. ListedIsCounted'
  BY <1>0 DEF Inv, ListedIsCounted, Listed
<1> QED
  BY <1>4, <1>5, <1>6, <1>7, <1>8, <1>9, <1>10 DEF Inv

\* The chunk's file is written: whole, or noted.
LEMMA WriteChunkInv ==
    ASSUME Inv, NEW t \in Clients, WriteChunk(t)
    PROVE  Inv'
<1> USE DEF put, local
<1>0. /\ pc[t] = "write" /\ Goto(t, "create") /\ "create" \in Positions
      /\ mixed' = mixed \ {t}
      /\ UNCHANGED <<bits, ref, manifest, put, local, lost, disturbed, uncounted, puts,
                     crashes>>
  BY DEF WriteChunk, Positions
<1>1. Current(t) \in Chunks
  BY <1>0, CurrentType DEF Inv
<1>2. /\ pc' \in [Clients -> Positions] /\ pc'[t] = "create"
      /\ \A u \in Clients \ {t} : pc'[u] = pc[u]
  BY <1>0, GotoType DEF Inv
<1>3. \A u \in Clients : Current(u)' = Current(u)
  BY <1>0 DEF Current
<1>4. /\ file' \in [Chunks -> {"none", "torn", "whole"}]
      /\ unwritten' \subseteq Chunks /\ faults' \in Nat
      /\ \A c \in Chunks \ {Current(t)} : file'[c] = file[c] /\ (c \in unwritten' <=> c \in unwritten)
      /\ file'[Current(t)] = "whole" \/ t \in mixed \/ Current(t) \in unwritten'
  BY <1>1 DEF WriteChunk, Fault, Inv, TypeOK
<1>5. TypeOK'
  BY <1>0, <1>2, <1>4 DEF Inv, TypeOK
<1>6. InLoop'
  BY <1>0, <1>2 DEF Inv, InLoop
<1>7. FilterFollows' /\ CountedChunksFound'
  BY <1>0, <1>2, <1>3 DEF Inv, FilterFollows, CountedChunksFound
<1>8. OverlapsNoted'
  BY <1>0, <1>2, <1>3, RivalsKept DEF Inv, OverlapsNoted, TypeOK
<1>9. CountsFresh'
  BY <1>0, <1>2, <1>3 DEF Inv, CountsFresh
<1>10. FilesWhole'
  <2>1. t \in mixed => Current(t) \in disturbed
    BY DEF Inv, OverlapsNoted
  <2> QED
    BY <1>0, <1>1, <1>2, <1>3, <1>4, <2>1 DEF Inv, FilesWhole
<1>11. ListedIsCounted'
  BY <1>0 DEF Inv, ListedIsCounted, Listed
<1> QED
  BY <1>5, <1>6, <1>7, <1>8, <1>9, <1>10, <1>11 DEF Inv

\* StoreChunk returns the hash of a chunk whose record it has just written, or whose
\* failure it has dropped.
LEMMA CountedInv ==
    ASSUME Inv, NEW t \in Clients, pc[t] \in {"count", "create"}, NEW n \in Nat \ {0},
           PutUntested(t, n)
    PROVE  Inv'
<1> USE DEF local
<1> DEFINE c == Current(t)
<1>0. /\ c \in Chunks /\ pc[t] \notin {"idle", "manifest"} /\ Return(t, c)
      /\ UNCHANGED <<bits, file, manifest, key, local, mixed, lost, disturbed, unwritten, puts,
                     crashes>>
  BY CurrentType DEF Inv, PutUntested
<1>1. /\ pc' \in [Clients -> Positions]
      /\ todo' \in [Clients -> SeqsOf(Chunks)]
      /\ hashes' \in [Clients -> SeqsOf(Chunks \cup {NoHash})]
      /\ InLoop'
      /\ pc'[t] \in {"probe", "manifest"}
      /\ \A u \in Clients \ {t} : /\ pc'[u] = pc[u] /\ todo'[u] = todo[u]
                                  /\ hashes'[u] = hashes[u]
      /\ Len(hashes'[t]) = Len(hashes[t]) + 1 /\ Len(hashes[t]) \in Nat
      /\ \A i \in 1..Len(hashes[t]) : hashes'[t][i] = hashes[t][i]
      /\ hashes'[t][Len(hashes[t]) + 1] = c
  BY <1>0, ReturnType DEF Inv
<1>2. \A u \in Clients \ {t} : Current(u)' = Current(u)
  BY <1>1 DEF Current
<1>3. PICK d \in Chunks : d = c
  BY <1>0
<1>4. /\ ref' \in [Chunks -> Nat] /\ \A e \in Chunks \ {d} : ref'[e] = ref[e]
      /\ ref'[d] = ref[d] \/ ref'[d] > 0
      /\ d \in uncounted' \/ ref'[d] > 0
      /\ uncounted \subseteq uncounted' /\ uncounted' \subseteq Chunks /\ faults' \in Nat
  <2>1. CASE ref' = [ref EXCEPT ![c] = n] /\ UNCHANGED <<uncounted, faults>>
    BY <1>3, <2>1 DEF Inv, TypeOK
  <2>2. CASE Fault /\ uncounted' = uncounted \cup {c} /\ UNCHANGED ref
    BY <1>3, <2>2 DEF Fault, Inv, TypeOK
  <2> QED
    BY <2>1, <2>2 DEF PutUntested
<1>5. TypeOK'
  BY <1>0, <1>1, <1>4 DEF Inv, TypeOK
<1>6. FilterFollows'
  BY <1>0, <1>1, <1>2 DEF Inv, FilterFollows
<1>7. CountedChunksFound'
  <2>1. Pos[d] \subseteq bits \cup lost
    BY <1>3 DEF Inv, FilterFollows
  <2> QED
    BY <1>0, <1>4, <2>1 DEF Inv, CountedChunksFound
<1>8. OverlapsNoted'
  BY <1>0, <1>1, <1>2, RivalsKept DEF Inv, OverlapsNoted, TypeOK
<1>9. CountsFresh'
  <2>1. \A u \in Clients \ {t} :
            pc[u] \notin {"idle", "probe", "manifest"} /\ Current(u) = d => d \in disturbed
    BY <1>3 DEF Inv, OverlapsNoted, Rivals
  <2>2. \A u \in Clients \ {t} : pc[u] \notin {"idle", "manifest"} => Current(u) \in Chunks
    BY CurrentType DEF Inv
  <2>3. ASSUME NEW u \in Clients \ {t}, pc[u] \notin {"idle", "probe", "manifest"},
               Current(u) \notin disturbed
        PROVE  ref'[Current(u)] = ref[Current(u)]
    BY <1>4, <2>1, <2>2, <2>3
  <2> QED
    BY <1>0, <1>1, <1>2, <1>4, <2>3 DEF Inv, CountsFresh
<1>10. FilesWhole'
  <2>1. d \notin disturbed \cup unwritten \cup uncounted => file[d] = "whole"
    BY <1>3 DEF Inv, TypeOK, FilesWhole, CountsFresh
  <2> QED
    BY <1>0, <1>1, <1>2, <1>4, <2>1 DEF Inv, FilesWhole
<1>11. ListedIsCounted'
  <2>0. \A e \in Chunks : ref[e] > 0 => ref'[e] > 0
    BY <1>4
  <2>1. \A k \in Listed' : \A i \in 1..Len(manifest'[k]) :
          manifest'[k][i] \in Chunks \ uncounted' => ref'[manifest'[k][i]] > 0
    BY <1>0, <1>4, <2>0 DEF Inv, ListedIsCounted, Listed
  <2>2. \A u \in Clients \ {t} : \A i \in 1..Len(hashes'[u]) :
          hashes'[u][i] \in Chunks \ uncounted' => ref'[hashes'[u][i]] > 0
    BY <1>1, <1>4, <2>0 DEF Inv, ListedIsCounted
  <2>3. ASSUME NEW i \in 1..Len(hashes'[t]), hashes'[t][i] \in Chunks \ uncounted'
        PROVE  ref'[hashes'[t][i]] > 0
    <3>1. i \in 1..Len(hashes[t]) \/ i = Len(hashes[t]) + 1
      BY <1>1
    <3>2. CASE i \in 1..Len(hashes[t])
      BY <1>1, <1>4, <2>0, <2>3, <3>2 DEF Inv, ListedIsCounted
    <3>3. CASE i = Len(hashes[t]) + 1
      BY <1>1, <1>3, <1>4, <2>3, <3>3
    <3> QED
      BY <3>1, <3>2, <3>3
  <2> QED
    BY <2>1, <2>2, <2>3 DEF ListedIsCounted
<1> QED
  BY <1>1, <1>5, <1>6, <1>7, <1>8, <1>9, <1>10, <1>11 DEF Inv

\* The chunk does not encrypt: "" goes into the manifest.
LEMMA EncryptFailsInv ==
    ASSUME Inv, NEW t \in Clients, EncryptFails(t)
    PROVE  Inv'
<1> USE DEF store, local, history
<1>0. /\ pc[t] = "encrypt" /\ Return(t, NoHash) /\ faults' = faults + 1
      /\ UNCHANGED <<store, key, local, mixed, history, puts, crashes>>
  BY DEF EncryptFails, Fault
<1>1. /\ pc' \in [Clients -> Positions]
      /\ todo' \in [Clients -> SeqsOf(Chunks)]
      /\ hashes' \in [Clients -> SeqsOf(Chunks \cup {NoHash})]
      /\ InLoop'
      /\ pc'[t] \in {"probe", "manifest"}
      /\ \A u \in Clients \ {t} : /\ pc'[u] = pc[u] /\ todo'[u] = todo[u]
                                  /\ hashes'[u] = hashes[u]
      /\ Len(hashes'[t]) = Len(hashes[t]) + 1 /\ Len(hashes[t]) \in Nat
      /\ \A i \in 1..Len(hashes[t]) : hashes'[t][i] = hashes[t][i]
      /\ hashes'[t][Len(hashes[t]) + 1] = NoHash
  BY <1>0, ReturnType DEF Inv
<1>2. \A u \in Clients \ {t} : Current(u)' = Current(u)
  BY <1>1 DEF Current
<1>3. TypeOK'
  <2>1. faults' \in Nat
    BY <1>0 DEF Inv, TypeOK
  <2>2. UNCHANGED <<store, key, local, mixed, history, puts, crashes>>
    BY <1>0
  <2> QED
    BY <1>1, <2>1, <2>2 DEF Inv, TypeOK
<1>4. FilterFollows' /\ CountedChunksFound'
  BY <1>0, <1>1, <1>2 DEF Inv, FilterFollows, CountedChunksFound
<1>5. OverlapsNoted'
  BY <1>0, <1>1, <1>2, RivalsKept DEF Inv, OverlapsNoted, TypeOK
<1>6. CountsFresh' /\ FilesWhole'
  BY <1>0, <1>1, <1>2 DEF Inv, CountsFresh, FilesWhole
<1>7. ListedIsCounted'
  <2>1. \A i \in 1..Len(hashes'[t]) : i \in 1..Len(hashes[t]) \/ i = Len(hashes[t]) + 1
    BY <1>1
  <2>2. \A i \in 1..Len(hashes'[t]) : hashes'[t][i] \in Chunks \ uncounted => ref[hashes'[t][i]] > 0
    BY <1>1, <2>1, ValueAssumption DEF Inv, ListedIsCounted
  <2> QED
    BY <1>0, <1>1, <2>2 DEF Inv, ListedIsCounted, Listed
<1> QED
  BY <1>1, <1>3, <1>4, <1>5, <1>6, <1>7 DEF Inv

\* A crash: the filter is rebuilt from the records.
LEMMA CrashInv ==
    ASSUME Inv, Crash
    PROVE  Inv'
<1>0. /\ lost' = load_bloom_from_db(Chunks) \ bits' /\ mixed' = {}
      /\ pc' = [t \in Clients |-> "idle"]
      /\ todo' = [t \in Clients |-> <<>>] /\ hashes' = [t \in Clients |-> <<>>]
      /\ unset' = [t \in Clients |-> {}] /\ word' = [t \in Clients |-> {}]
      /\ val' = [t \in Clients |-> 0] /\ crashes' = crashes + 1
      /\ UNCHANGED <<ref, file, key, disturbed, unwritten, uncounted, puts>>
  BY DEF Crash
<1>1. \A k \in Keys : manifest'[k] \in {manifest[k], Torn}
  BY DEF Crash, Inv, TypeOK
<1>2. TypeOK'
  <2>1. bits' \subseteq Bits /\ lost' \subseteq Bits /\ faults' \in Nat
    <3>1. \A reached \in SUBSET Chunks : load_bloom_from_db(reached) \subseteq Bits
      BY FilterAssumption DEF load_bloom_from_db
    <3>2. \E reached \in SUBSET Chunks : bits' = load_bloom_from_db(reached)
      BY DEF Crash
    <3>3. faults' \in Nat
      BY DEF Crash, Fault, Inv, TypeOK
    <3> QED
      BY <1>0, <3>1, <3>2, <3>3
  <2>2. manifest' \in [Keys -> SeqsOf(Chunks \cup {NoHash}) \cup {None, Torn}]
    BY DEF Crash, Inv, TypeOK
  <2>3. "idle" \in Positions
    BY DEF Positions
  <2>4. /\ todo' \in [Clients -> SeqsOf(Chunks)]
        /\ hashes' \in [Clients -> SeqsOf(Chunks \cup {NoHash})]
    BY <1>0, EmptySeq
  <2>5. pc' \in [Clients -> Positions] /\ crashes' \in Nat
    BY <1>0, <2>3 DEF Inv, TypeOK
  <2>6. /\ unset' \in [Clients -> SUBSET Bits] /\ word' \in [Clients -> SUBSET Bits]
        /\ val' \in [Clients -> Nat]
    BY <1>0
  <2>7. /\ mixed' = {}
        /\ UNCHANGED <<ref, file, key, disturbed, unwritten, uncounted, puts>>
    BY <1>0
  <2> QED
    BY <2>1, <2>2, <2>4, <2>5, <2>6, <2>7 DEF Inv, TypeOK
<1>3. InLoop' /\ FilterFollows' /\ OverlapsNoted' /\ CountsFresh'
  BY <1>0 DEF InLoop, FilterFollows, OverlapsNoted, CountsFresh
<1>4. CountedChunksFound'
  BY <1>0 DEF CountedChunksFound, load_bloom_from_db
<1>5. FilesWhole'
  BY <1>0 DEF Inv, FilesWhole
<1>6. ListedIsCounted'
  BY <1>0, <1>1 DEF Inv, ListedIsCounted, Listed
<1> QED
  BY <1>2, <1>3, <1>4, <1>5, <1>6 DEF Inv

\* Every step keeps the invariant.
LEMMA InvStep ==
    ASSUME Inv, [Next]_vars
    PROVE  Inv'
<1>1. CASE UNCHANGED vars
  <2>1. UNCHANGED <<bits, ref, file, manifest, pc, key, todo, hashes, unset, word, val, mixed,
                    lost, disturbed, unwritten, uncounted, puts, faults, crashes>>
    BY <1>1 DEF vars, store, put, local, history
  <2>2. \A u \in Clients : Current(u)' = Current(u)
    BY <2>1 DEF Current
  <2>3. TypeOK' /\ InLoop'
    BY <2>1 DEF Inv, TypeOK, InLoop
  <2>4. FilterFollows' /\ CountedChunksFound' /\ CountsFresh' /\ FilesWhole'
    BY <2>1, <2>2 DEF Inv, FilterFollows, CountedChunksFound, CountsFresh, FilesWhole
  <2>5. OverlapsNoted'
    BY <2>1, <2>2, RivalsKept DEF Inv, OverlapsNoted, TypeOK
  <2>6. ListedIsCounted'
    BY <2>1 DEF Inv, ListedIsCounted, Listed
  <2> QED
    BY <2>3, <2>4, <2>5, <2>6 DEF Inv
<1>2. ASSUME NEW t \in Clients, Client(t) PROVE Inv'
  <2>1. CASE IncrementRef(t)
    <3>1. val[t] + 1 \in Nat \ {0}
      BY DEF Inv, TypeOK
    <3> QED
      BY <2>1, <3>1, CountedInv DEF IncrementRef
  <2>2. CASE CreateRecord(t)
    <3>1. 1 \in Nat \ {0}
      OBVIOUS
    <3> QED
      BY <2>2, <3>1, CountedInv DEF CreateRecord
  <2> QED
    BY <1>2, <2>1, <2>2, PutObjectInv, PutManifestInv, DeleteObjectInv, StoreChunkInv,
       LookUpInv, LoadWordInv, StoreWordInv, EncryptFailsInv, OpenFileInv, WriteChunkInv
       DEF Client
<1> QED
  BY <1>1, <1>2, CrashInv DEF Next

\* The invariant holds of an empty store.
LEMMA InvInit == Init => Inv
<1> SUFFICES ASSUME Init PROVE Inv
  OBVIOUS
<1>1. /\ todo \in [Clients -> SeqsOf(Chunks)]
      /\ hashes \in [Clients -> SeqsOf(Chunks \cup {NoHash})]
  BY EmptySeq DEF Init
<1>2. pc \in [Clients -> Positions]
  BY DEF Init, Positions
<1>3. TypeOK
  BY <1>1, <1>2 DEF Init, TypeOK
<1>4. InLoop /\ FilterFollows /\ OverlapsNoted /\ CountsFresh
  BY DEF Init, InLoop, FilterFollows, OverlapsNoted, CountsFresh
<1>5. CountedChunksFound /\ FilesWhole
  BY DEF Init, CountedChunksFound, FilesWhole
<1>6. ListedIsCounted
  BY DEF Init, ListedIsCounted, Listed
<1> QED
  BY <1>3, <1>4, <1>5, <1>6 DEF Inv

(* The inductive invariant of the deduplicating put.                       *)
THEOREM DedupInvariant == Spec => []Inv
BY InvInit, InvStep, PTL DEF Spec

(* Type correctness: a manifest is never longer than its object has chunks. *)
THEOREM DedupTypeCorrect == Spec => []TypeOK
<1>1. Inv => TypeOK
  BY DEF Inv
<1> QED
  BY <1>1, DedupInvariant, PTL

(* The Bloom filter never denies a chunk that has a record, but for bits    *)
(* that overlapping inserts undid or a failed iterator left out: for every  *)
(* filter, through every crash and rebuild by load_bloom_from_db.           *)
THEOREM DedupCountedFound == Spec => []CountedChunksFound
<1>1. Inv => CountedChunksFound
  BY DEF Inv
<1> QED
  BY <1>1, DedupInvariant, PTL

(* What PutObject stored, GetObject reads back, chunk by chunk, unless two  *)
(* clients stored the chunk at a time, its write failed unnoticed, an error *)
(* of LevelDB was dropped or the filter lost its bits.                      *)
THEOREM DedupReadsBack == Spec => []ReadsBack
<1>1. Inv => ReadsBack
  <2> SUFFICES ASSUME Inv, NEW k \in Listed, NEW i \in 1..Len(manifest[k]),
                      NEW c \in Chunks \ (disturbed \cup unwritten \cup uncounted),
                      c = manifest[k][i], Pos[c] \cap lost = {}
               PROVE  GetChunk(c)
    BY DEF ReadsBack
  <2>1. ref[c] > 0
    BY DEF Inv, ListedIsCounted
  <2>2. file[c] = "whole"
    BY <2>1 DEF Inv, FilesWhole
  <2>3. Pos[c] \subseteq bits
    BY <2>1 DEF Inv, CountedChunksFound
  <2> QED
    BY <2>1, <2>2, <2>3 DEF GetChunk, probably_contains
<1> QED
  BY <1>1, DedupInvariant, PTL

-----------------------------------------------------------------------------
(* The counts and the manifests.                                           *)

\* The places that list a chunk can be counted.
LEMMA UsesFinite ==
    ASSUME NEW c
    PROVE  /\ IsFiniteSet(InManifests(c)) /\ Cardinality(InManifests(c)) \in Nat
           /\ IsFiniteSet(InMaking(c)) /\ Cardinality(InMaking(c)) \in Nat
<1>1. IsFiniteSet(1..MaxLen)
  BY ValueAssumption, FS_Interval
<1>2. IsFiniteSet(Keys \X (1..MaxLen)) /\ IsFiniteSet(Clients \X (1..MaxLen))
  BY <1>1, FiniteAssumption, FS_Product
<1>3. InManifests(c) \in SUBSET (Keys \X (1..MaxLen))
  BY DEF InManifests, Listed
<1>4. InMaking(c) \in SUBSET (Clients \X (1..MaxLen))
  BY DEF InMaking
<1> QED
  BY <1>2, <1>3, <1>4, FS_Subset, FS_CardinalityType

\* Fewer places, fewer uses.
LEMMA UsesShrink ==
    ASSUME NEW c, InManifests(c)' \subseteq InManifests(c), InMaking(c)' \subseteq InMaking(c)
    PROVE  Uses(c)' <= Uses(c) /\ Uses(c) \in Nat /\ Uses(c)' \in Nat
<1> DEFINE A == InManifests(c)
           B == InMaking(c)
<1>1. IsFiniteSet(A) /\ Cardinality(A) \in Nat /\ IsFiniteSet(B) /\ Cardinality(B) \in Nat
  BY UsesFinite
<1>2. A' \in SUBSET A /\ B' \in SUBSET B
  OBVIOUS
<1>3. /\ Cardinality(A') <= Cardinality(A) /\ Cardinality(B') <= Cardinality(B)
      /\ Cardinality(A') \in Nat /\ Cardinality(B') \in Nat
  BY <1>1, <1>2, FS_Subset, FS_CardinalityType
<1> QED
  BY <1>1, <1>3 DEF Uses

\* One more place, at most one more use.
LEMMA UsesGrow ==
    ASSUME NEW c, NEW p, InManifests(c)' \subseteq InManifests(c),
           InMaking(c)' \subseteq InMaking(c) \cup {p}
    PROVE  Uses(c)' <= Uses(c) + 1 /\ Uses(c) \in Nat /\ Uses(c)' \in Nat
<1> DEFINE A == InManifests(c)
           B == InMaking(c)
           C == InMaking(c) \cup {p}
<1>1. IsFiniteSet(A) /\ Cardinality(A) \in Nat /\ IsFiniteSet(B) /\ Cardinality(B) \in Nat
  BY UsesFinite
<1>2. IsFiniteSet(C) /\ Cardinality(C) <= Cardinality(B) + 1 /\ Cardinality(C) \in Nat
  BY <1>1, FS_AddElement, FS_CardinalityType
<1>3. A' \in SUBSET A /\ B' \in SUBSET C
  OBVIOUS
<1>4. /\ Cardinality(A') <= Cardinality(A) /\ Cardinality(A') \in Nat
      /\ Cardinality(B') <= Cardinality(C) /\ Cardinality(B') \in Nat
  BY <1>1, <1>2, <1>3, FS_Subset, FS_CardinalityType
<1> QED
  BY <1>1, <1>2, <1>4 DEF Uses

\* A manifest that is stored moves its uses, and may drop those of the old one.
LEMMA UsesMove ==
    ASSUME NEW c, NEW t \in Clients, NEW k \in Keys, Inv, hashes' = [hashes EXCEPT ![t] = <<>>],
           manifest' = [manifest EXCEPT ![k] = hashes[t]]
    PROVE  Uses(c)' <= Uses(c) /\ Uses(c) \in Nat /\ Uses(c)' \in Nat
<1> DEFINE M == InManifests(c)
           H == InMaking(c)
           A == {p \in H : p[1] = t}
           B == {p \in {k} \X (1..MaxLen) : p[2] <= Len(hashes[t]) /\ hashes[t][p[2]] = c}
<1>1. IsFiniteSet(M) /\ Cardinality(M) \in Nat /\ IsFiniteSet(H) /\ Cardinality(H) \in Nat
  BY UsesFinite
<1>2. A \in SUBSET H /\ IsFiniteSet(A) /\ Cardinality(A) \in Nat
  BY <1>1, FS_Subset, FS_CardinalityType
<1>3. IsFiniteSet(B) /\ Cardinality(B) <= Cardinality(A) /\ Cardinality(B) \in Nat
  <2> DEFINE f == [p \in B |-> <<t, p[2]>>]
  <2>1. \A p \in B : <<t, p[2]>> \in A
    BY DEF InMaking
  <2>2. \A p, q \in B : <<t, p[2]>> = <<t, q[2]>> => p = q
    OBVIOUS
  <2>3. f \in Injection(B, A)
    BY <2>1, <2>2 DEF Injection, IsInjective
  <2> QED
    BY <1>2, <2>3, FS_Injection, FS_CardinalityType
<1>4. M' \in SUBSET (M \cup B)
  <2>1. \A j \in Keys \ {k} : manifest'[j] = manifest[j]
    BY DEF Inv, TypeOK
  <2>2. manifest'[k] = hashes[t]
    BY DEF Inv, TypeOK
  <2> QED
    BY <2>1, <2>2 DEF InManifests, Listed
<1>5. /\ IsFiniteSet(M \cup B)
      /\ Cardinality(M \cup B) <= Cardinality(M) + Cardinality(B)
      /\ Cardinality(M \cup B) \in Nat
  <2>1. Cardinality(M \cap B) \in Nat
    BY <1>1, FS_Intersection, FS_CardinalityType
  <2>2. /\ IsFiniteSet(M \cup B)
        /\ Cardinality(M \cup B) = Cardinality(M) + Cardinality(B) - Cardinality(M \cap B)
    BY <1>1, <1>3, FS_Union
  <2>3. Cardinality(M \cup B) \in Nat
    BY <2>2, FS_CardinalityType
  <2> QED
    BY <1>1, <1>3, <2>1, <2>2, <2>3
<1>6. Cardinality(M') <= Cardinality(M \cup B) /\ Cardinality(M') \in Nat
  BY <1>4, <1>5, FS_Subset, FS_CardinalityType
<1>7. H' \in SUBSET (H \ A)
  <2>1. hashes'[t] = <<>> /\ \A u \in Clients \ {t} : hashes'[u] = hashes[u]
    BY DEF Inv, TypeOK
  <2>2. \A i \in 1..MaxLen : ~(i <= Len(<<>>))
    BY ValueAssumption
  <2> QED
    BY <2>1, <2>2 DEF InMaking
<1>8. /\ IsFiniteSet(H \ A) /\ Cardinality(H \ A) = Cardinality(H) - Cardinality(A)
      /\ Cardinality(H \ A) \in Nat
  <2>1. H \cap A = A
    BY <1>2
  <2> QED
    BY <1>1, <2>1, FS_Difference, FS_CardinalityType
<1>9. Cardinality(H') <= Cardinality(H \ A) /\ Cardinality(H') \in Nat
  BY <1>7, <1>8, FS_Subset, FS_CardinalityType
<1>10. /\ Cardinality(M') + Cardinality(H') <= Cardinality(M) + Cardinality(H)
  BY <1>1, <1>2, <1>3, <1>5, <1>6, <1>8, <1>9
<1> QED
  BY <1>1, <1>6, <1>9, <1>10 DEF Uses

\* A hash that is pushed to the manifest is at most one more place.
LEMMA ReturnUses ==
    ASSUME Inv, NEW t \in Clients, NEW h \in Chunks \cup {NoHash}, Return(t, h),
           pc[t] \notin {"idle", "manifest"}, UNCHANGED manifest, NEW c \in Chunks
    PROVE  /\ Uses(c) \in Nat /\ Uses(c)' \in Nat
           /\ c # h => Uses(c)' <= Uses(c)
           /\ Uses(c)' <= Uses(c) + 1
<1>1. /\ \A u \in Clients \ {t} : hashes'[u] = hashes[u]
      /\ Len(hashes'[t]) = Len(hashes[t]) + 1 /\ Len(hashes[t]) \in Nat
      /\ \A i \in 1..Len(hashes[t]) : hashes'[t][i] = hashes[t][i]
      /\ hashes'[t][Len(hashes[t]) + 1] = h
  BY ReturnType DEF Inv
<1>2. InManifests(c)' = InManifests(c)
  BY DEF InManifests, Listed
<1>3. \A i \in 1..MaxLen : i <= Len(hashes'[t]) =>
          i \in 1..Len(hashes[t]) \/ i = Len(hashes[t]) + 1
  BY <1>1, ValueAssumption
<1>4. \A i \in 1..Len(hashes[t]) : i <= Len(hashes[t])
  BY <1>1
<1>5. ASSUME NEW p \in InMaking(c)', p # <<t, Len(hashes[t]) + 1>> PROVE p \in InMaking(c)
  <2>1. p \in Clients \X (1..MaxLen) /\ p[2] <= Len(hashes'[p[1]]) /\ hashes'[p[1]][p[2]] = c
    BY DEF InMaking
  <2>2. CASE p[1] # t
    BY <1>1, <2>1, <2>2 DEF InMaking
  <2>3. CASE p[1] = t
    <3>1. p[2] # Len(hashes[t]) + 1
      BY <1>5, <2>1, <2>3
    <3>2. p[2] \in 1..Len(hashes[t])
      BY <1>3, <2>1, <2>3, <3>1
    <3> QED
      BY <1>1, <1>4, <2>1, <2>3, <3>2 DEF InMaking
  <2> QED
    BY <2>2, <2>3
<1>6. InMaking(c)' \subseteq InMaking(c) \cup {<<t, Len(hashes[t]) + 1>>}
  BY <1>5
<1>7. c # h => InMaking(c)' \subseteq InMaking(c)
  <2>1. c # h => <<t, Len(hashes[t]) + 1>> \notin InMaking(c)'
    BY <1>1 DEF InMaking
  <2> QED
    BY <1>5, <2>1
<1> QED
  BY <1>2, <1>6, <1>7, UsesShrink, UsesGrow

\* A record that is written counts the place that is about to list the chunk.
LEMMA CountedCovers ==
    ASSUME Inv, CountsCoverManifests, NEW t \in Clients, IncrementRef(t) \/ CreateRecord(t)
    PROVE  CountsCoverManifests'
<1>0. /\ pc[t] \in {"count", "create"} /\ Return(t, Current(t))
      /\ UNCHANGED <<manifest, disturbed>>
  BY DEF IncrementRef, CreateRecord, PutUntested
<1>1. PICK d \in Chunks : d = Current(t)
  BY <1>0, CurrentType DEF Inv
<1>2. /\ \A c \in Chunks \ {d} : ref'[c] = ref[c]
      /\ uncounted \subseteq uncounted'
  BY <1>1 DEF IncrementRef, CreateRecord, PutUntested, Inv, TypeOK
<1>3. d \notin disturbed \cup uncounted' => ref'[d] = ref[d] + 1
  BY <1>1 DEF IncrementRef, CreateRecord, PutUntested, Inv, TypeOK, CountsFresh
<1>4. \A c \in Chunks : /\ Uses(c) \in Nat /\ Uses(c)' \in Nat
                        /\ c # d => Uses(c)' <= Uses(c)
                        /\ Uses(c)' <= Uses(c) + 1
  BY <1>0, <1>1, ReturnUses
<1>5. ASSUME NEW c \in Chunks, c \notin disturbed \cup uncounted' PROVE Uses(c)' <= ref'[c]
  <2>1. Uses(c) <= ref[c] /\ ref[c] \in Nat
    BY <1>2, <1>5 DEF CountsCoverManifests, Inv, TypeOK
  <2>2. CASE c = d
    BY <1>3, <1>4, <1>5, <2>1, <2>2
  <2>3. CASE c # d
    BY <1>2, <1>4, <2>1, <2>3
  <2> QED
    BY <2>2, <2>3
<1> QED
  BY <1>0, <1>5 DEF CountsCoverManifests

\* Whatever does not add a use, nor take from a count, keeps the counts.
LEMMA FewerUsesCovered ==
    ASSUME Inv, CountsCoverManifests, UNCHANGED ref, disturbed \cup uncounted \subseteq disturbed' \cup uncounted',
           \A c \in Chunks : Uses(c)' <= Uses(c) /\ Uses(c) \in Nat /\ Uses(c)' \in Nat
    PROVE  CountsCoverManifests'
<1> SUFFICES ASSUME NEW c \in Chunks \ (disturbed' \cup uncounted')
             PROVE  Uses(c)' <= ref'[c]
  BY DEF CountsCoverManifests
<1>1. Uses(c) <= ref[c] /\ ref[c] \in Nat
  BY DEF CountsCoverManifests, Inv, TypeOK
<1> QED
  BY <1>1

\* Every step keeps the counts above the uses.
LEMMA CoverStep ==
    ASSUME Inv, CountsCoverManifests, [Next]_vars
    PROVE  CountsCoverManifests'
<1> USE DEF store, put, local, history
<1>1. CASE UNCHANGED <<ref, manifest, hashes>> /\ disturbed \cup uncounted \subseteq disturbed' \cup uncounted'
  <2>1. \A c \in Chunks : InManifests(c)' = InManifests(c) /\ InMaking(c)' = InMaking(c)
    BY <1>1 DEF InManifests, InMaking, Listed
  <2> QED
    BY <1>1, <2>1, UsesShrink, FewerUsesCovered
<1>2. ASSUME NEW t \in Clients, NEW k \in Keys, NEW x \in SeqsOf(Chunks), PutObject(t, k, x)
      PROVE  CountsCoverManifests'
  <2>1. UNCHANGED <<ref, manifest, disturbed, uncounted>> /\ hashes' = [hashes EXCEPT ![t] = <<>>]
    BY <1>2 DEF PutObject
  <2>2. hashes'[t] = <<>> /\ \A u \in Clients \ {t} : hashes'[u] = hashes[u]
    BY <2>1 DEF Inv, TypeOK
  <2>3. \A i \in 1..MaxLen : ~(i <= Len(<<>>))
    BY ValueAssumption
  <2>4. \A c \in Chunks : InManifests(c)' = InManifests(c) /\ InMaking(c)' \subseteq InMaking(c)
    BY <2>1, <2>2, <2>3 DEF InManifests, InMaking, Listed
  <2> QED
    BY <2>1, <2>4, UsesShrink, FewerUsesCovered
<1>3. ASSUME NEW t \in Clients, NEW k \in Keys, DeleteObject(t, k)
      PROVE  CountsCoverManifests'
  <2>1. UNCHANGED <<ref, hashes, disturbed, uncounted>> /\ manifest' = [manifest EXCEPT ![k] = None]
    BY <1>3 DEF DeleteObject
  <2>2. manifest'[k] = None /\ \A j \in Keys \ {k} : manifest'[j] = manifest[j]
    BY <2>1 DEF Inv, TypeOK
  <2>3. \A c \in Chunks : InManifests(c)' \subseteq InManifests(c) /\ InMaking(c)' = InMaking(c)
    BY <2>1, <2>2 DEF InManifests, InMaking, Listed
  <2> QED
    BY <2>1, <2>3, UsesShrink, FewerUsesCovered
<1>4. ASSUME NEW t \in Clients, PutManifest(t) PROVE CountsCoverManifests'
  <2>1. UNCHANGED <<ref, disturbed, uncounted>> /\ hashes' = [hashes EXCEPT ![t] = <<>>]
    BY <1>4 DEF PutManifest, EndPut
  <2>2. CASE UNCHANGED manifest
    <3>1. hashes'[t] = <<>> /\ \A u \in Clients \ {t} : hashes'[u] = hashes[u]
      BY <2>1 DEF Inv, TypeOK
    <3>2. \A i \in 1..MaxLen : ~(i <= Len(<<>>))
      BY ValueAssumption
    <3>3. \A c \in Chunks : InManifests(c)' = InManifests(c) /\ InMaking(c)' \subseteq InMaking(c)
      BY <2>2, <3>1, <3>2 DEF InManifests, InMaking, Listed
    <3> QED
      BY <2>1, <3>3, UsesShrink, FewerUsesCovered
  <2>3. CASE manifest' = [manifest EXCEPT ![key[t]] = hashes[t]]
    <3>1. PICK k \in Keys : k = key[t]
      BY DEF Inv, TypeOK
    <3>2. \A c \in Chunks : Uses(c)' <= Uses(c) /\ Uses(c) \in Nat /\ Uses(c)' \in Nat
      BY <2>1, <2>3, <3>1, UsesMove
    <3> QED
      BY <2>1, <3>2, FewerUsesCovered
  <2> QED
    BY <1>4, <2>2, <2>3 DEF PutManifest
<1>5. ASSUME NEW t \in Clients, EncryptFails(t) PROVE CountsCoverManifests'
  <2>1. /\ UNCHANGED <<ref, manifest, disturbed, uncounted>> /\ Return(t, NoHash)
        /\ pc[t] \notin {"idle", "manifest"}
    BY <1>5 DEF EncryptFails
  <2>2. \A c \in Chunks : Uses(c)' <= Uses(c) /\ Uses(c) \in Nat /\ Uses(c)' \in Nat
    BY <2>1, ReturnUses, ValueAssumption
  <2> QED
    BY <2>1, <2>2, FewerUsesCovered
<1>6. CASE Crash
  <2>1. UNCHANGED <<ref, disturbed, uncounted>> /\ hashes' = [t \in Clients |-> <<>>]
    BY <1>6 DEF Crash
  <2>2. \A k \in Keys : manifest'[k] \in {manifest[k], Torn}
    BY <1>6 DEF Crash, Inv, TypeOK
  <2>3. \A i \in 1..MaxLen : ~(i <= Len(<<>>))
    BY ValueAssumption
  <2>4. \A c \in Chunks : InManifests(c)' \subseteq InManifests(c) /\ InMaking(c)' \subseteq InMaking(c)
    BY <2>1, <2>2, <2>3 DEF InManifests, InMaking, Listed
  <2> QED
    BY <2>1, <2>4, UsesShrink, FewerUsesCovered
<1>7. ASSUME NEW t \in Clients,
             \/ StoreChunk(t) \/ LookUp(t) \/ LoadWord(t) \/ (\E b \in unset[t] : StoreWord(t, b))
             \/ OpenFile(t) \/ WriteChunk(t)
      PROVE  CountsCoverManifests'
  BY <1>1, <1>7 DEF StoreChunk, LookUp, LoadWord, StoreWord, OpenFile, WriteChunk
<1>8. CASE UNCHANGED vars
  BY <1>1, <1>8 DEF vars
<1>9. ASSUME NEW t \in Clients, Client(t) PROVE CountsCoverManifests'
  BY <1>2, <1>3, <1>4, <1>5, <1>7, <1>9, CountedCovers DEF Client
<1> QED
  BY <1>6, <1>8, <1>9 DEF Next

(* The count of a chunk is at least the number of places that list it, in   *)
(* stored manifests and in those being made, unless two stores of the chunk *)
(* overlapped, the filter had forgotten it or StoreChunk dropped an error   *)
(* of LevelDB: what the garbage collector, which removes chunks whose count *)
(* is 0, relies on.                                                         *)
THEOREM DedupCountsCover == Spec => []CountsCoverManifests
<1>1. Init => CountsCoverManifests
  <2> SUFFICES ASSUME Init, NEW c \in Chunks PROVE Uses(c) <= ref[c]
    BY DEF CountsCoverManifests
  <2>1. \A i \in 1..MaxLen : ~(i <= Len(<<>>))
    BY ValueAssumption
  <2>2. InManifests(c) = {} /\ InMaking(c) = {}
    BY <2>1 DEF Init, InManifests, InMaking, Listed
  <2>3. Uses(c) = 0
    BY <2>2, FS_EmptySet DEF Uses
  <2> QED
    BY <2>3 DEF Init
<1> QED
  BY <1>1, CoverStep, DedupInvariant, PTL DEF Spec
=============================================================================
