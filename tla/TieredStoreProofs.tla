------------------------- MODULE TieredStoreProofs --------------------------
(***************************************************************************)
(* For every number of sessions and keys, every choice of compression      *)
(* levels and of the directory the flat path stands for: the index does    *)
(* not lie about the Hot tier, no object vanishes, and GetObject returns   *)
(* the newest data, decompressed, unless the key was disturbed.            *)
(*                                                                         *)
(* The last part is about the index's own model, HotDataIndex, as the      *)
(* instance Hot: for all thresholds, decay factors and numbers of sessions *)
(* and objects, the index knows what is in the Hot tier.                   *)
(***************************************************************************)
EXTENDS TieredStore, FiniteSetTheorems, TLAPS

\* Only p moves.
Alone(p) == \A q \in Procs \ {p} : me'[q] = me[q]

-----------------------------------------------------------------------------
(* The locals of a process.                                                *)

\* No data.
LEMMA ZeroIsData == 0 \in Bytes
BY ConstantAssumption DEF Bytes

\* A process at rest has the locals of their types.
LEMMA AtRestLocal ==
    ASSUME NEW k \in Keys, NEW a \in Places
    PROVE  /\ AtRest(k, a) \in Local
           /\ AtRest(k, a).at = a /\ AtRest(k, a).key = k
BY ConstantAssumption DEF AtRest, Local, Bytes, Tiers

\* One process gets new locals.
LEMMA Becomes ==
    ASSUME me \in [Procs -> Local], NEW p \in Procs, NEW l \in Local,
           me' = [me EXCEPT ![p] = l]
    PROVE  me' \in [Procs -> Local] /\ me'[p] = l /\ Alone(p)
BY DEF Alone

\* What Goto leaves behind.
LEMMA GotoFacts ==
    ASSUME me \in [Procs -> Local], NEW p \in Procs, NEW a \in Places, Goto(p, a)
    PROVE  /\ me' \in [Procs -> Local] /\ Alone(p)
           /\ me'[p].at = a /\ me'[p].key = me[p].key
           /\ a \notin {"idle", "heat2", "heat1", "access"} =>
                 /\ me'[p].data = me[p].data /\ me'[p].content = me[p].content
                 /\ me'[p].from = me[p].from /\ me'[p].to = me[p].to
                 /\ me'[p].next = me[p].next
<1>1. me[p] \in Local /\ me[p].key \in Keys /\ me[p].next \in {"idle", "heat2", "heat1"}
      /\ me[p].data \in Bytes
  BY DEF Local
<1>2. CASE a \in {"idle", "heat2", "heat1"}
  <2> DEFINE l == AtRest(me[p].key, a)
  <2>1. me' = [me EXCEPT ![p] = l]
    BY <1>2 DEF Goto
  <2>2. l \in Local /\ l.at = a /\ l.key = me[p].key
    BY <1>1, AtRestLocal
  <2> HIDE DEF l
  <2> QED
    BY <1>2, <2>1, <2>2, Becomes
<1>3. CASE a = "access"
  <2> DEFINE d == IF me[p].next = "heat2" THEN me[p].data ELSE 0
             l == [AtRest(me[p].key, a) EXCEPT !.next = me[p].next, !.data = d]
  <2>1. me' = [me EXCEPT ![p] = l]
    BY <1>3 DEF Goto
  <2>2. d \in Bytes
    BY <1>1, ConstantAssumption DEF Bytes
  <2> HIDE DEF d
  <2>3. l \in Local /\ l.at = a /\ l.key = me[p].key
    BY <1>1, <2>2 DEF AtRest, Local, Tiers
  <2> HIDE DEF l
  <2> QED
    BY <1>3, <2>1, <2>3, Becomes
<1>4. CASE a \notin {"idle", "heat2", "heat1", "access"}
  <2> DEFINE l == [me[p] EXCEPT !.at = a]
  <2>1. me' = [me EXCEPT ![p] = l]
    BY <1>4 DEF Goto
  <2>2. /\ l \in Local /\ l.at = a /\ l.key = me[p].key
        /\ l.data = me[p].data /\ l.content = me[p].content
        /\ l.from = me[p].from /\ l.to = me[p].to /\ l.next = me[p].next
    BY <1>1 DEF Local
  <2> HIDE DEF l
  <2> QED
    BY <1>4, <2>1, <2>2, Becomes
<1> QED
  BY <1>2, <1>3, <1>4

-----------------------------------------------------------------------------
(* Steps that touch no local file and no entry.                            *)

Guarded == {"put_meta", "decode", "delete_meta"}

\* p goes from one place to another; it may release mutex_, and the remote only
\* gains objects.
LEMMA QuietInv ==
    ASSUME Inv, TypeOK', NEW p \in Procs, Alone(p),
           UNCHANGED <<base_path, file, meta, is_hot, index_mutex, undone, newest, disturbed>>,
           unstored \subseteq unstored',
           \A k \in Keys : remote[k] # None => remote'[k] # None,
           mutex' = mutex \/ mutex = p,
           me[p].at \notin Moving, me[p].at # "put_meta",
           me'[p].at \notin Moving \cup Guarded,
           me'[p].at = "put" /\ me'[p].next = "heat1" => me'[p].data \in 1..MaxVersion,
           me'[p].at = "read" /\ p # Maintenance => me'[p].next = "heat2",
           p = Maintenance /\ me'[p].at = "delete" =>
               me'[p].key \in unstored' \/ remote'[me'[p].key] # None
    PROVE  Inv'
<1> USE DEF Alone, Guarded
<1>1. LocalsFit'
  BY DEF Inv, LocalsFit
<1>2. LocksHeld'
  BY DEF Inv, LocksHeld, Moving
<1>3. HotKept'
  <2>1. index_mutex # p
    BY DEF Inv, LocksHeld
  <2> QED
    BY <2>1 DEF Inv, HotKept, Exists
<1>4. CopyKept'
  BY DEF Inv, CopyKept, Exists
<1>5. DemotedIsRemote'
  BY DEF Inv, DemotedIsRemote, Procs, TypeOK, Local
<1>6. OwnDirectories'
  BY DEF Inv, OwnDirectories, Exists, Moving
<1>7. NewestKept'
  <2>1. \A k \in Keys : OneCopy(k)' <=> OneCopy(k)
    BY DEF OneCopy, NewestIn, Stored, Exists
  <2>2. \A k \in Keys : Described(k)' => Described(k)
    BY DEF Described
  <2>3. \A d : Stored(d)' = Stored(d)
    BY DEF Stored
  <2> QED
    BY <2>1, <2>2, <2>3 DEF Inv, NewestKept, LevelOf
<1> QED
  BY <1>1, <1>2, <1>3, <1>4, <1>5, <1>6, <1>7 DEF Inv

\* A move begins, with the index's mutex or without.
LEMMA BeginMoveInv ==
    ASSUME Inv, TypeOK', NEW p \in Procs, Alone(p),
           UNCHANGED <<base_path, disk, is_hot, mutex, undone, newest, disturbed, unstored>>,
           \/ index_mutex' = index_mutex
           \/ index_mutex = NoProc /\ index_mutex' = p,
           me[p].at \notin Moving, me[p].at # "put_meta",
           me'[p].at = "rename", me'[p].from # me'[p].to,
           me'[p].from = "Hot" => index_mutex' = p,
           base_path = "base" => me'[p].to # "Cold"
    PROVE  Inv'
<1> USE DEF Alone, disk
<1>1. LocalsFit'
  BY DEF Inv, LocalsFit
<1>2. LocksHeld'
  BY ConstantAssumption DEF Inv, LocksHeld, Moving
<1>3. HotKept'
  <2>1. index_mutex # p
    BY DEF Inv, LocksHeld
  <2> QED
    BY <2>1, ConstantAssumption DEF Inv, HotKept, Exists
<1>4. CopyKept'
  BY DEF Inv, CopyKept, Exists
<1>5. DemotedIsRemote'
  BY DEF Inv, DemotedIsRemote, Procs, TypeOK, Local
<1>6. OwnDirectories'
  BY DEF Inv, OwnDirectories, Exists, Moving
<1>7. NewestKept'
  <2>1. \A k \in Keys : OneCopy(k)' <=> OneCopy(k)
    BY DEF OneCopy, NewestIn, Stored, Exists
  <2>2. \A k \in Keys : Described(k)' => Described(k)
    BY DEF Described
  <2>3. \A d : Stored(d)' = Stored(d)
    BY DEF Stored
  <2> QED
    BY <2>1, <2>2, <2>3 DEF Inv, NewestKept, LevelOf
<1> QED
  BY <1>1, <1>2, <1>3, <1>4, <1>5, <1>6, <1>7 DEF Inv

\* An entry changes without a move, while nobody holds the index's mutex.
LEMMA EntryInv ==
    ASSUME Inv, TypeOK', NEW p \in Procs, Alone(p), NEW k \in Keys, NEW hot \in BOOLEAN,
           UNCHANGED <<base_path, disk, locks, undone, newest, disturbed, unstored>>,
           index_mutex = NoProc,
           is_hot' = [is_hot EXCEPT ![k] = hot],
           hot => Exists("Hot", k),
           me[p].at \notin Guarded, me'[p].at \in {"idle", "heat2", "heat1"}
    PROVE  Inv'
<1> USE DEF Alone, disk, locks
<1>1. LocalsFit'
  BY DEF Inv, LocalsFit
<1>2. LocksHeld'
  BY ConstantAssumption DEF Inv, LocksHeld, Moving
<1>3. HotKept'
  BY ConstantAssumption DEF Inv, TypeOK, HotKept, Exists
<1>4. CopyKept'
  BY DEF Inv, CopyKept, Exists
<1>5. DemotedIsRemote'
  BY DEF Inv, DemotedIsRemote, Procs, TypeOK, Local
<1>6. OwnDirectories'
  BY DEF Inv, OwnDirectories, Exists, Moving
<1>7. NewestKept'
  <2>1. \A j \in Keys : OneCopy(j)' <=> OneCopy(j)
    BY DEF OneCopy, NewestIn, Stored, Exists
  <2>2. \A j \in Keys : Described(j)' => Described(j)
    BY DEF Described, Guarded
  <2>3. \A d : Stored(d)' = Stored(d)
    BY DEF Stored
  <2> QED
    BY <2>1, <2>2, <2>3 DEF Inv, NewestKept, LevelOf
<1> QED
  BY <1>1, <1>2, <1>3, <1>4, <1>5, <1>6, <1>7 DEF Inv

\* An object is taken to be in one of the tiers.
LEMMA TierOfObject ==
    \A k \in Keys : /\ GetObjectTier(k) \in Tiers
                    /\ GetObjectTier(k) = "Hot" <=> Exists("Hot", k)
BY DEF GetObjectTier, Tiers

\* A request arrives.
LEMMA ArriveInv ==
    ASSUME Inv, NEW p \in Sessions, NEW k \in Keys,
           \/ handle_put_object(p, k) \/ handle_get_object(p, k) \/ handle_delete_object(p, k)
    PROVE  Inv'
<1> USE DEF Accept, disk, locks
<1>1. p \in Procs /\ p # Maintenance /\ me[p].at = "idle" /\ me \in [Procs -> Local]
  BY ConstantAssumption DEF handle_put_object, handle_get_object, handle_delete_object, At,
     Procs, Inv, TypeOK
<1>2. CASE handle_put_object(p, k)
  <2> DEFINE d == issued[k] + 1
             l == [AtRest(k, "put") EXCEPT !.data = d, !.next = "heat1"]
  <2>1. me' = [me EXCEPT ![p] = l]
    BY <1>2 DEF handle_put_object
  <2>2. d \in 1..MaxVersion /\ d \in Bytes
    BY <1>2, ConstantAssumption DEF handle_put_object, Inv, TypeOK, Bytes
  <2>3. issued' \in [Keys -> 0..MaxVersion] /\ requests' \in Nat
    BY <1>2, <2>2 DEF handle_put_object, Inv, TypeOK
  <2> HIDE DEF d
  <2>4. l \in Local /\ l.at = "put" /\ l.data = d
    BY <2>2 DEF AtRest, Local, Tiers, Places
  <2> HIDE DEF l
  <2>5. me' \in [Procs -> Local] /\ me'[p] = l /\ Alone(p)
    BY <1>1, <2>1, <2>4, Becomes
  <2>6. TypeOK'
    BY <1>2, <2>3, <2>5 DEF handle_put_object, Inv, TypeOK
  <2> QED
    BY <1>1, <1>2, <2>2, <2>4, <2>5, <2>6, QuietInv DEF handle_put_object, Moving, Guarded
<1>3. CASE handle_get_object(p, k)
  <2> DEFINE l == [AtRest(k, "read") EXCEPT !.from = GetObjectTier(k), !.next = "heat2"]
  <2>1. me' = [me EXCEPT ![p] = l]
    BY <1>3 DEF handle_get_object
  <2>2. l \in Local /\ l.at = "read" /\ l.next = "heat2"
    BY TierOfObject, ZeroIsData DEF AtRest, Local, Tiers, Places
  <2> HIDE DEF l
  <2>3. me' \in [Procs -> Local] /\ me'[p] = l /\ Alone(p)
    BY <1>1, <2>1, <2>2, Becomes
  <2>4. requests' \in Nat
    BY <1>3 DEF handle_get_object, Inv, TypeOK
  <2>5. TypeOK'
    BY <1>3, <2>3, <2>4 DEF handle_get_object, Inv, TypeOK
  <2> QED
    BY <1>1, <1>3, <2>2, <2>3, <2>5, QuietInv DEF handle_get_object, Moving, Guarded
<1>4. CASE handle_delete_object(p, k)
  <2> DEFINE l == AtRest(k, "delete")
  <2>1. me' = [me EXCEPT ![p] = l]
    BY <1>4 DEF handle_delete_object
  <2>2. l \in Local /\ l.at = "delete"
    BY AtRestLocal DEF Places
  <2> HIDE DEF l
  <2>3. me' \in [Procs -> Local] /\ me'[p] = l /\ Alone(p)
    BY <1>1, <2>1, <2>2, Becomes
  <2>4. requests' \in Nat
    BY <1>4 DEF handle_delete_object, Inv, TypeOK
  <2>5. TypeOK'
    BY <1>4, <2>3, <2>4 DEF handle_delete_object, Inv, TypeOK
  <2> QED
    BY <1>1, <1>4, <2>2, <2>3, <2>5, QuietInv DEF handle_delete_object, Moving, Guarded
<1> QED
  BY <1>2, <1>3, <1>4

\* A put fails, a get finds nothing.
LEMMA GiveUpInv ==
    ASSUME Inv, NEW p \in Procs, PutFails(p) \/ NoSuchKey(p)
    PROVE  Inv'
<1> USE DEF disk, locks, history
<1>1. PICK a \in {"idle", "access"} : Goto(p, a)
  BY DEF PutFails, NoSuchKey, GiveUp
<1>2. /\ me' \in [Procs -> Local] /\ Alone(p) /\ me'[p].at = a
  BY <1>1, GotoFacts DEF Inv, TypeOK, Places
<1>3. TypeOK'
  BY <1>2 DEF PutFails, NoSuchKey, Inv, TypeOK
<1> QED
  BY <1>2, <1>3, QuietInv DEF PutFails, NoSuchKey, At, Moving, Guarded

\* A get turns to the remote copy.
LEMMA FetchInv ==
    ASSUME Inv, NEW p \in Procs, FetchFromRemote(p)
    PROVE  Inv'
<1> USE DEF disk, locks, history
<1>1. me[p] \in Local /\ me[p].key \in Keys /\ me[p].at = "read" /\ me[p].next = "heat2"
  BY DEF FetchFromRemote, At, Inv, TypeOK, LocalsFit, Local
<1> DEFINE l == [AtRest(me[p].key, "put") EXCEPT !.data = remote[me[p].key],
                                                 !.next = me[p].next]
<1>2. remote[me[p].key] \in Bytes
  BY <1>1 DEF FetchFromRemote, Inv, TypeOK
<1>3. l \in Local /\ l.at = "put" /\ l.next = "heat2"
  BY <1>1, <1>2 DEF AtRest, Local, Tiers, Places
<1>4. me' = [me EXCEPT ![p] = l]
  BY DEF FetchFromRemote
<1> HIDE DEF l
<1>5. me' \in [Procs -> Local] /\ me'[p] = l /\ Alone(p)
  BY <1>3, <1>4, Becomes DEF Inv, TypeOK
<1>6. TypeOK'
  BY <1>5 DEF FetchFromRemote, Inv, TypeOK
<1> QED
  BY <1>1, <1>3, <1>5, <1>6, QuietInv DEF FetchFromRemote, Moving, Guarded

\* What was read is decompressed, or is not.
LEMMA DecodeInv ==
    ASSUME Inv, NEW p \in Procs, DecodeLocal(p)
    PROVE  Inv'
<1> USE DEF disk, history
<1>1. /\ me \in [Procs -> Local] /\ me[p] \in Local /\ me[p].key \in Keys
      /\ me[p].at = "decode" /\ me[p].content \in Content /\ mutex = p
  BY DEF DecodeLocal, At, Inv, TypeOK, LocalsFit, LocksHeld, Local
<1>2. PICK d : d = Decompressed(me[p].content, meta[base_path][me[p].key])
  OBVIOUS
<1>3. CASE d = None
  <2>1. PICK a \in {"idle", "access"} : Goto(p, a)
    BY <1>2, <1>3 DEF DecodeLocal, GiveUp
  <2>2. me' \in [Procs -> Local] /\ Alone(p) /\ me'[p].at = a
    BY <1>1, <2>1, GotoFacts DEF Places
  <2>3. TypeOK'
    BY <2>2 DEF DecodeLocal, Inv, TypeOK
  <2> QED
    BY <1>1, <2>2, <2>3, QuietInv DEF DecodeLocal, Moving, Guarded
<1>4. CASE d # None
  <2>1. d \in Bytes
    BY <1>1, <1>2, <1>4 DEF Decompressed, Content, Bytes
  <2> DEFINE l == [AtRest(me[p].key, IF p = Maintenance THEN "upload" ELSE "access")
                      EXCEPT !.data = d, !.next = me[p].next]
  <2>2. me' = [me EXCEPT ![p] = l]
    BY <1>2, <1>4 DEF DecodeLocal
  <2>3. l \in Local /\ l.at \in {"upload", "access"}
    BY <1>1, <2>1 DEF AtRest, Local, Tiers, Places
  <2> HIDE DEF l
  <2>4. me' \in [Procs -> Local] /\ me'[p] = l /\ Alone(p)
    BY <1>1, <2>2, <2>3, Becomes
  <2>5. TypeOK'
    BY <2>4 DEF DecodeLocal, Inv, TypeOK
  <2> QED
    BY <1>1, <2>3, <2>4, <2>5, QuietInv DEF DecodeLocal, Moving, Guarded
<1> QED
  BY <1>3, <1>4

\* A move: the locals it begins with.
LEMMA BeginMoveFacts ==
    ASSUME me \in [Procs -> Local], NEW p \in Procs, NEW k \in Keys, NEW from \in Tiers,
           NEW to \in Tiers, NEW next \in {"idle", "heat2", "heat1"},
           BeginMove(p, k, from, to, next)
    PROVE  /\ me' \in [Procs -> Local] /\ Alone(p) /\ me'[p].at = "rename"
           /\ me'[p].from = from /\ me'[p].to = to
<1> DEFINE l == [AtRest(k, "rename") EXCEPT !.from = from, !.to = to, !.next = next]
<1>1. l \in Local /\ l.at = "rename" /\ l.from = from /\ l.to = to
  BY ZeroIsData DEF AtRest, Local, Tiers, Places
<1>2. me' = [me EXCEPT ![p] = l]
  BY DEF BeginMove
<1> HIDE DEF l
<1> QED
  BY <1>1, <1>2, Becomes

\* PromoteObject by an S3 handler, without the index's mutex.
LEMMA PromoteIfHotInv ==
    ASSUME Inv, NEW p \in Procs, PromoteIfHot(p)
    PROVE  Inv'
<1> USE DEF disk, locks, history
<1>1. me \in [Procs -> Local] /\ me[p].at \in {"heat2", "heat1"} /\ me[p].key \in Keys
  BY DEF PromoteIfHot, At, Inv, TypeOK, Local
<1>2. PICK a \in {"idle", "heat1"} : Goto(p, a) \/ PromoteObject(p, me[p].key, a)
  BY DEF PromoteIfHot
<1>3. CASE Goto(p, a)
  <2>1. me' \in [Procs -> Local] /\ Alone(p) /\ me'[p].at = a
    BY <1>1, <1>3, GotoFacts DEF Places
  <2>2. TypeOK'
    BY <2>1 DEF PromoteIfHot, Inv, TypeOK
  <2> QED
    BY <1>1, <2>1, <2>2, QuietInv DEF PromoteIfHot, Moving, Guarded
<1>4. CASE PromoteObject(p, me[p].key, a)
  <2>1. PICK from \in Tiers : from = GetObjectTier(me[p].key)
    BY <1>1, TierOfObject
  <2>2. from # "Hot" /\ BeginMove(p, me[p].key, from, "Hot", a)
    BY <1>4, <2>1 DEF PromoteObject
  <2>3. /\ me' \in [Procs -> Local] /\ Alone(p) /\ me'[p].at = "rename"
        /\ me'[p].from = from /\ me'[p].to = "Hot"
    BY <1>1, <2>2, BeginMoveFacts DEF Tiers
  <2>4. TypeOK'
    BY <2>3 DEF PromoteIfHot, Inv, TypeOK
  <2> QED
    BY <1>1, <2>2, <2>3, <2>4, BeginMoveInv DEF PromoteIfHot, Moving
<1> QED
  BY <1>2, <1>3, <1>4

\* The index makes an entry hot.
LEMMA PromoteToHotInv ==
    ASSUME Inv, NEW p \in Procs, NEW k \in Keys, NEW next \in {"idle", "heat2", "heat1"},
           me[p].at \in {"idle", "access"}, index_mutex = NoProc,
           promote_to_hot(p, k, next),
           UNCHANGED <<base_path, disk, mutex, running, history>>
    PROVE  Inv'
<1> USE DEF disk, history
<1>1. me \in [Procs -> Local]
  BY DEF Inv, TypeOK
<1>2. CASE PromoteObject(p, k, next) /\ index_mutex' = p /\ UNCHANGED is_hot
  <2>1. PICK from \in Tiers : from = GetObjectTier(k)
    BY TierOfObject
  <2>2. from # "Hot" /\ BeginMove(p, k, from, "Hot", next)
    BY <1>2, <2>1 DEF PromoteObject
  <2>3. /\ me' \in [Procs -> Local] /\ Alone(p) /\ me'[p].at = "rename"
        /\ me'[p].from = from /\ me'[p].to = "Hot"
    BY <1>1, <2>2, BeginMoveFacts DEF Tiers
  <2>4. TypeOK'
    BY <1>2, <2>3 DEF Inv, TypeOK
  <2> QED
    BY <1>2, <2>2, <2>3, <2>4, BeginMoveInv DEF Moving
<1>3. CASE /\ GetObjectTier(k) = "Hot" /\ is_hot' = [is_hot EXCEPT ![k] = TRUE]
           /\ Goto(p, next) /\ UNCHANGED index_mutex
  <2>1. me' \in [Procs -> Local] /\ Alone(p) /\ me'[p].at = next
    BY <1>1, <1>3, GotoFacts DEF Places
  <2>2. is_hot' \in [Keys -> BOOLEAN]
    BY <1>3, Zenon DEF Inv, TypeOK
  <2>3. TypeOK'
    BY <1>3, <2>1, <2>2 DEF Inv, TypeOK
  <2>4. Exists("Hot", k)
    BY <1>3, TierOfObject
  <2> QED
    BY <1>3, <2>1, <2>3, <2>4, EntryInv DEF locks, Guarded
<1> QED
  BY <1>2, <1>3 DEF promote_to_hot

\* The index makes an entry not hot.  With tier directories of their own the
\* object is in the Hot tier, so it goes to the Warm one.
LEMMA DemoteFromHotInv ==
    ASSUME Inv, NEW p \in Procs, NEW k \in Keys,
           me[p].at = "idle", index_mutex = NoProc, is_hot[k],
           demote_from_hot(p, k),
           UNCHANGED <<base_path, disk, mutex, running, history>>
    PROVE  Inv'
<1> USE DEF disk, history
<1>1. me \in [Procs -> Local]
  BY DEF Inv, TypeOK
<1>2. PICK from \in Tiers : from = GetObjectTier(k)
  BY TierOfObject
<1>3. CASE from = "Cold"
  <2>1. is_hot' = [is_hot EXCEPT ![k] = FALSE] /\ UNCHANGED <<index_mutex, me>>
    BY <1>2, <1>3 DEF demote_from_hot
  <2>2. is_hot' \in [Keys -> BOOLEAN]
    BY <2>1, Zenon DEF Inv, TypeOK
  <2>3. TypeOK'
    BY <2>1, <2>2 DEF Inv, TypeOK
  <2> QED
    BY <2>1, <2>3, EntryInv DEF locks, Guarded, Alone
<1>4. CASE from # "Cold"
  <2>1. /\ index_mutex' = p /\ UNCHANGED is_hot
        /\ BeginMove(p, k, from, DemoteTarget(from), "idle")
    BY <1>2, <1>4 DEF demote_from_hot
  <2>2. DemoteTarget(from) \in Tiers /\ DemoteTarget(from) # from
    BY <1>4 DEF DemoteTarget, Tiers
  <2>3. /\ me' \in [Procs -> Local] /\ Alone(p) /\ me'[p].at = "rename"
        /\ me'[p].from = from /\ me'[p].to = DemoteTarget(from)
    BY <1>1, <2>1, <2>2, BeginMoveFacts
  <2>4. base_path = "base" => DemoteTarget(from) # "Cold"
    <3>1. base_path = "base" => Exists("Hot", k)
      BY ConstantAssumption DEF Inv, HotKept, OwnDirectories
    <3> QED
      BY <1>2, <3>1, TierOfObject DEF DemoteTarget
  <2>5. TypeOK'
    BY <2>1, <2>3 DEF Inv, TypeOK
  <2> QED
    BY <2>1, <2>2, <2>3, <2>4, <2>5, BeginMoveInv DEF Moving
<1> QED
  BY <1>3, <1>4

\* RecordAccess, and one entry of a pass of either loop.
LEMMA IndexInv ==
    ASSUME Inv,
           \/ \E p \in Sessions : RecordAccess(p)
           \/ \E k \in Keys : decay_loop(k) \/ tier_maintenance_loop(k)
    PROVE  Inv'
<1> USE DEF At
<1>1. ASSUME NEW p \in Sessions, RecordAccess(p) PROVE Inv'
  <2>1. /\ p \in Procs /\ me \in [Procs -> Local] /\ me[p].key \in Keys
        /\ me[p].next \in {"idle", "heat2", "heat1"} /\ me[p].at = "access"
    BY <1>1 DEF RecordAccess, Procs, Inv, TypeOK, Local
  <2>2. CASE Goto(p, me[p].next) /\ UNCHANGED <<is_hot, index_mutex>>
    <3>1. me' \in [Procs -> Local] /\ Alone(p) /\ me'[p].at \in {"idle", "heat2", "heat1"}
      BY <2>1, <2>2, GotoFacts DEF Places
    <3>2. TypeOK'
      BY <1>1, <2>2, <3>1 DEF RecordAccess, disk, history, Inv, TypeOK
    <3> QED
      BY <1>1, <2>1, <2>2, <3>1, <3>2, QuietInv
      DEF RecordAccess, disk, history, Moving, Guarded
  <2>3. CASE promote_to_hot(p, me[p].key, me[p].next)
    BY <1>1, <2>1, <2>3, PromoteToHotInv DEF RecordAccess
  <2> QED
    BY <1>1, <2>2, <2>3 DEF RecordAccess
<1>2. ASSUME NEW k \in Keys, decay_loop(k) PROVE Inv'
  BY <1>2, DemoteFromHotInv DEF decay_loop, Procs
<1>3. ASSUME NEW k \in Keys, tier_maintenance_loop(k) PROVE Inv'
  <2>1. /\ Maintenance \in Procs /\ me[Maintenance].at = "idle" /\ index_mutex = NoProc
        /\ UNCHANGED <<base_path, disk, mutex, running, history>>
    BY <1>3 DEF tier_maintenance_loop, Procs
  <2>2. CASE is_hot[k] /\ demote_from_hot(Maintenance, k)
    BY <2>1, <2>2, DemoteFromHotInv
  <2>3. CASE promote_to_hot(Maintenance, k, "idle")
    BY <2>1, <2>3, PromoteToHotInv
  <2> QED
    BY <1>3, <2>2, <2>3 DEF tier_maintenance_loop
<1> QED
  BY <1>1, <1>2, <1>3

\* The demotion to the remote begins, and uploads what it has read.
LEMMA RemoteInv ==
    ASSUME Inv,
           UploadToRemote(Maintenance) \/ \E k \in Keys : DemoteToRemoteCold(k)
    PROVE  Inv'
<1> USE DEF At, locks, history
<1>1. /\ Maintenance \in Procs /\ me \in [Procs -> Local] /\ me[Maintenance].key \in Keys
      /\ me[Maintenance].data \in Bytes
  BY DEF Procs, Inv, TypeOK, Local
<1>2. CASE Goto(Maintenance, "idle") /\ UNCHANGED <<disk, unstored>>
  <2>1. me' \in [Procs -> Local] /\ Alone(Maintenance) /\ me'[Maintenance].at = "idle"
    BY <1>1, <1>2, GotoFacts DEF Places
  <2>2. TypeOK'
    BY <1>2, <2>1 DEF UploadToRemote, DemoteToRemoteCold, disk, Inv, TypeOK
  <2> QED
    BY <1>1, <1>2, <2>1, <2>2, QuietInv
    DEF UploadToRemote, DemoteToRemoteCold, disk, Moving, Guarded
<1>3. ASSUME NEW k \in Keys, DemoteToRemoteCold(k), ~Goto(Maintenance, "idle") PROVE Inv'
  <2> DEFINE l == [AtRest(k, "read") EXCEPT !.from = GetObjectTier(k)]
  <2>1. me' = [me EXCEPT ![Maintenance] = l]
    BY <1>3 DEF DemoteToRemoteCold
  <2>2. l \in Local /\ l.at = "read"
    BY TierOfObject, ZeroIsData DEF AtRest, Local, Tiers, Places
  <2> HIDE DEF l
  <2>3. me' \in [Procs -> Local] /\ me'[Maintenance] = l /\ Alone(Maintenance)
    BY <1>1, <2>1, <2>2, Becomes
  <2>4. TypeOK'
    BY <1>3, <2>3 DEF DemoteToRemoteCold, disk, Inv, TypeOK
  <2> QED
    BY <1>1, <1>3, <2>2, <2>3, <2>4, QuietInv DEF DemoteToRemoteCold, disk, Moving, Guarded
<1>4. CASE UploadToRemote(Maintenance) /\ ~(Goto(Maintenance, "idle") /\ UNCHANGED <<disk, unstored>>)
  <2>1. PICK k \in Keys : k = me[Maintenance].key
    BY <1>1
  <2> DEFINE l == AtRest(k, "delete")
  <2>2. me' = [me EXCEPT ![Maintenance] = l]
    BY <1>4, <2>1 DEF UploadToRemote, disk
  <2>3. l \in Local /\ l.at = "delete" /\ l.key = k
    BY AtRestLocal DEF Places
  <2> HIDE DEF l
  <2>4. me' \in [Procs -> Local] /\ me'[Maintenance] = l /\ Alone(Maintenance)
    BY <1>1, <2>2, <2>3, Becomes
  <2>5. \/ remote' = [remote EXCEPT ![k] = me[Maintenance].data] /\ UNCHANGED unstored
        \/ unstored' = unstored \cup {k} /\ UNCHANGED remote
    BY <1>4, <2>1 DEF UploadToRemote, disk
  <2>6. me[Maintenance].data # None
    BY <1>1, ConstantAssumption DEF Bytes
  <2>7. /\ remote' \in [Keys -> Bytes \cup {None}] /\ unstored' \subseteq Keys
        /\ unstored \subseteq unstored' /\ (k \in unstored' \/ remote'[k] # None)
        /\ \A j \in Keys : remote[j] # None => remote'[j] # None
    BY <1>1, <2>5, <2>6 DEF Inv, TypeOK
  <2>8. TypeOK'
    BY <1>4, <2>4, <2>7 DEF UploadToRemote, Inv, TypeOK
  <2> QED
    BY <1>1, <1>4, <2>3, <2>4, <2>7, <2>8, QuietInv DEF UploadToRemote, Moving, Guarded
<1> QED
  BY <1>2, <1>3, <1>4 DEF DemoteToRemoteCold, UploadToRemote

-----------------------------------------------------------------------------
(* Files.                                                                  *)

\* One file changes.
LEMMA OneFile ==
    ASSUME NEW C, NEW f \in [Dirs -> [Keys -> C]], NEW d \in Dirs, NEW k \in Keys, NEW c \in C
    PROVE  LET g == [f EXCEPT ![d][k] = c]
           IN  /\ g \in [Dirs -> [Keys -> C]]
               /\ g[d][k] = c
               /\ \A e \in Dirs, j \in Keys : e # d \/ j # k => g[e][j] = f[e][j]
OBVIOUS

\* What PutObject stores.
LEMMA StoredContent ==
    ASSUME NEW d \in Bytes
    PROVE  Stored(d) \in Content /\ Stored(d) \notin {None, Torn} /\ Stored(d).data = d
<1>1. (Level["Warm"] > 0 /\ d \notin Empty) \in BOOLEAN
  BY Zenon
<1>2. Stored(d) \in Content /\ Stored(d).data = d
  BY <1>1 DEF Stored, Content
<1> QED
  BY <1>2, NoneAssumption

\* Tiers are directories.
LEMMA DirsFacts == Tiers \subseteq Dirs /\ "base" \in Dirs /\ "base" \notin Tiers
BY DEF Dirs, Tiers

\* What OneCopy depends on.
LEMMA OneCopySame ==
    ASSUME NEW k \in Keys, newest'[k] = newest[k],
           file'["Hot"][k] = file["Hot"][k], file'["Warm"][k] = file["Warm"][k]
    PROVE  OneCopy(k)' <=> OneCopy(k)
BY DEF OneCopy, NewestIn, Exists, Stored

\* A file of data, or of metadata, is renamed.
RenamesData(from, to, k) ==
    file' = [file EXCEPT ![to][k] = file[from][k], ![from][k] = None]

RenamesMeta(from, to, k) ==
    meta' = [meta EXCEPT ![to][k] = meta[from][k], ![from][k] = None]

LEMMA FileRenamed ==
    ASSUME TypeOK, NEW from \in Tiers, NEW to \in Tiers, from # to, NEW k \in Keys,
           RenamesData(from, to, k)
    PROVE  /\ file' \in [Dirs -> [Keys -> Content \cup {None, Torn}]]
           /\ file'[to][k] = file[from][k] /\ file'[from][k] = None
           /\ \A e \in Dirs, j \in Keys : e \notin {to, from} \/ j # k => file'[e][j] = file[e][j]
<1> DEFINE C == Content \cup {None, Torn}
<1>1. from \in Dirs /\ to \in Dirs /\ None \in C /\ file \in [Dirs -> [Keys -> C]]
  BY DirsFacts DEF TypeOK
<1> HIDE DEF C
<1>2. /\ file' \in [Dirs -> [Keys -> C]]
      /\ file'[to][k] = file[from][k] /\ file'[from][k] = None
      /\ \A e \in Dirs, j \in Keys : e \notin {to, from} \/ j # k => file'[e][j] = file[e][j]
  BY <1>1 DEF RenamesData
<1> QED
  BY <1>2 DEF C

LEMMA MetaRenamed ==
    ASSUME TypeOK, NEW from \in Tiers, NEW to \in Tiers, from # to, NEW k \in Keys,
           RenamesMeta(from, to, k)
    PROVE  meta' \in [Dirs -> [Keys -> {0} \cup {Level[t] : t \in Tiers} \cup {None, Torn}]]
<1> DEFINE C == {0} \cup {Level[t] : t \in Tiers} \cup {None, Torn}
<1>1. from \in Dirs /\ to \in Dirs /\ None \in C /\ meta \in [Dirs -> [Keys -> C]]
  BY DirsFacts DEF TypeOK
<1> HIDE DEF C
<1>2. meta' \in [Dirs -> [Keys -> C]]
  BY <1>1 DEF RenamesMeta
<1> QED
  BY <1>2 DEF C

\* While mutex_ is free nobody is in one of its sections ...
LEMMA SectionsFree ==
    ASSUME Inv, mutex = NoProc
    PROVE  \A p \in Procs : me[p].at \notin Guarded
BY ConstantAssumption DEF Inv, LocksHeld, Guarded

\* ... and while it is held nobody else is.
LEMMA SectionAlone ==
    ASSUME Inv, NEW p \in Procs, me[p].at \in Guarded
    PROVE  mutex = p /\ \A q \in Procs \ {p} : me[q].at \notin Guarded
BY DEF Inv, LocksHeld, Guarded

\* A step that is no move, and takes nothing from the Hot tier.
LEMMA NoMoveHot ==
    ASSUME Inv, NEW p \in Procs, Alone(p),
           UNCHANGED <<base_path, is_hot, index_mutex, undone>>,
           me[p].at \notin Moving, me'[p].at \notin Moving,
           base_path # "Hot" => \A k \in Keys : Exists("Hot", k) => Exists("Hot", k)'
    PROVE  HotKept'
<1>1. index_mutex # p
  BY DEF Inv, LocksHeld
<1> QED
  BY <1>1 DEF Alone, Inv, TypeOK, Local, HotKept

\* PutObject writes the data.
LEMMA PutObjectInv ==
    ASSUME Inv, NEW p \in Procs, PutObject(p)
    PROVE  Inv'
<1> DEFINE c == Stored(me[p].data)
<1>1. /\ me \in [Procs -> Local] /\ me[p] \in Local /\ me[p].at = "put"
      /\ me[p].data \in Bytes /\ me[p].key \in Keys /\ mutex = NoProc /\ mutex' = p
  BY DEF PutObject, At, Inv, TypeOK, Local
<1>2. PICK k \in Keys : k = me[p].key
  BY <1>1
<1>3. PICK d \in Bytes : d = me[p].data
  BY <1>1
<1>4. c \in Content /\ c \notin {None, Torn} /\ c = Stored(d)
  BY <1>1, <1>3, StoredContent
<1>5. /\ file' = [file EXCEPT !["Warm"][k] = c]
      /\ me' = [me EXCEPT ![p].at = "put_meta", ![p].content = c]
      /\ newest' = IF me[p].next = "heat1" THEN [newest EXCEPT ![k] = d] ELSE newest
      /\ disturbed' = IF Exists("Hot", k) \/ me[p].next # "heat1" THEN disturbed \cup {k}
                                                                  ELSE disturbed \ {k}
      /\ UNCHANGED <<base_path, meta, remote, is_hot, index_mutex, running, requests,
                     faults, issued, unstored, undone>>
  BY <1>2, <1>3 DEF PutObject
<1> HIDE DEF c
<1>6. /\ me' \in [Procs -> Local] /\ Alone(p) /\ me'[p].at = "put_meta" /\ me'[p].key = k
      /\ me'[p].content = c
  BY <1>1, <1>2, <1>4, <1>5 DEF Alone, Local, Places
<1>7. /\ file' \in [Dirs -> [Keys -> Content \cup {None, Torn}]] /\ file'["Warm"][k] = c
      /\ \A e \in Dirs, j \in Keys : e # "Warm" \/ j # k => file'[e][j] = file[e][j]
  BY <1>4, <1>5, OneFile, DirsFacts DEF Inv, TypeOK, Tiers
<1>8. me[p].next = "heat1" => d \in 1..MaxVersion
  BY <1>1, <1>3 DEF Inv, LocalsFit
<1>9. newest' \in [Keys -> 0..MaxVersion]
  <2>1. CASE me[p].next = "heat1"
    BY <1>5, <1>8, <2>1 DEF Inv, TypeOK
  <2>2. CASE me[p].next # "heat1"
    BY <1>5, <2>2 DEF Inv, TypeOK
  <2> QED
    BY <2>1, <2>2
<1>10. TypeOK'
  BY <1>1, <1>5, <1>6, <1>7, <1>9 DEF Inv, TypeOK
<1>11. \A q \in Procs : me[q].at \notin Guarded
  BY <1>1, SectionsFree
<1>12. LocalsFit'
  BY <1>4, <1>6 DEF Inv, LocalsFit, Alone
<1>13. LocksHeld'
  BY <1>1, <1>5, <1>6, <1>11 DEF Inv, LocksHeld, Alone, Guarded, Moving
<1>14. HotKept'
  <2>1. \A j \in Keys : Exists("Hot", j) => Exists("Hot", j)'
    BY <1>7, DirsFacts DEF Exists, Tiers
  <2> QED
    BY <1>1, <1>5, <1>6, <2>1, NoMoveHot DEF Moving
<1>15. CopyKept'
  <2>1. \A j \in Keys \ {k} : newest'[j] = newest[j]
    BY <1>5 DEF Inv, TypeOK
  <2>2. \A t \in Tiers, j \in Keys : Exists(t, j) => Exists(t, j)'
    BY <1>4, <1>7, DirsFacts DEF Exists
  <2>3. \E t \in Tiers : Exists(t, k)'
    BY <1>4, <1>7 DEF Exists, Tiers
  <2>4. \A t \in Tiers, j \in Keys \ unstored : file'[t][j] # Torn
    BY <1>4, <1>7, DirsFacts DEF Inv, CopyKept
  <2> QED
    BY <1>5, <2>1, <2>2, <2>3, <2>4 DEF Inv, CopyKept
<1>16. DemotedIsRemote'
  BY <1>5, <1>6 DEF Inv, DemotedIsRemote, Alone, Procs
<1>17. OwnDirectories'
  <2>1. \A j \in Keys : Exists("Cold", j)' => Exists("Cold", j)
    BY <1>7, DirsFacts DEF Exists, Tiers
  <2> QED
    BY <1>5, <1>6, <2>1 DEF Inv, OwnDirectories, Alone, Moving
<1>18. NewestKept'
  <2> SUFFICES ASSUME base_path = "base" PROVE NewestKept'
    BY <1>5 DEF NewestKept
  <2>1. \A j \in Keys \ {k} : /\ newest'[j] = newest[j] /\ (j \in disturbed' <=> j \in disturbed)
                              /\ OneCopy(j)' <=> OneCopy(j)
                              /\ Described(j)' <=> Described(j)
    <3>1. \A j \in Keys \ {k} : newest'[j] = newest[j] /\ (j \in disturbed' <=> j \in disturbed)
      BY <1>5 DEF Inv, TypeOK
    <3>2. ASSUME NEW j \in Keys \ {k} PROVE OneCopy(j)' <=> OneCopy(j)
      <4>1. file'["Hot"][j] = file["Hot"][j] /\ file'["Warm"][j] = file["Warm"][j]
        BY <1>7, DirsFacts DEF Tiers
      <4> QED
        BY <3>1, <4>1, OneCopySame
    <3>3. \A j \in Keys \ {k} : Described(j)' <=> Described(j)
      BY <1>6, <1>1 DEF Described, Alone
    <3> QED
      BY <3>1, <3>2, <3>3
  <2>2. \A x : Stored(x)' = Stored(x)
    BY DEF Stored
  <2>3. ~Described(k)'
    BY <1>6 DEF Described
  <2>4. k \notin disturbed' => newest'[k] = d /\ d # 0 /\ ~Exists("Hot", k)
    BY <1>5, <1>8, ConstantAssumption DEF Inv, TypeOK
  <2>5. k \notin disturbed' => OneCopy(k)'
    <3>1. k \notin disturbed' => ~Exists("Hot", k)'
      BY <1>7, <2>4, DirsFacts DEF Exists, Tiers
    <3> QED
      BY <1>4, <1>7, <2>2, <2>4, <3>1 DEF OneCopy, NewestIn
  <2>6. \A j \in Keys \ disturbed' :
           /\ OneCopy(j)'
           /\ newest'[j] # 0 /\ Described(j)' => meta'["base"][j] = LevelOf(Stored(newest'[j]))
    BY <1>5, <2>1, <2>3, <2>5 DEF Inv, NewestKept
  <2>7. \A q \in Procs \ {p} : me'[q].at \notin Guarded
    BY <1>6, <1>11 DEF Alone
  <2> QED
    BY <1>4, <1>6, <2>2, <2>4, <2>6, <2>7 DEF NewestKept, Guarded, LevelOf
<1> QED
  BY <1>10, <1>12, <1>13, <1>14, <1>15, <1>16, <1>17, <1>18 DEF Inv

\* It fails to, and goes on.
LEMMA WriteFailsInv ==
    ASSUME Inv, NEW p \in Procs, WriteFails(p)
    PROVE  Inv'
<1>1. /\ me \in [Procs -> Local] /\ me[p] \in Local /\ me[p].at = "put"
      /\ me[p].data \in Bytes /\ me[p].key \in Keys /\ mutex = NoProc /\ mutex' = p
  BY DEF WriteFails, At, Inv, TypeOK, Local
<1>2. PICK k \in Keys : k = me[p].key
  BY <1>1
<1>3. PICK d \in Bytes : d = me[p].data
  BY <1>1
<1>4. PICK c \in Content : c = Stored(d) /\ c # None
  BY StoredContent
<1>5. /\ file' \in {file, [file EXCEPT !["Warm"][k] = Torn]}
      /\ me' = [me EXCEPT ![p].at = "put_meta", ![p].content = c]
      /\ newest' = IF me[p].next = "heat1" THEN [newest EXCEPT ![k] = d] ELSE newest
      /\ disturbed' = disturbed \cup {k} /\ unstored' = unstored \cup {k} /\ Fault
      /\ UNCHANGED <<base_path, meta, remote, is_hot, index_mutex, running, requests,
                     issued, undone>>
  BY <1>2, <1>3, <1>4 DEF WriteFails
<1>6. /\ me' \in [Procs -> Local] /\ Alone(p) /\ me'[p].at = "put_meta" /\ me'[p].key = k
      /\ me'[p].content = c
  BY <1>1, <1>2, <1>4, <1>5 DEF Alone, Local, Places
<1>7. /\ file' \in [Dirs -> [Keys -> Content \cup {None, Torn}]]
      /\ \A e \in Dirs, j \in Keys : e # "Warm" \/ j # k => file'[e][j] = file[e][j]
  <2> DEFINE C == Content \cup {None, Torn}
  <2>1. file \in [Dirs -> [Keys -> C]] /\ Torn \in C /\ "Warm" \in Dirs
    BY DirsFacts DEF Inv, TypeOK, Tiers
  <2> HIDE DEF C
  <2>2. /\ file' \in [Dirs -> [Keys -> C]]
        /\ \A e \in Dirs, j \in Keys : e # "Warm" \/ j # k => file'[e][j] = file[e][j]
    <3>1. CASE file' = file
      BY <2>1, <3>1
    <3>2. CASE file' = [file EXCEPT !["Warm"][k] = Torn]
      BY <2>1, <3>2, OneFile
    <3> QED
      BY <1>5, <3>1, <3>2
  <2> QED
    BY <2>2 DEF C
<1>8. /\ newest' \in [Keys -> 0..MaxVersion] /\ \A j \in Keys \ {k} : newest'[j] = newest[j]
      /\ faults' \in Nat
  <2>1. me[p].next = "heat1" => d \in 1..MaxVersion
    BY <1>1, <1>3 DEF Inv, LocalsFit
  <2>2. newest \in [Keys -> 0..MaxVersion] /\ faults' \in Nat
    BY <1>5 DEF Inv, TypeOK, Fault
  <2>3. CASE me[p].next = "heat1"
    BY <1>5, <2>1, <2>2, <2>3
  <2>4. CASE me[p].next # "heat1"
    BY <1>5, <2>2, <2>4
  <2> QED
    BY <2>3, <2>4
<1>9. TypeOK'
  BY <1>1, <1>5, <1>6, <1>7, <1>8 DEF Inv, TypeOK
<1>10. \A q \in Procs : me[q].at \notin Guarded
  BY <1>1, SectionsFree
<1>11. LocalsFit'
  BY <1>4, <1>6 DEF Inv, LocalsFit, Alone
<1>12. LocksHeld'
  BY <1>1, <1>5, <1>6, <1>10 DEF Inv, LocksHeld, Alone, Guarded, Moving
<1>13. HotKept'
  <2>1. \A j \in Keys : Exists("Hot", j) => Exists("Hot", j)'
    BY <1>7, DirsFacts DEF Exists, Tiers
  <2> QED
    BY <1>1, <1>5, <1>6, <2>1, NoMoveHot DEF Moving
<1>14. CopyKept'
  <2>1. \A t \in Tiers, j \in Keys \ {k} : file'[t][j] = file[t][j]
    BY <1>7, DirsFacts
  <2> QED
    BY <1>5, <1>8, <2>1 DEF Inv, CopyKept, Exists
<1>15. DemotedIsRemote'
  BY <1>5, <1>6 DEF Inv, DemotedIsRemote, Alone, Procs
<1>16. OwnDirectories'
  <2>1. \A j \in Keys : Exists("Cold", j)' => Exists("Cold", j)
    BY <1>7, DirsFacts DEF Exists, Tiers
  <2> QED
    BY <1>5, <1>6, <2>1 DEF Inv, OwnDirectories, Alone, Moving
<1>17. NewestKept'
  <2> SUFFICES ASSUME base_path = "base" PROVE NewestKept'
    BY <1>5 DEF NewestKept
  <2>1. ASSUME NEW j \in Keys \ {k} PROVE OneCopy(j)' <=> OneCopy(j)
    <3>1. file'["Hot"][j] = file["Hot"][j] /\ file'["Warm"][j] = file["Warm"][j]
      BY <1>7, DirsFacts DEF Tiers
    <3> QED
      BY <1>8, <3>1, OneCopySame
  <2>2. \A j \in Keys \ {k} : Described(j)' => Described(j)
    BY <1>1, <1>6 DEF Described, Alone
  <2>3. \A x : Stored(x)' = Stored(x)
    BY DEF Stored
  <2>4. \A q \in Procs \ {p} : me'[q].at \notin Guarded
    BY <1>6, <1>10 DEF Alone
  <2> QED
    BY <1>5, <1>6, <1>8, <2>1, <2>2, <2>3, <2>4 DEF Inv, NewestKept, Guarded, LevelOf
<1> QED
  BY <1>9, <1>11, <1>12, <1>13, <1>14, <1>15, <1>16, <1>17 DEF Inv

\* A step that is no move and changes no file of data.
LEMMA NoDataStep ==
    ASSUME Inv, NEW p \in Procs, Alone(p),
           UNCHANGED <<base_path, file, remote, is_hot, index_mutex, undone, newest, unstored>>,
           base_path = "base" => \A t \in Tiers, k \in Keys : meta'[t][k] = meta[t][k],
           me[p].at \notin Moving, me'[p].at \notin Moving \cup {"delete"}
    PROVE  HotKept' /\ CopyKept' /\ DemotedIsRemote' /\ OwnDirectories'
<1>1. HotKept'
  BY NoMoveHot DEF Exists
<1>2. CopyKept'
  BY DEF Inv, CopyKept, Exists
<1>3. DemotedIsRemote'
  BY DEF Inv, DemotedIsRemote, Alone, Procs
<1>4. OwnDirectories'
  BY DEF Inv, OwnDirectories, Alone, Moving, Exists
<1> QED
  BY <1>1, <1>2, <1>3, <1>4

\* PutObject writes the metadata.
LEMMA WriteMetaInv ==
    ASSUME Inv, NEW p \in Procs, WriteMeta(p)
    PROVE  Inv'
<1>1. /\ me \in [Procs -> Local] /\ me[p].at = "put_meta" /\ me[p].content \in Content
      /\ me[p].key \in Keys /\ mutex' = NoProc /\ base_path \in Dirs
  BY ConstantAssumption DEF WriteMeta, At, Inv, TypeOK, LocalsFit, Local
<1>2. PICK k \in Keys : k = me[p].key
  BY <1>1
<1>3. PICK v : v = LevelOf(me[p].content)
  OBVIOUS
<1>4. v \in {0} \cup {Level[t] : t \in Tiers} \cup {None, Torn}
  BY <1>3 DEF LevelOf, Tiers
<1>5. /\ meta' = [meta EXCEPT ![base_path][k] = v] /\ Goto(p, "access")
      /\ UNCHANGED <<base_path, file, remote, is_hot, index_mutex, running, history>>
  BY <1>2, <1>3 DEF WriteMeta, LevelOf
<1>6. /\ me' \in [Procs -> Local] /\ Alone(p) /\ me'[p].at = "access"
  BY <1>1, <1>5, GotoFacts DEF Places
<1>7. /\ meta' \in [Dirs -> [Keys -> {0} \cup {Level[t] : t \in Tiers} \cup {None, Torn}]]
      /\ meta'[base_path][k] = v
      /\ \A e \in Dirs, j \in Keys : e # base_path \/ j # k => meta'[e][j] = meta[e][j]
  BY <1>1, <1>4, <1>5, OneFile DEF Inv, TypeOK
<1>8. TypeOK'
  BY <1>1, <1>5, <1>6, <1>7 DEF history, Inv, TypeOK
<1>9. mutex = p /\ \A q \in Procs \ {p} : me'[q].at \notin Guarded
  BY <1>1, <1>6, SectionAlone DEF Alone, Guarded
<1>10. LocalsFit'
  BY <1>6 DEF Inv, LocalsFit, Alone
<1>11. LocksHeld'
  BY <1>1, <1>5, <1>6, <1>9 DEF Inv, LocksHeld, Alone, Guarded, Moving
<1>12. HotKept' /\ CopyKept' /\ DemotedIsRemote' /\ OwnDirectories'
  <2>1. base_path = "base" => \A t \in Tiers, j \in Keys : meta'[t][j] = meta[t][j]
    BY <1>7, DirsFacts
  <2> QED
    BY <1>1, <1>5, <1>6, <2>1, NoDataStep DEF history, Moving
<1>13. NewestKept'
  <2> SUFFICES ASSUME base_path = "base" PROVE NewestKept'
    BY <1>5 DEF NewestKept
  <2>1. \A j \in Keys : OneCopy(j)' <=> OneCopy(j)
    BY <1>5, OneCopySame DEF history
  <2>2. \A j \in Keys \ {k} : Described(j)' => Described(j)
    BY <1>2, <1>6 DEF Described, Alone
  <2>3. \A x : Stored(x)' = Stored(x)
    BY DEF Stored
  <2>4. k \notin disturbed => v = LevelOf(Stored(newest[k]))
    BY <1>1, <1>2, <1>3 DEF Inv, NewestKept
  <2>5. \A j \in Keys \ disturbed :
           newest[j] # 0 /\ Described(j)' => meta'["base"][j] = LevelOf(Stored(newest[j]))
    BY <1>7, <2>2, <2>4, DirsFacts DEF Inv, NewestKept
  <2> QED
    BY <1>5, <1>6, <1>9, <2>1, <2>3, <2>5 DEF history, Inv, NewestKept, Guarded, LevelOf
<1> QED
  BY <1>8, <1>10, <1>11, <1>12, <1>13 DEF Inv

\* It fails to, and returns true.
LEMMA WriteMetaFailsInv ==
    ASSUME Inv, NEW p \in Procs, WriteMetaFails(p)
    PROVE  Inv'
<1>1. /\ me \in [Procs -> Local] /\ me[p].at = "put_meta" /\ me[p].key \in Keys
      /\ mutex' = NoProc /\ base_path \in Dirs
  BY ConstantAssumption DEF WriteMetaFails, At, Inv, TypeOK, Local
<1>2. PICK k \in Keys : k = me[p].key
  BY <1>1
<1>3. /\ meta' \in {meta, [meta EXCEPT ![base_path][k] = Torn]} /\ Goto(p, "access")
      /\ disturbed' = disturbed \cup {k} /\ Fault
      /\ UNCHANGED <<base_path, file, remote, is_hot, index_mutex, running, requests, issued,
                     newest, unstored, undone>>
  BY <1>2 DEF WriteMetaFails
<1>4. me' \in [Procs -> Local] /\ Alone(p) /\ me'[p].at = "access"
  BY <1>1, <1>3, GotoFacts DEF Places
<1>5. /\ meta' \in [Dirs -> [Keys -> {0} \cup {Level[t] : t \in Tiers} \cup {None, Torn}]]
      /\ \A e \in Dirs, j \in Keys : e # base_path \/ j # k => meta'[e][j] = meta[e][j]
  <2> DEFINE C == {0} \cup {Level[t] : t \in Tiers} \cup {None, Torn}
  <2>1. meta \in [Dirs -> [Keys -> C]] /\ Torn \in C
    BY DEF Inv, TypeOK
  <2> HIDE DEF C
  <2>2. /\ meta' \in [Dirs -> [Keys -> C]]
        /\ \A e \in Dirs, j \in Keys : e # base_path \/ j # k => meta'[e][j] = meta[e][j]
    BY <1>1, <1>3, <2>1, OneFile
  <2> QED
    BY <2>2 DEF C
<1>6. faults' \in Nat
  BY <1>3 DEF Fault, Inv, TypeOK
<1>7. TypeOK'
  BY <1>1, <1>3, <1>4, <1>5, <1>6 DEF Inv, TypeOK
<1>8. mutex = p /\ \A q \in Procs \ {p} : me'[q].at \notin Guarded
  BY <1>1, <1>4, SectionAlone DEF Alone, Guarded
<1>9. LocalsFit'
  BY <1>4 DEF Inv, LocalsFit, Alone
<1>10. LocksHeld'
  BY <1>1, <1>3, <1>4, <1>8 DEF Inv, LocksHeld, Alone, Guarded, Moving
<1>11. HotKept' /\ CopyKept' /\ DemotedIsRemote' /\ OwnDirectories'
  <2>1. base_path = "base" => \A t \in Tiers, j \in Keys : meta'[t][j] = meta[t][j]
    BY <1>5, DirsFacts
  <2> QED
    BY <1>1, <1>3, <1>4, <2>1, NoDataStep DEF Moving
<1>12. NewestKept'
  <2> SUFFICES ASSUME base_path = "base" PROVE NewestKept'
    BY <1>3 DEF NewestKept
  <2>1. \A j \in Keys : OneCopy(j)' <=> OneCopy(j)
    BY <1>3, OneCopySame
  <2>2. \A j \in Keys \ {k} : Described(j)' => Described(j)
    BY <1>2, <1>4 DEF Described, Alone
  <2>3. \A x : Stored(x)' = Stored(x)
    BY DEF Stored
  <2>4. \A j \in Keys \ {k} : meta'["base"][j] = meta["base"][j]
    BY <1>5, DirsFacts
  <2> QED
    BY <1>3, <1>4, <1>8, <2>1, <2>2, <2>3, <2>4 DEF Inv, NewestKept, Guarded, LevelOf
<1> QED
  BY <1>7, <1>9, <1>10, <1>11, <1>12 DEF Inv

\* GetObject reads the file.
LEMMA ReadLocalInv ==
    ASSUME Inv, NEW p \in Procs, ReadLocal(p)
    PROVE  Inv'
<1> USE DEF disk, history
<1>1. /\ me \in [Procs -> Local] /\ me[p] \in Local /\ me[p].at = "read"
      /\ me[p].key \in Keys /\ me[p].from \in Tiers /\ mutex = NoProc /\ mutex' = p
  BY DEF ReadLocal, At, Inv, TypeOK, Local
<1>2. PICK k \in Keys : k = me[p].key
  BY <1>1
<1>3. PICK t \in Tiers : t = me[p].from
  BY <1>1
<1>4. PICK c : c = file[t][k]
  OBVIOUS
<1>5. c \in Content /\ c # None
  BY <1>2, <1>3, <1>4, DirsFacts DEF ReadLocal, Exists, Inv, TypeOK
<1> DEFINE l == [AtRest(k, "decode") EXCEPT !.content = c, !.next = me[p].next]
<1>6. me' = [me EXCEPT ![p] = l]
  BY <1>2, <1>3, <1>4 DEF ReadLocal
<1>7. l \in Local /\ l.at = "decode" /\ l.key = k /\ l.content = c
  BY <1>1, <1>5, ZeroIsData DEF AtRest, Local, Tiers, Places
<1> HIDE DEF l
<1>8. me' \in [Procs -> Local] /\ me'[p] = l /\ Alone(p)
  BY <1>1, <1>6, <1>7, Becomes
<1>9. TypeOK'
  BY <1>1, <1>8 DEF ReadLocal, Inv, TypeOK
<1>10. \A q \in Procs : me[q].at \notin Guarded
  BY <1>1, SectionsFree
<1>11. LocalsFit'
  BY <1>5, <1>7, <1>8 DEF Inv, LocalsFit, Alone
<1>12. LocksHeld'
  BY <1>1, <1>7, <1>8, <1>10 DEF ReadLocal, Inv, LocksHeld, Alone, Guarded, Moving
<1>13. HotKept' /\ CopyKept' /\ DemotedIsRemote' /\ OwnDirectories'
  BY <1>1, <1>7, <1>8, NoDataStep DEF ReadLocal, Moving
<1>14. NewestKept'
  <2> SUFFICES ASSUME base_path = "base" PROVE NewestKept'
    BY DEF ReadLocal, NewestKept
  <2>1. \A j \in Keys : OneCopy(j)' <=> OneCopy(j)
    BY OneCopySame DEF ReadLocal
  <2>2. \A j \in Keys : Described(j)' => Described(j)
    BY <1>1, <1>8 DEF Described, Alone
  <2>3. \A x : Stored(x)' = Stored(x)
    BY DEF Stored
  <2>4. t # "Cold"
    BY <1>4, <1>5 DEF Inv, OwnDirectories, Exists
  <2>5. k \notin disturbed => newest[k] # 0 /\ c = Stored(newest[k])
    BY <1>4, <1>5, <2>4 DEF Inv, NewestKept, OneCopy, NewestIn, Exists, Tiers
  <2> QED
    BY <1>7, <1>8, <1>10, <2>1, <2>2, <2>3, <2>5
    DEF ReadLocal, Alone, Inv, NewestKept, Guarded, LevelOf
<1> QED
  BY <1>9, <1>11, <1>12, <1>13, <1>14 DEF Inv

\* The metadata do not parse: the process ends.
LEMMA ParseFailsInv ==
    ASSUME Inv, NEW p \in Procs, ParseFails(p)
    PROVE  Inv'
<1>1. running' = FALSE /\ UNCHANGED <<base_path, disk, is_hot, locks, me, history>>
  BY DEF ParseFails
<1>2. running' \in BOOLEAN
  BY <1>1, Zenon
<1> USE DEF disk, locks, history
<1>3. TypeOK' /\ LocalsFit' /\ LocksHeld' /\ DemotedIsRemote'
  BY <1>1, <1>2 DEF Inv, TypeOK, LocalsFit, LocksHeld, DemotedIsRemote
<1>4. HotKept' /\ CopyKept' /\ OwnDirectories'
  BY <1>1 DEF Inv, HotKept, CopyKept, OwnDirectories, Exists
<1>5. NewestKept'
  <2>1. \A k \in Keys : OneCopy(k)' <=> OneCopy(k)
    BY <1>1, OneCopySame
  <2>2. \A k \in Keys : Described(k)' <=> Described(k)
    BY <1>1 DEF Described
  <2>3. \A x : Stored(x)' = Stored(x)
    BY DEF Stored
  <2> QED
    BY <1>1, <2>1, <2>2, <2>3 DEF Inv, NewestKept, LevelOf
<1> QED
  BY <1>3, <1>4, <1>5 DEF Inv

\* DeleteObject removes the file at the flat path.
LEMMA DeleteObjectInv ==
    ASSUME Inv, NEW p \in Procs, DeleteObject(p)
    PROVE  Inv'
<1>1. /\ me \in [Procs -> Local] /\ me[p].at = "delete" /\ me[p].key \in Keys
      /\ mutex = NoProc /\ mutex' = p /\ base_path \in Dirs
  BY ConstantAssumption DEF DeleteObject, At, Inv, TypeOK, Local
<1>2. PICK k \in Keys : k = me[p].key
  BY <1>1
<1>3. /\ file' = [file EXCEPT ![base_path][k] = None] /\ Goto(p, "delete_meta")
      /\ newest' = IF p = Maintenance THEN newest ELSE [newest EXCEPT ![k] = 0]
      /\ disturbed' = disturbed \cup {k}
      /\ UNCHANGED <<base_path, meta, remote, is_hot, index_mutex, running, requests,
                     faults, issued, unstored, undone>>
  BY <1>2 DEF DeleteObject
<1>4. me' \in [Procs -> Local] /\ Alone(p) /\ me'[p].at = "delete_meta" /\ me'[p].key = k
  BY <1>1, <1>2, <1>3, GotoFacts DEF Places
<1>5. /\ file' \in [Dirs -> [Keys -> Content \cup {None, Torn}]]
      /\ \A e \in Dirs, j \in Keys : e # base_path \/ j # k => file'[e][j] = file[e][j]
  BY <1>1, <1>3, OneFile DEF Inv, TypeOK
<1>6. /\ newest' \in [Keys -> 0..MaxVersion] /\ (p # Maintenance => newest'[k] = 0)
      /\ \A j \in Keys \ {k} : newest'[j] = newest[j]
  BY <1>3, ConstantAssumption DEF Inv, TypeOK
<1>7. TypeOK'
  BY <1>1, <1>3, <1>4, <1>5, <1>6 DEF Inv, TypeOK
<1>8. \A q \in Procs : me[q].at \notin Guarded
  BY <1>1, SectionsFree
<1>9. LocalsFit'
  BY <1>4 DEF Inv, LocalsFit, Alone
<1>10. LocksHeld'
  BY <1>1, <1>3, <1>4, <1>8 DEF Inv, LocksHeld, Alone, Guarded, Moving
<1>11. HotKept'
  <2>1. base_path # "Hot" => \A j \in Keys : Exists("Hot", j) => Exists("Hot", j)'
    BY <1>5, DirsFacts DEF Exists, Tiers
  <2> QED
    BY <1>1, <1>3, <1>4, <2>1, NoMoveHot DEF Moving
<1>12. CopyKept'
  <2>1. \A t \in Tiers, j \in Keys \ {k} : Exists(t, j) => Exists(t, j)'
    BY <1>5, DirsFacts DEF Exists
  <2>2. p = Maintenance => k \in unstored \/ remote'[k] # None
    BY <1>1, <1>2, <1>3 DEF Inv, DemotedIsRemote
  <2>3. \A t \in Tiers, j \in Keys \ unstored : file'[t][j] # Torn
    <3>1. file'[base_path][k] = None
      BY <1>1, <1>3, OneFile DEF Inv, TypeOK
    <3> QED
      BY <1>5, <3>1, DirsFacts, ConstantAssumption DEF Inv, CopyKept
  <2> QED
    BY <1>3, <1>6, <2>1, <2>2, <2>3 DEF Inv, CopyKept
<1>13. DemotedIsRemote'
  BY <1>3, <1>4 DEF Inv, DemotedIsRemote, Alone, Procs
<1>14. base_path = "base" => \A t \in Tiers, j \in Keys : file'[t][j] = file[t][j]
  BY <1>5, DirsFacts
<1>15. OwnDirectories'
  BY <1>3, <1>4, <1>14 DEF Inv, OwnDirectories, Alone, Moving, Exists, Tiers
<1>16. NewestKept'
  <2> SUFFICES ASSUME base_path = "base" PROVE NewestKept'
    BY <1>3 DEF NewestKept
  <2>1. ASSUME NEW j \in Keys \ {k} PROVE OneCopy(j)' <=> OneCopy(j)
    BY <1>6, <1>14, OneCopySame DEF Tiers
  <2>2. \A j \in Keys : Described(j)' => Described(j)
    BY <1>1, <1>4 DEF Described, Alone
  <2>3. \A x : Stored(x)' = Stored(x)
    BY DEF Stored
  <2>4. \A q \in Procs \ {p} : me'[q].at \notin Guarded
    BY <1>4, <1>8 DEF Alone
  <2> QED
    BY <1>3, <1>4, <1>6, <2>1, <2>2, <2>3, <2>4 DEF Inv, NewestKept, Guarded, LevelOf
<1> QED
  BY <1>7, <1>9, <1>10, <1>11, <1>12, <1>13, <1>15, <1>16 DEF Inv

\* ... and the metadata.
LEMMA DeleteMetaInv ==
    ASSUME Inv, NEW p \in Procs, DeleteMeta(p)
    PROVE  Inv'
<1>1. /\ me \in [Procs -> Local] /\ me[p].at = "delete_meta" /\ me[p].key \in Keys
      /\ mutex' = NoProc /\ base_path \in Dirs
  BY ConstantAssumption DEF DeleteMeta, At, Inv, TypeOK, Local
<1>2. PICK k \in Keys : k = me[p].key
  BY <1>1
<1>3. /\ meta' = [meta EXCEPT ![base_path][k] = None] /\ Goto(p, "idle")
      /\ UNCHANGED <<base_path, file, remote, is_hot, index_mutex, running, history>>
  BY <1>2 DEF DeleteMeta
<1>4. me' \in [Procs -> Local] /\ Alone(p) /\ me'[p].at = "idle"
  BY <1>1, <1>3, GotoFacts DEF Places
<1>5. /\ meta' \in [Dirs -> [Keys -> {0} \cup {Level[t] : t \in Tiers} \cup {None, Torn}]]
      /\ \A e \in Dirs, j \in Keys : e # base_path \/ j # k => meta'[e][j] = meta[e][j]
  BY <1>1, <1>3, OneFile DEF Inv, TypeOK
<1>6. TypeOK'
  BY <1>1, <1>3, <1>4, <1>5 DEF history, Inv, TypeOK
<1>7. mutex = p /\ \A q \in Procs \ {p} : me'[q].at \notin Guarded
  BY <1>1, <1>4, SectionAlone DEF Alone, Guarded
<1>8. LocalsFit'
  BY <1>4 DEF Inv, LocalsFit, Alone
<1>9. LocksHeld'
  BY <1>1, <1>3, <1>4, <1>7 DEF Inv, LocksHeld, Alone, Guarded, Moving
<1>10. HotKept' /\ CopyKept' /\ DemotedIsRemote' /\ OwnDirectories'
  <2>1. base_path = "base" => \A t \in Tiers, j \in Keys : meta'[t][j] = meta[t][j]
    BY <1>5, DirsFacts
  <2> QED
    BY <1>1, <1>3, <1>4, <2>1, NoDataStep DEF history, Moving
<1>11. NewestKept'
  <2> SUFFICES ASSUME base_path = "base" PROVE NewestKept'
    BY <1>3 DEF NewestKept
  <2>1. \A j \in Keys : OneCopy(j)' <=> OneCopy(j)
    BY <1>3, OneCopySame DEF history
  <2>2. \A j \in Keys : Described(j)' => Described(j)
    BY <1>1, <1>4 DEF Described, Alone
  <2>3. \A x : Stored(x)' = Stored(x)
    BY DEF Stored
  <2>4. k \in disturbed
    BY <1>1, <1>2 DEF Inv, NewestKept
  <2>5. \A j \in Keys \ disturbed : meta'["base"][j] = meta["base"][j]
    BY <1>5, <2>4, DirsFacts
  <2> QED
    BY <1>3, <1>4, <1>7, <2>1, <2>2, <2>3, <2>5 DEF history, Inv, NewestKept, Guarded, LevelOf
<1> QED
  BY <1>6, <1>8, <1>9, <1>10, <1>11 DEF Inv

-----------------------------------------------------------------------------
(* Moves.                                                                  *)

\* What a return from move_object_to_tier does.
LEMMA ReturnsFacts ==
    ASSUME Inv, NEW p \in Procs, me[p].at \in Moving, NEW ok \in BOOLEAN, Returns(p, ok)
    PROVE  /\ me' \in [Procs -> Local] /\ Alone(p)
           /\ me'[p].at \in {"idle", "heat2", "heat1"}
           /\ index_mutex' = IF index_mutex = p THEN NoProc ELSE index_mutex
           /\ is_hot' \in [Keys -> BOOLEAN]
           /\ \A j \in Keys : j # me[p].key \/ index_mutex # p \/ ~ok => is_hot'[j] = is_hot[j]
           /\ index_mutex = p /\ ok => (is_hot'[me[p].key] <=> me[p].to = "Hot")
<1>1. me \in [Procs -> Local] /\ me[p].next \in {"idle", "heat2", "heat1"}
      /\ me[p].key \in Keys /\ is_hot \in [Keys -> BOOLEAN]
  BY DEF Inv, TypeOK, Local
<1>2. me' \in [Procs -> Local] /\ Alone(p) /\ me'[p].at \in {"idle", "heat2", "heat1"}
  BY <1>1, GotoFacts DEF Returns, Places
<1>3. CASE index_mutex # p
  BY <1>1, <1>2, <1>3 DEF Returns
<1>4. CASE index_mutex = p /\ ok
  <2>1. is_hot' = [is_hot EXCEPT ![me[p].key] = (me[p].to = "Hot")]
    BY <1>4 DEF Returns
  <2>2. is_hot' \in [Keys -> BOOLEAN]
    BY <1>1, <2>1, Zenon
  <2> QED
    BY <1>1, <1>2, <1>4, <2>1, <2>2 DEF Returns
<1>5. CASE index_mutex = p /\ ~ok
  <2>1. is_hot' = [is_hot EXCEPT ![me[p].key] = @]
    BY <1>5 DEF Returns
  <2>2. is_hot' = is_hot
    BY <1>1, <2>1
  <2> QED
    BY <1>1, <1>2, <1>5, <2>2 DEF Returns
<1> QED
  BY <1>3, <1>4, <1>5

\* A process that returns leaves the places and the locks of the others alone.
LEMMA ReturnsParts ==
    ASSUME Inv, NEW p \in Procs, me[p].at \in Moving, Alone(p),
           me'[p].at \in {"idle", "heat2", "heat1"},
           index_mutex' = IF index_mutex = p THEN NoProc ELSE index_mutex,
           UNCHANGED <<mutex, remote, unstored>>
    PROVE  LocalsFit' /\ LocksHeld' /\ DemotedIsRemote'
<1>1. LocalsFit'
  BY DEF Inv, LocalsFit, Alone
<1>2. LocksHeld'
  BY ConstantAssumption DEF Inv, LocksHeld, Alone, Moving
<1>3. DemotedIsRemote'
  BY DEF Inv, DemotedIsRemote, Alone, Procs
<1> QED
  BY <1>1, <1>2, <1>3

\* A process that moves changes nothing NewestKept speaks of but files.
LEMMA MoveNewest ==
    ASSUME Inv, NEW p \in Procs, me[p].at \in Moving, Alone(p), me'[p].at \notin Guarded,
           UNCHANGED <<base_path, newest, disturbed>>,
           base_path = "base" =>
               /\ UNCHANGED meta
               /\ \A k \in Keys \ disturbed : OneCopy(k) => OneCopy(k)'
    PROVE  NewestKept'
<1>1. \A k \in Keys : Described(k)' => Described(k)
  BY DEF Described, Alone, Moving
<1>2. \A x : Stored(x)' = Stored(x)
  BY DEF Stored
<1> QED
  BY <1>1, <1>2 DEF Inv, NewestKept, Alone, Guarded, LevelOf

\* The data file is renamed.
LEMMA MoveDataInv ==
    ASSUME Inv, NEW p \in Procs, MoveData(p)
    PROVE  Inv'
<1>1. /\ me \in [Procs -> Local] /\ me[p].at = "rename" /\ me[p].key \in Keys
      /\ me[p].from \in Tiers /\ me[p].to \in Tiers /\ me[p].at \in Moving
      /\ UNCHANGED <<base_path, meta, remote, mutex, running, history>>
  BY DEF MoveData, At, Inv, TypeOK, Local, Moving
<1>2. PICK k \in Keys : k = me[p].key
  BY <1>1
<1>3. PICK from \in Tiers, to \in Tiers : from = me[p].from /\ to = me[p].to
  BY <1>1
<1>4. from # to /\ (from = "Hot" => index_mutex = p)
  BY <1>1, <1>3 DEF Inv, LocksHeld
<1>5. CASE Returns(p, FALSE) /\ UNCHANGED file
  <2>1. /\ me' \in [Procs -> Local] /\ Alone(p)
        /\ me'[p].at \in {"idle", "heat2", "heat1"}
        /\ index_mutex' = IF index_mutex = p THEN NoProc ELSE index_mutex
        /\ is_hot' \in [Keys -> BOOLEAN]
        /\ \A j \in Keys : is_hot'[j] = is_hot[j]
    BY <1>1, <1>5, ReturnsFacts
  <2>2. TypeOK'
    BY <1>1, <1>5, <2>1 DEF history, Inv, TypeOK
  <2>3. LocalsFit' /\ LocksHeld' /\ DemotedIsRemote'
    BY <1>1, <2>1, ReturnsParts DEF history
  <2>4. HotKept'
    BY <1>1, <1>5, <2>1, ConstantAssumption DEF history, Inv, HotKept, Exists, Alone
  <2>5. CopyKept'
    BY <1>1, <1>5 DEF history, Inv, CopyKept, Exists
  <2>6. OwnDirectories'
    BY <1>1, <1>5, <2>1 DEF history, Inv, OwnDirectories, Exists, Alone, Moving
  <2>7. NewestKept'
    <3>1. \A j \in Keys : OneCopy(j)' <=> OneCopy(j)
      BY <1>1, <1>5, OneCopySame DEF history
    <3> QED
      BY <1>1, <2>1, <3>1, MoveNewest DEF history, Guarded
  <2> QED
    BY <2>2, <2>3, <2>4, <2>5, <2>6, <2>7 DEF Inv
<1>6. CASE /\ Exists(from, k)
           /\ RenamesData(from, to, k)
           /\ Goto(p, "rename_meta") /\ UNCHANGED <<is_hot, index_mutex>>
  <2>1. /\ me' \in [Procs -> Local] /\ Alone(p) /\ me'[p].at = "rename_meta"
        /\ me'[p].key = k /\ me'[p].from = from /\ me'[p].to = to
    BY <1>1, <1>2, <1>3, <1>6, GotoFacts DEF Places
  <2>2. /\ file' \in [Dirs -> [Keys -> Content \cup {None, Torn}]]
        /\ file'[to][k] = file[from][k] /\ file'[from][k] = None
        /\ \A e \in Dirs, j \in Keys : e \notin {to, from} \/ j # k => file'[e][j] = file[e][j]
    <3>1. TypeOK
      BY DEF Inv
    <3> QED
      BY <1>4, <1>6, <3>1, FileRenamed
  <2>3. TypeOK'
    BY <1>1, <1>6, <2>1, <2>2 DEF history, Inv, TypeOK
  <2>4. LocalsFit' /\ DemotedIsRemote'
    BY <1>1, <2>1 DEF history, Inv, LocalsFit, DemotedIsRemote, Alone, Procs
  <2>5. LocksHeld'
    BY <1>1, <1>4, <1>6, <2>1 DEF Inv, LocksHeld, Alone, Moving
  <2>6. HotKept'
    <3>1. \A j \in Keys : j # k \/ from # "Hot" => (Exists("Hot", j) => Exists("Hot", j)')
      BY <1>6, <2>2, DirsFacts DEF Exists, Tiers
    <3>2. to = "Hot" => Exists("Hot", k)'
      BY <1>6, <2>2 DEF Exists
    <3>3. \A j \in Keys \ undone : base_path # "Hot" /\ is_hot[j] =>
             \/ Exists("Hot", j)'
             \/ \E q \in Procs :
                   /\ index_mutex' = q /\ me'[q].key = j /\ me'[q].from = "Hot"
                   /\ me'[q].at \in {"rename_meta", "rollback"}
      BY <1>1, <1>4, <1>6, <2>1, <3>1 DEF Inv, HotKept, Alone
    <3>4. ASSUME NEW q \in Procs, base_path # "Hot", index_mutex = q,
                 me'[q].at = "rename_meta", me'[q].to = "Hot", me'[q].key \notin undone
          PROVE  Exists("Hot", me[q].key)'
      <4>1. PICK j \in Keys : j = me'[q].key
        BY <2>3 DEF TypeOK, Local
      <4>2. CASE q = p
        BY <2>1, <3>2, <3>4, <4>1, <4>2 DEF Exists
      <4>3. CASE q # p
        <5>1. me'[q] = me[q] /\ from # "Hot"
          BY <1>4, <2>1, <3>4, <4>3 DEF Alone
        <5>2. Exists("Hot", j)
          BY <3>4, <4>1, <5>1 DEF Inv, HotKept
        <5> QED
          BY <3>1, <4>1, <5>1, <5>2 DEF Exists
      <4> QED
        BY <4>2, <4>3
    <3> QED
      BY <1>1, <1>6, <3>3, <3>4 DEF history, HotKept
  <2>7. CopyKept'
    <3>1. \A j \in Keys \ {k}, t \in Tiers : Exists(t, j) => Exists(t, j)'
      BY <2>2, DirsFacts DEF Exists
    <3>2. Exists(to, k)'
      BY <1>6, <2>2 DEF Exists
    <3>3. \A t \in Tiers, j \in Keys \ unstored : file'[t][j] # Torn
      BY <2>2, DirsFacts, ConstantAssumption DEF Inv, CopyKept
    <3> QED
      BY <1>1, <3>1, <3>2, <3>3 DEF history, Inv, CopyKept
  <2>8. base_path = "base" => from \in {"Hot", "Warm"} /\ to \in {"Hot", "Warm"}
    BY <1>1, <1>3, <1>6 DEF Inv, OwnDirectories, Tiers
  <2>9. OwnDirectories'
    <3>1. base_path = "base" => \A j \in Keys : file'["Cold"][j] = file["Cold"][j]
      BY <2>2, <2>8, DirsFacts DEF Tiers
    <3> QED
      BY <1>1, <1>3, <2>1, <2>8, <3>1 DEF history, Inv, OwnDirectories, Exists, Alone, Moving
  <2>10. NewestKept'
    <3>1. ASSUME base_path = "base", NEW j \in Keys \ disturbed, OneCopy(j) PROVE OneCopy(j)'
      <4>1. CASE j # k
        BY <1>1, <2>2, <3>1, <4>1, OneCopySame, DirsFacts DEF history, Tiers
      <4>2. CASE j = k
        <5>1. newest[k] # 0 /\ newest'[k] = newest[k] /\ file[from][k] = Stored(newest[k])
          BY <1>1, <1>6, <2>8, <3>1, <4>2 DEF history, OneCopy, NewestIn, Exists
        <5>2. {from, to} = {"Hot", "Warm"}
          BY <1>4, <2>8, <3>1
        <5> QED
          BY <2>2, <4>2, <5>1, <5>2 DEF OneCopy, NewestIn, Exists, Stored
      <4> QED
        BY <4>1, <4>2
    <3> QED
      BY <1>1, <2>1, <3>1, MoveNewest DEF history, Guarded
  <2> QED
    BY <2>3, <2>4, <2>5, <2>6, <2>7, <2>9, <2>10 DEF Inv
<1> QED
  BY <1>2, <1>3, <1>5, <1>6 DEF MoveData, RenamesData

\* The metadata follow, or do not.
LEMMA MoveMetaInv ==
    ASSUME Inv, NEW p \in Procs, MoveMeta(p)
    PROVE  Inv'
<1>1. /\ me \in [Procs -> Local] /\ me[p].at = "rename_meta" /\ me[p].key \in Keys
      /\ me[p].from \in Tiers /\ me[p].to \in Tiers /\ me[p].at \in Moving
      /\ UNCHANGED <<base_path, file, remote, mutex, running, requests, issued, newest,
                     disturbed, unstored, undone>>
  BY DEF MoveMeta, At, Inv, TypeOK, Local, Moving
<1>2. PICK k \in Keys : k = me[p].key
  BY <1>1
<1>3. PICK from \in Tiers, to \in Tiers : from = me[p].from /\ to = me[p].to
  BY <1>1
<1>4. from # to /\ (from = "Hot" => index_mutex = p)
  BY <1>1, <1>3 DEF Inv, LocksHeld
<1>5. \A j \in Keys : OneCopy(j)' <=> OneCopy(j)
  BY <1>1, OneCopySame
<1>6. base_path = "base" => meta[from][k] = None
  BY DEF Inv, OwnDirectories
<1>7. CopyKept'
  BY <1>1 DEF Inv, CopyKept, Exists
<1>8. CASE /\ Returns(p, TRUE) /\ UNCHANGED faults
           /\ UNCHANGED meta \/ (meta[from][k] # None /\ RenamesMeta(from, to, k))
  <2>1. /\ me' \in [Procs -> Local] /\ Alone(p)
        /\ me'[p].at \in {"idle", "heat2", "heat1"}
        /\ index_mutex' = IF index_mutex = p THEN NoProc ELSE index_mutex
        /\ is_hot' \in [Keys -> BOOLEAN]
        /\ \A j \in Keys : j # k \/ index_mutex # p => is_hot'[j] = is_hot[j]
        /\ index_mutex = p => (is_hot'[k] <=> to = "Hot")
    BY <1>1, <1>2, <1>3, <1>8, ReturnsFacts
  <2>2. /\ meta' \in [Dirs -> [Keys -> {0} \cup {Level[t] : t \in Tiers} \cup {None, Torn}]]
        /\ faults' \in Nat /\ (base_path = "base" => UNCHANGED meta)
    <3>1. CASE UNCHANGED meta
      BY <1>8, <3>1 DEF Inv, TypeOK
    <3>2. CASE meta[from][k] # None /\ RenamesMeta(from, to, k)
      BY <1>4, <1>6, <1>8, <3>2, MetaRenamed DEF Inv, TypeOK
    <3> QED
      BY <1>8, <3>1, <3>2
  <2>3. TypeOK'
    BY <1>1, <2>1, <2>2 DEF Inv, TypeOK
  <2>4. LocalsFit' /\ LocksHeld' /\ DemotedIsRemote'
    BY <1>1, <2>1, ReturnsParts
  <2>5. HotKept'
    <3>1. CASE index_mutex = p
      <4>1. index_mutex' = NoProc
        BY <2>1, <3>1
      <4>2. ASSUME base_path # "Hot", NEW j \in Keys \ undone, is_hot'[j] PROVE Exists("Hot", j)
        <5>1. CASE j = k
          BY <1>1, <1>2, <1>3, <2>1, <3>1, <4>2, <5>1 DEF Inv, HotKept
        <5>2. CASE j # k
          BY <1>1, <1>2, <2>1, <3>1, <4>2, <5>2 DEF Inv, HotKept
        <5> QED
          BY <5>1, <5>2
      <4>3. \A j \in Keys : Exists("Hot", j)' <=> Exists("Hot", j)
        BY <1>1 DEF Exists
      <4> QED
        BY <1>1, <4>1, <4>2, <4>3, ConstantAssumption DEF HotKept
    <3>2. CASE index_mutex # p
      BY <1>1, <2>1, <3>2 DEF Inv, HotKept, Exists, Alone
    <3> QED
      BY <3>1, <3>2
  <2>6. OwnDirectories'
    BY <1>1, <2>1, <2>2 DEF Inv, OwnDirectories, Exists, Alone, Moving
  <2>7. NewestKept'
    BY <1>1, <1>5, <2>1, <2>2, MoveNewest DEF Guarded
  <2> QED
    BY <1>7, <2>3, <2>4, <2>5, <2>6, <2>7 DEF Inv
<1>9. CASE /\ meta[from][k] # None /\ faults' = faults + 1 /\ Goto(p, "rollback")
           /\ UNCHANGED <<meta, is_hot, index_mutex>>
  <2>1. /\ me' \in [Procs -> Local] /\ Alone(p) /\ me'[p].at = "rollback"
        /\ me'[p].key = k /\ me'[p].from = from /\ me'[p].to = to
    BY <1>1, <1>2, <1>3, <1>9, GotoFacts DEF Places
  <2>2. faults' \in Nat
    BY <1>9 DEF Inv, TypeOK
  <2>3. TypeOK'
    BY <1>1, <1>9, <2>1, <2>2 DEF Inv, TypeOK
  <2>4. base_path # "base"
    BY <1>6, <1>9
  <2>5. LocalsFit' /\ DemotedIsRemote'
    BY <1>1, <2>1 DEF Inv, LocalsFit, DemotedIsRemote, Alone, Procs
  <2>6. LocksHeld'
    BY <1>1, <1>4, <1>9, <2>1 DEF Inv, LocksHeld, Alone, Moving
  <2>7. HotKept'
    BY <1>1, <1>2, <1>3, <1>9, <2>1 DEF Inv, HotKept, Exists, Alone
  <2>8. OwnDirectories' /\ NewestKept'
    BY <1>1, <2>4 DEF OwnDirectories, NewestKept
  <2> QED
    BY <1>7, <2>3, <2>5, <2>6, <2>7, <2>8 DEF Inv
<1> QED
  BY <1>2, <1>3, <1>8, <1>9 DEF MoveMeta, RenamesMeta, Fault

\* The data are renamed back, or the process ends.
LEMMA RollbackInv ==
    ASSUME Inv, NEW p \in Procs, Rollback(p)
    PROVE  Inv'
<1>1. /\ me \in [Procs -> Local] /\ me[p].at = "rollback" /\ me[p].key \in Keys
      /\ me[p].from \in Tiers /\ me[p].to \in Tiers /\ me[p].at \in Moving
      /\ UNCHANGED <<base_path, meta, remote, mutex, requests, faults, issued, newest,
                     disturbed, unstored>>
  BY DEF Rollback, At, Inv, TypeOK, Local, Moving
<1>2. PICK k \in Keys : k = me[p].key
  BY <1>1
<1>3. PICK from \in Tiers, to \in Tiers : from = me[p].from /\ to = me[p].to
  BY <1>1
<1>4. from # to
  BY <1>1, <1>3 DEF Inv, LocksHeld
<1>5. base_path # "base"
  BY <1>1 DEF Inv, OwnDirectories
<1>6. OwnDirectories' /\ NewestKept'
  BY <1>1, <1>5 DEF OwnDirectories, NewestKept
<1>7. CASE running' = FALSE /\ UNCHANGED <<file, is_hot, index_mutex, me, undone>>
  <2>1. running' \in BOOLEAN
    BY <1>7, Zenon
  <2>2. TypeOK'
    BY <1>1, <1>7, <2>1 DEF Inv, TypeOK
  <2>3. LocalsFit' /\ LocksHeld' /\ HotKept' /\ CopyKept' /\ DemotedIsRemote'
    BY <1>1, <1>7 DEF Inv, LocalsFit, LocksHeld, HotKept, CopyKept, DemotedIsRemote, Exists
  <2> QED
    BY <1>6, <2>2, <2>3 DEF Inv
<1>8. CASE /\ Exists(to, k)
           /\ RenamesData(to, from, k)
           /\ undone' = undone \cup {k} /\ Returns(p, FALSE) /\ UNCHANGED running
  <2>1. /\ me' \in [Procs -> Local] /\ Alone(p)
        /\ me'[p].at \in {"idle", "heat2", "heat1"}
        /\ index_mutex' = IF index_mutex = p THEN NoProc ELSE index_mutex
        /\ is_hot' \in [Keys -> BOOLEAN]
        /\ \A j \in Keys : is_hot'[j] = is_hot[j]
    BY <1>1, <1>8, ReturnsFacts
  <2>2. /\ file' \in [Dirs -> [Keys -> Content \cup {None, Torn}]]
        /\ file'[from][k] = file[to][k] /\ file'[to][k] = None
        /\ \A e \in Dirs, j \in Keys : e \notin {from, to} \/ j # k => file'[e][j] = file[e][j]
    <3>1. TypeOK
      BY DEF Inv
    <3> QED
      BY <1>4, <1>8, <3>1, FileRenamed
  <2>3. TypeOK'
    BY <1>1, <1>8, <2>1, <2>2 DEF Inv, TypeOK
  <2>4. LocalsFit' /\ LocksHeld' /\ DemotedIsRemote'
    BY <1>1, <2>1, ReturnsParts
  <2>5. \A t \in Tiers, j \in Keys \ {k} : Exists(t, j)' <=> Exists(t, j)
    BY <2>2, DirsFacts DEF Exists
  <2>6. HotKept'
    <3>1. \A j \in Keys \ {k} : Exists("Hot", j)' <=> Exists("Hot", j)
      BY <2>5 DEF Tiers
    <3>2. ASSUME base_path # "Hot", NEW j \in Keys \ undone', is_hot'[j]
          PROVE  \/ Exists("Hot", j)'
                 \/ \E q \in Procs :
                       /\ index_mutex' = q /\ me'[q].key = j /\ me'[q].from = "Hot"
                       /\ me'[q].at \in {"rename_meta", "rollback"}
      <4>1. j # k /\ j \notin undone /\ is_hot[j]
        BY <1>8, <2>1, <3>2
      <4> QED
        BY <1>2, <2>1, <3>1, <3>2, <4>1 DEF Inv, HotKept, Alone
    <3>3. ASSUME NEW q \in Procs, base_path # "Hot", index_mutex' = q,
                 me'[q].at = "rename_meta", me'[q].to = "Hot", me'[q].key \notin undone'
          PROVE  Exists("Hot", me[q].key)'
      <4>1. q # p /\ me'[q] = me[q] /\ index_mutex = q
        BY <2>1, <3>3, ConstantAssumption DEF Alone
      <4>2. PICK j \in Keys : j = me[q].key
        BY DEF Inv, TypeOK, Local
      <4>3. j # k /\ j \notin undone
        BY <1>8, <3>3, <4>1, <4>2
      <4>4. Exists("Hot", j)
        BY <3>3, <4>1, <4>2, <4>3 DEF Inv, HotKept
      <4> QED
        BY <3>1, <4>1, <4>2, <4>3, <4>4 DEF Exists
    <3> QED
      BY <1>1, <3>2, <3>3 DEF HotKept
  <2>7. CopyKept'
    <3>1. Exists(from, k)'
      BY <1>8, <2>2 DEF Exists
    <3>2. \A t \in Tiers, j \in Keys \ unstored : file'[t][j] # Torn
      BY <2>2, DirsFacts, ConstantAssumption DEF Inv, CopyKept
    <3> QED
      BY <1>1, <2>5, <3>1, <3>2 DEF Inv, CopyKept
  <2> QED
    BY <1>6, <2>3, <2>4, <2>6, <2>7 DEF Inv
<1> QED
  BY <1>2, <1>3, <1>7, <1>8 DEF Rollback, RenamesData

-----------------------------------------------------------------------------
(* The theorems.                                                           *)

\* The invariant holds initially ...
LEMMA InvInit == Init => Inv
<1> SUFFICES ASSUME Init PROVE Inv
  OBVIOUS
<1>1. PICK k \in Keys :
         me = [p \in Procs |-> AtRest(k, IF p = Maintenance THEN "start" ELSE "idle")]
  BY DEF Init
<1>2. /\ me \in [Procs -> Local]
      /\ \A p \in Procs : me[p].at \in {"start", "idle"}
  BY <1>1, AtRestLocal DEF Places
<1>3. TypeOK
  <2>1. running \in BOOLEAN /\ is_hot \in [Keys -> BOOLEAN]
    BY Zenon DEF Init
  <2>2. {issued, newest} \subseteq [Keys -> 0..MaxVersion] /\ requests \in Nat /\ faults \in Nat
    BY ConstantAssumption DEF Init
  <2>3. remote \in [Keys -> Bytes \cup {None}]
    BY DEF Init
  <2> QED
    BY <1>2, <2>1, <2>2, <2>3 DEF Init, TypeOK
<1>4. LocalsFit /\ DemotedIsRemote
  BY <1>2 DEF LocalsFit, DemotedIsRemote, Procs
<1>5. LocksHeld
  BY <1>2, ConstantAssumption DEF Init, LocksHeld, Moving
<1>6. HotKept
  BY <1>2 DEF Init, HotKept
<1>7. CopyKept
  BY DirsFacts, ConstantAssumption DEF Init, CopyKept
<1>8. \A t \in Tiers, j \in Keys : ~Exists(t, j) /\ meta[t][j] = None
  BY DirsFacts DEF Init, Exists
<1>9. OwnDirectories
  BY <1>2, <1>8 DEF Init, OwnDirectories, Moving, Tiers
<1>10. NewestKept
  <2>1. \A j \in Keys : newest[j] = 0 /\ OneCopy(j)
    BY <1>8 DEF Init, OneCopy, Tiers
  <2> QED
    BY <1>2, <2>1 DEF NewestKept
<1> QED
  BY <1>3, <1>4, <1>5, <1>6, <1>7, <1>9, <1>10 DEF Inv

\* ... and every step keeps it.
LEMMA InvStep ==
    ASSUME Inv, [Next]_vars
    PROVE  Inv'
<1>1. CASE UNCHANGED vars
  <2> USE <1>1 DEF vars, disk, locks, history
  <2>1. TypeOK' /\ LocalsFit' /\ LocksHeld' /\ DemotedIsRemote'
    BY DEF Inv, TypeOK, LocalsFit, LocksHeld, DemotedIsRemote
  <2>2. HotKept' /\ CopyKept' /\ OwnDirectories'
    BY DEF Inv, HotKept, CopyKept, OwnDirectories, Exists
  <2>3. NewestKept'
    <3>1. \A k \in Keys : OneCopy(k)' <=> OneCopy(k)
      BY OneCopySame
    <3>2. \A k \in Keys : Described(k)' <=> Described(k)
      BY DEF Described
    <3>3. \A x : Stored(x)' = Stored(x)
      BY DEF Stored
    <3> QED
      BY <3>1, <3>2, <3>3 DEF Inv, NewestKept, LevelOf
  <2> QED
    BY <2>1, <2>2, <2>3 DEF Inv
<1>2. ASSUME NEW p \in Sessions, Session(p) PROVE Inv'
  <2>1. p \in Procs
    BY DEF Procs
  <2>2. CASE RecordAccess(p)
    BY <2>2, IndexInv
  <2> QED
    BY <1>2, <2>1, <2>2, ArriveInv, PutObjectInv, WriteFailsInv, GiveUpInv, WriteMetaInv,
       WriteMetaFailsInv, FetchInv, PromoteIfHotInv DEF Session
<1>3. ASSUME NEW p \in Procs, Common(p) PROVE Inv'
  BY <1>3, ReadLocalInv, GiveUpInv, DecodeInv, ParseFailsInv, DeleteObjectInv, DeleteMetaInv,
     MoveDataInv, MoveMetaInv, RollbackInv DEF Common
<1>4. CASE \E k \in Keys : decay_loop(k) \/ tier_maintenance_loop(k) \/ DemoteToRemoteCold(k)
  BY <1>4, IndexInv, RemoteInv
<1>5. CASE UploadToRemote(Maintenance)
  BY <1>5, RemoteInv
<1> QED
  BY <1>1, <1>2, <1>3, <1>4, <1>5 DEF Next

(* The inductive invariant of the tiers: who holds which mutex, where hot   *)
(* entries have their objects, and where the only copy of data that no put  *)
(* over a Hot copy, re-put, delete or failed write has disturbed is.        *)
THEOREM TiersInvariant == Spec => []Inv
BY InvInit, InvStep, PTL DEF Spec

(* Type correctness; in particular what GetObject hands on was put, or is   *)
(* compressed bytes taken for data.                                         *)
THEOREM TiersTypeCorrect == Spec => []TypeOK
<1>1. Inv => TypeOK
  BY DEF Inv
<1> QED
  BY <1>1, TiersInvariant, PTL

(* Whenever no thread is in the index, a hot entry has its object in the    *)
(* Hot tier, although the S3 handlers move objects without the index's      *)
(* mutex, for as long as no move of it was rolled back.                     *)
THEOREM TiersHotMeansInHotTier == Spec => []HotMeansInHotTier
<1>1. Inv => HotMeansInHotTier
  BY ConstantAssumption DEF Inv, HotKept, HotMeansInHotTier
<1> QED
  BY <1>1, TiersInvariant, PTL

(* No move, rollback, demotion to the remote or interleaving of them loses  *)
(* the last copy of an object: only a write of its data that failed, and an *)
(* upload that sent nothing although it returned true, do.                  *)
THEOREM TiersObjectSurvives == Spec => []ObjectSurvives
<1>1. Inv => ObjectSurvives
  BY DEF Inv, CopyKept, ObjectSurvives, Exists
<1> QED
  BY <1>1, TiersInvariant, PTL

\* The level PutObject records decompresses what it stored.
LEMMA DecompressesStored ==
    ASSUME NEW d \in Nat
    PROVE  Decompressed(Stored(d), LevelOf(Stored(d))) = d
<1>1. Level["Warm"] \in Nat /\ None \notin Nat
  BY ConstantAssumption DEF Tiers
<1>2. CASE Level["Warm"] > 0 /\ d \notin Empty
  <2>1. Stored(d).compressed /\ Stored(d).data = d
    BY <1>2 DEF Stored
  <2> QED
    BY <1>1, <1>2, <2>1 DEF LevelOf, Decompressed
<1>3. CASE ~(Level["Warm"] > 0 /\ d \notin Empty)
  <2>1. ~Stored(d).compressed /\ Stored(d).data = d
    BY <1>3 DEF Stored
  <2> QED
    BY <2>1 DEF LevelOf, Decompressed
<1> QED
  BY <1>2, <1>3

(* With tier directories of their own, GetObject returns the newest data    *)
(* of every key not disturbed, in whichever tier moves have left them.      *)
THEOREM TiersServeNewest == Spec => []ServesNewestUnlessDisturbed
<1>1. ASSUME Inv, base_path = "base", NEW k \in Keys \ disturbed, newest[k] # 0, Described(k)
      PROVE  Served(k) = newest[k]
  <2>1. PICK n \in 0..MaxVersion : n = newest[k]
    BY <1>1 DEF Inv, TypeOK
  <2>2. n \in Nat /\ Stored(n) \notin {None, Torn}
    BY StoredContent, ConstantAssumption DEF Bytes
  <2>3. meta["base"][k] = LevelOf(Stored(n))
    BY <1>1, <2>1 DEF Inv, NewestKept
  <2>4. NewestIn("Hot", "Warm", k) \/ NewestIn("Warm", "Hot", k)
    BY <1>1 DEF Inv, NewestKept, OneCopy
  <2>5. PICK t \in {"Hot", "Warm"} : t = GetObjectTier(k) /\ file[t][k] = Stored(n)
    BY <2>1, <2>2, <2>4 DEF NewestIn, Exists, GetObjectTier
  <2>6. LevelOf(Stored(n)) # Torn
    BY ConstantAssumption DEF LevelOf, Tiers
  <2> QED
    BY <1>1, <2>1, <2>2, <2>3, <2>5, <2>6, DecompressesStored DEF Served, Exists
<1>2. Inv => ServesNewestUnlessDisturbed
  BY <1>1 DEF ServesNewestUnlessDisturbed, Described
<1> QED
  BY <1>2, TiersInvariant, PTL

\* Goto concerns one process.
LEMMA GotoAlone ==
    ASSUME me \in [Procs -> Local], NEW q \in Procs, NEW a, Goto(q, a)
    PROVE  Alone(q)
BY DEF Goto, Alone

\* So does every step.
LEMMA SessionAlone ==
    ASSUME me \in [Procs -> Local], NEW q \in Procs, Session(q)
    PROVE  Alone(q)
<1>1. ASSUME NEW k \in Keys,
             \/ handle_put_object(q, k) \/ handle_get_object(q, k)
             \/ handle_delete_object(q, k)
      PROVE  Alone(q)
  BY <1>1 DEF handle_put_object, handle_get_object, handle_delete_object, Alone
<1>2. CASE PutObject(q) \/ WriteFails(q) \/ FetchFromRemote(q)
  BY <1>2 DEF PutObject, WriteFails, FetchFromRemote, Alone
<1>3. CASE PutFails(q) \/ WriteMeta(q) \/ WriteMetaFails(q)
  BY <1>3, GotoAlone DEF PutFails, WriteMeta, WriteMetaFails
<1>4. CASE RecordAccess(q) \/ PromoteIfHot(q)
  <2>1. ASSUME NEW k, NEW next, PromoteObject(q, k, next) PROVE Alone(q)
    BY <2>1 DEF PromoteObject, BeginMove, Alone
  <2> QED
    BY <1>4, <2>1, GotoAlone DEF RecordAccess, PromoteIfHot, promote_to_hot
<1> QED
  BY <1>1, <1>2, <1>3, <1>4 DEF Session

LEMMA CommonAlone ==
    ASSUME me \in [Procs -> Local], NEW q \in Procs, Common(q)
    PROVE  Alone(q)
<1>1. CASE ReadLocal(q) \/ ParseFails(q)
  BY <1>1 DEF ReadLocal, ParseFails, Alone
<1>2. CASE DecodeLocal(q)
  <2>1. CASE GiveUp(q)
    BY <2>1, GotoAlone DEF GiveUp
  <2> QED
    BY <1>2, <2>1 DEF DecodeLocal, Alone
<1>3. CASE NoSuchKey(q) \/ DeleteObject(q) \/ DeleteMeta(q)
  BY <1>3, GotoAlone DEF NoSuchKey, GiveUp, DeleteObject, DeleteMeta
<1>4. ASSUME NEW ok, Returns(q, ok) PROVE Alone(q)
  BY <1>4, GotoAlone DEF Returns
<1>5. CASE MoveData(q)
  BY <1>4, <1>5, GotoAlone DEF MoveData
<1>6. CASE MoveMeta(q)
  BY <1>4, <1>6, GotoAlone DEF MoveMeta
<1>7. CASE Rollback(q)
  <2>1. CASE UNCHANGED me
    BY <2>1 DEF Alone
  <2> QED
    BY <1>4, <1>7, <2>1 DEF Rollback
<1> QED
  BY <1>1, <1>2, <1>3, <1>5, <1>6, <1>7 DEF Common

LEMMA LoopAlone ==
    ASSUME me \in [Procs -> Local],
           \/ UploadToRemote(Maintenance)
           \/ \E k \in Keys : \/ decay_loop(k) \/ tier_maintenance_loop(k)
                              \/ DemoteToRemoteCold(k)
    PROVE  Alone(Decay) \/ Alone(Maintenance)
<1>1. Decay \in Procs /\ Maintenance \in Procs
  BY DEF Procs
<1>2. ASSUME NEW k \in Keys, NEW q \in Procs, demote_from_hot(q, k) PROVE Alone(q)
  BY <1>2 DEF demote_from_hot, BeginMove, Alone
<1>3. ASSUME NEW k \in Keys, NEW q \in Procs, promote_to_hot(q, k, "idle") PROVE Alone(q)
  <2>1. CASE PromoteObject(q, k, "idle")
    BY <2>1 DEF PromoteObject, BeginMove, Alone
  <2> QED
    BY <1>3, <2>1, GotoAlone DEF promote_to_hot
<1>4. CASE UploadToRemote(Maintenance)
  <2>1. CASE Goto(Maintenance, "idle")
    BY <1>1, <2>1, GotoAlone
  <2> QED
    BY <1>4, <2>1 DEF UploadToRemote, Alone
<1>5. ASSUME NEW k \in Keys, DemoteToRemoteCold(k) PROVE Alone(Maintenance)
  <2>1. CASE Goto(Maintenance, "idle")
    BY <1>1, <2>1, GotoAlone
  <2> QED
    BY <1>5, <2>1 DEF DemoteToRemoteCold, Alone
<1> QED
  BY <1>1, <1>2, <1>3, <1>4, <1>5 DEF decay_loop, tier_maintenance_loop

\* A session that has read a file goes on with DecodeLocal.
LEMMA OnlyDecodes ==
    ASSUME me \in [Procs -> Local], Next, NEW p \in Sessions, me[p].at = "decode",
           me'[p].at # "decode"
    PROVE  DecodeLocal(p)
<1>1. p \in Procs /\ p # Maintenance /\ p # Decay /\ me'[p] # me[p]
  BY ConstantAssumption DEF Procs
<1>2. ASSUME NEW q \in Procs, Alone(q) PROVE q = p
  BY <1>1, <1>2 DEF Alone
<1>3. ~Session(p)
  BY DEF Session, At, handle_put_object, handle_get_object, handle_delete_object, Accept,
     PutObject, WriteFails, PutFails, WriteMeta, WriteMetaFails, FetchFromRemote, RecordAccess, PromoteIfHot
<1>4. Common(p) => DecodeLocal(p)
  BY <1>1 DEF Common, At, ParseFails, ReadLocal, NoSuchKey, DeleteObject, DeleteMeta, MoveData, MoveMeta, Rollback
<1>5. ASSUME NEW q \in Sessions, Session(q) PROVE q = p
  BY <1>2, <1>5, SessionAlone DEF Procs
<1>6. ASSUME NEW q \in Procs, Common(q) PROVE q = p
  BY <1>2, <1>6, CommonAlone
<1>7. ~(\/ UploadToRemote(Maintenance)
        \/ \E k \in Keys : \/ decay_loop(k) \/ tier_maintenance_loop(k)
                           \/ DemoteToRemoteCold(k))
  BY <1>1, <1>2, LoopAlone DEF Procs
<1> QED
  BY <1>3, <1>4, <1>5, <1>6, <1>7 DEF Next

(* A get hands compressed bytes to a client only for a disturbed key.       *)
THEOREM TiersReadPlaintext == Spec => ReadsPlaintext
<1>1. ASSUME Inv, Next, base_path = "base", NEW p \in Sessions, me[p].at = "decode",
             me'[p].at = "access", me'[p].data = Garbage, me[p].key \notin disturbed
      PROVE  FALSE
  <2>1. p \in Procs /\ p # Maintenance /\ p # Decay
    BY ConstantAssumption DEF Procs
  <2>2. DecodeLocal(p)
    BY <1>1, OnlyDecodes DEF Inv, TypeOK
  <2>3. PICK n \in 0..MaxVersion : n = newest[me[p].key]
    BY <1>1, <2>1 DEF Inv, TypeOK, Local
  <2>4. me[p].content = Stored(n) /\ meta["base"][me[p].key] = LevelOf(Stored(n))
    <3>1. PICK k \in Keys : k = me[p].key
      BY <1>1, <2>1 DEF Inv, TypeOK, Local
    <3>2. n # 0 /\ me[p].content = Stored(n)
      BY <1>1, <2>1, <2>3 DEF Inv, NewestKept
    <3>3. Described(k)
      <4>1. \A q \in Procs \ {p} : me[q].at \notin Guarded
        BY <1>1, <2>1, SectionAlone DEF Guarded
      <4> QED
        BY <1>1, <4>1 DEF Described, Guarded
    <3> QED
      BY <1>1, <2>3, <3>1, <3>2, <3>3 DEF Inv, NewestKept
  <2>5. me'[p].data = n
    <3>1. Decompressed(me[p].content, meta[base_path][me[p].key]) = n
      BY <1>1, <2>4, DecompressesStored, ConstantAssumption
    <3>2. n # None
      BY ConstantAssumption
    <3>3. me' = [me EXCEPT ![p] = [AtRest(me[p].key, "access") EXCEPT !.data = n,
                                                                      !.next = me[p].next]]
      BY <2>1, <2>2, <3>1, <3>2 DEF DecodeLocal
    <3> QED
      BY <1>1, <2>1, <3>3 DEF AtRest, Inv, TypeOK
  <2> QED
    BY <1>1, <2>5, ConstantAssumption
<1>2. Inv /\ [Next]_vars =>
         [base_path = "base" =>
             \A p \in Sessions :
                 me[p].at = "decode" /\ me'[p].at = "access" /\ me'[p].data = Garbage
                     => me[p].key \in disturbed]_vars
  BY <1>1
<1> QED
  BY <1>2, TiersInvariant, PTL DEF Spec, ReadsPlaintext

-----------------------------------------------------------------------------
(***************************************************************************)
(* The hot data index with its counts and scores, HotDataIndex, for the    *)
(* same keys and sessions.  What it has in common with TieredStore by name *)
(* is renamed: it is a model of its own.                                   *)
(***************************************************************************)
CONSTANTS min_hot_access_count, hot_threshold_score, DecayNum, DecayDen,
          Horizon, Weight, MaxAccesses

VARIABLES access_count, age, heat_score, index_hot, in_hot, index_running, awake,
          pc, arg, rounds, accesses, index_faults, refused, overtaken

Hot == INSTANCE HotDataIndex WITH
    Objects <- Keys, is_hot <- index_hot, running <- index_running, faults <- index_faults

\* What HotDataIndex assumes of its constants.
IndexAssumptions ==
    /\ Hot!ThresholdAssumption /\ Hot!DecayAssumption
    /\ Hot!BoundAssumption /\ Hot!FiniteAssumption

\* The same, spelled out.
LEMMA IndexConstants ==
    ASSUME IndexAssumptions
    PROVE  /\ min_hot_access_count \in Nat \ {0} /\ hot_threshold_score \in Nat \ {0}
           /\ DecayNum \in Nat \ {0} /\ DecayDen \in Nat /\ DecayNum <= DecayDen
           /\ {Horizon, Weight, MaxAccesses, MaxFaults} \subseteq Nat
           /\ IsFiniteSet(Keys)
BY DEF IndexAssumptions, Hot!ThresholdAssumption, Hot!DecayAssumption,
       Hot!BoundAssumption, Hot!FiniteAssumption, Hot!IsFiniteSet, IsFiniteSet

\* The instance's operator is the library's.
LEMMA SameCardinality ==
    ASSUME NEW S
    PROVE  Hot!Cardinality(S) = Cardinality(S)
BY DEF Hot!Cardinality, Cardinality

\* A quotient times its divisor.
LEMMA Quotient ==
    ASSUME NEW n \in Nat \ {0}, NEW r \in Nat
    PROVE  r \div n \in Nat /\ n * (r \div n) <= r
  OBVIOUS

\* Decay lowers a count or leaves it.
LEMMA DecayedCount ==
    ASSUME IndexAssumptions, NEW c \in Nat
    PROVE  /\ (c * DecayNum) \div DecayDen \in Nat
           /\ (c * DecayNum) \div DecayDen <= c
<1> DEFINE q == (c * DecayNum) \div DecayDen
           p == c * DecayNum
<1>1. DecayNum \in Nat /\ DecayDen \in Nat \ {0} /\ DecayNum <= DecayDen
  BY IndexConstants
<1>2. p \in Nat
  BY <1>1
<1>3. q \in Nat /\ DecayDen * q <= p
  <2> HIDE DEF p
  <2>1. p \div DecayDen \in Nat /\ DecayDen * (p \div DecayDen) <= p
    BY <1>1, <1>2, Quotient
  <2> QED
    BY <2>1 DEF p
<1>4. p <= c * DecayDen
  BY <1>1
<1> HIDE DEF q, p
<1>5. CASE q >= c + 1
  <2>1. DecayDen * q >= DecayDen * (c + 1)
    BY <1>1, <1>3, <1>5
  <2>2. DecayDen * (c + 1) = c * DecayDen + DecayDen
    BY <1>1
  <2> QED
    BY <1>1, <1>2, <1>3, <1>4, <2>1, <2>2
<1> QED
  BY <1>3, <1>5 DEF q

\* A heat score is a natural number ...
LEMMA HeatNat ==
    ASSUME IndexAssumptions, NEW c \in Nat, NEW a \in 0..Horizon + 1
    PROVE  Hot!Heat(c, a) \in Nat
<1>1. Horizon \in Nat /\ Weight \in Nat
  BY IndexConstants
<1>2. CASE a < Horizon
  <2>1. Horizon - a \in Nat
    BY <1>1, <1>2
  <2>2. (Horizon - a) * Weight \in Nat
    BY <1>1, <2>1
  <2> QED
    BY <1>2, <2>2 DEF Hot!Heat
<1>3. CASE ~(a < Horizon)
  BY <1>3 DEF Hot!Heat
<1> QED
  BY <1>2, <1>3

\* ... fewer accesses do not raise it ...
LEMMA HeatOfFewer ==
    ASSUME IndexAssumptions, NEW c \in Nat, NEW d \in Nat, d <= c, NEW a \in 0..Horizon + 1
    PROVE  Hot!Heat(d, a) <= Hot!Heat(c, a)
<1>1. Horizon \in Nat /\ Weight \in Nat
  BY IndexConstants
<1> DEFINE bonus == IF a < Horizon THEN (Horizon - a) * Weight ELSE 0
<1>2. bonus \in Int
  BY <1>1
<1>3. Hot!Heat(c, a) = c + bonus /\ Hot!Heat(d, a) = d + bonus
  BY DEF Hot!Heat
<1> HIDE DEF bonus
<1> QED
  BY <1>2, <1>3

\* ... nor does a later time.
LEMMA HeatOfLater ==
    ASSUME IndexAssumptions, NEW c \in Nat, NEW a \in 0..Horizon
    PROVE  Hot!Heat(c, a + 1) <= Hot!Heat(c, a)
<1>1. Horizon \in Nat /\ Weight \in Nat
  BY IndexConstants
<1>2. CASE a + 1 < Horizon
  <2> DEFINE x == Horizon - (a + 1)
  <2>1. x \in Nat /\ Horizon - a = x + 1
    BY <1>1, <1>2
  <2> HIDE DEF x
  <2>2. (x + 1) * Weight = (x * Weight) + Weight /\ x * Weight \in Nat
    BY <1>1, <2>1
  <2>3. Hot!Heat(c, a + 1) = c + (x * Weight)
    BY <1>2 DEF Hot!Heat, x
  <2>4. Hot!Heat(c, a) = c + ((x + 1) * Weight)
    <3>1. a < Horizon
      BY <1>1, <1>2
    <3> QED
      BY <2>1, <3>1 DEF Hot!Heat
  <2> QED
    BY <1>1, <2>2, <2>3, <2>4
<1>3. CASE ~(a + 1 < Horizon)
  <2>1. Hot!Heat(c, a + 1) = c
    BY <1>3 DEF Hot!Heat
  <2>2. CASE a < Horizon
    <3>1. Horizon - a \in Nat
      BY <1>1, <2>2
    <3>2. (Horizon - a) * Weight \in Nat
      BY <1>1, <3>1
    <3>3. Hot!Heat(c, a) = c + ((Horizon - a) * Weight)
      BY <2>2 DEF Hot!Heat
    <3> QED
      BY <2>1, <3>2, <3>3
  <2>3. CASE ~(a < Horizon)
    BY <2>1, <2>3 DEF Hot!Heat
  <2> QED
    BY <2>2, <2>3
<1> QED
  BY <1>2, <1>3

-----------------------------------------------------------------------------
(* The index's moves.                                                      *)

\* A move changes the flags of the objects it moves, within their types.
LEMMA MoveTypes ==
    ASSUME IndexAssumptions, Hot!TypeOK,
           NEW up \in SUBSET Keys, NEW down \in SUBSET Keys, Hot!Move(up, down)
    PROVE  /\ index_faults' \in Nat /\ index_hot' \in [Keys -> BOOLEAN]
           /\ in_hot' \subseteq Keys /\ refused' \subseteq Keys
           /\ overtaken' \subseteq Keys
<1>1. PICK bad \in SUBSET ((up \ in_hot) \cup down) :
        /\ index_faults' = index_faults + Cardinality(bad)
        /\ index_hot' = [o \in Keys |->
              IF o \in bad THEN index_hot[o] ELSE o \in up \/ (index_hot[o] /\ o \notin down)]
        /\ in_hot' = (in_hot \ (down \ bad)) \cup (up \ bad)
        /\ refused' = (refused \ (up \cup down)) \cup bad
        /\ overtaken' = (overtaken \ (up \ bad)) \cup
              {o \in down \ bad : \E s \in Sessions : arg[s] = o /\ pc[s] = "promote"}
  BY SameCardinality DEF Hot!Move
<1>2. Cardinality(bad) \in Nat
  BY IndexConstants, FS_Subset, FS_CardinalityType
<1>3. index_faults' \in Nat
  BY <1>1, <1>2 DEF Hot!TypeOK
<1>4. \A o \in Keys : index_hot[o] \in BOOLEAN
  BY DEF Hot!TypeOK
<1>5. index_hot' \in [Keys -> BOOLEAN]
  BY <1>1, <1>4, Zenon
<1> QED
  BY <1>1, <1>3, <1>5 DEF Hot!TypeOK

\* After a move an object is known unless it was moved down unseen; what is in
\* the Hot tier is known if it was.
LEMMA MoveKnown ==
    ASSUME IndexAssumptions, Hot!TypeOK,
           NEW up \in SUBSET Keys, NEW down \in SUBSET Keys, Hot!Move(up, down)
    PROVE  /\ \A o \in up : Hot!Known(o)'
           /\ \A o \in Keys : Hot!Known(o) /\ o \notin down => Hot!Known(o)'
           /\ \A s \in Sessions :
                 pc[s] = "promote" /\ Hot!Known(arg[s]) =>
                     index_hot'[arg[s]] \/ arg[s] \in refused' \/ arg[s] \in overtaken'
           /\ Hot!HotTierIsTracked => Hot!HotTierIsTracked'
<1>1. PICK bad \in SUBSET ((up \ in_hot) \cup down) :
        /\ index_hot' = [o \in Keys |->
              IF o \in bad THEN index_hot[o] ELSE o \in up \/ (index_hot[o] /\ o \notin down)]
        /\ in_hot' = (in_hot \ (down \ bad)) \cup (up \ bad)
        /\ refused' = (refused \ (up \cup down)) \cup bad
        /\ overtaken' = (overtaken \ (up \ bad)) \cup
              {o \in down \ bad : \E s \in Sessions : arg[s] = o /\ pc[s] = "promote"}
  BY DEF Hot!Move
<1>2. ASSUME NEW o \in bad
      PROVE  o \in refused'
  BY <1>1, <1>2
<1>3. ASSUME NEW o \in up, o \notin bad
      PROVE  index_hot'[o]
  BY <1>1, <1>3
<1>4. \A o \in up : Hot!Known(o)'
  BY <1>2, <1>3 DEF Hot!Known
<1>5. ASSUME NEW o \in Keys, Hot!Known(o), o \notin down
      PROVE  Hot!Known(o)'
  <2>1. CASE o \in up
    BY <1>4, <2>1
  <2>2. CASE o \notin up
    <3>1. o \notin bad
      BY <1>5, <2>2
    <3>2. index_hot'[o] = index_hot[o]
      BY <1>1, <1>5, <2>2, <3>1 DEF Hot!TypeOK
    <3>3. o \in refused => o \in refused'
      BY <1>1, <1>5, <2>2
    <3>4. o \in overtaken => o \in overtaken'
      BY <1>1, <1>5, <2>2
    <3> QED
      BY <1>5, <3>2, <3>3, <3>4 DEF Hot!Known
  <2> QED
    BY <2>1, <2>2
<1>6. ASSUME NEW s \in Sessions, pc[s] = "promote", Hot!Known(arg[s])
      PROVE  index_hot'[arg[s]] \/ arg[s] \in refused' \/ arg[s] \in overtaken'
  <2>1. arg[s] \in Keys
    BY DEF Hot!TypeOK
  <2>2. CASE arg[s] \notin down
    BY <1>5, <1>6, <2>1, <2>2 DEF Hot!Known
  <2>3. CASE arg[s] \in down \ bad
    BY <1>1, <1>6, <2>3
  <2>4. CASE arg[s] \in bad
    BY <1>2, <2>4
  <2> QED
    BY <2>2, <2>3, <2>4
<1>7. ASSUME Hot!HotTierIsTracked, NEW o \in in_hot', o \notin refused', o \notin overtaken'
      PROVE  index_hot'[o]
  <2>1. o \notin bad
    BY <1>2, <1>7
  <2>2. CASE o \in up
    BY <1>3, <2>1, <2>2
  <2>3. CASE o \notin up
    <3>1. o \in in_hot /\ o \notin down /\ o \in Keys
      BY <1>1, <1>7, <2>1, <2>3 DEF Hot!TypeOK
    <3>2. o \notin refused /\ o \notin overtaken
      BY <1>1, <1>7, <2>3, <3>1
    <3>3. index_hot[o]
      BY <1>7, <3>1, <3>2 DEF Hot!HotTierIsTracked
    <3> QED
      BY <1>1, <2>1, <3>1, <3>3
  <2> QED
    BY <2>2, <2>3
<1>8. Hot!HotTierIsTracked => Hot!HotTierIsTracked'
  BY <1>7 DEF Hot!HotTierIsTracked
<1> QED
  BY <1>4, <1>5, <1>6, <1>8

-----------------------------------------------------------------------------
(* The index's steps.                                                      *)

\* A session moves on; what is known and where objects are stays.
LEMMA SessionMoves ==
    ASSUME IndexAssumptions, Hot!Inv, NEW s \in Sessions,
           UNCHANGED <<Hot!entries, Hot!loops, Hot!history, accesses>>,
           index_faults' \in Nat, NEW l \in {"idle", "score", "promote"},
           pc' = [pc EXCEPT ![s] = l], arg' = arg, rounds' \in [Sessions -> 0..2],
           \A t \in Sessions \ {s} : rounds'[t] = rounds[t], l = "idle" \/ rounds'[s] # 0,
           l = "promote" => Hot!Known(arg[s]),
           \/ in_hot' = in_hot
           \/ Hot!Known(arg[s]) /\ in_hot' = in_hot \cup {arg[s]}
    PROVE  Hot!Inv'
<1> USE DEF Hot!entries, Hot!loops, Hot!history
<1>1. Hot!TypeOK'
  BY DEF Hot!Inv, Hot!TypeOK
<1>2. Hot!ScoresCover'
  BY DEF Hot!Inv, Hot!ScoresCover, Hot!Heat
<1>3. \A o : Hot!Known(o)' <=> Hot!Known(o)
  BY DEF Hot!Known
<1>4. Hot!PromotedIsKnown'
  BY <1>3 DEF Hot!Inv, Hot!TypeOK, Hot!PromotedIsKnown
<1>5. Hot!HotTierIsTracked'
  BY DEF Hot!Inv, Hot!HotTierIsTracked, Hot!Known
<1>6. Hot!RoundsLeft'
  BY DEF Hot!Inv, Hot!TypeOK, Hot!RoundsLeft
<1> QED
  BY <1>1, <1>2, <1>4, <1>5, <1>6 DEF Hot!Inv

\* A session that may still promote goes on with one promotion less.
LEMMA ResumeTypes ==
    ASSUME IndexAssumptions, Hot!TypeOK, NEW s \in Sessions, Hot!Resume(s), rounds[s] # 0
    PROVE  /\ rounds' \in [Sessions -> 0..2]
           /\ \A t \in Sessions \ {s} : rounds'[t] = rounds[t]
           /\ \E l \in {"idle", "score"} :
                 pc' = [pc EXCEPT ![s] = l] /\ (l = "idle" \/ rounds'[s] # 0)
<1>1. rounds[s] - 1 \in 0..2
  BY DEF Hot!TypeOK
<1>2. rounds' \in [Sessions -> 0..2]
  BY <1>1 DEF Hot!TypeOK, Hot!Resume
<1>3. rounds'[s] = rounds[s] - 1 /\ \A t \in Sessions \ {s} : rounds'[t] = rounds[t]
  BY DEF Hot!TypeOK, Hot!Resume
<1>4. CASE rounds[s] > 1
  BY <1>2, <1>3, <1>4 DEF Hot!TypeOK, Hot!Resume
<1>5. CASE ~(rounds[s] > 1)
  BY <1>2, <1>3, <1>5 DEF Hot!Resume
<1> QED
  BY <1>4, <1>5

\* RecordAccess promotes what it makes hot, or notes that it could not.
LEMMA RecordAccessInv ==
    ASSUME IndexAssumptions, Hot!Inv, NEW s \in Sessions, NEW o \in Keys, NEW n \in 1..2,
           Hot!RecordAccess(s, o, n)
    PROVE  Hot!Inv'
<1> DEFINE c == access_count[o] + 1
           h == Hot!Heat(c, 0)
           up == IF /\ ~index_hot[o]
                    /\ \/ access_count'[o] >= min_hot_access_count
                       \/ heat_score'[o] >= hot_threshold_score
                 THEN {o} ELSE {}
<1>1. Hot!TypeOK /\ Horizon \in Nat /\ hot_threshold_score \in Nat
  BY IndexConstants DEF Hot!Inv
<1>2. c \in Nat /\ h \in Nat
  <2>1. c \in Nat /\ 0 \in 0..Horizon + 1
    BY <1>1 DEF Hot!TypeOK
  <2> QED
    BY <2>1, HeatNat
<1>3. /\ access_count' = [access_count EXCEPT ![o] = c]
      /\ age' = [age EXCEPT ![o] = 0]
      /\ heat_score' = [heat_score EXCEPT ![o] = h]
      /\ pc' = [pc EXCEPT ![s] = "score"] /\ arg' = [arg EXCEPT ![s] = o]
      /\ rounds' = [rounds EXCEPT ![s] = n] /\ accesses' = accesses + 1
      /\ UNCHANGED Hot!loops
  BY DEF Hot!RecordAccess
<1>4. Hot!Move(up, {}) /\ up \in SUBSET Keys
  BY DEF Hot!RecordAccess
<1> HIDE DEF c, h
<1>5. Hot!TypeOK'
  <2>1. /\ index_faults' \in Nat /\ index_hot' \in [Keys -> BOOLEAN]
        /\ in_hot' \subseteq Keys /\ refused' \subseteq Keys
        /\ overtaken' \subseteq Keys
    BY <1>1, <1>4, MoveTypes
  <2>2. access_count' \in [Keys -> Nat] /\ heat_score' \in [Keys -> Nat]
    BY <1>1, <1>2, <1>3 DEF Hot!TypeOK
  <2>3. age' \in [Keys -> 0..Horizon + 1]
    BY <1>1, <1>3 DEF Hot!TypeOK
  <2>4. /\ pc' \in [Sessions -> {"idle", "score", "promote"}]
        /\ arg' \in [Sessions -> Keys] /\ rounds' \in [Sessions -> 0..2]
        /\ accesses' \in Nat
    BY <1>1, <1>3 DEF Hot!TypeOK
  <2> QED
    BY <1>1, <1>3, <2>1, <2>2, <2>3, <2>4, Zenon DEF Hot!TypeOK, Hot!loops
<1>6. Hot!ScoresCover'
  <2>1. ASSUME NEW x \in Keys
        PROVE  Hot!Heat(access_count'[x], age'[x]) <= heat_score'[x]
    <3>1. CASE x = o
      <4>1. access_count'[x] = c /\ age'[x] = 0 /\ heat_score'[x] = h
        BY <1>1, <1>3, <3>1 DEF Hot!TypeOK
      <4> QED
        BY <1>2, <4>1 DEF h
    <3>2. CASE x # o
      <4>1. access_count'[x] = access_count[x] /\ age'[x] = age[x]
            /\ heat_score'[x] = heat_score[x]
        BY <1>1, <1>3, <3>2 DEF Hot!TypeOK
      <4> QED
        BY <4>1 DEF Hot!Inv, Hot!ScoresCover
    <3> QED
      BY <3>1, <3>2
  <2> QED
    BY <2>1 DEF Hot!ScoresCover, Hot!Heat
<1>7. /\ \A x \in up : Hot!Known(x)'
      /\ \A x \in Keys : Hot!Known(x) => Hot!Known(x)'
      /\ Hot!HotTierIsTracked'
  <2>1. {} \in SUBSET Keys /\ Hot!HotTierIsTracked
    BY DEF Hot!Inv
  <2> QED
    BY <1>1, <1>4, <2>1, MoveKnown, Zenon
<1>8. Hot!PromotedIsKnown'
  <2>1. ASSUME NEW x \in Keys, heat_score'[x] > hot_threshold_score
        PROVE  Hot!Known(x)'
    <3>1. CASE x = o /\ ~index_hot[o]
      <4>1. x \in up
        BY <1>1, <1>5, <2>1, <3>1 DEF Hot!TypeOK
      <4> QED
        BY <1>7, <4>1
    <3>2. CASE index_hot[x]
      BY <1>7, <3>2 DEF Hot!Known
    <3>3. CASE x # o
      <4>1. heat_score'[x] = heat_score[x]
        BY <1>1, <1>3, <3>3 DEF Hot!TypeOK
      <4> QED
        BY <1>7, <2>1, <4>1 DEF Hot!Inv, Hot!PromotedIsKnown
    <3> QED
      BY <3>1, <3>2, <3>3
  <2>2. ASSUME NEW t \in Sessions, pc'[t] = "promote"
        PROVE  Hot!Known(arg[t])'
    <3>1. t # s /\ pc[t] = "promote" /\ arg'[t] = arg[t] /\ arg[t] \in Keys
      BY <1>1, <1>3, <2>2 DEF Hot!TypeOK
    <3>2. Hot!Known(arg[t])
      BY <3>1 DEF Hot!Inv, Hot!PromotedIsKnown
    <3> QED
      BY <1>7, <3>1, <3>2 DEF Hot!Known
  <2> QED
    BY <2>1, <2>2 DEF Hot!PromotedIsKnown
<1>9. Hot!RoundsLeft'
  BY <1>1, <1>3 DEF Hot!Inv, Hot!TypeOK, Hot!RoundsLeft
<1> QED
  BY <1>5, <1>6, <1>7, <1>8, <1>9 DEF Hot!Inv

\* A session looks at the score or promotes.
LEMMA SessionInv ==
    ASSUME IndexAssumptions, Hot!Inv, NEW s \in Sessions,
           Hot!GetHeatScore(s) \/ Hot!PromoteObject(s)
    PROVE  Hot!Inv'
<1>1. Hot!TypeOK /\ arg[s] \in Keys
  BY DEF Hot!Inv, Hot!TypeOK
<1>2. rounds[s] # 0 /\ pc[s] # "idle"
  BY DEF Hot!Inv, Hot!RoundsLeft, Hot!GetHeatScore, Hot!PromoteObject
<1>3. CASE Hot!GetHeatScore(s) /\ heat_score[arg[s]] > hot_threshold_score
  <2>1. Hot!Known(arg[s])
    BY <1>1, <1>3 DEF Hot!Inv, Hot!PromotedIsKnown
  <2>2. pc' = [pc EXCEPT ![s] = "promote"] /\ UNCHANGED rounds
        /\ UNCHANGED <<Hot!entries, in_hot, Hot!loops, arg, accesses, index_faults,
                       Hot!history>>
    BY <1>3 DEF Hot!GetHeatScore
  <2> QED
    BY <1>1, <1>2, <2>1, <2>2, SessionMoves DEF Hot!TypeOK
<1>4. CASE Hot!GetHeatScore(s) /\ ~(heat_score[arg[s]] > hot_threshold_score)
  <2>1. /\ Hot!Resume(s)
        /\ UNCHANGED <<Hot!entries, in_hot, Hot!loops, arg, accesses, index_faults,
                       Hot!history>>
    BY <1>4 DEF Hot!GetHeatScore
  <2>2. PICK l \in {"idle", "score"} :
          pc' = [pc EXCEPT ![s] = l] /\ (l = "idle" \/ rounds'[s] # 0)
    BY <1>1, <1>2, <2>1, ResumeTypes
  <2> QED
    BY <1>1, <1>2, <2>1, <2>2, ResumeTypes, SessionMoves DEF Hot!TypeOK
<1>5. CASE Hot!PromoteObject(s)
  <2>1. Hot!Known(arg[s])
    BY <1>5 DEF Hot!Inv, Hot!PromotedIsKnown, Hot!PromoteObject
  <2>2. /\ Hot!Resume(s) /\ UNCHANGED <<Hot!entries, Hot!loops, arg, accesses, Hot!history>>
        /\ in_hot' = in_hot \/ in_hot' = in_hot \cup {arg[s]}
    BY <1>5 DEF Hot!PromoteObject
  <2>3. index_faults' \in Nat
    BY <1>1, <1>5 DEF Hot!PromoteObject, Hot!TypeOK
  <2>4. PICK l \in {"idle", "score"} :
          pc' = [pc EXCEPT ![s] = l] /\ (l = "idle" \/ rounds'[s] # 0)
    BY <1>1, <1>2, <2>2, ResumeTypes
  <2> QED
    BY <1>1, <1>2, <2>1, <2>2, <2>3, <2>4, ResumeTypes, SessionMoves
<1> QED
  BY <1>3, <1>4, <1>5

\* A pass lowers scores or leaves them, and demotes only entries whose score is
\* then below the threshold.
LEMMA PassKnown ==
    ASSUME IndexAssumptions, Hot!Inv,
           NEW up \in SUBSET Keys, NEW down \in SUBSET Keys, Hot!Move(up, down),
           UNCHANGED Hot!session, heat_score' \in [Keys -> Nat],
           \A o \in Keys : heat_score'[o] <= heat_score[o],
           \A o \in down : ~(heat_score'[o] > hot_threshold_score)
    PROVE  Hot!PromotedIsKnown' /\ Hot!RoundsLeft' /\ Hot!HotTierIsTracked'
<1> USE DEF Hot!session
<1>1. Hot!TypeOK /\ Hot!PromotedIsKnown /\ Hot!HotTierIsTracked /\ hot_threshold_score \in Nat
  BY IndexConstants DEF Hot!Inv
<1>2. /\ \A o \in Keys : Hot!Known(o) /\ o \notin down => Hot!Known(o)'
      /\ \A s \in Sessions :
            pc[s] = "promote" /\ Hot!Known(arg[s]) =>
                index_hot'[arg[s]] \/ arg[s] \in refused' \/ arg[s] \in overtaken'
      /\ Hot!HotTierIsTracked'
  BY <1>1, MoveKnown, Zenon
<1>3. ASSUME NEW o \in Keys, heat_score'[o] > hot_threshold_score
      PROVE  Hot!Known(o)'
  <2>1. heat_score[o] > hot_threshold_score
    BY <1>1, <1>3 DEF Hot!TypeOK
  <2> QED
    BY <1>1, <1>2, <1>3, <2>1 DEF Hot!PromotedIsKnown
<1>4. ASSUME NEW s \in Sessions, pc'[s] = "promote"
      PROVE  Hot!Known(arg[s])'
  BY <1>1, <1>2, <1>4 DEF Hot!PromotedIsKnown, Hot!Known
<1>5. Hot!RoundsLeft'
  BY DEF Hot!Inv, Hot!RoundsLeft
<1> QED
  BY <1>2, <1>3, <1>4, <1>5 DEF Hot!PromotedIsKnown

\* decay_loop: counts and scores fall.
LEMMA DecayInv ==
    ASSUME IndexAssumptions, Hot!Inv, Hot!DecayPass
    PROVE  Hot!Inv'
<1> DEFINE counted == {o \in Keys : access_count[o] > 0}
           Count(o) == (access_count[o] * DecayNum) \div DecayDen
           down == {o \in counted :
                      index_hot[o] /\ 2 * Hot!Heat(Count(o), age[o]) < hot_threshold_score}
<1>1. Hot!TypeOK /\ hot_threshold_score \in Nat
  BY IndexConstants DEF Hot!Inv
<1>2. /\ awake' = awake \ {"decay"}
      /\ access_count' = [o \in Keys |->
             IF o \in counted THEN Count(o) ELSE access_count[o]]
      /\ heat_score' = [o \in Keys |->
             IF o \in counted THEN Hot!Heat(Count(o), age[o]) ELSE heat_score[o]]
      /\ Hot!Move({}, down)
      /\ UNCHANGED <<age, index_running, Hot!session, accesses>>
  BY DEF Hot!DecayPass, Hot!Decay
<1>3. \A o \in Keys : access_count[o] \in Nat /\ age[o] \in 0..Horizon + 1
                         /\ heat_score[o] \in Nat
  BY <1>1 DEF Hot!TypeOK
<1>4. \A o \in Keys : Count(o) \in Nat /\ Count(o) <= access_count[o]
  BY <1>3, DecayedCount
<1> HIDE DEF Count
<1>5. \A o \in Keys : Hot!Heat(Count(o), age[o]) \in Nat
                         /\ Hot!Heat(access_count[o], age[o]) \in Nat
  BY <1>3, <1>4, HeatNat
<1>6. \A o \in Keys : Hot!Heat(Count(o), age[o]) <= heat_score[o]
  <2>1. ASSUME NEW o \in Keys
        PROVE  Hot!Heat(Count(o), age[o]) <= heat_score[o]
    <3>1. Hot!Heat(Count(o), age[o]) <= Hot!Heat(access_count[o], age[o])
      BY <1>3, <1>4, HeatOfFewer
    <3>2. Hot!Heat(access_count[o], age[o]) <= heat_score[o]
      BY DEF Hot!Inv, Hot!ScoresCover
    <3> QED
      BY <1>3, <1>5, <3>1, <3>2
  <2> QED
    BY <2>1
<1>7. \A o \in Keys :
         \/ /\ o \in counted /\ access_count'[o] = Count(o)
            /\ heat_score'[o] = Hot!Heat(Count(o), age[o])
         \/ /\ o \notin counted /\ access_count'[o] = access_count[o]
            /\ heat_score'[o] = heat_score[o]
  BY <1>2
<1>8. /\ access_count' \in [Keys -> Nat] /\ heat_score' \in [Keys -> Nat]
      /\ \A o \in Keys : heat_score'[o] <= heat_score[o]
  <2>1. \A o \in Keys : access_count'[o] \in Nat /\ heat_score'[o] \in Nat
                           /\ heat_score'[o] <= heat_score[o]
    BY <1>3, <1>4, <1>5, <1>6, <1>7
  <2> QED
    BY <1>2, <2>1
<1>9. \A o \in down : ~(heat_score'[o] > hot_threshold_score)
  <2>1. ASSUME NEW o \in down
        PROVE  ~(heat_score'[o] > hot_threshold_score)
    <3> DEFINE h == Hot!Heat(Count(o), age[o])
    <3>1. h \in Nat /\ 2 * h < hot_threshold_score /\ heat_score'[o] = h
      BY <1>5, <1>7
    <3> HIDE DEF h
    <3> QED
      BY <1>1, <3>1
  <2> QED
    BY <2>1
<1>10. {} \in SUBSET Keys /\ down \in SUBSET Keys
  OBVIOUS
<1>11. Hot!PromotedIsKnown' /\ Hot!RoundsLeft' /\ Hot!HotTierIsTracked'
  <2> HIDE DEF down
  <2> QED
    BY <1>2, <1>8, <1>9, <1>10, PassKnown DEF Hot!session
<1>12. Hot!TypeOK'
  <2>1. /\ index_faults' \in Nat /\ index_hot' \in [Keys -> BOOLEAN]
        /\ in_hot' \subseteq Keys /\ refused' \subseteq Keys
        /\ overtaken' \subseteq Keys
    <3> HIDE DEF down
    <3> QED
      BY <1>1, <1>2, <1>10, MoveTypes, Zenon
  <2> QED
    BY <1>1, <1>2, <1>8, <2>1 DEF Hot!TypeOK, Hot!session
<1>13. Hot!ScoresCover'
  <2>1. ASSUME NEW o \in Keys
        PROVE  Hot!Heat(access_count'[o], age'[o]) <= heat_score'[o]
    <3>1. CASE o \in counted
      BY <1>2, <1>5, <1>7, <3>1
    <3>2. CASE o \notin counted
      BY <1>2, <1>7, <3>2 DEF Hot!Inv, Hot!ScoresCover
    <3> QED
      BY <3>1, <3>2
  <2> QED
    BY <2>1 DEF Hot!ScoresCover, Hot!Heat
<1> QED
  BY <1>11, <1>12, <1>13 DEF Hot!Inv

\* tier_maintenance_loop.
LEMMA MaintenanceInv ==
    ASSUME IndexAssumptions, Hot!Inv, Hot!MaintenancePass
    PROVE  Hot!Inv'
<1> DEFINE up   == {o \in Keys : ~index_hot[o] /\ 2 * heat_score[o] > 3 * hot_threshold_score}
           down == {o \in Keys : index_hot[o] /\ 2 * heat_score[o] < hot_threshold_score}
<1>1. Hot!TypeOK /\ hot_threshold_score \in Nat
  BY IndexConstants DEF Hot!Inv
<1>2. /\ awake' = awake \ {"maintenance"} /\ Hot!Move(up, down)
      /\ UNCHANGED <<access_count, age, heat_score, index_running, Hot!session, accesses>>
  BY DEF Hot!MaintenancePass
<1>3. up \in SUBSET Keys /\ down \in SUBSET Keys
  OBVIOUS
<1>4. \A o \in down : ~(heat_score'[o] > hot_threshold_score)
  BY <1>1, <1>2 DEF Hot!TypeOK
<1>5. heat_score' \in [Keys -> Nat] /\ \A o \in Keys : heat_score'[o] <= heat_score[o]
  BY <1>1, <1>2 DEF Hot!TypeOK
<1> HIDE DEF up, down
<1>6. Hot!PromotedIsKnown' /\ Hot!RoundsLeft' /\ Hot!HotTierIsTracked'
  BY <1>2, <1>3, <1>4, <1>5, PassKnown DEF Hot!session
<1>7. Hot!TypeOK'
  <2>1. /\ index_faults' \in Nat /\ index_hot' \in [Keys -> BOOLEAN]
        /\ in_hot' \subseteq Keys /\ refused' \subseteq Keys
        /\ overtaken' \subseteq Keys
    BY <1>1, <1>2, <1>3, MoveTypes, Zenon
  <2> QED
    BY <1>1, <1>2, <2>1 DEF Hot!TypeOK, Hot!session
<1>8. Hot!ScoresCover'
  BY <1>2 DEF Hot!Inv, Hot!ScoresCover, Hot!Heat
<1> QED
  BY <1>6, <1>7, <1>8 DEF Hot!Inv

\* Time lowers what the score would be.
LEMMA TickInv ==
    ASSUME IndexAssumptions, Hot!Inv, Hot!Tick
    PROVE  Hot!Inv'
<1> USE DEF Hot!loops, Hot!session, Hot!history
<1>1. Hot!TypeOK /\ Horizon \in Nat
  BY IndexConstants DEF Hot!Inv
<1>2. \A o \in Keys : age[o] \in 0..Horizon + 1
  BY <1>1 DEF Hot!TypeOK
<1>3. \A o \in Keys : \/ age[o] \in 0..Horizon /\ age'[o] = age[o] + 1
                      \/ age'[o] = age[o]
  BY <1>1, <1>2 DEF Hot!Tick
<1>4. \A o \in Keys : age'[o] \in 0..Horizon + 1
  BY <1>1, <1>2, <1>3
<1>5. age' \in [Keys -> 0..Horizon + 1]
  BY <1>4 DEF Hot!Tick
<1>6. Hot!TypeOK'
  BY <1>1, <1>5 DEF Hot!Tick, Hot!TypeOK
<1>7. Hot!ScoresCover'
  <2>1. ASSUME NEW o \in Keys
        PROVE  Hot!Heat(access_count[o], age'[o]) <= heat_score[o]
    <3>1. access_count[o] \in Nat /\ heat_score[o] \in Nat
          /\ Hot!Heat(access_count[o], age[o]) <= heat_score[o]
      BY <1>1 DEF Hot!Inv, Hot!TypeOK, Hot!ScoresCover
    <3>2. CASE age[o] \in 0..Horizon /\ age'[o] = age[o] + 1
      <4>1. Hot!Heat(access_count[o], age[o] + 1) <= Hot!Heat(access_count[o], age[o])
        BY <3>1, <3>2, HeatOfLater
      <4>2. /\ Hot!Heat(access_count[o], age[o] + 1) \in Nat
            /\ Hot!Heat(access_count[o], age[o]) \in Nat
        BY <1>2, <1>4, <3>1, <3>2, HeatNat
      <4> QED
        BY <3>1, <3>2, <4>1, <4>2
    <3>3. CASE age'[o] = age[o]
      BY <3>1, <3>3
    <3> QED
      BY <1>3, <3>2, <3>3
  <2> QED
    BY <2>1 DEF Hot!Tick, Hot!ScoresCover, Hot!Heat
<1>8. Hot!PromotedIsKnown' /\ Hot!RoundsLeft' /\ Hot!HotTierIsTracked'
  BY DEF Hot!Tick, Hot!Inv, Hot!PromotedIsKnown, Hot!RoundsLeft, Hot!HotTierIsTracked,
         Hot!Known
<1> QED
  BY <1>6, <1>7, <1>8 DEF Hot!Inv

\* Initially.
LEMMA IndexInit ==
    ASSUME IndexAssumptions, Hot!Init
    PROVE  Hot!Inv
<1>1. Horizon \in Nat /\ hot_threshold_score \in Nat
  BY IndexConstants
<1>2. Hot!TypeOK
  BY <1>1 DEF Hot!Init, Hot!TypeOK
<1>3. Hot!ScoresCover
  BY <1>1 DEF Hot!Init, Hot!ScoresCover, Hot!Heat
<1>4. Hot!PromotedIsKnown /\ Hot!RoundsLeft /\ Hot!HotTierIsTracked
  BY <1>1 DEF Hot!Init, Hot!PromotedIsKnown, Hot!RoundsLeft, Hot!HotTierIsTracked
<1> QED
  BY <1>2, <1>3, <1>4 DEF Hot!Inv

\* Every step.
LEMMA IndexStep ==
    ASSUME IndexAssumptions, Hot!Inv, [Hot!Next]_Hot!vars
    PROVE  Hot!Inv'
<1>1. CASE UNCHANGED <<Hot!entries, in_hot, Hot!session, accesses, index_faults, Hot!history>>
           /\ index_running' \in BOOLEAN /\ awake' \subseteq {"decay", "maintenance"}
  <2> USE DEF Hot!entries, Hot!session, Hot!history
  <2>1. Hot!TypeOK'
    BY <1>1 DEF Hot!Inv, Hot!TypeOK
  <2>2. Hot!ScoresCover'
    BY <1>1 DEF Hot!Inv, Hot!ScoresCover, Hot!Heat
  <2>3. Hot!PromotedIsKnown' /\ Hot!RoundsLeft' /\ Hot!HotTierIsTracked'
    BY <1>1 DEF Hot!Inv, Hot!PromotedIsKnown, Hot!RoundsLeft, Hot!HotTierIsTracked, Hot!Known
  <2> QED
    BY <2>1, <2>2, <2>3 DEF Hot!Inv
<1>2. CASE Hot!Wake("decay") \/ Hot!Wake("maintenance") \/ Hot!Stop \/ UNCHANGED Hot!vars
  BY <1>1, <1>2 DEF Hot!Wake, Hot!Stop, Hot!vars, Hot!loops, Hot!Inv, Hot!TypeOK
<1> QED
  BY <1>2, RecordAccessInv, SessionInv, DecayInv, MaintenanceInv, TickInv DEF Hot!Next

(* The inductive invariant of the index: scores never fall behind what an   *)
(* access or a pass would compute now, and whatever a session is about to   *)
(* promote is hot, refused or overtaken.                                    *)
THEOREM IndexInvariant ==
    ASSUME IndexAssumptions
    PROVE  Hot!Spec => []Hot!Inv
<1>1. Hot!Init => Hot!Inv
  BY IndexInit
<1>2. Hot!Inv /\ [Hot!Next]_Hot!vars => Hot!Inv'
  BY IndexStep
<1> QED
  BY <1>1, <1>2, PTL DEF Hot!Spec

(* Type correctness of the index; in particular no decay and no recency     *)
(* bonus makes a count or a score negative, whatever factor and horizon.    *)
THEOREM IndexTypeCorrect ==
    ASSUME IndexAssumptions
    PROVE  Hot!Spec => []Hot!TypeOK
<1>1. Hot!Inv => Hot!TypeOK
  BY DEF Hot!Inv
<1> QED
  BY <1>1, IndexInvariant, PTL

(* The index knows what is in the Hot tier: for every number of objects and *)
(* sessions, every threshold, decay and bonus, an object there is hot       *)
(* unless a move of the index failed, or a demotion came between a          *)
(* session's look at the score and its promotion.                           *)
THEOREM IndexTracksHotTier ==
    ASSUME IndexAssumptions
    PROVE  Hot!Spec => []Hot!HotTierIsTracked
<1>1. Hot!Inv => Hot!HotTierIsTracked
  BY DEF Hot!Inv
<1> QED
  BY <1>1, IndexInvariant, PTL
=============================================================================
