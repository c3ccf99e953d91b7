---------------------------- MODULE DedupObjects ----------------------------
(***************************************************************************)
(* Deduplicated objects: StorageManager's last PutObject and GetObject     *)
(* (storage_manager.cpp) cut an object into chunks, hand each to the       *)
(* second StoreChunk (dedup_chunk_store.cpp), which asks a Bloom filter    *)
(* before LevelDB, and keep the list of hashes, the manifest, as the       *)
(* object's content.  No lock is taken before the manifest is stored.      *)
(*                                                                         *)
(* A chunk stands for its hash, Pos[c] for the bits its hash functions     *)
(* name; Pos[c] = {} for every c is a filter that is switched off.         *)
(* bloom_filter.h sets a bit in a vector of words: a load and a store of   *)
(* the word, here the whole filter.  The filter only grows, apart from     *)
(* what overlapping stores lose, and is rebuilt from LevelDB at start-up.  *)
(* Encryption, the write of a file and every LevelDB operation fail or     *)
(* not; StoreChunk takes a failed Get for a new chunk and ignores the      *)
(* status of its Put.                                                      *)
(* Where the second StoreChunk says "rest of store logic", the body of the *)
(* first is taken.  A manifest is put and deleted at one instant           *)
(* (AtomicObjects).  Nothing gives a reference back, so that the garbage   *)
(* collector finds nothing to do here (DedupChunkStore has its steps).     *)
(***************************************************************************)
EXTENDS Integers, Sequences, FiniteSets

CONSTANTS
    Clients, Keys, Chunks,
    Bits, Pos,
    NoHash, None, Torn,
    MaxLen,         \* bound on the chunks of an object
    MaxPuts,        \* bound on the puts
    MaxFaults,      \* bound on failed operations
    MaxCrashes

ASSUME FilterAssumption == Pos \in [Chunks -> SUBSET Bits]
ASSUME ValueAssumption ==
    /\ NoHash \notin Chunks
    /\ {MaxLen, MaxPuts, MaxFaults, MaxCrashes} \subseteq Nat
ASSUME FiniteAssumption == IsFiniteSet(Clients) /\ IsFiniteSet(Keys)

VARIABLES
    bits,               \* bloom_filter_
    ref,                \* LevelDB: the count of a chunk, 0 if it has no record
    file,               \* the chunk files
    manifest,           \* each key: the hashes its object lists
    pc, key, todo, hashes,  \* each client: position, key, chunks to do, manifest so far
    unset, word, val,   \* ... in StoreChunk: bits to set, word loaded, count read
    mixed,              \* clients that write a file together with another
    lost,               \* bits undone by overlapping stores, or left out at start-up
                        \* because the iterator failed (history)
    disturbed,          \* chunks stored by two clients at a time, or again after
                        \* the filter had forgotten them (history)
    unwritten,          \* chunks whose last write failed unnoticed (history)
    uncounted,          \* chunks for which StoreChunk dropped a LevelDB error (history)
    puts, faults, crashes

store   == <<bits, ref, file, manifest>>
put     == <<key, todo, hashes>>
local   == <<unset, word, val>>
history == <<lost, disturbed, unwritten, uncounted>>
vars    == <<store, pc, put, local, mixed, history, puts, faults, crashes>>

\* What a put may be given, and what its manifest may be.
SeqsOf(S) == UNION {[1..n -> S] : n \in 0..MaxLen}

Positions == {"idle", "probe", "lookup", "count", "insert", "set", "encrypt", "write",
              "create", "manifest"}

\* The type of every variable.
TypeOK ==
    /\ bits \subseteq Bits /\ lost \subseteq Bits
    /\ ref \in [Chunks -> Nat]
    /\ file \in [Chunks -> {"none", "torn", "whole"}]
    /\ manifest \in [Keys -> SeqsOf(Chunks \cup {NoHash}) \cup {None, Torn}]
    /\ pc \in [Clients -> Positions]
    /\ key \in [Clients -> Keys] /\ todo \in [Clients -> SeqsOf(Chunks)]
    /\ hashes \in [Clients -> SeqsOf(Chunks \cup {NoHash})]
    /\ unset \in [Clients -> SUBSET Bits] /\ word \in [Clients -> SUBSET Bits]
    /\ val \in [Clients -> Nat]
    /\ mixed \subseteq Clients
    /\ disturbed \subseteq Chunks /\ unwritten \subseteq Chunks /\ uncounted \subseteq Chunks
    /\ puts \in Nat /\ faults \in Nat /\ crashes \in Nat

Init ==
    /\ bits = {} /\ ref = [c \in Chunks |-> 0]
    /\ file = [c \in Chunks |-> "none"]
    /\ manifest = [k \in Keys |-> None]
    /\ pc = [t \in Clients |-> "idle"]
    /\ \E k \in Keys : key = [t \in Clients |-> k]
    /\ todo = [t \in Clients |-> <<>>] /\ hashes = [t \in Clients |-> <<>>]
    /\ unset = [t \in Clients |-> {}] /\ word = [t \in Clients |-> {}]
    /\ val = [t \in Clients |-> 0]
    /\ mixed = {} /\ lost = {} /\ disturbed = {} /\ unwritten = {} /\ uncounted = {}
    /\ puts = 0 /\ faults = 0 /\ crashes = 0

Fault == faults < MaxFaults /\ faults' = faults + 1

Goto(t, p) == pc' = [pc EXCEPT ![t] = p]

probably_contains(c) == Pos[c] \subseteq bits

-----------------------------------------------------------------------------
(* PutObject.                                                              *)

\* The loop over the chunks, or its end.
AtChunk(s) == IF s = <<>> THEN "manifest" ELSE "probe"

PutObject(t, k, x) ==
    /\ pc[t] = "idle" /\ puts < MaxPuts
    /\ puts' = puts + 1
    /\ key' = [key EXCEPT ![t] = k]
    /\ todo' = [todo EXCEPT ![t] = x]
    /\ hashes' = [hashes EXCEPT ![t] = <<>>]
    /\ Goto(t, AtChunk(x))
    /\ UNCHANGED <<store, local, mixed, history, faults, crashes>>

\* (mutation) the loop does not advance
ReturnToSame(t, h) ==
    /\ hashes' = [hashes EXCEPT ![t] = Append(@, h)]
    /\ Goto(t, AtChunk(todo[t]))
    /\ UNCHANGED todo

\* StoreChunk returns h: it is pushed to the manifest whatever it is.
Return(t, h) ==
    /\ hashes' = [hashes EXCEPT ![t] = Append(@, h)]
    /\ todo' = [todo EXCEPT ![t] = Tail(@)]
    /\ Goto(t, AtChunk(Tail(todo[t])))

EndPut(t) ==
    /\ hashes' = [hashes EXCEPT ![t] = <<>>]
    /\ word' = [word EXCEPT ![t] = {}] /\ val' = [val EXCEPT ![t] = 0]
    /\ Goto(t, "idle")
    /\ UNCHANGED <<bits, ref, file, key, todo, unset, mixed, history, puts, crashes>>

\* Store the manifest as the object's content, or fail.
PutManifest(t) ==
    /\ pc[t] = "manifest"
    /\ \/ manifest' = [manifest EXCEPT ![key[t]] = hashes[t]] /\ UNCHANGED faults
       \/ UNCHANGED manifest /\ Fault
    /\ EndPut(t)

\* Only the manifest is removed; its chunks keep their counts.
DeleteObject(t, k) ==
    /\ pc[t] = "idle" /\ manifest[k] # None
    /\ manifest' = [manifest EXCEPT ![k] = None]
    /\ UNCHANGED <<bits, ref, file, pc, put, local, mixed, history, puts, faults, crashes>>

-----------------------------------------------------------------------------
(* StoreChunk (the second definition).                                     *)

\* The chunk t is at, and the other clients that are storing it.
Current(t) == Head(todo[t])
Rivals(t) == {u \in Clients \ {t} :
                 pc[u] \notin {"idle", "probe", "manifest"} /\ Current(u) = Current(t)}

\* Ask the filter: a chunk it does not know is new, any other is looked up.
StoreChunk(t) ==
    LET c == Current(t) IN
    /\ pc[t] = "probe"
    /\ Goto(t, IF probably_contains(c) THEN "lookup" ELSE "insert")
    /\ unset' = [unset EXCEPT ![t] = Pos[c]]
    /\ disturbed' = disturbed \cup
          {d \in {c} : Rivals(t) # {} \/ (ref[c] > 0 /\ ~probably_contains(c))}
    /\ UNCHANGED <<store, put, word, val, mixed, lost, unwritten, uncounted, puts, faults,
                   crashes>>

\* Get: the chunk exists if its count is above 0; if Get fails it is new, too.
LookUp(t) ==
    LET c == Current(t)
        New == IF unset[t] = {} THEN "encrypt" ELSE "insert"
    IN
    /\ pc[t] = "lookup"
    /\ val' = [val EXCEPT ![t] = ref[c]]
    /\ \/ Goto(t, IF ref[c] > 0 THEN "count" ELSE New) /\ UNCHANGED <<uncounted, faults>>
       \/ ref[c] > 0 /\ Fault /\ Goto(t, New) /\ uncounted' = uncounted \cup {c}
    /\ UNCHANGED <<store, put, unset, word, mixed, lost, disturbed, unwritten, puts, crashes>>

\* LevelDB Put, whose status StoreChunk ignores; then the hash is returned.
PutUntested(t, n) ==
    /\ \/ ref' = [ref EXCEPT ![Current(t)] = n] /\ UNCHANGED <<uncounted, faults>>
       \/ Fault /\ uncounted' = uncounted \cup {Current(t)} /\ UNCHANGED ref
    /\ Return(t, Current(t))
    /\ UNCHANGED <<bits, file, manifest, key, local, mixed, lost, disturbed, unwritten, puts,
                   crashes>>

\* (mutation) the hash is returned, and nothing is counted
ReturnUncounted(t) ==
    /\ pc[t] = "count"
    /\ Return(t, Current(t))
    /\ UNCHANGED <<store, key, local, mixed, history, puts, faults, crashes>>

\* It exists: one more reference.
IncrementRef(t) ==
    /\ pc[t] = "count"
    /\ PutUntested(t, val[t] + 1)

\* insert: load the word of the next bit ...
LoadWord(t) ==
    /\ pc[t] = "insert"
    /\ word' = [word EXCEPT ![t] = bits]
    /\ Goto(t, "set")
    /\ UNCHANGED <<store, put, unset, val, mixed, history, puts, faults, crashes>>

\* ... and store it with the bit set, and without what was set in between.
StoreWord(t, b) ==
    /\ pc[t] = "set"
    /\ bits' = word[t] \cup {b}
    /\ lost' = (lost \cup bits) \ bits'
    /\ unset' = [unset EXCEPT ![t] = @ \ {b}]
    /\ Goto(t, IF unset[t] = {b} THEN "encrypt" ELSE "insert")
    /\ UNCHANGED <<ref, file, manifest, put, word, val, mixed, disturbed, unwritten,
                   uncounted, puts, faults, crashes>>

\* (mutation) a failed encryption goes on to the record
EncryptFailsUnnoticed(t) ==
    /\ pc[t] = "encrypt" /\ Fault
    /\ Goto(t, "create")
    /\ UNCHANGED <<store, put, local, mixed, history, puts, crashes>>

\* Encryption fails: return "".
EncryptFails(t) ==
    /\ pc[t] = "encrypt" /\ Fault
    /\ Return(t, NoHash)
    /\ UNCHANGED <<store, key, local, mixed, history, puts, crashes>>

\* Open, and thereby truncate, the chunk's file ...
OpenFile(t) ==
    LET others == {u \in Rivals(t) : pc[u] = "write"} IN
    /\ pc[t] = "encrypt"
    /\ file' = [file EXCEPT ![Current(t)] = "torn"]
    /\ mixed' = IF others = {} THEN mixed ELSE mixed \cup others \cup {t}
    /\ Goto(t, "write")
    /\ UNCHANGED <<bits, ref, manifest, put, local, history, puts, faults, crashes>>

\* ... write it.  Nothing tests whether that succeeded, and two writers at a time
\* may leave a mixture: each has its own IV.
WriteChunk(t) ==
    LET c == Current(t) IN
    /\ pc[t] = "write"
    /\ \/ /\ file' = [file EXCEPT ![c] = "whole"]
          /\ unwritten' = unwritten \ {c}
          /\ UNCHANGED faults
       \/ t \in mixed /\ file' = [file EXCEPT ![c] = "torn"] /\ UNCHANGED <<unwritten, faults>>
       \/ Fault /\ unwritten' = unwritten \cup {c} /\ file' = [file EXCEPT ![c] = "torn"]
    /\ mixed' = mixed \ {t}
    /\ Goto(t, "create")
    /\ UNCHANGED <<bits, ref, manifest, put, local, lost, disturbed, uncounted, puts,
                   crashes>>

\* Set the count to 1.
CreateRecord(t) ==
    /\ pc[t] = "create"
    /\ PutUntested(t, 1)

-----------------------------------------------------------------------------
\* (mutation) chunks referenced once are left out
load_shared_chunks(reached) == UNION {Pos[c] : c \in {c \in reached : ref[c] > 1}}

\* The filter at start-up: every chunk that is counted, of those the iterator reaches.
load_bloom_from_db(reached) == UNION {Pos[c] : c \in {c \in reached : ref[c] > 0}}

\* The process ends anywhere and starts again.  A file being written is torn.  If the
\* iterator fails it ends early, and nobody tests that.
Crash ==
    /\ crashes < MaxCrashes
    /\ crashes' = crashes + 1
    /\ manifest' \in {manifest} \cup
          {[manifest EXCEPT ![key[t]] = Torn] :
              t \in {t \in Clients : pc[t] = "manifest"}}
    /\ \/ bits' = load_bloom_from_db(Chunks) /\ UNCHANGED faults
       \/ Fault /\ \E reached \in SUBSET Chunks : bits' = load_bloom_from_db(reached)
    /\ lost' = load_bloom_from_db(Chunks) \ bits'
    /\ pc' = [t \in Clients |-> "idle"]
    /\ todo' = [t \in Clients |-> <<>>] /\ hashes' = [t \in Clients |-> <<>>]
    /\ unset' = [t \in Clients |-> {}] /\ word' = [t \in Clients |-> {}]
    /\ val' = [t \in Clients |-> 0]
    /\ mixed' = {}
    /\ UNCHANGED <<ref, file, key, disturbed, unwritten, uncounted, puts>>

Client(t) ==
    \/ \E k \in Keys : DeleteObject(t, k) \/ \E x \in SeqsOf(Chunks) : PutObject(t, k, x)
    \/ PutManifest(t)
    \/ StoreChunk(t) \/ LookUp(t) \/ IncrementRef(t)
    \/ LoadWord(t) \/ (\E b \in unset[t] : StoreWord(t, b))
    \/ EncryptFails(t) \/ OpenFile(t) \/ WriteChunk(t) \/ CreateRecord(t)

Next == Crash \/ \E t \in Clients : Client(t)

Spec == Init /\ [][Next]_vars

-----------------------------------------------------------------------------
\* GetChunk: the filter, then LevelDB, then the file.
GetChunk(c) == probably_contains(c) /\ ref[c] > 0 /\ file[c] = "whole"

(* The filter never denies a chunk that is counted, except by bits that    *)
(* overlapping inserts have undone since the start, or that were left out  *)
(* at the start because the iterator failed: over crashes and rebuilds,    *)
(* false positives and repeated stores.                                    *)
CountedChunksFound ==
    \A c \in Chunks : ref[c] > 0 => Pos[c] \subseteq bits \cup lost

\* Keys with an object that can be parsed.
Listed == {k \in Keys : manifest[k] \notin {None, Torn}}

(* An object reads back, once its manifest is stored: GetObject finds each *)
(* chunk, unless the chunk did not encrypt, was not written or its LevelDB *)
(* error was dropped (PutObject returns true nevertheless), was stored by  *)
(* two clients at a time, or lost bits in the filter.                      *)
ReadsBack ==
    \A k \in Listed : \A i \in 1..Len(manifest[k]) :
        LET c == manifest[k][i] IN
        c \in Chunks \ (disturbed \cup unwritten \cup uncounted) /\ Pos[c] \cap lost = {} =>
            GetChunk(c)

\* Where the manifests list the chunk, and those being made.
InManifests(c) ==
    {p \in Listed \X (1..MaxLen) :
        p[2] <= Len(manifest[p[1]]) /\ manifest[p[1]][p[2]] = c}
InMaking(c) ==
    {p \in Clients \X (1..MaxLen) :
        p[2] <= Len(hashes[p[1]]) /\ hashes[p[1]][p[2]] = c}

Uses(c) == Cardinality(InManifests(c)) + Cardinality(InMaking(c))

(* The count of a chunk covers the manifests that list it: only a store    *)
(* that overlaps another one of the chunk, one after the filter forgot it, *)
(* or one whose LevelDB error was dropped, sets the count too low.         *)
CountsCoverManifests ==
    \A c \in Chunks \ (disturbed \cup uncounted) : Uses(c) <= ref[c]

-----------------------------------------------------------------------------
(* The inductive invariant.                                                *)

\* Inside StoreChunk there is a chunk; a manifest does not outgrow its object.
InLoop ==
    \A t \in Clients :
        /\ pc[t] \notin {"idle", "manifest"} => todo[t] # <<>>
        /\ pc[t] # "idle" => Len(hashes[t]) + Len(todo[t]) <= MaxLen

\* What a store has seen or set in the filter is set or lost.
FilterFollows ==
    \A t \in Clients :
        /\ pc[t] \in {"lookup", "count", "encrypt", "write", "create"} =>
              Pos[Current(t)] \subseteq bits \cup lost
        /\ pc[t] \in {"insert", "set"} =>
              Pos[Current(t)] \ unset[t] \subseteq bits \cup lost

\* Two stores of a chunk at a time are noted, a shared file is one of them.
OverlapsNoted ==
    /\ \A t \in Clients :
          pc[t] \notin {"idle", "probe", "manifest"} /\ Rivals(t) # {} =>
              Current(t) \in disturbed
    /\ \A t \in mixed : pc[t] = "write" /\ Current(t) \in disturbed

\* Undisturbed and unless Get failed, a store that takes its chunk for new has no
\* record of it; and one that found a record has its count.
CountsFresh ==
    \A t \in Clients :
        /\ pc[t] \in {"insert", "set", "encrypt", "write", "create"}
              /\ Current(t) \notin disturbed \cup uncounted => ref[Current(t)] = 0
        /\ pc[t] = "count" => val[t] > 0
        /\ pc[t] = "count" /\ Current(t) \notin disturbed => val[t] = ref[Current(t)]

\* Undisturbed and written, a chunk has its file before it has its record.
FilesWhole ==
    \A c \in Chunks \ (disturbed \cup unwritten \cup uncounted) :
        ref[c] > 0 \/ (\E t \in Clients : pc[t] = "create" /\ Current(t) = c)
            => file[c] = "whole"

\* What a manifest lists, also one in the making, has a record, if its Put succeeded.
ListedIsCounted ==
    /\ \A k \in Listed : \A i \in 1..Len(manifest[k]) :
          manifest[k][i] \in Chunks \ uncounted => ref[manifest[k][i]] > 0
    /\ \A t \in Clients : \A i \in 1..Len(hashes[t]) :
          hashes[t][i] \in Chunks \ uncounted => ref[hashes[t][i]] > 0

Inv ==
    /\ TypeOK /\ InLoop
    /\ FilterFollows /\ CountedChunksFound
    /\ OverlapsNoted /\ CountsFresh /\ FilesWhole /\ ListedIsCounted
=============================================================================
