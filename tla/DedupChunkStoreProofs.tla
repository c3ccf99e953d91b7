----------------------- MODULE DedupChunkStoreProofs ------------------------
(***************************************************************************)
(* For every number of clients and chunks, every batch size and any number *)
(* of crashes and failures: types, and that the garbage collector, which   *)
(* does not take mutex_, removes no referenced chunk unless StoreChunk     *)
(* counted it up after a cycle had condemned it, or dropped an error of    *)
(* LevelDB.                                                                *)
(***************************************************************************)
EXTENDS DedupChunkStore, TLAPS

\* Every action keeps the types.
LEMMA TypeStep ==
    ASSUME TypeOK, [Next]_vars
    PROVE  TypeOK'
<1> USE DEF data, client, gc, ghosts, Fault
<1>1. CASE UNCHANGED vars
  BY <1>1 DEF vars, TypeOK
<1>2. ASSUME NEW t \in Clients, Client(t) PROVE TypeOK'
  <2>1. ASSUME NEW c \in Chunks, StoreChunk(t, c) PROVE TypeOK'
    <3>1. /\ uncounted' \subseteq Chunks /\ faults' \in Nat
          /\ pc' \in [Clients -> {"idle", "increment", "write", "create", "decrement"}]
      BY <2>1 DEF StoreChunk, TypeOK
    <3> QED
      BY <2>1, <3>1 DEF StoreChunk, TypeOK
  <2>2. ASSUME NEW c \in Chunks, DecrementRef(t, c) PROVE TypeOK'
    <3>1. held' \in [Chunks -> Nat]
      BY <2>2 DEF DecrementRef, TypeOK
    <3> QED
      BY <2>2, <3>1 DEF DecrementRef, TypeOK
  <2>3. CASE Increment(t)
    <3>1. /\ ref' \in [Chunks -> Nat] /\ held' \in [Chunks -> Nat] /\ val' \in [Clients -> Nat]
          /\ known' \subseteq Chunks /\ revived' \subseteq Chunks
          /\ uncounted' \subseteq Chunks /\ faults' \in Nat
      BY <2>3 DEF Increment, PutUntested, PutCount, Leave, TypeOK
    <3> QED
      BY <2>3, <3>1 DEF Increment, Leave, TypeOK
  <2>4. CASE WriteChunk(t)
    <3>1. files' \subseteq Chunks /\ unwritten' \subseteq Chunks /\ faults' \in Nat
      BY <2>4 DEF WriteChunk, TypeOK
    <3> QED
      BY <2>4, <3>1 DEF WriteChunk, TypeOK
  <2>5. CASE EncryptFails(t)
    BY <2>5 DEF EncryptFails, Leave, TypeOK
  <2>6. CASE CreateRecord(t)
    <3>1. /\ ref' \in [Chunks -> Nat] /\ held' \in [Chunks -> Nat] /\ known' \subseteq Chunks
          /\ uncounted' \subseteq Chunks /\ faults' \in Nat
      BY <2>6 DEF CreateRecord, PutUntested, PutCount, TypeOK
    <3> QED
      BY <2>6, <3>1 DEF CreateRecord, Leave, TypeOK
  <2>7. CASE CountDown(t)
    <3>1. ref' \in [Chunks -> Nat] /\ known' \subseteq Chunks /\ faults' \in Nat
      BY <2>7 DEF CountDown, PutCount, TypeOK
    <3> QED
      BY <2>7, <3>1 DEF CountDown, Leave, TypeOK
  <2> QED
    BY <1>2, <2>1, <2>2, <2>3, <2>4, <2>5, <2>6, <2>7 DEF Client
<1>3. CASE BeginCycle
  BY <1>3 DEF BeginCycle, TypeOK
<1>4. ASSUME NEW c \in todo, Collect(c) PROVE TypeOK'
  BY <1>4 DEF Collect, TypeOK
<1>5. CASE WriteBatch
  BY <1>5 DEF WriteBatch, TypeOK
<1>6. CASE EndCycle
  BY <1>6 DEF EndCycle, TypeOK
<1>7. CASE \/ TestPredicate \/ EnterWait \/ Timeout \/ LeaveLoop
           \/ NotifyAll \/ Join
  BY <1>7 DEF TestPredicate, EnterWait, Timeout, LeaveLoop, NotifyAll, Join, Moves, TypeOK
<1>8. CASE StartGC \/ StopGC
  <2>1. gc_running' \in BOOLEAN
    BY <1>8 DEF StartGC, StopGC
  <2> QED
    BY <1>8, <2>1 DEF StartGC, StopGC, Moves, TypeOK
<1>9. CASE Crash
  <2>1. gc_running' \in BOOLEAN
    BY <1>9, Zenon DEF Crash
  <2>2. val' \in [Clients -> Nat] /\ crashes' \in Nat
    BY <1>9 DEF Crash, TypeOK
  <2> QED
    BY <1>9, <2>1, <2>2 DEF Crash, TypeOK
<1> QED
  BY <1>1, <1>2, <1>3, <1>4, <1>5, <1>6, <1>7, <1>8, <1>9 DEF Next, GC

\* The initial states have them.
LEMMA InitType == Init => TypeOK
<1> SUFFICES ASSUME Init PROVE TypeOK
  OBVIOUS
<1>1. gc_running \in BOOLEAN
  BY Zenon DEF Init
<1>2. {ref, held} \subseteq [Chunks -> Nat] /\ val \in [Clients -> Nat]
  BY DEF Init
<1> QED
  BY <1>1, <1>2 DEF Init, TypeOK

(* Type correctness of the chunk store; in particular DecrementRef never    *)
(* takes a count below 0.                                                   *)
THEOREM ChunkTypeCorrect == Spec => []TypeOK
BY InitType, TypeStep, PTL DEF Spec

-----------------------------------------------------------------------------
(* The inductive invariant.                                                *)

\* The mutex: only its holder is inside a call.
LEMMA OnlyHolder ==
    ASSUME Inv, NEW t \in Clients, pc[t] # "idle"
    PROVE  \A u \in Clients \ {t} : pc[u] = "idle"
BY DEF Inv, LookupsCurrent

\* ... and nobody is while it is free.
LEMMA NobodyInside ==
    ASSUME Inv, mutex = NoClient
    PROVE  \A u \in Clients : pc[u] = "idle"
BY ClientAssumption DEF Inv, LookupsCurrent

\* A chunk is looked up, to be stored.
LEMMA StoreChunkInv ==
    ASSUME Inv, TypeOK', NEW t \in Clients, NEW c \in Chunks, StoreChunk(t, c)
    PROVE  Inv'
<1> USE DEF StoreChunk, Fault, data, gc
<1>1. \A u \in Clients : pc[u] = "idle"
  BY NobodyInside
<1>2. LookupsCurrent'
  BY <1>1 DEF Inv, TypeOK, LookupsCurrent
<1>3. CycleCondemned'
  BY DEF Inv, CycleCondemned
<1>4. KeptUnlessCondemned'
  BY <1>1 DEF Inv, TypeOK, KeptUnlessCondemned
<1> QED
  BY <1>2, <1>3, <1>4 DEF Inv

\* A reference is given back: the count still covers it.
LEMMA DecrementRefInv ==
    ASSUME Inv, TypeOK', NEW t \in Clients, NEW c \in Chunks, DecrementRef(t, c)
    PROVE  Inv'
<1> USE DEF DecrementRef, data, gc
<1>1. \A u \in Clients : pc[u] = "idle"
  BY NobodyInside
<1>2. LookupsCurrent'
  BY <1>1 DEF Inv, TypeOK, LookupsCurrent
<1>3. CycleCondemned'
  BY DEF Inv, CycleCondemned
<1>4. KeptUnlessCondemned'
  <2>1. /\ held'[c] = held[c] - 1 /\ held[c] \in Nat /\ held[c] > 0 /\ ref[c] \in Nat
        /\ \A d \in Chunks \ {c} : held'[d] = held[d]
    BY DEF Inv, TypeOK
  <2>2. \A u \in Clients : (pc'[u] = "decrement" => arg'[u] = c) /\ pc'[u] # "create"
    BY <1>1 DEF Inv, TypeOK
  <2>3. c \notin revived \cup uncounted => held'[c] < ref[c] /\ c \in known /\ c \notin condemned
    BY <2>1 DEF Inv, KeptUnlessCondemned
  <2>4. c \notin revived \cup uncounted => held'[c] <= ref[c]
    BY <2>1, <2>3
  <2> QED
    BY <2>1, <2>2, <2>3, <2>4 DEF Inv, KeptUnlessCondemned
<1> QED
  BY <1>2, <1>3, <1>4 DEF Inv

\* A chunk is counted up: it is revived, or neither condemned nor forgotten.
LEMMA IncrementInv ==
    ASSUME Inv, TypeOK', NEW t \in Clients, Increment(t)
    PROVE  Inv'
<1> USE DEF Increment, Leave, PutUntested, PutCount, Fault, gc
<1>1. \A u \in Clients : pc'[u] = "idle"
  BY OnlyHolder DEF Inv, TypeOK
<1>2. LookupsCurrent'
  BY <1>1 DEF LookupsCurrent
<1>3. CycleCondemned'
  BY DEF Inv, CycleCondemned
<1>4. PICK c \in Chunks : c = arg[t]
  BY DEF Inv, TypeOK
<1> DEFINE Exempt == revived' \cup uncounted'
<1>5. /\ held'[c] = held[c] + 1 /\ ref[c] \in Nat /\ held[c] \in Nat
      /\ \A d \in Chunks \ {c} : /\ ref'[d] = ref[d] /\ held'[d] = held[d]
                                 /\ (d \in known' <=> d \in known)
      /\ c \notin uncounted' => ref'[c] = ref[c] + 1
      /\ uncounted \subseteq uncounted' /\ revived \subseteq revived'
  BY <1>4 DEF Inv, TypeOK, LookupsCurrent
<1>6. c \notin Exempt => c \in known' /\ c \in known /\ c \notin condemned
                         /\ c \notin revived \cup uncounted
  BY <1>4
<1>7. c \notin Exempt => held'[c] <= ref'[c] /\ c \in files \cup unwritten
  <2>1. c \notin Exempt => held[c] <= ref[c]
    BY <1>5, <1>6 DEF Inv, KeptUnlessCondemned
  <2> QED
    BY <1>5, <1>6, <2>1 DEF Inv, KeptUnlessCondemned
<1>8. KeptUnlessCondemned'
  <2>1. UNCHANGED <<files, condemned, unwritten>>
    OBVIOUS
  <2> HIDE DEF Increment, Leave, PutUntested, PutCount
  <2>2. ASSUME NEW d \in Chunks, d \notin Exempt
        PROVE  /\ d \in condemned => ref'[d] = 0
               /\ d \in known' \ condemned => d \in files \cup unwritten
               /\ held'[d] > 0 => d \in known' /\ held'[d] <= ref'[d]
    <3>1. CASE d = c
      BY <3>1, <2>2, <1>5, <1>6, <1>7
    <3>2. CASE d # c
      BY <3>2, <2>2, <1>5 DEF Inv, KeptUnlessCondemned
    <3> QED
      BY <3>1, <3>2
  <2> QED
    BY <1>1, <2>1, <2>2 DEF KeptUnlessCondemned
<1> QED
  BY <1>2, <1>3, <1>8 DEF Inv

\* The file of a new chunk is written, or the failure noted.
LEMMA WriteChunkInv ==
    ASSUME Inv, TypeOK', NEW t \in Clients, WriteChunk(t)
    PROVE  Inv'
<1> USE DEF WriteChunk, Fault, gc
<1>1. /\ \A u \in Clients \ {t} : pc'[u] = "idle"
      /\ pc'[t] = "create" /\ pc[t] = "write"
  BY OnlyHolder DEF Inv, TypeOK
<1>2. LookupsCurrent'
  BY <1>1 DEF Inv, LookupsCurrent
<1>3. CycleCondemned'
  BY DEF Inv, CycleCondemned
<1>4. files \cup unwritten \subseteq files' \cup unwritten' /\ arg[t] \in files' \cup unwritten'
  OBVIOUS
<1>5. KeptUnlessCondemned'
  BY <1>1, <1>4 DEF Inv, KeptUnlessCondemned
<1> QED
  BY <1>2, <1>3, <1>5 DEF Inv

\* The chunk did not encrypt.
LEMMA EncryptFailsInv ==
    ASSUME Inv, TypeOK', NEW t \in Clients, EncryptFails(t)
    PROVE  Inv'
<1> USE DEF EncryptFails, Leave, Fault, data, gc, ghosts
<1>1. \A u \in Clients : pc'[u] = "idle"
  BY OnlyHolder DEF Inv, TypeOK
<1>2. LookupsCurrent'
  BY <1>1 DEF LookupsCurrent
<1>3. CycleCondemned'
  BY DEF Inv, CycleCondemned
<1>4. KeptUnlessCondemned'
  BY <1>1 DEF Inv, KeptUnlessCondemned
<1> QED
  BY <1>2, <1>3, <1>4 DEF Inv

\* The record of a new chunk, which no one references: it was unknown.
LEMMA CreateRecordInv ==
    ASSUME Inv, TypeOK', NEW t \in Clients, CreateRecord(t)
    PROVE  Inv'
<1> USE DEF CreateRecord, Leave, PutUntested, PutCount, Fault, gc
<1>1. \A u \in Clients : pc'[u] = "idle"
  BY OnlyHolder DEF Inv, TypeOK
<1>2. LookupsCurrent'
  BY <1>1 DEF LookupsCurrent
<1>3. CycleCondemned'
  BY DEF Inv, CycleCondemned
<1>4. PICK c \in Chunks : c = arg[t]
  BY DEF Inv, TypeOK
<1> DEFINE Exempt == revived' \cup uncounted'
<1>5. /\ held'[c] = held[c] + 1 /\ held[c] \in Nat
      /\ \A d \in Chunks \ {c} : /\ ref'[d] = ref[d] /\ held'[d] = held[d]
                                 /\ (d \in known' <=> d \in known)
      /\ c \notin Exempt => ref'[c] = 1 /\ c \in known'
      /\ uncounted \subseteq uncounted' /\ revived = revived'
  BY <1>4 DEF Inv, TypeOK
<1>6. c \notin Exempt => c \notin known /\ c \notin condemned
  BY <1>4, <1>5 DEF Inv, LookupsCurrent, CycleCondemned
<1>7. c \notin Exempt => held[c] = 0 /\ c \in files \cup unwritten
  BY <1>4, <1>5, <1>6 DEF Inv, KeptUnlessCondemned
<1>8. c \notin Exempt => held'[c] <= ref'[c]
  BY <1>5, <1>7
<1>9. KeptUnlessCondemned'
  <2>1. UNCHANGED <<files, condemned, unwritten>>
    OBVIOUS
  <2> HIDE DEF CreateRecord, Leave, PutUntested, PutCount
  <2>2. ASSUME NEW d \in Chunks, d \notin Exempt
        PROVE  /\ d \in condemned => ref'[d] = 0
               /\ d \in known' \ condemned => d \in files \cup unwritten
               /\ held'[d] > 0 => d \in known' /\ held'[d] <= ref'[d]
    <3>1. CASE d = c
      BY <3>1, <2>2, <1>5, <1>6, <1>7, <1>8
    <3>2. CASE d # c
      BY <3>2, <2>2, <1>5 DEF Inv, KeptUnlessCondemned
    <3> QED
      BY <3>1, <3>2
  <2> QED
    BY <1>1, <2>1, <2>2 DEF KeptUnlessCondemned
<1> QED
  BY <1>2, <1>3, <1>9 DEF Inv

\* The count goes down, and still covers the references that are held.
LEMMA CountDownInv ==
    ASSUME Inv, TypeOK', NEW t \in Clients, CountDown(t)
    PROVE  Inv'
<1> USE DEF CountDown, Leave, PutCount, Fault, gc, ghosts
<1>1. \A u \in Clients : pc'[u] = "idle"
  BY OnlyHolder DEF Inv, TypeOK
<1>2. LookupsCurrent'
  BY <1>1 DEF LookupsCurrent
<1>3. known' = known
  <2>1. CASE arg[t] \in known /\ val[t] > 0
    BY <2>1
  <2>2. CASE ~(arg[t] \in known /\ val[t] > 0)
    BY <2>2
  <2> QED
    BY <2>1, <2>2
<1>4. CycleCondemned'
  BY <1>3 DEF Inv, CycleCondemned
<1>5. PICK c \in Chunks : c = arg[t]
  BY DEF Inv, TypeOK
<1>6. /\ ref'[c] \in Nat /\ ref[c] \in Nat /\ held[c] \in Nat /\ ref'[c] >= ref[c] - 1
      /\ \A d \in Chunks \ {c} : ref'[d] = ref[d]
  BY <1>5 DEF Inv, TypeOK, LookupsCurrent
<1>7. c \notin revived \cup uncounted => held[c] <= ref'[c]
  <2>1. c \notin revived \cup uncounted => held[c] < ref[c]
    BY <1>5 DEF Inv, KeptUnlessCondemned
  <2> QED
    BY <1>6, <2>1
<1>8. ref[c] = 0 => ref'[c] = 0
  BY <1>5 DEF Inv, TypeOK, LookupsCurrent
<1>9. KeptUnlessCondemned'
  BY <1>1, <1>3, <1>6, <1>7, <1>8 DEF Inv, KeptUnlessCondemned
<1> QED
  BY <1>2, <1>4, <1>9 DEF Inv

\* A cycle begins: it condemns chunks whose count is 0, which nobody holds.
LEMMA BeginCycleInv ==
    ASSUME Inv, TypeOK', BeginCycle
    PROVE  Inv'
<1> USE DEF BeginCycle, Fault, data, client
<1>1. LookupsCurrent'
  BY DEF Inv, LookupsCurrent
<1>2. CycleCondemned'
  BY DEF Inv, CycleCondemned
<1>3. ASSUME NEW c \in Chunks, c \notin revived \cup uncounted, c \in known,
             ref[c] = 0 PROVE held[c] = 0
  BY <1>3 DEF Inv, TypeOK, KeptUnlessCondemned
<1>4. KeptUnlessCondemned'
  BY <1>3 DEF Inv, KeptUnlessCondemned
<1> QED
  BY <1>1, <1>2, <1>4 DEF Inv

\* A condemned chunk goes from the iterator to the batch, its file with it:
\* nobody holds it, or it was revived.
LEMMA CollectInv ==
    ASSUME Inv, TypeOK', NEW c \in todo, Collect(c)
    PROVE  Inv'
<1> USE DEF Collect, Fault, client
<1>1. LookupsCurrent'
  BY DEF Inv, LookupsCurrent
<1>2. CycleCondemned'
  BY DEF Inv, CycleCondemned
<1>3. c \in condemned /\ c \in known
  BY DEF Inv, CycleCondemned
<1>4. \A d \in files \cup unwritten : d # c => d \in files' \cup unwritten'
  OBVIOUS
<1>5. c \notin uncounted => \A t \in Clients : pc[t] = "create" => arg[t] # c
  BY <1>3 DEF Inv, LookupsCurrent
<1>6. KeptUnlessCondemned'
  BY <1>3, <1>4, <1>5 DEF Inv, KeptUnlessCondemned
<1> QED
  BY <1>1, <1>2, <1>6 DEF Inv

\* The records of a batch are deleted: nobody gives a reference to one of them
\* back, unless it was revived.
LEMMA WriteBatchInv ==
    ASSUME Inv, TypeOK', WriteBatch
    PROVE  Inv'
<1> USE DEF WriteBatch, Fault, client
<1>1. known' \subseteq known /\ known \ known' \subseteq batch /\ batch \subseteq condemned
  BY DEF Inv, CycleCondemned
<1>2. LookupsCurrent'
  BY <1>1 DEF Inv, LookupsCurrent
<1>3. CycleCondemned'
  BY DEF Inv, CycleCondemned
<1>4. condemned' \subseteq condemned /\ known' \ condemned' = known \ condemned
  BY <1>1
<1>5. ASSUME NEW c \in Chunks \ (revived \cup uncounted)
      PROVE  held[c] > 0 => c \in known'
  BY <1>1 DEF Inv, TypeOK, KeptUnlessCondemned
<1>6. ASSUME NEW c \in Chunks \ (revived \cup uncounted), NEW t \in Clients, arg[t] = c, pc[t] = "decrement"
      PROVE  c \in known'
  BY <1>1, <1>6 DEF Inv, TypeOK, KeptUnlessCondemned
<1>7. KeptUnlessCondemned'
  BY <1>4, <1>5, <1>6 DEF Inv, KeptUnlessCondemned
<1> QED
  BY <1>2, <1>3, <1>7 DEF Inv

\* A cycle ends; the GC thread waits, is woken or stops; it is started, stopped
\* and joined.
LEMMA ControlInv ==
    ASSUME Inv, TypeOK',
           \/ EndCycle \/ TestPredicate \/ EnterWait \/ Timeout \/ LeaveLoop
           \/ StartGC \/ StopGC \/ NotifyAll \/ Join
    PROVE  Inv'
<1> USE DEF EndCycle, TestPredicate, EnterWait, Timeout, LeaveLoop, StartGC, StopGC,
            NotifyAll, Join, Moves, data, client, ghosts
<1>1. LookupsCurrent'
  BY DEF Inv, LookupsCurrent
<1>2. CycleCondemned'
  BY Zenon DEF Inv, CycleCondemned
<1>3. KeptUnlessCondemned'
  BY DEF Inv, KeptUnlessCondemned
<1> QED
  BY <1>1, <1>2, <1>3 DEF Inv

\* A crash loses the calls, the cycle and the batch, not what is on disk.
LEMMA CrashInv ==
    ASSUME Inv, TypeOK', Crash
    PROVE  Inv'
<1> USE DEF Crash, data, ghosts
<1>1. LookupsCurrent'
  BY DEF LookupsCurrent
<1>2. CycleCondemned'
  BY DEF Inv, CycleCondemned
<1>3. KeptUnlessCondemned'
  BY DEF Inv, KeptUnlessCondemned
<1> QED
  BY <1>1, <1>2, <1>3 DEF Inv

\* The invariant holds initially, and every step keeps it.
LEMMA InvInit == Init => Inv
<1> SUFFICES ASSUME Init PROVE Inv
  OBVIOUS
<1>1. TypeOK
  BY InitType
<1>2. LookupsCurrent /\ CycleCondemned
  BY DEF Init, LookupsCurrent, CycleCondemned
<1>3. KeptUnlessCondemned
  BY DEF Init, KeptUnlessCondemned
<1> QED
  BY <1>1, <1>2, <1>3 DEF Inv

LEMMA InvStep ==
    ASSUME Inv, [Next]_vars
    PROVE  Inv'
<1>1. TypeOK'
  BY TypeStep DEF Inv
<1>2. CASE UNCHANGED vars
  BY <1>2 DEF vars, data, client, gc, ghosts, Inv, TypeOK, LookupsCurrent, CycleCondemned,
              KeptUnlessCondemned
<1>3. ASSUME NEW t \in Clients, Client(t) PROVE Inv'
  BY <1>1, <1>3, StoreChunkInv, DecrementRefInv, IncrementInv, WriteChunkInv,
     EncryptFailsInv, CreateRecordInv, CountDownInv DEF Client
<1>4. CASE GC
  BY <1>1, <1>4, BeginCycleInv, CollectInv, WriteBatchInv, ControlInv DEF GC
<1>5. CASE StartGC \/ StopGC \/ NotifyAll \/ Join
  BY <1>1, <1>5, ControlInv
<1>6. CASE Crash
  BY <1>1, <1>6, CrashInv
<1> QED
  BY <1>2, <1>3, <1>4, <1>5, <1>6 DEF Next

(* The inductive invariant of the chunk store: whoever is inside a call has *)
(* current counts, a cycle works on condemned chunks, and a chunk never     *)
(* revived or uncounted has count 0 if it is condemned and is complete if   *)
(* it is not.                                                              *)
THEOREM ChunkInvariant == Spec => []Inv
BY InvInit, InvStep, PTL DEF Spec

(* The garbage collector runs without mutex_, and still every referenced    *)
(* chunk keeps its record, a count that covers its references and its file, *)
(* unless StoreChunk counted it up after a cycle had condemned it, dropped  *)
(* an error of LevelDB, or its write failed unnoticed.                     *)
THEOREM ChunkReferencedKept == Spec => []ReferencedChunksKept
<1>1. Inv => ReferencedChunksKept
  BY DEF Inv, TypeOK, KeptUnlessCondemned, ReferencedChunksKept
<1> QED
  BY <1>1, ChunkInvariant, PTL
=============================================================================
