--------------------------- MODULE DedupChunkStore --------------------------
(***************************************************************************)
(* The deduplicating chunk store and its garbage collector                 *)
(* (dedup_chunk_store.cpp): LevelDB maps a chunk's hash to its reference   *)
(* count, the chunk's bytes are in a file of their own.  Client threads    *)
(* store and release chunks under mutex_; the GC thread does not take      *)
(* mutex_, and walks a LevelDB iterator, which is a snapshot.              *)
(*                                                                         *)
(* A chunk stands for its hash.  Encryption, the write or the removal of a *)
(* file, and every LevelDB operation fail or not, within the budget        *)
(* MaxFaults.  StoreChunk takes any failed Get for a new chunk and ignores *)
(* the status of its Put.  A crash, which an exception amounts to, keeps   *)
(* LevelDB and the files.                                                  *)
(***************************************************************************)
EXTENDS Integers, FiniteSets

CONSTANTS
    Clients, Chunks,
    NoClient,
    gc_batch_size,
    MaxRefs,        \* bound on the references clients hold to one chunk
    MaxFaults,      \* bound on failed operations
    MaxCrashes

ASSUME ClientAssumption == NoClient \notin Clients
ASSUME BatchAssumption  == gc_batch_size \in Nat \ {0}
ASSUME BoundAssumption  == {MaxRefs, MaxFaults, MaxCrashes} \subseteq Nat

VARIABLES
    known,          \* chunks with a record in LevelDB
    ref,            \* the count in that record
    files,          \* chunks whose file exists
    mutex,          \* mutex_
    pc, arg, val,   \* each client: position, chunk, count it read
    gc_running,     \* gc_running_
    thread,         \* the GC thread
    todo,           \* unreferenced chunks of the snapshot still to be visited
    batch,          \* the write batch
    control,        \* the thread that calls StartGC and StopGC
    held,           \* references the clients hold (manifests that list the chunk)
    condemned,      \* chunks a cycle took for unreferenced, records not deleted since
    revived,        \* chunks counted up while condemned, or already collected
    unwritten,      \* chunks whose last write failed unnoticed
    uncounted,      \* chunks for which StoreChunk dropped a LevelDB error
    leaked,         \* chunks whose file the collector failed to remove
    faults, crashes

data    == <<known, ref, files>>
client  == <<mutex, pc, arg, val>>
gc      == <<thread, todo, batch>>
ghosts  == <<held, condemned, revived, unwritten, uncounted, leaked>>
vars    == <<data, client, gc_running, gc, control, ghosts, faults, crashes>>

\* The type of every variable.
TypeOK ==
    /\ known \subseteq Chunks /\ files \subseteq Chunks
    /\ ref \in [Chunks -> Nat] /\ held \in [Chunks -> Nat]
    /\ mutex \in Clients \cup {NoClient}
    /\ pc \in [Clients -> {"idle", "increment", "write", "create", "decrement"}]
    /\ arg \in [Clients -> Chunks] /\ val \in [Clients -> Nat]
    /\ gc_running \in BOOLEAN
    /\ thread \in {"none", "test", "cycle", "predicate", "enter", "wait", "done"}
    /\ control \in {"idle", "notify", "join"}
    /\ todo \subseteq Chunks /\ batch \subseteq Chunks
    /\ {condemned, revived, unwritten, uncounted, leaked} \subseteq SUBSET Chunks
    /\ faults \in Nat /\ crashes \in Nat

Init ==
    /\ known = {} /\ files = {}
    /\ ref = [c \in Chunks |-> 0] /\ held = [c \in Chunks |-> 0]
    /\ mutex = NoClient
    /\ pc = [t \in Clients |-> "idle"]
    /\ arg \in [Clients -> Chunks] /\ \A t, u \in Clients : arg[t] = arg[u]
    /\ val = [t \in Clients |-> 0]
    /\ gc_running = FALSE /\ thread = "none" /\ control = "idle"
    /\ todo = {} /\ batch = {}
    /\ condemned = {} /\ revived = {} /\ unwritten = {} /\ uncounted = {} /\ leaked = {}
    /\ faults = 0 /\ crashes = 0

Fault == faults < MaxFaults /\ faults' = faults + 1

-----------------------------------------------------------------------------
(* StoreChunk (the definition with its body) and DecrementRef.             *)

\* Take mutex_ and look the chunk up; if Get fails it is taken for a new one.
StoreChunk(t, c) ==
    /\ pc[t] = "idle" /\ mutex = NoClient /\ held[c] < MaxRefs
    /\ mutex' = t
    /\ arg' = [arg EXCEPT ![t] = c]
    /\ val' = [val EXCEPT ![t] = ref[c]]
    /\ \/ /\ pc' = [pc EXCEPT ![t] = IF c \in known THEN "increment" ELSE "write"]
          /\ UNCHANGED <<uncounted, faults>>
       \/ /\ c \in known /\ Fault
          /\ pc' = [pc EXCEPT ![t] = "write"]
          /\ uncounted' = uncounted \cup {c}
    /\ UNCHANGED <<data, gc_running, gc, control, held, condemned, revived, unwritten,
                   leaked, crashes>>

\* Release mutex_ and return.
Leave(t) ==
    /\ mutex' = NoClient
    /\ pc' = [pc EXCEPT ![t] = "idle"]
    /\ val' = [val EXCEPT ![t] = 0]
    /\ UNCHANGED <<arg, gc_running, gc, control, crashes>>

\* LevelDB Put(hash, n)
PutCount(c, n) ==
    /\ known' = known \cup {c}
    /\ ref' = [ref EXCEPT ![c] = n]

\* StoreChunk does not look at the status of its Put.
PutUntested(c, n) ==
    \/ PutCount(c, n) /\ UNCHANGED <<uncounted, faults>>
    \/ Fault /\ uncounted' = uncounted \cup {c} /\ UNCHANGED <<known, ref>>

\* (mutation) the count read is written back
IncrementLost(t) ==
    /\ pc[t] = "increment"
    /\ PutUntested(arg[t], val[t])
    /\ held' = [held EXCEPT ![arg[t]] = @ + 1]
    /\ revived' = revived \cup ({arg[t]} \ (known \ condemned))
    /\ Leave(t)
    /\ UNCHANGED <<files, condemned, unwritten, leaked>>

\* Exists: count one more reference and return; the file is not looked at.
Increment(t) ==
    /\ pc[t] = "increment"
    /\ PutUntested(arg[t], val[t] + 1)
    /\ held' = [held EXCEPT ![arg[t]] = @ + 1]
    /\ revived' = revived \cup ({arg[t]} \ (known \ condemned))
    /\ Leave(t)
    /\ UNCHANGED <<files, condemned, unwritten, leaked>>

\* New: write the file, without a test of the stream ...
WriteChunk(t) ==
    /\ pc[t] = "write"
    /\ \/ /\ files' = files \cup {arg[t]}
          /\ unwritten' = unwritten \ {arg[t]}
          /\ UNCHANGED faults
       \/ Fault /\ unwritten' = unwritten \cup {arg[t]} /\ UNCHANGED files
    /\ pc' = [pc EXCEPT ![t] = "create"]
    /\ UNCHANGED <<known, ref, mutex, arg, val, gc_running, gc, control, held, condemned,
                   revived, uncounted, leaked, crashes>>

\* ... unless encryption fails: return "".
EncryptFails(t) ==
    /\ pc[t] = "write" /\ Fault
    /\ Leave(t)
    /\ UNCHANGED <<data, ghosts>>

\* ... then its count, 1.
CreateRecord(t) ==
    /\ pc[t] = "create"
    /\ PutUntested(arg[t], 1)
    /\ held' = [held EXCEPT ![arg[t]] = @ + 1]
    /\ Leave(t)
    /\ UNCHANGED <<files, condemned, revived, unwritten, leaked>>

\* A client gives a reference back.  The body is elided in the source ("follow
\* similar pattern"): look up, count down, not below 0, under mutex_.  If Get or
\* Put fails the count stays.
DecrementRef(t, c) ==
    /\ pc[t] = "idle" /\ mutex = NoClient /\ held[c] > 0
    /\ held' = [held EXCEPT ![c] = @ - 1]
    /\ mutex' = t
    /\ arg' = [arg EXCEPT ![t] = c]
    /\ val' = [val EXCEPT ![t] = ref[c]]
    /\ pc' = [pc EXCEPT ![t] = "decrement"]
    /\ UNCHANGED <<data, gc_running, gc, control, condemned, revived, unwritten, uncounted,
                   leaked, faults, crashes>>

\* (mutation) a record that is gone is counted down from 0
CountDownMissing(t) ==
    /\ pc[t] = "decrement"
    /\ PutCount(arg[t], (IF arg[t] \in known THEN val[t] ELSE 0) - 1)
    /\ Leave(t)
    /\ UNCHANGED <<files, ghosts, faults>>

CountDown(t) ==
    /\ pc[t] = "decrement"
    /\ \/ /\ IF arg[t] \in known /\ val[t] > 0
                THEN PutCount(arg[t], val[t] - 1)
                ELSE UNCHANGED <<known, ref>>
          /\ UNCHANGED faults
       \/ Fault /\ UNCHANGED <<known, ref>>
    /\ Leave(t)
    /\ UNCHANGED <<files, ghosts>>

Client(t) ==
    \/ \E c \in Chunks : StoreChunk(t, c) \/ DecrementRef(t, c)
    \/ Increment(t) \/ WriteChunk(t) \/ EncryptFails(t) \/ CreateRecord(t)
    \/ CountDown(t)

-----------------------------------------------------------------------------
(* gc_loop, on the GC thread.                                              *)

\* while (gc_running_): open the iterator; counts above 0 are skipped.  On an
\* error the iterator ends early, which nobody tests.
BeginCycle ==
    /\ thread = "test" /\ gc_running
    /\ thread' = "cycle"
    /\ \/ todo' = {c \in known : ref[c] = 0} /\ UNCHANGED faults
       \/ todo' \in SUBSET {c \in known : ref[c] = 0} /\ Fault
    /\ condemned' = condemned \cup todo'
    /\ UNCHANGED <<data, client, gc_running, batch, control, held, revived, unwritten,
                   uncounted, leaked, crashes>>

BatchFull == Cardinality(batch) = gc_batch_size

\* Remove the file and batch the deletion of the record, even if the removal
\* fails: nothing will find that file again.
Collect(c) ==
    /\ thread = "cycle" /\ ~BatchFull
    /\ \/ files' = files \ {c} /\ leaked' = leaked \ {c} /\ UNCHANGED faults
       \/ c \in files /\ Fault /\ leaked' = leaked \cup {c} /\ UNCHANGED files
    /\ todo' = todo \ {c}
    /\ batch' = batch \cup {c}
    /\ UNCHANGED <<known, ref, client, gc_running, thread, control, held, condemned,
                   revived, unwritten, uncounted, crashes>>

\* (mutation) no final batch: only full batches are written
WriteFullBatch ==
    /\ thread = "cycle" /\ batch # {} /\ (BatchFull \/ todo = {})
    /\ IF BatchFull THEN known' = known \ batch ELSE UNCHANGED known
    /\ batch' = {}
    /\ UNCHANGED <<ref, files, client, gc_running, thread, todo, control, ghosts,
                   faults, crashes>>

\* Write the batch.  An error is logged, and the batch cleared all the same.
WriteBatch ==
    /\ thread = "cycle" /\ batch # {} /\ (BatchFull \/ todo = {})
    /\ \/ /\ known' = known \ batch
          /\ condemned' = condemned \ batch
          /\ UNCHANGED faults
       \/ UNCHANGED <<known, condemned>> /\ Fault
    /\ batch' = {}
    /\ UNCHANGED <<ref, files, client, gc_running, thread, todo, control, held,
                   revived, unwritten, uncounted, leaked, crashes>>

EndCycle ==
    /\ thread = "cycle" /\ todo = {} /\ batch = {}
    /\ thread' = "predicate"
    /\ UNCHANGED <<data, client, gc_running, todo, batch, control, ghosts, faults,
                   crashes>>

-----------------------------------------------------------------------------
(* StartGC, StopGC and the wait of the GC thread.                          *)

Moves(th, ctl) ==
    /\ thread' = th /\ control' = ctl
    /\ UNCHANGED <<data, client, todo, batch, ghosts, faults, crashes>>

StartGC ==
    /\ control = "idle" /\ ~gc_running
    /\ gc_running' = TRUE
    /\ Moves("test", "idle")

\* exchange(false), then notify_all without gc_mutex_, then join.
StopGC ==
    /\ control = "idle" /\ gc_running
    /\ gc_running' = FALSE
    /\ Moves(thread, "notify")

NotifyAll ==
    /\ control = "notify"
    /\ Moves(IF thread = "wait" THEN "predicate" ELSE thread, "join")
    /\ UNCHANGED gc_running

Join ==
    /\ control = "join" /\ thread = "done"
    /\ Moves("none", "idle")
    /\ UNCHANGED gc_running

\* wait_for evaluates its predicate before it waits and when it is woken ...
TestPredicate ==
    /\ thread = "predicate"
    /\ Moves(IF gc_running THEN "enter" ELSE "test", control)
    /\ UNCHANGED gc_running

\* ... then blocks: a notification that came in between is lost ...
EnterWait ==
    /\ thread = "enter"
    /\ Moves("wait", control)
    /\ UNCHANGED gc_running

\* (mutation) wait instead of wait_for: only a notification ends it
NoTimeout == FALSE

\* ... and returns after gc_interval_ in any case.
Timeout ==
    /\ thread = "wait"
    /\ Moves("test", control)
    /\ UNCHANGED gc_running

LeaveLoop ==
    /\ thread = "test" /\ ~gc_running
    /\ Moves("done", control)
    /\ UNCHANGED gc_running

GC ==
    \/ BeginCycle \/ (\E c \in todo : Collect(c)) \/ WriteBatch \/ EndCycle
    \/ TestPredicate \/ EnterWait \/ Timeout \/ LeaveLoop

\* The process ends anywhere and starts again; the GC thread is started anew.
Crash ==
    /\ crashes < MaxCrashes
    /\ crashes' = crashes + 1
    /\ mutex' = NoClient
    /\ pc' = [t \in Clients |-> "idle"] /\ val' = [t \in Clients |-> 0]
    /\ gc_running' = FALSE /\ thread' = "none" /\ control' = "idle"
    /\ todo' = {} /\ batch' = {}
    /\ UNCHANGED <<data, arg, ghosts, faults>>

Next ==
    \/ \E t \in Clients : Client(t)
    \/ GC
    \/ StartGC \/ StopGC \/ NotifyAll \/ Join
    \/ Crash

\* The GC thread is scheduled, its timer runs out, a started StopGC goes on.
Fairness == WF_vars(GC) /\ WF_vars(NotifyAll \/ Join)

Spec == Init /\ [][Next]_vars /\ Fairness

-----------------------------------------------------------------------------
(* References are never under-counted and a referenced chunk has its file, *)
(* unless its write failed unnoticed, for every chunk that StoreChunk has  *)
(* not counted up again after a GC cycle took it for unreferenced, and for *)
(* which it dropped no LevelDB error: through crashes, failed removals and *)
(* batch writes and any interleaving, these are the only ways to lose      *)
(* data.                                                                   *)
ReferencedChunksKept ==
    \A c \in Chunks \ (revived \cup uncounted) :
        held[c] > 0 => c \in known /\ held[c] <= ref[c] /\ c \in files \cup unwritten

(* StopGC returns.  Its notification can fall between the GC thread's test *)
(* of the predicate and its wait, and is lost then: only the timeout of    *)
(* the wait ends the wait, and the join.                                   *)
StopReturns == control = "notify" ~> control = "idle"

(* The record of an unreferenced chunk is deleted, and its file is gone by *)
(* then, unless the chunk is referenced again or the collector stops.  Two *)
(* kinds of files stay behind without a record: one whose removal failed,  *)
(* and one that StoreChunk wrote because its Get failed.                   *)
GarbageCollected ==
    \A c \in Chunks :
        c \in known /\ ref[c] = 0 /\ gc_running
            ~> \/ c \notin known /\ c \notin files \ (leaked \cup uncounted)
               \/ ref[c] > 0 \/ ~gc_running

-----------------------------------------------------------------------------
(* The inductive invariant of ReferencedChunksKept.                        *)

\* Whoever is inside StoreChunk or DecrementRef holds mutex_, so that the count
\* it read is current and a chunk it found new is still unknown, unless Get
\* failed; the GC thread changes neither.
LookupsCurrent ==
    \A t \in Clients :
        /\ pc[t] # "idle" => mutex = t
        /\ pc[t] \in {"increment", "decrement"} => val[t] = ref[arg[t]]
        /\ pc[t] \in {"write", "create"} => arg[t] \notin known \ uncounted

\* The cycle works on chunks it has condemned, which have their record still.
\* Between cycles nothing is left over, and StartGC finds no thread: StopGC has
\* joined it.
CycleCondemned ==
    /\ todo \cup batch \subseteq condemned /\ condemned \subseteq known
    /\ todo \cap batch = {}
    /\ thread # "cycle" => todo = {} /\ batch = {}
    /\ control = "idle" /\ ~gc_running => thread = "none"

\* A chunk never revived or uncounted has count 0 if condemned, and its file if not; its
\* count covers the reference that is being given back.
KeptUnlessCondemned ==
    \A c \in Chunks \ (revived \cup uncounted) :
        /\ c \in condemned => ref[c] = 0
        /\ c \in known \ condemned => c \in files \cup unwritten
        /\ held[c] > 0 => c \in known /\ held[c] <= ref[c]
        /\ \A t \in Clients :
              arg[t] = c =>
                  /\ pc[t] = "create" => c \in files \cup unwritten
                  /\ pc[t] = "decrement" => c \in known /\ held[c] < ref[c]

Inv == TypeOK /\ LookupsCurrent /\ CycleCondemned /\ KeptUnlessCondemned
=============================================================================
