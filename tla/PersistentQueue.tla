--------------------------- MODULE PersistentQueue --------------------------
(***************************************************************************)
(* The persistent replication queue (sync_engine.cpp, second constructor   *)
(* to the end of the file): LevelDB holds the tasks under                  *)
(* "task:<sequence>" and the next sequence number under "meta:next_seq";   *)
(* the priority queue task_cache_ holds the tasks of this run of the       *)
(* process.  S3 request threads call QueueReplication, worker threads run  *)
(* worker_loop.                                                            *)
(*                                                                         *)
(* A LevelDB write fails (the fault budget MaxFaults) or is applied.  A    *)
(* crash takes everything but db and meta_seq, and the constructor runs    *)
(* again at once.  std::mutex gives no meaning to locking a mutex the      *)
(* thread owns, which worker_loop does: RelockOutcomes holds the outcomes  *)
(* considered, "blocks" (glibc: forever) and "grants".                     *)
(***************************************************************************)
EXTENDS Integers

CONSTANTS
    Producers,      \* threads that call QueueReplication
    Workers,        \* threads that run worker_loop
    NoThread,
    RelockOutcomes,
    MaxTasks,       \* bound on calls of QueueReplication
    MaxFaults,      \* bound on failed LevelDB operations
    MaxCrashes      \* bound on restarts of the process

Threads == Producers \cup Workers

ASSUME ThreadAssumption  == NoThread \notin Threads /\ Producers \cap Workers = {}
ASSUME RelockAssumption  == RelockOutcomes \subseteq {"blocks", "grants"}
ASSUME BoundsAssumption  == {MaxTasks, MaxFaults, MaxCrashes} \subseteq Nat

VARIABLES
    db,             \* the task records in LevelDB
    meta_seq,       \* "meta:next_seq" in LevelDB (absent reads as 0)
    next_sequence,  \* next_sequence_
    cache,          \* task_cache_
    db_mutex, cache_mutex,   \* their owners
    running,        \* running_
    pc, mine,       \* each thread's position, and the record it works on
    calls,          \* tasks offered so far; task n is the n-th call's
    acked,          \* tasks for which enqueue_task returned true
    taken,          \* tasks dequeue_task removed from LevelDB
    finished,       \* tasks whose worker completed the rest of its loop body
    last,           \* sequence last dequeued in this run of the process, or -1
    meta_ok,        \* has every access to "meta:next_seq" succeeded so far?
    faults, crashes

store    == <<db, meta_seq, meta_ok>>
memory   == <<next_sequence, cache, db_mutex, cache_mutex, running, pc, mine, last>>
history  == <<calls, acked, taken, finished>>
vars     == <<store, memory, history, faults, crashes>>

Record == [seq : Nat, task : Nat]

PC == {"idle", "put", "meta", "push",                       \* enqueue_task
       "relock", "wedged", "delete", "pop", "working"}      \* worker_loop

\* The type of every variable.
TypeOK ==
    /\ db \subseteq Record /\ cache \subseteq Record
    /\ meta_seq \in Nat /\ next_sequence \in Nat
    /\ db_mutex \in Producers \cup {NoThread}
    /\ cache_mutex \in Workers \cup {NoThread}
    /\ running \in BOOLEAN
    /\ pc \in [Threads -> PC]
    /\ mine \in [Threads -> Record]
    /\ last \in Int
    /\ calls \in Nat
    /\ acked \subseteq Nat /\ taken \subseteq Nat /\ finished \subseteq Nat
    /\ meta_ok \in BOOLEAN
    /\ faults \in Nat /\ crashes \in Nat

NoRecord == [seq |-> 0, task |-> 0]

\* The constructor on an empty directory.
Init ==
    /\ db = {} /\ meta_seq = 0 /\ meta_ok = TRUE
    /\ next_sequence = 0 /\ cache = {} /\ last = -1
    /\ db_mutex = NoThread /\ cache_mutex = NoThread
    /\ running = TRUE
    /\ pc = [t \in Threads |-> "idle"]
    /\ mine = [t \in Threads |-> NoRecord]
    /\ calls = 0 /\ acked = {} /\ taken = {} /\ finished = {}
    /\ faults = 0 /\ crashes = 0

Goto(t, l) == pc' = [pc EXCEPT ![t] = l]

\* One more LevelDB operation fails.
Fault == faults < MaxFaults /\ faults' = faults + 1

-----------------------------------------------------------------------------
(* QueueReplication and enqueue_task, under db_mutex_.                     *)

\* Take db_mutex_ and a sequence number.
QueueReplication(p) ==
    /\ pc[p] = "idle" /\ db_mutex = NoThread /\ calls < MaxTasks
    /\ calls' = calls + 1
    /\ mine' = [mine EXCEPT ![p] = [seq |-> next_sequence, task |-> calls + 1]]
    /\ next_sequence' = next_sequence + 1
    /\ db_mutex' = p
    /\ Goto(p, "put")
    /\ UNCHANGED <<store, cache, cache_mutex, running, last, acked, taken,
                   finished, faults, crashes>>

\* Put replaces whatever record has this sequence number.
PutTask(p) ==
    /\ pc[p] = "put"
    /\ db' = {r \in db : r.seq # mine[p].seq} \cup {mine[p]}
    /\ Goto(p, "meta")
    /\ UNCHANGED <<meta_seq, meta_ok, next_sequence, cache, db_mutex, cache_mutex,
                   running, mine, last, history, faults, crashes>>

\* Put failed: return false, the sequence number is spent.
PutFails(p) ==
    /\ pc[p] = "put" /\ Fault
    /\ db_mutex' = NoThread
    /\ Goto(p, "idle")
    /\ UNCHANGED <<store, next_sequence, cache, cache_mutex, running, mine,
                   last, history, crashes>>

\* (mutation) what is persisted is the number just used, not the next one
PersistUsedSequence(p) ==
    /\ pc[p] = "meta"
    /\ meta_seq' = mine[p].seq
    /\ Goto(p, "push")
    /\ UNCHANGED <<db, meta_ok, next_sequence, cache, db_mutex, cache_mutex,
                   running, mine, last, history, faults, crashes>>

persist_next_sequence(p) ==
    /\ pc[p] = "meta"
    /\ meta_seq' = next_sequence
    /\ Goto(p, "push")
    /\ UNCHANGED <<db, meta_ok, next_sequence, cache, db_mutex, cache_mutex,
                   running, mine, last, history, faults, crashes>>

\* persist_next_sequence ignores the status of its Put.
PersistFails(p) ==
    /\ pc[p] = "meta" /\ Fault
    /\ meta_ok' = FALSE
    /\ Goto(p, "push")
    /\ UNCHANGED <<db, meta_seq, next_sequence, cache, db_mutex, cache_mutex,
                   running, mine, last, history, crashes>>

\* Push under cache_mutex_, release both mutexes, return true.
PushTask(p) ==
    /\ pc[p] = "push" /\ cache_mutex = NoThread
    /\ cache' = cache \cup {mine[p]}
    /\ acked' = acked \cup {mine[p].task}
    /\ db_mutex' = NoThread
    /\ Goto(p, "idle")
    /\ UNCHANGED <<store, next_sequence, cache_mutex, running, mine, last,
                   calls, taken, finished, faults, crashes>>

Producer(p) ==
    \/ QueueReplication(p) \/ PutTask(p) \/ PutFails(p)
    \/ persist_next_sequence(p) \/ PersistFails(p) \/ PushTask(p)

-----------------------------------------------------------------------------
(* worker_loop and dequeue_task, under cache_mutex_.                       *)

\* An empty cache is unlocked again and slept on, which changes nothing.
LockCache(w) ==
    /\ pc[w] = "idle" /\ running /\ cache_mutex = NoThread /\ cache # {}
    /\ cache_mutex' = w
    /\ Goto(w, "relock")
    /\ UNCHANGED <<store, next_sequence, cache, db_mutex, running, mine, last,
                   history, faults, crashes>>

\* dequeue_task locks the mutex its caller holds.
Relock(w) ==
    /\ pc[w] = "relock"
    /\ \/ "blocks" \in RelockOutcomes /\ Goto(w, "wedged")
       \/ "grants" \in RelockOutcomes /\ Goto(w, "delete")
    /\ UNCHANGED <<store, next_sequence, cache, db_mutex, cache_mutex, running,
                   mine, last, history, faults, crashes>>

\* (mutation) the priority queue is a max-heap (std::less for std::greater)
IsBottom(r) == r \in cache /\ \A s \in cache : s.seq <= r.seq

\* task_cache_.top(): the least sequence number
IsTop(r) == r \in cache /\ \A s \in cache : r.seq <= s.seq

\* Delete the top task's record from LevelDB.
DeleteTask(w) ==
    /\ pc[w] = "delete"
    /\ \E top \in cache :
          /\ IsTop(top)
          /\ mine' = [mine EXCEPT ![w] = top]
          /\ db' = {r \in db : r.seq # top.seq}
          /\ taken' = taken \cup {top.task}
    /\ Goto(w, "pop")
    /\ UNCHANGED <<meta_seq, meta_ok, next_sequence, cache, db_mutex, cache_mutex,
                   running, last, calls, acked, finished, faults, crashes>>

\* (mutation) pop before the status of Delete is looked at
DeleteFailsAfterPop(w) ==
    /\ pc[w] = "delete" /\ Fault
    /\ \E top \in cache : IsTop(top) /\ cache' = cache \ {top}
    /\ cache_mutex' = NoThread
    /\ Goto(w, "idle")
    /\ UNCHANGED <<store, next_sequence, db_mutex, running, mine, last,
                   history, crashes>>

\* (mutation) return false with cache_mutex_ locked
DeleteFailsLocked(w) ==
    /\ pc[w] = "delete" /\ Fault
    /\ Goto(w, "idle")
    /\ UNCHANGED <<store, next_sequence, cache, db_mutex, cache_mutex, running, mine,
                   last, history, crashes>>

\* Delete failed: return false, the task stays queued.
DeleteFails(w) ==
    /\ pc[w] = "delete" /\ Fault
    /\ cache_mutex' = NoThread
    /\ Goto(w, "idle")
    /\ UNCHANGED <<store, next_sequence, cache, db_mutex, running, mine, last,
                   history, crashes>>

\* (mutation) return true without task_cache_.pop()
ReturnWithoutPop(w) ==
    /\ pc[w] = "pop"
    /\ last' = mine[w].seq
    /\ cache_mutex' = NoThread
    /\ Goto(w, "working")
    /\ UNCHANGED <<store, next_sequence, cache, db_mutex, running, mine, history,
                   faults, crashes>>

\* pop, and return true through both lock guards.
PopTask(w) ==
    /\ pc[w] = "pop"
    /\ cache' = cache \ {mine[w]}
    /\ last' = mine[w].seq
    /\ cache_mutex' = NoThread
    /\ Goto(w, "working")
    /\ UNCHANGED <<store, next_sequence, db_mutex, running, mine, history,
                   faults, crashes>>

\* The rest of the loop body (elided in the source: the replication attempts).
FinishTask(w) ==
    /\ pc[w] = "working"
    /\ finished' = finished \cup {mine[w].task}
    /\ Goto(w, "idle")
    /\ UNCHANGED <<store, next_sequence, cache, db_mutex, cache_mutex, running,
                   mine, last, calls, acked, taken, faults, crashes>>

Worker(w) ==
    \/ LockCache(w) \/ Relock(w) \/ DeleteTask(w) \/ DeleteFails(w)
    \/ PopTask(w) \/ FinishTask(w)

-----------------------------------------------------------------------------
(* Stop, and the end and the start of the process.                         *)

Stop ==
    /\ running
    /\ running' = FALSE
    /\ UNCHANGED <<store, next_sequence, cache, db_mutex, cache_mutex, pc, mine,
                   last, history, faults, crashes>>

\* (mutation) the persisted number is taken for the last one used
load_last_sequence ==
    \/ next_sequence' = meta_seq - 1 /\ UNCHANGED <<meta_seq, meta_ok, faults>>
    \/ /\ Fault
       /\ next_sequence' = 0
       /\ meta_seq' \in {0, meta_seq}
       /\ meta_ok' = FALSE

\* load_next_sequence, or a failed Get: start over at 0 and persist that.
load_next_sequence ==
    \/ next_sequence' = meta_seq /\ UNCHANGED <<meta_seq, meta_ok, faults>>
    \/ /\ Fault
       /\ next_sequence' = 0
       /\ meta_seq' \in {0, meta_seq}
       /\ meta_ok' = FALSE

\* The process ends, at any point (a crash, or the destructor once Stop has
\* joined the workers), and the constructor runs again: the cache starts empty.
Restart ==
    /\ crashes < MaxCrashes
    /\ crashes' = crashes + 1
    /\ load_next_sequence
    /\ cache' = {} /\ last' = -1
    /\ db_mutex' = NoThread /\ cache_mutex' = NoThread
    /\ running' = TRUE
    /\ pc' = [t \in Threads |-> "idle"]
    /\ UNCHANGED <<db, mine, history>>

Next ==
    \/ \E p \in Producers : Producer(p)
    \/ \E w \in Workers : Worker(w)
    \/ Stop \/ Restart

\* A thread that can take its next step eventually does.
Fairness ==
    /\ \A p \in Producers : WF_vars(Producer(p))
    /\ \A w \in Workers : WF_vars(Worker(w))

Spec == Init /\ [][Next]_vars /\ Fairness

-----------------------------------------------------------------------------
Queued(t) == \E r \in db : r.task = t

(* The cache never promises more than the store holds: a cached task has   *)
(* its record in LevelDB, except the one a worker has just deleted and is  *)
(* about to pop.                                                           *)
CacheBackedByStore ==
    \A r \in cache :
        r \in db \/ \E w \in Workers : pc[w] = "pop" /\ mine[w] = r

(* Until the process is restarted the store holds nothing the workers will *)
(* not see: a record is in the cache, or a producer is about to push it.   *)
(* After a restart nothing loads the records that are left (the comment on *)
(* the constructor speaks of a scan on the first dequeue).                 *)
StoredIsCached ==
    crashes = 0 =>
        \A r \in db :
            r \in cache \/ \E p \in Producers : pc[p] \in {"meta", "push"} /\ mine[p] = r

(* Tasks leave in the order of their sequence numbers: whatever the        *)
(* interleaving of producers, no task enters the cache below one that was  *)
(* already dequeued (QueuedTask::sequence, "for ordering").                *)
DequeuesInOrder == \A r \in cache : last < r.seq

(* As long as "meta:next_seq" was written and read without error, a task   *)
(* reported as persisted is in LevelDB until dequeue_task removes it, over *)
(* any number of crashes: no later task overwrites its record.             *)
AckedStaysQueued == meta_ok => \A t \in acked : Queued(t) \/ t \in taken

(* Every task reported as persisted is eventually worked off, unless the   *)
(* engine is stopped (Stop does not drain the queue).                      *)
AckedEventuallyFinished ==
    \A t \in 1..MaxTasks : t \in acked ~> t \in finished \/ ~running

(* A task in the cache is eventually worked off, through failing LevelDB   *)
(* operations and any competition of the workers, unless the engine is     *)
(* stopped, the process ends (n restarts so far), or a worker is wedged on *)
(* the mutex it holds.                                                     *)
CachedEventuallyFinished ==
    \A t \in 1..MaxTasks, n \in 0..MaxCrashes :
        (\E r \in cache : r.task = t) /\ crashes = n
            ~> \/ t \in finished \/ ~running \/ crashes # n
               \/ \E w \in Workers : pc[w] = "wedged"

-----------------------------------------------------------------------------
(* The inductive invariant behind CacheBackedByStore, DequeuesInOrder and  *)
(* AckedStaysQueued.                                                       *)

\* db_mutex_ covers enqueue_task and cache_mutex_ covers dequeue_task.
MutexesHeld ==
    /\ \A p \in Producers :
          /\ pc[p] \in {"idle", "put", "meta", "push"}
          /\ pc[p] # "idle" <=> db_mutex = p
    /\ \A w \in Workers :
          /\ pc[w] \in {"idle", "relock", "wedged", "delete", "pop", "working"}
          /\ pc[w] \in {"relock", "wedged", "delete", "pop"} <=> cache_mutex = w

\* Records are identified by their sequence numbers.
SequencesUnique ==
    /\ \A r, s \in cache : r.seq = s.seq => r = s
    /\ \A r, s \in db : r.seq = s.seq => r = s

\* The number a producer works with is above everything cached or dequeued.
SequencesGrow ==
    /\ last < next_sequence
    /\ \A r \in cache : r.seq < next_sequence
    /\ \A p \in Producers : pc[p] # "idle" =>
          /\ mine[p].seq = next_sequence - 1
          /\ last < mine[p].seq
          /\ \A r \in cache : r.seq < mine[p].seq

\* A worker pops the record it deleted, and it is still the top.
PopsTheTop ==
    \A w \in Workers : pc[w] = "pop" =>
        mine[w] \in cache /\ \A s \in cache : s = mine[w] \/ mine[w].seq < s.seq

\* Between its two writes a producer's record is in the store.
PutBeforePersist ==
    \A p \in Producers : pc[p] \in {"meta", "push"} => mine[p] \in db

\* Accepted records lie below "meta:next_seq", new ones at or above it.
MetaSeparates ==
    meta_ok =>
        /\ meta_seq <= next_sequence
        /\ \A p \in Producers :
              /\ pc[p] = "put" => meta_seq <= mine[p].seq
              /\ pc[p] = "push" => mine[p].seq < meta_seq
        /\ \A t \in acked :
              t \in taken \/ \E r \in db : r.task = t /\ r.seq < meta_seq

\* The record a worker is about to pop is not in the store.
DeletedBeforePop ==
    \A w \in Workers : pc[w] = "pop" => mine[w] \notin db

Inv ==
    /\ TypeOK /\ MutexesHeld /\ SequencesUnique /\ SequencesGrow /\ PopsTheTop
    /\ PutBeforePersist /\ MetaSeparates /\ CacheBackedByStore /\ DequeuesInOrder

\* With Inv, what StoredIsCached rests on.
StoreInv == StoredIsCached /\ DeletedBeforePop
=============================================================================
