------------------------ MODULE PersistentQueueProofs -----------------------
(* Proofs about the persistent queue for any number of producers and        *)
(* workers, any number of tasks, failed LevelDB operations and restarts,    *)
(* and either outcome of the relock of cache_mutex_.                        *)
EXTENDS PersistentQueue, TLAPS

\* A fault only counts.
LEMMA FaultCounts ==
    ASSUME faults \in Nat, Fault
    PROVE  faults' \in Nat
  BY DEF Fault

\* The first start of the process: empty cache, empty store, free mutexes.
LEMMA InvInit == Init => Inv
<1> SUFFICES ASSUME Init PROVE Inv
  OBVIOUS
<1> USE ThreadAssumption DEF Init, Threads
<1>1. TypeOK
  BY DEF TypeOK, Record, NoRecord, PC
<1>2. MutexesHeld
  BY DEF MutexesHeld
<1>3. SequencesUnique /\ SequencesGrow /\ PopsTheTop /\ PutBeforePersist
  BY DEF SequencesUnique, SequencesGrow, PopsTheTop, PutBeforePersist
<1>4. MetaSeparates /\ CacheBackedByStore /\ DequeuesInOrder
  BY DEF MetaSeparates, CacheBackedByStore, DequeuesInOrder
<1> QED
  BY <1>1, <1>2, <1>3, <1>4 DEF Inv

\* The steps of enqueue_task keep the types.
LEMMA ProducerType ==
    ASSUME TypeOK, NEW p \in Producers, Producer(p)
    PROVE  TypeOK'
<1> USE ThreadAssumption
        DEF TypeOK, Threads, PC, Record, store, memory, history, Goto
<1>1. CASE QueueReplication(p)
  BY <1>1 DEF QueueReplication
<1>2. CASE PutTask(p)
  BY <1>2 DEF PutTask
<1>3. CASE PutFails(p)
  BY <1>3, FaultCounts DEF PutFails
<1>4. CASE persist_next_sequence(p)
  BY <1>4 DEF persist_next_sequence
<1>5. CASE PersistFails(p)
  BY <1>5, FaultCounts DEF PersistFails
<1>6. CASE PushTask(p)
  BY <1>6 DEF PushTask
<1> QED
  BY <1>1, <1>2, <1>3, <1>4, <1>5, <1>6 DEF Producer

\* The steps of worker_loop and dequeue_task keep the types.
LEMMA WorkerType ==
    ASSUME TypeOK, NEW w \in Workers, Worker(w)
    PROVE  TypeOK'
<1> USE ThreadAssumption
        DEF TypeOK, Threads, PC, Record, store, memory, history, Goto
<1>1. CASE LockCache(w)
  BY <1>1 DEF LockCache
<1>2. CASE Relock(w)
  BY <1>2 DEF Relock
<1>3. CASE DeleteTask(w)
  BY <1>3 DEF DeleteTask
<1>4. CASE DeleteFails(w)
  BY <1>4, FaultCounts DEF DeleteFails
<1>5. CASE PopTask(w)
  BY <1>5 DEF PopTask
<1>6. CASE FinishTask(w)
  BY <1>6 DEF FinishTask
<1> QED
  BY <1>1, <1>2, <1>3, <1>4, <1>5, <1>6 DEF Worker

\* Stop and a restart keep the types.
LEMMA EngineType ==
    ASSUME TypeOK, Stop \/ Restart
    PROVE  TypeOK'
<1> USE DEF TypeOK, Threads, PC, Record, store, memory, history
<1>1. CASE Stop
  BY <1>1 DEF Stop
<1>2. CASE Restart
  <2>1. /\ next_sequence' \in Nat /\ meta_seq' \in Nat
        /\ meta_ok' \in BOOLEAN /\ faults' \in Nat
    <3>1. CASE next_sequence' = meta_seq /\ UNCHANGED <<meta_seq, meta_ok, faults>>
      BY <3>1
    <3>2. CASE /\ Fault
               /\ next_sequence' = 0
               /\ meta_seq' \in {0, meta_seq}
               /\ meta_ok' = FALSE
      <4>1. meta_ok' \in BOOLEAN
        BY <3>2
      <4>2. faults' \in Nat
        BY <3>2, FaultCounts
      <4>3. next_sequence' \in Nat /\ meta_seq' \in Nat
        BY <3>2
      <4> QED
        BY <4>1, <4>2, <4>3
    <3> QED
      BY <1>2, <3>1, <3>2 DEF Restart, load_next_sequence
  <2> QED
    BY <1>2, <2>1 DEF Restart
<1> QED
  BY <1>1, <1>2

\* enqueue_task takes db_mutex_ and a number above everything cached.
LEMMA QueueReplicationInv ==
    ASSUME Inv, NEW p \in Producers, QueueReplication(p)
    PROVE  Inv'
<1> USE ThreadAssumption
        DEF Inv, TypeOK, Threads, Record, store, history, Goto, QueueReplication
<1>1. TypeOK'
  BY ProducerType DEF Producer
<1>2. /\ MutexesHeld' /\ SequencesUnique' /\ PopsTheTop'
      /\ PutBeforePersist' /\ MetaSeparates' /\ CacheBackedByStore'
      /\ DequeuesInOrder'
  BY DEF MutexesHeld, SequencesUnique, PopsTheTop, PutBeforePersist,
         MetaSeparates, CacheBackedByStore, DequeuesInOrder
<1>3. SequencesGrow'
  BY DEF MutexesHeld, SequencesGrow
<1> QED
  BY <1>1, <1>2, <1>3

\* The record written replaces no cached and, with meta_ok, no accepted one.
LEMMA PutTaskInv ==
    ASSUME Inv, NEW p \in Producers, PutTask(p)
    PROVE  Inv'
<1> USE ThreadAssumption
        DEF Inv, TypeOK, Threads, Record, store, history, Goto, PutTask
<1>1. TypeOK'
  BY ProducerType DEF Producer
<1>2. /\ MutexesHeld' /\ SequencesUnique' /\ SequencesGrow'
      /\ PopsTheTop' /\ MetaSeparates' /\ DequeuesInOrder'
  BY DEF MutexesHeld, SequencesUnique, SequencesGrow, PopsTheTop,
         MetaSeparates, DequeuesInOrder
<1>3. PutBeforePersist'
  BY DEF MutexesHeld, PutBeforePersist
<1>4. CacheBackedByStore'
  BY DEF SequencesGrow, CacheBackedByStore
<1> QED
  BY <1>1, <1>2, <1>3, <1>4

\* A failed Put gives the mutex back and leaves a gap in the numbers.
LEMMA PutFailsInv ==
    ASSUME Inv, NEW p \in Producers, PutFails(p)
    PROVE  Inv'
<1> USE ThreadAssumption
        DEF Inv, TypeOK, Threads, Record, store, history, Goto, PutFails
<1>1. TypeOK'
  BY ProducerType DEF Producer
<1>2. /\ MutexesHeld' /\ SequencesUnique' /\ SequencesGrow'
      /\ PopsTheTop' /\ PutBeforePersist' /\ MetaSeparates'
      /\ CacheBackedByStore' /\ DequeuesInOrder'
  BY DEF MutexesHeld, SequencesUnique, SequencesGrow, PopsTheTop,
         PutBeforePersist, MetaSeparates, CacheBackedByStore,
         DequeuesInOrder
<1> QED
  BY <1>1, <1>2

\* Persisting the next number moves the new record below meta_seq.
LEMMA PersistInv ==
    ASSUME Inv, NEW p \in Producers, persist_next_sequence(p)
    PROVE  Inv'
<1> USE ThreadAssumption
        DEF Inv, TypeOK, Threads, Record, store, history, Goto, persist_next_sequence
<1>1. TypeOK'
  BY ProducerType DEF Producer
<1>2. /\ MutexesHeld' /\ SequencesUnique' /\ SequencesGrow'
      /\ PopsTheTop' /\ PutBeforePersist' /\ CacheBackedByStore'
      /\ DequeuesInOrder'
  BY DEF MutexesHeld, SequencesUnique, SequencesGrow, PopsTheTop,
         PutBeforePersist, CacheBackedByStore, DequeuesInOrder
<1>3. MetaSeparates'
  BY DEF MutexesHeld, SequencesGrow, MetaSeparates
<1> QED
  BY <1>1, <1>2, <1>3

\* An ignored write error of meta:next_seq voids what meta_ok promises.
LEMMA PersistFailsInv ==
    ASSUME Inv, NEW p \in Producers, PersistFails(p)
    PROVE  Inv'
<1> USE ThreadAssumption
        DEF Inv, TypeOK, Threads, Record, store, history, Goto, PersistFails
<1>1. TypeOK'
  BY ProducerType DEF Producer
<1>2. /\ MutexesHeld' /\ SequencesUnique' /\ SequencesGrow'
      /\ PopsTheTop' /\ PutBeforePersist' /\ MetaSeparates'
      /\ CacheBackedByStore' /\ DequeuesInOrder'
  BY DEF MutexesHeld, SequencesUnique, SequencesGrow, PopsTheTop,
         PutBeforePersist, MetaSeparates, CacheBackedByStore,
         DequeuesInOrder
<1> QED
  BY <1>1, <1>2

\* The record pushed is in the store, below meta_seq, above the cache.
LEMMA PushTaskInv ==
    ASSUME Inv, NEW p \in Producers, PushTask(p)
    PROVE  Inv'
<1> USE ThreadAssumption
        DEF Inv, TypeOK, Threads, Record, store, history, Goto, PushTask
<1>1. TypeOK'
  BY ProducerType DEF Producer
<1>2. /\ MutexesHeld' /\ PutBeforePersist'
  BY DEF MutexesHeld, PutBeforePersist
<1>3. SequencesUnique'
  BY DEF SequencesUnique, SequencesGrow
<1>4. SequencesGrow'
  BY DEF MutexesHeld, SequencesGrow
<1>5. PopsTheTop'
  BY DEF SequencesGrow, PopsTheTop
<1>6. MetaSeparates'
  BY DEF PutBeforePersist, MetaSeparates
<1>7. CacheBackedByStore'
  BY DEF PutBeforePersist, CacheBackedByStore
<1>8. DequeuesInOrder'
  BY DEF SequencesGrow, DequeuesInOrder
<1> QED
  BY <1>1, <1>2, <1>3, <1>4, <1>5, <1>6, <1>7, <1>8

\* worker_loop takes cache_mutex_.
LEMMA LockCacheInv ==
    ASSUME Inv, NEW w \in Workers, LockCache(w)
    PROVE  Inv'
<1> USE ThreadAssumption
        DEF Inv, TypeOK, Threads, Record, store, history, Goto, LockCache
<1>1. TypeOK'
  BY WorkerType DEF Worker
<1>2. /\ MutexesHeld' /\ SequencesUnique' /\ SequencesGrow'
      /\ PopsTheTop' /\ PutBeforePersist' /\ MetaSeparates'
      /\ CacheBackedByStore' /\ DequeuesInOrder'
  BY DEF MutexesHeld, SequencesUnique, SequencesGrow, PopsTheTop,
         PutBeforePersist, MetaSeparates, CacheBackedByStore,
         DequeuesInOrder
<1> QED
  BY <1>1, <1>2

\* Blocked or granted, the worker still owns cache_mutex_.
LEMMA RelockInv ==
    ASSUME Inv, NEW w \in Workers, Relock(w)
    PROVE  Inv'
<1> USE ThreadAssumption
        DEF Inv, TypeOK, Threads, Record, store, history, Goto, Relock
<1>1. TypeOK'
  BY WorkerType DEF Worker
<1>2. /\ MutexesHeld' /\ SequencesUnique' /\ SequencesGrow'
      /\ PopsTheTop' /\ PutBeforePersist' /\ MetaSeparates'
      /\ CacheBackedByStore' /\ DequeuesInOrder'
  BY DEF MutexesHeld, SequencesUnique, SequencesGrow, PopsTheTop,
         PutBeforePersist, MetaSeparates, CacheBackedByStore,
         DequeuesInOrder
<1> QED
  BY <1>1, <1>2

\* Deleting by number removes exactly the top task's record.
LEMMA DeleteTaskInv ==
    ASSUME Inv, NEW w \in Workers, DeleteTask(w)
    PROVE  Inv'
<1> USE ThreadAssumption
        DEF Inv, TypeOK, Threads, Record, store, history, Goto, DeleteTask
<1>1. TypeOK'
  BY WorkerType DEF Worker
<1>2. /\ MutexesHeld' /\ SequencesUnique' /\ SequencesGrow'
      /\ DequeuesInOrder'
  BY DEF MutexesHeld, SequencesUnique, SequencesGrow, DequeuesInOrder
<1>3. PopsTheTop'
  <2>1. PICK top \in cache : IsTop(top) /\ mine' = [mine EXCEPT ![w] = top]
    OBVIOUS
  <2>2. \A s \in cache : s = top \/ top.seq < s.seq
    BY <2>1 DEF SequencesUnique, IsTop
  <2> QED
    BY <2>1, <2>2 DEF PopsTheTop
<1>4. PutBeforePersist'
  BY DEF SequencesGrow, PutBeforePersist
<1>5. MetaSeparates'
  BY DEF MutexesHeld, SequencesUnique, MetaSeparates, CacheBackedByStore
<1>6. CacheBackedByStore'
  BY DEF SequencesUnique, CacheBackedByStore
<1> QED
  BY <1>1, <1>2, <1>3, <1>4, <1>5, <1>6

\* A failed Delete leaves cache and store as they were.
LEMMA DeleteFailsInv ==
    ASSUME Inv, NEW w \in Workers, DeleteFails(w)
    PROVE  Inv'
<1> USE ThreadAssumption
        DEF Inv, TypeOK, Threads, Record, store, history, Goto, DeleteFails
<1>1. TypeOK'
  BY WorkerType DEF Worker
<1>2. /\ MutexesHeld' /\ SequencesUnique' /\ SequencesGrow'
      /\ PopsTheTop' /\ PutBeforePersist' /\ MetaSeparates'
      /\ CacheBackedByStore' /\ DequeuesInOrder'
  BY DEF MutexesHeld, SequencesUnique, SequencesGrow, PopsTheTop,
         PutBeforePersist, MetaSeparates, CacheBackedByStore,
         DequeuesInOrder
<1> QED
  BY <1>1, <1>2

\* Popping the least number keeps everything cached above last.
LEMMA PopTaskInv ==
    ASSUME Inv, NEW w \in Workers, PopTask(w)
    PROVE  Inv'
<1> USE ThreadAssumption
        DEF Inv, TypeOK, Threads, Record, store, history, Goto, PopTask
<1>1. TypeOK'
  BY WorkerType DEF Worker
<1>2. /\ MutexesHeld' /\ SequencesUnique' /\ PutBeforePersist'
      /\ MetaSeparates' /\ CacheBackedByStore'
  BY DEF MutexesHeld, SequencesUnique, PutBeforePersist, MetaSeparates,
         CacheBackedByStore
<1>3. SequencesGrow'
  BY DEF SequencesGrow, PopsTheTop
<1>4. PopsTheTop'
  BY DEF MutexesHeld, PopsTheTop
<1>5. DequeuesInOrder'
  BY DEF PopsTheTop, DequeuesInOrder
<1> QED
  BY <1>1, <1>2, <1>3, <1>4, <1>5

\* The rest of the loop body touches neither cache nor store.
LEMMA FinishTaskInv ==
    ASSUME Inv, NEW w \in Workers, FinishTask(w)
    PROVE  Inv'
<1> USE ThreadAssumption
        DEF Inv, TypeOK, Threads, Record, store, history, Goto, FinishTask
<1>1. TypeOK'
  BY WorkerType DEF Worker
<1>2. /\ MutexesHeld' /\ SequencesUnique' /\ SequencesGrow'
      /\ PopsTheTop' /\ PutBeforePersist' /\ MetaSeparates'
      /\ CacheBackedByStore' /\ DequeuesInOrder'
  BY DEF MutexesHeld, SequencesUnique, SequencesGrow, PopsTheTop,
         PutBeforePersist, MetaSeparates, CacheBackedByStore,
         DequeuesInOrder
<1> QED
  BY <1>1, <1>2

\* A new process has an empty cache, free mutexes and idle threads; its first
\* number is the persisted one.
LEMMA RestartInv ==
    ASSUME Inv, Restart
    PROVE  Inv'
<1> USE ThreadAssumption DEF Inv, TypeOK, Threads, Record, history, Restart
<1>1. TypeOK'
  BY EngineType
<1>2. /\ MutexesHeld' /\ SequencesUnique' /\ PopsTheTop'
      /\ PutBeforePersist' /\ CacheBackedByStore' /\ DequeuesInOrder'
  BY DEF MutexesHeld, SequencesUnique, PopsTheTop, PutBeforePersist,
         CacheBackedByStore, DequeuesInOrder
<1>3. SequencesGrow'
  BY <1>1 DEF SequencesGrow
<1>4. MetaSeparates'
  <2>1. CASE meta_ok' = FALSE
    BY <2>1 DEF MetaSeparates
  <2>2. CASE next_sequence' = meta_seq /\ UNCHANGED <<meta_seq, meta_ok, faults>>
    BY <2>2 DEF MetaSeparates
  <2> QED
    BY <2>1, <2>2 DEF load_next_sequence
<1> QED
  BY <1>1, <1>2, <1>3, <1>4

\* Stop only clears running_.
LEMMA StopInv ==
    ASSUME Inv, Stop
    PROVE  Inv'
<1>1. TypeOK'
  BY EngineType DEF Inv
<1>2. /\ MutexesHeld' /\ SequencesUnique' /\ SequencesGrow' /\ PopsTheTop'
      /\ PutBeforePersist' /\ MetaSeparates' /\ CacheBackedByStore'
      /\ DequeuesInOrder'
  BY DEF Inv, Stop, store, history, MutexesHeld, SequencesUnique, SequencesGrow,
         PopsTheTop, PutBeforePersist, MetaSeparates, CacheBackedByStore,
         DequeuesInOrder
<1> QED
  BY <1>1, <1>2 DEF Inv

\* Inv speaks of the variables only.
LEMMA InvStutter ==
    ASSUME Inv, UNCHANGED vars
    PROVE  Inv'
  BY DEF Inv, vars, store, memory, history, TypeOK, MutexesHeld, SequencesUnique,
         SequencesGrow, PopsTheTop, PutBeforePersist, MetaSeparates,
         CacheBackedByStore, DequeuesInOrder

(* The inductive invariant holds in every behaviour of the queue: every     *)
(* step of enqueue_task, worker_loop, dequeue_task, Stop and the            *)
(* constructor preserves it.                                                *)
THEOREM QueueInvariant == Spec => []Inv
<1>1. Inv /\ [Next]_vars => Inv'
  <2> SUFFICES ASSUME Inv, [Next]_vars PROVE Inv'
    OBVIOUS
  <2>1. ASSUME NEW p \in Producers, Producer(p) PROVE Inv'
    BY <2>1, QueueReplicationInv, PutTaskInv, PutFailsInv, PersistInv,
       PersistFailsInv, PushTaskInv DEF Producer
  <2>2. ASSUME NEW w \in Workers, Worker(w) PROVE Inv'
    BY <2>2, LockCacheInv, RelockInv, DeleteTaskInv, DeleteFailsInv,
       PopTaskInv, FinishTaskInv DEF Worker
  <2> QED
    BY <2>1, <2>2, StopInv, RestartInv, InvStutter DEF Next
<1> QED
  BY InvInit, <1>1, PTL DEF Spec

(* Type correctness of the queue.                                           *)
THEOREM QueueTypeCorrect == Spec => []TypeOK
  BY QueueInvariant, PTL DEF Inv

(* A cached task is stored in LevelDB until the worker that deleted it pops *)
(* it (enqueue_task puts before it pushes, numbers are not shared).         *)
THEOREM QueueCacheBacked == Spec => []CacheBackedByStore
  BY QueueInvariant, PTL DEF Inv

(* Tasks are dequeued in the order of their sequence numbers within a run   *)
(* of the process, however producers and workers interleave.                *)
THEOREM QueueInOrder == Spec => []DequeuesInOrder
  BY QueueInvariant, PTL DEF Inv

(* A task reported as persisted stays in LevelDB until dequeue_task removes *)
(* it, over any number of restarts, provided "meta:next_seq" was always     *)
(* written and read without error: accepted records lie below the persisted *)
(* number and every later Put writes at or above it.                        *)
THEOREM QueueKeepsAcked == Spec => []AckedStaysQueued
<1>1. Inv => AckedStaysQueued
  BY DEF Inv, MetaSeparates, AckedStaysQueued, Queued
<1> QED
  BY <1>1, QueueInvariant, PTL

-----------------------------------------------------------------------------
(* What is stored is cached, until the first restart.                       *)

\* The steps of enqueue_task: a new record is the producer's own until it is pushed,
\* and has a number no cached record has.
LEMMA ProducerStore ==
    ASSUME Inv, StoreInv, NEW p \in Producers, Producer(p)
    PROVE  StoreInv'
<1> USE ThreadAssumption
        DEF Inv, TypeOK, Threads, store, history, Goto, StoreInv, StoredIsCached,
            DeletedBeforePop
<1>1. CASE QueueReplication(p)
  BY <1>1 DEF QueueReplication
<1>2. CASE PutTask(p)
  BY <1>2 DEF PutTask, PopsTheTop, SequencesGrow
<1>3. CASE PutFails(p)
  BY <1>3 DEF PutFails
<1>4. CASE persist_next_sequence(p)
  BY <1>4 DEF persist_next_sequence
<1>5. CASE PersistFails(p)
  BY <1>5 DEF PersistFails
<1>6. CASE PushTask(p)
  BY <1>6 DEF PushTask
<1> QED
  BY <1>1, <1>2, <1>3, <1>4, <1>5, <1>6 DEF Producer

\* The steps of worker_loop: only a record that has left the store leaves the cache.
LEMMA WorkerStore ==
    ASSUME Inv, StoreInv, NEW w \in Workers, Worker(w)
    PROVE  StoreInv'
<1> USE ThreadAssumption
        DEF Inv, TypeOK, Threads, store, history, Goto, StoreInv, StoredIsCached,
            DeletedBeforePop
<1>1. CASE LockCache(w)
  BY <1>1 DEF LockCache
<1>2. CASE Relock(w)
  BY <1>2 DEF Relock
<1>3. CASE DeleteTask(w)
  BY <1>3 DEF DeleteTask
<1>4. CASE DeleteFails(w)
  BY <1>4 DEF DeleteFails
<1>5. CASE PopTask(w)
  BY <1>5 DEF PopTask
<1>6. CASE FinishTask(w)
  BY <1>6 DEF FinishTask
<1> QED
  BY <1>1, <1>2, <1>3, <1>4, <1>5, <1>6 DEF Worker

(* Until the process is restarted every task in LevelDB is in the cache, or *)
(* about to be pushed by the enqueue_task that put it: no failed Put,       *)
(* failed Delete or interleaving strands a record that no worker will see.  *)
THEOREM QueueStoredIsCached == Spec => []StoredIsCached
<1>1. Init => StoreInv
  BY ThreadAssumption DEF Init, Threads, StoreInv, StoredIsCached, DeletedBeforePop
<1>2. Inv /\ StoreInv /\ [Next]_vars => StoreInv'
  <2> SUFFICES ASSUME Inv, StoreInv, [Next]_vars PROVE StoreInv'
    OBVIOUS
  <2>1. CASE Stop
    BY <2>1 DEF Stop, store, history, StoreInv, StoredIsCached, DeletedBeforePop
  <2>2. CASE Restart
    BY <2>2, ThreadAssumption
       DEF Restart, Inv, TypeOK, Threads, StoreInv, StoredIsCached, DeletedBeforePop
  <2>3. CASE UNCHANGED vars
    BY <2>3 DEF vars, store, memory, history, StoreInv, StoredIsCached, DeletedBeforePop
  <2> QED
    BY <2>1, <2>2, <2>3, ProducerStore, WorkerStore DEF Next
<1>3. StoreInv => StoredIsCached
  BY DEF StoreInv
<1> QED
  BY <1>1, <1>2, <1>3, QueueInvariant, PTL DEF Spec
=============================================================================
