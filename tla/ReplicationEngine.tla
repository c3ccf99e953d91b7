-------------------------- MODULE ReplicationEngine -------------------------
(***************************************************************************)
(* The replication engine with its in-memory queue (sync_engine.cpp, first *)
(* QueueReplication and first worker_loop, third replicate_to_endpoint).   *)
(* worker_loop's body is the sequence of four passes over the endpoints    *)
(* that the source has, each with its own rule for queueing the task       *)
(* again.                                                                  *)
(*                                                                         *)
(* An object's content is a version number: 0 is absent, every PutObject   *)
(* makes a new one, an ETag comparison compares versions.  Whether the     *)
(* circuit breaker refuses, or the PUT does not get through, is open (see  *)
(* CircuitBreaker for the breaker); a PUT whose answer is lost was applied *)
(* before the worker gives up on it, or is applied some time later.  The   *)
(* HEAD may fail too, which only means the PUT is tried.                   *)
(***************************************************************************)
EXTENDS Integers, Sequences, FiniteSets

CONSTANTS
    Keys,           \* objects (bucket and key)
    Deletable,      \* those of them that get deleted
    Workers,
    N,              \* the endpoints are 1..N, in the order of replica_endpoints_
    max_backoff_attempts,
    MaxVersion,     \* bound on PutObject calls per key
    MaxFaults,      \* bound on failed attempts, whatever their cause
    MaxLate         \* bound on PUTs applied after the worker gave up on them

Endpoints == 1..N
Versions  == 0..MaxVersion

ASSUME EndpointAssumption == N \in Nat \ {0}
ASSUME BoundAssumption ==
    {max_backoff_attempts, MaxVersion, MaxFaults, MaxLate} \subseteq Nat
ASSUME KeyAssumption == Keys # {} /\ Deletable \subseteq Keys
ASSUME FiniteAssumption == IsFiniteSet(Keys) /\ IsFiniteSet(Workers)

VARIABLES
    local,          \* local version of each key
    latest,         \* last version written to each key
    pending,        \* <<key, version>> written, QueueReplication not yet called
    queue,          \* task_queue_
    running,        \* running_
    me,             \* each worker's local variables
    stored,         \* stored[e][k]: version endpoint e holds
    delivered,      \* delivered[e][k]: newest version endpoint e ever held
    late,           \* <<endpoint, key, version>> still on the way
    faults, lost    \* failed attempts, and late PUTs, so far

site   == <<local, latest, pending>>
remote == <<stored, delivered, late, lost>>
vars   == <<site, queue, running, me, remote, faults>>

\* What a worker knows: its position, the task, the pass over the endpoints it
\* is in, the endpoint it is at, the data read, the results of this pass, and
\* backoff_attempts.
WorkerState ==
    [pc : {"idle", "call", "head", "push", "end"}, task : Keys, pass : 1..4,
     ep : Endpoints, data : Versions, results : SUBSET {"ok", "failed"},
     backoff : Nat]

\* The type of every variable.
TypeOK ==
    /\ local \in [Keys -> Versions] /\ latest \in [Keys -> Versions]
    /\ pending \subseteq Keys \X Versions
    /\ queue \in Seq(Keys)
    /\ running \in BOOLEAN
    /\ me \in [Workers -> WorkerState]
    /\ stored \in [Endpoints -> [Keys -> Versions]]
    /\ delivered \in [Endpoints -> [Keys -> Versions]]
    /\ late \subseteq Endpoints \X Keys \X Versions
    /\ faults \in Nat /\ lost \in Nat

Init ==
    /\ local = [k \in Keys |-> 0] /\ latest = [k \in Keys |-> 0]
    /\ pending = {} /\ queue = <<>> /\ running = TRUE
    /\ me = [w \in Workers |->
               [pc |-> "idle", task |-> CHOOSE k \in Keys : TRUE, pass |-> 1,
                ep |-> 1, data |-> 0, results |-> {}, backoff |-> 0]]
    /\ stored = [e \in Endpoints |-> [k \in Keys |-> 0]]
    /\ delivered = [e \in Endpoints |-> [k \in Keys |-> 0]]
    /\ late = {} /\ faults = 0 /\ lost = 0

\* Worker w's local variables become s.
Becomes(w, s) == me' = [me EXCEPT ![w] = s]

Fault == faults < MaxFaults /\ faults' = faults + 1

-----------------------------------------------------------------------------
(* The site: StorageManager, and QueueReplication called after a write.    *)

PutObject(k) ==
    /\ latest[k] < MaxVersion
    /\ latest' = [latest EXCEPT ![k] = @ + 1]
    /\ local' = [local EXCEPT ![k] = latest[k] + 1]
    /\ pending' = pending \cup {<<k, latest[k] + 1>>}
    /\ UNCHANGED <<queue, running, me, remote, faults>>

\* Deletions are not replicated.
DeleteObject(k) ==
    /\ k \in Deletable /\ local[k] # 0
    /\ local' = [local EXCEPT ![k] = 0]
    /\ UNCHANGED <<latest, pending, queue, running, me, remote, faults>>

\* (mutation) no second task for an object that a worker is replicating
QueueUnlessBusy(p) ==
    /\ pending' = pending \ {p}
    /\ queue' = IF \E w \in Workers : me[w].pc # "idle" /\ me[w].task = p[1]
                   THEN queue ELSE Append(queue, p[1])
    /\ UNCHANGED <<local, latest, running, me, remote, faults>>

\* The write p, a <<key, version>>, is queued.
QueueReplication(p) ==
    /\ pending' = pending \ {p}
    /\ queue' = Append(queue, p[1])
    /\ UNCHANGED <<local, latest, running, me, remote, faults>>

-----------------------------------------------------------------------------
(* replicate_to_endpoint, called with the worker's task and endpoint.      *)

\* (mutation) the loop runs one past the last endpoint
LastOfPassOffByOne(w, r) == me[w].ep > N \/ (me[w].pass <= 2 /\ r = "failed")

\* Is this the last call of the pass?  The first two passes break on failure.
LastOfPass(w, r) == me[w].ep = N \/ (me[w].pass <= 2 /\ r = "failed")

\* replicate_to_endpoint returns to the loop over replica_endpoints_.
Return(w, r) ==
    Becomes(w, [me[w] EXCEPT !.results = @ \cup {r},
                             !.pc = IF LastOfPass(w, r) THEN "end" ELSE "call",
                             !.ep = IF LastOfPass(w, r) THEN @ ELSE @ + 1])

\* GetObject succeeds: the version read is the one that will be pushed.
ReadObject(w) ==
    /\ me[w].pc = "call" /\ local[me[w].task] # 0
    /\ Becomes(w, [me[w] EXCEPT !.data = local[me[w].task], !.pc = "head"])
    /\ UNCHANGED <<site, queue, running, remote, faults>>

\* The breaker refuses the attempt, or GetObject finds no object.
NoAttempt(w) ==
    /\ me[w].pc = "call" /\ Fault
    /\ Return(w, "failed")
    /\ UNCHANGED <<site, queue, running, remote>>

\* The remote ETag is the local one: nothing to do.
HeadMatches(w) ==
    /\ me[w].pc = "head" /\ stored[me[w].ep][me[w].task] = me[w].data
    /\ Return(w, "ok")
    /\ UNCHANGED <<site, queue, running, remote, faults>>

\* It differs, or there is none, or the HEAD failed.
HeadDiffers(w) ==
    /\ me[w].pc = "head"
    /\ Becomes(w, [me[w] EXCEPT !.pc = "push"])
    /\ UNCHANGED <<site, queue, running, remote, faults>>

\* Endpoint e stores version v of k, whatever it held before.
Apply(e, k, v) ==
    /\ stored' = [stored EXCEPT ![e][k] = v]
    /\ delivered' = [delivered EXCEPT ![e][k] = IF @ < v THEN v ELSE @]

PushSucceeds(w) ==
    /\ me[w].pc = "push"
    /\ Apply(me[w].ep, me[w].task, me[w].data)
    /\ Return(w, "ok")
    /\ UNCHANGED <<site, queue, running, late, lost, faults>>

PushFails(w) ==
    /\ me[w].pc = "push" /\ Fault
    /\ Return(w, "failed")
    /\ UNCHANGED <<site, queue, running, remote>>

\* The PUT was applied, but its answer did not arrive.
AnswerLost(w) ==
    /\ me[w].pc = "push" /\ Fault
    /\ Apply(me[w].ep, me[w].task, me[w].data)
    /\ Return(w, "failed")
    /\ UNCHANGED <<site, queue, running, late, lost>>

\* The connection broke with the PUT still on its way.
PushGivenUp(w) ==
    /\ me[w].pc = "push" /\ Fault /\ lost < MaxLate
    /\ late' = late \cup {<<me[w].ep, me[w].task, me[w].data>>}
    /\ lost' = lost + 1
    /\ Return(w, "failed")
    /\ UNCHANGED <<site, queue, running, stored, delivered>>

ArrivesLate ==
    /\ \E p \in late : late' = late \ {p} /\ Apply(p[1], p[2], p[3])
    /\ UNCHANGED <<site, queue, running, me, lost, faults>>

replicate_to_endpoint(w) ==
    \/ ReadObject(w) \/ NoAttempt(w) \/ HeadMatches(w) \/ HeadDiffers(w)
    \/ PushSucceeds(w) \/ PushFails(w) \/ AnswerLost(w) \/ PushGivenUp(w)

-----------------------------------------------------------------------------
(* worker_loop.                                                            *)

Failed(w) == "failed" \in me[w].results

\* Take the front task; an empty queue is slept on, which changes nothing.
Dequeue(w) ==
    /\ me[w].pc = "idle" /\ running /\ queue # <<>>
    /\ queue' = Tail(queue)
    /\ Becomes(w, [pc |-> "call", task |-> Head(queue), pass |-> 1, ep |-> 1,
                   data |-> 0, results |-> {}, backoff |-> me[w].backoff])
    /\ UNCHANGED <<site, running, remote, faults>>

\* End of pass i: queue the task again or not, and start the next pass.
EndPass(w, i, again, backoff) ==
    /\ me[w].pc = "end" /\ me[w].pass = i
    /\ queue' = IF again THEN Append(queue, me[w].task) ELSE queue
    /\ Becomes(w, [me[w] EXCEPT !.pc = "call", !.pass = i + 1, !.ep = 1,
                                !.results = {}, !.backoff = backoff])
    /\ UNCHANGED <<site, running, remote, faults>>

\* The iteration is over.
EndTask(w, i, again, backoff) ==
    /\ me[w].pc = "end" /\ me[w].pass = i
    /\ queue' = IF again THEN Append(queue, me[w].task) ELSE queue
    /\ Becomes(w, [me[w] EXCEPT !.pc = "idle", !.backoff = backoff])
    /\ UNCHANGED <<site, running, remote, faults>>

\* (mutation) pass 1 leaves queueing the task again to the later passes
EndPass1Silently(w) == EndPass(w, 1, FALSE, me[w].backoff)

EndPass1(w) == EndPass(w, 1, Failed(w), me[w].backoff)

\* Pass 2 with exponential backoff: success resets it, a failure sleeps and
\* queues the task again ...
EndPass2(w) ==
    LET attempts == IF Failed(w) THEN me[w].backoff + 1 ELSE 0
    IN  attempts <= max_backoff_attempts /\ EndPass(w, 2, Failed(w), attempts)

\* ... or, once there were too many in a row, drops it.
DropTask(w) ==
    /\ Failed(w) /\ me[w].backoff + 1 > max_backoff_attempts
    /\ EndTask(w, 2, FALSE, me[w].backoff + 1)

\* (mutation) pass 3 queues the task again in any case
EndPass3Always(w) == EndPass(w, 3, TRUE, me[w].backoff)

\* Pass 3 tries every endpoint and queues the task again if one failed.
EndPass3(w) == EndPass(w, 3, Failed(w), me[w].backoff)

\* Pass 4 queues it again only if every endpoint failed.
EndPass4(w) == EndTask(w, 4, "ok" \notin me[w].results, me[w].backoff)

worker_loop(w) ==
    \/ Dequeue(w) \/ replicate_to_endpoint(w)
    \/ EndPass1(w) \/ EndPass2(w) \/ DropTask(w) \/ EndPass3(w) \/ EndPass4(w)

\* Workers finish their iteration and exit; nothing drains the queue.
Stop ==
    /\ running
    /\ running' = FALSE
    /\ UNCHANGED <<site, queue, me, remote, faults>>

Next ==
    \/ \E k \in Keys : PutObject(k) \/ DeleteObject(k)
    \/ \E p \in pending : QueueReplication(p)
    \/ \E w \in Workers : worker_loop(w)
    \/ ArrivesLate
    \/ Stop

\* Every thread that can take a step does; PUTs on the way arrive.  Nothing
\* makes an attempt succeed, but only MaxFaults of them fail.
Fairness ==
    /\ \A p \in Keys \X Versions : WF_vars(p \in pending /\ QueueReplication(p))
    /\ \A w \in Workers : WF_vars(worker_loop(w))
    /\ WF_vars(ArrivesLate)

Spec == Init /\ [][Next]_vars /\ Fairness

-----------------------------------------------------------------------------
InQueue(k) == \E i \in 1..Len(queue) : queue[i] = k

InPending(k) == \E v \in Versions : <<k, v>> \in pending

\* Worker w, in its first pass, is still to bring endpoint e up to date with k.
Covers(w, k, e) ==
    /\ me[w].task = k /\ me[w].pass = 1
    /\ \/ me[w].pc = "call" /\ me[w].ep <= e
       \/ me[w].pc \in {"head", "push"} /\ me[w].ep < e
       \/ me[w].pc \in {"head", "push"} /\ me[w].ep = e /\ me[w].data = local[k]
       \/ me[w].pc = "end" /\ Failed(w)

(* No write is forgotten: whenever an endpoint has never held the current  *)
(* version of an object, that object's task is about to be queued, is      *)
(* queued, or is with a worker that has this endpoint still ahead of it or *)
(* will queue the task again.  It holds for any number of workers, through *)
(* refusals, failed and lost PUTs, drops after the maximal backoff and     *)
(* writes that come between reading an object and pushing it.              *)
NoWriteForgotten ==
    \A k \in Keys, e \in Endpoints :
        local[k] # 0 /\ delivered[e][k] # local[k]
            => InPending(k) \/ InQueue(k) \/ \E w \in Workers : Covers(w, k, e)

Quiescent ==
    pending = {} /\ queue = <<>> /\ late = {} /\ \A w \in Workers : me[w].pc = "idle"

(* When nothing is left to do, every endpoint holds the current version of *)
(* every object that exists.                                               *)
ConvergedWhenQuiescent ==
    Quiescent => \A k \in Keys, e \in Endpoints :
                    local[k] # 0 => stored[e][k] = local[k]

(* Every write reaches every endpoint, unless it is overwritten or deleted *)
(* first or the engine is stopped.                                         *)
WritesReachEndpoints ==
    \A k \in Keys, e \in Endpoints, v \in Versions \ {0} :
        local[k] = v ~> delivered[e][k] >= v \/ local[k] # v \/ ~running

\* The writes so far, each a <<key, version>>.
Written == {p \in Keys \X Versions : 1 <= p[2] /\ p[2] <= latest[p[1]]}

Busy == {w \in Workers : me[w].pc # "idle"}

(* Requeueing is paid for by failures: the tasks in the system never       *)
(* outnumber the writes and the failed attempts, although one iteration of *)
(* worker_loop may queue its task four times.                              *)
TasksBounded ==
    Len(queue) + Cardinality(Busy) + Cardinality(pending) <= Cardinality(Written) + faults

-----------------------------------------------------------------------------
(* The inductive invariant behind NoWriteForgotten.                        *)

\* Nobody holds or carries a version newer than the last one written, and an
\* object that exists is at that version.
VersionsOrdered ==
    /\ \A k \in Keys : local[k] = 0 \/ local[k] = latest[k]
    /\ \A e \in Endpoints, k \in Keys :
          stored[e][k] <= delivered[e][k] /\ delivered[e][k] <= latest[k]
    /\ \A w \in Workers :
          me[w].pc \in {"head", "push"} => me[w].data <= latest[me[w].task]
    /\ \A p \in late : p[3] <= latest[p[2]]

Inv == TypeOK /\ VersionsOrdered /\ NoWriteForgotten

\* Behind TasksBounded: a worker that has met a failure in its pass owes a task,
\* and that failure has paid for it.
Owing == {w \in Busy : Failed(w)}

TasksPaid ==
    Len(queue) + Cardinality(Busy) + Cardinality(Owing) + Cardinality(pending)
        <= Cardinality(Written) + faults

\* Behind ConvergedWhenQuiescent, with one worker and no PUT on the way: the
\* worker never carries a version older than one it has stored.
InOrder ==
    /\ stored = delivered /\ late = {}
    /\ \A w \in Workers, e \in Endpoints :
          me[w].pc \in {"head", "push"} => delivered[e][me[w].task] <= me[w].data
=============================================================================
