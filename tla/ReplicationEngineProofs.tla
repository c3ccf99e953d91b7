----------------------- MODULE ReplicationEngineProofs ----------------------
(* Proofs about the replication engine for any number of keys, workers and  *)
(* endpoints, any number of writes, failed attempts and late PUTs.          *)
EXTENDS ReplicationEngine, FiniteSetTheorems, TLAPS

-----------------------------------------------------------------------------
(* The queue.                                                               *)

\* Queueing a task keeps the ones queued before it.
LEMMA AppendQueues ==
    ASSUME queue \in Seq(Keys), NEW x \in Keys, queue' = Append(queue, x)
    PROVE  /\ queue' \in Seq(Keys)
           /\ \A k \in Keys : InQueue(k) \/ k = x => InQueue(k)'
<1>1. queue' \in Seq(Keys) /\ Len(queue') = Len(queue) + 1 /\ queue'[Len(queue) + 1] = x
  OBVIOUS
<1>2. \A i \in 1..Len(queue) : queue'[i] = queue[i]
  OBVIOUS
<1> QED
  BY <1>1, <1>2 DEF InQueue

\* Taking the front task keeps the others.
LEMMA TailQueues ==
    ASSUME queue \in Seq(Keys), queue # <<>>, queue' = Tail(queue)
    PROVE  /\ queue' \in Seq(Keys) /\ Head(queue) \in Keys
           /\ \A k \in Keys : InQueue(k) => k = Head(queue) \/ InQueue(k)'
<1>1. /\ queue' \in Seq(Keys) /\ Head(queue) \in Keys /\ Head(queue) = queue[1]
      /\ Len(queue) \in Nat \ {0} /\ Len(queue') = Len(queue) - 1
  OBVIOUS
<1>2. \A i \in 1..Len(queue') : queue'[i] = queue[i + 1]
  OBVIOUS
<1>3. ASSUME NEW k \in Keys, NEW i \in 1..Len(queue), queue[i] = k, i # 1
      PROVE  InQueue(k)'
  <2>1. i - 1 \in 1..Len(queue') /\ queue'[i - 1] = k
    BY <1>1, <1>2, <1>3
  <2> QED
    BY <2>1 DEF InQueue
<1> QED
  BY <1>1, <1>3 DEF InQueue

-----------------------------------------------------------------------------
(* The step shapes of worker_loop.                                          *)

\* What replicate_to_endpoint's return does to the worker.
LEMMA ReturnEffect ==
    ASSUME TypeOK, NEW w \in Workers, NEW r \in {"ok", "failed"}, Return(w, r)
    PROVE  /\ me' \in [Workers -> WorkerState]
           /\ \A v \in Workers \ {w} : me'[v] = me[v]
           /\ me'[w].task = me[w].task /\ me'[w].pass = me[w].pass
           /\ me'[w].results = me[w].results \cup {r}
           /\ \/ me'[w].pc = "call" /\ me'[w].ep = me[w].ep + 1
              \/ me'[w].pc = "end" /\ (me[w].ep = N \/ r = "failed")
           /\ me[w].pass = 1 /\ r = "failed" => me'[w].pc = "end"
<1> DEFINE last == LastOfPass(w, r)
           new == [me[w] EXCEPT !.results = @ \cup {r},
                                !.pc = IF last THEN "end" ELSE "call",
                                !.ep = IF last THEN @ ELSE @ + 1]
<1>1. me' = [me EXCEPT ![w] = new]
  BY DEF Return, Becomes
<1>2. me[w] \in WorkerState
  BY DEF TypeOK
<1>3. /\ new.task = me[w].task /\ new.pass = me[w].pass
      /\ new.data = me[w].data /\ new.backoff = me[w].backoff
      /\ new.results = me[w].results \cup {r}
      /\ new.pc = IF last THEN "end" ELSE "call"
      /\ new.ep = IF last THEN me[w].ep ELSE me[w].ep + 1
  BY <1>2 DEF WorkerState
<1>4. ~last => me[w].ep + 1 \in Endpoints
  BY <1>2, EndpointAssumption DEF WorkerState, LastOfPass, Endpoints
<1>5. new \in WorkerState
  BY <1>2, <1>4 DEF WorkerState
<1>6. me'[w] = new /\ me' \in [Workers -> WorkerState]
      /\ \A v \in Workers \ {w} : me'[v] = me[v]
  BY <1>1, <1>5 DEF TypeOK
<1> QED
  BY <1>3, <1>6 DEF LastOfPass

\* What any other change of a worker's local variables does.
LEMMA BecomesEffect ==
    ASSUME TypeOK, NEW w \in Workers, NEW s \in WorkerState, Becomes(w, s)
    PROVE  /\ me' \in [Workers -> WorkerState]
           /\ me'[w] = s
           /\ \A v \in Workers \ {w} : me'[v] = me[v]
  BY DEF TypeOK, Becomes

\* What storing a version at an endpoint does.
LEMMA ApplyEffect ==
    ASSUME TypeOK, NEW e \in Endpoints, NEW k \in Keys, NEW v \in Versions,
           Apply(e, k, v)
    PROVE  /\ stored' \in [Endpoints -> [Keys -> Versions]]
           /\ delivered' \in [Endpoints -> [Keys -> Versions]]
           /\ stored'[e][k] = v
           /\ delivered'[e][k] = IF delivered[e][k] < v THEN v ELSE delivered[e][k]
           /\ \A f \in Endpoints, j \in Keys : f # e \/ j # k =>
                 stored'[f][j] = stored[f][j] /\ delivered'[f][j] = delivered[f][j]
<1>1. delivered[e][k] \in Versions
  BY DEF TypeOK
<1>2. (IF delivered[e][k] < v THEN v ELSE delivered[e][k]) \in Versions
  BY <1>1
<1> QED
  BY <1>2 DEF TypeOK, Apply

\* A failed attempt only counts.
LEMMA FaultCounts ==
    ASSUME faults \in Nat, Fault
    PROVE  faults' \in Nat
  BY DEF Fault

\* There is an endpoint to start a pass with.
LEMMA FirstEndpoint == 1 \in Endpoints
  BY EndpointAssumption DEF Endpoints

-----------------------------------------------------------------------------
\* At the start no object, task or PUT exists.
LEMMA InvInit == Init => Inv
<1> SUFFICES ASSUME Init PROVE Inv
  OBVIOUS
<1> USE EndpointAssumption, BoundAssumption, KeyAssumption DEF Init
<1>1. TypeOK
  <2>1. (CHOOSE k \in Keys : TRUE) \in Keys
    OBVIOUS
  <2>2. 0 \in Versions /\ 1 \in Endpoints
    BY DEF Versions, Endpoints
  <2>3. me \in [Workers -> WorkerState]
    BY <2>1, <2>2 DEF WorkerState
  <2> QED
    BY <2>2, <2>3 DEF TypeOK
<1>2. VersionsOrdered
  BY DEF VersionsOrdered
<1>3. NoWriteForgotten
  BY DEF NoWriteForgotten
<1> QED
  BY <1>1, <1>2, <1>3 DEF Inv

\* A new version is pending, so nothing is claimed of it yet.
LEMMA PutInv ==
    ASSUME Inv, NEW k \in Keys, PutObject(k)
    PROVE  Inv'
<1> DEFINE v == latest[k] + 1
<1> USE BoundAssumption DEF PutObject, remote
<1>1. v \in Versions /\ latest[k] \in Versions
  BY DEF Inv, TypeOK, Versions
<1>2. TypeOK'
  BY <1>1 DEF Inv, TypeOK
<1>3. VersionsOrdered'
  <2>1. \A j \in Keys : latest[j] \in Nat /\ latest'[j] \in Nat /\ latest[j] <= latest'[j]
    BY <1>1 DEF Inv, TypeOK, Versions
  <2>2. \A j \in Keys : local'[j] = 0 \/ local'[j] = latest'[j]
    BY <1>1 DEF Inv, TypeOK, VersionsOrdered
  <2>3. \A e \in Endpoints, j \in Keys :
           stored'[e][j] <= delivered'[e][j] /\ delivered'[e][j] <= latest'[j]
    <3> SUFFICES ASSUME NEW e \in Endpoints, NEW j \in Keys
                 PROVE  stored[e][j] <= delivered[e][j] /\ delivered[e][j] <= latest'[j]
      OBVIOUS
    <3>1. stored[e][j] <= delivered[e][j] /\ delivered[e][j] <= latest[j]
      BY DEF Inv, VersionsOrdered
    <3>2. delivered[e][j] \in Nat
      BY DEF Inv, TypeOK, Versions
    <3> QED
      BY <2>1, <3>1, <3>2
  <2>4. ASSUME NEW w \in Workers, me[w].pc \in {"head", "push"}
        PROVE  me[w].data <= latest'[me[w].task]
    <3>1. me[w].task \in Keys /\ me[w].data \in Nat
      BY DEF Inv, TypeOK, WorkerState, Versions
    <3>2. me[w].data <= latest[me[w].task]
      BY <2>4 DEF Inv, VersionsOrdered
    <3> QED
      BY <2>1, <3>1, <3>2
  <2>5. ASSUME NEW p \in late PROVE p[3] <= latest'[p[2]]
    <3>1. p[2] \in Keys /\ p[3] \in Nat
      BY DEF Inv, TypeOK, Versions
    <3>2. p[3] <= latest[p[2]]
      BY DEF Inv, VersionsOrdered
    <3> QED
      BY <2>1, <3>1, <3>2
  <2> QED
    BY <2>2, <2>3, <2>4, <2>5 DEF VersionsOrdered
<1>4. NoWriteForgotten'
  <2> SUFFICES ASSUME NEW j \in Keys, NEW e \in Endpoints,
                      local'[j] # 0, delivered'[e][j] # local'[j]
               PROVE  InPending(j)' \/ InQueue(j)' \/ \E w \in Workers : Covers(w, j, e)'
    BY DEF NoWriteForgotten
  <2>1. CASE j = k
    BY <1>1, <2>1 DEF InPending
  <2>2. CASE j # k
    <3>1. local'[j] = local[j]
      BY <2>2 DEF Inv, TypeOK
    <3>2. InPending(j) \/ InQueue(j) \/ \E w \in Workers : Covers(w, j, e)
      BY <3>1 DEF Inv, NoWriteForgotten
    <3> QED
      BY <3>1, <3>2 DEF InPending, InQueue, Covers, Failed
  <2> QED
    BY <2>1, <2>2
<1> QED
  BY <1>2, <1>3, <1>4 DEF Inv

\* A deleted object needs no delivery.
LEMMA DeleteInv ==
    ASSUME Inv, NEW k \in Keys, DeleteObject(k)
    PROVE  Inv'
<1> USE BoundAssumption DEF DeleteObject, remote
<1>1. TypeOK'
  BY DEF Inv, TypeOK, Versions
<1>2. VersionsOrdered'
  BY DEF Inv, TypeOK, VersionsOrdered
<1>3. NoWriteForgotten'
  <2> SUFFICES ASSUME NEW j \in Keys, NEW e \in Endpoints,
                      local'[j] # 0, delivered'[e][j] # local'[j]
               PROVE  InPending(j)' \/ InQueue(j)' \/ \E w \in Workers : Covers(w, j, e)'
    BY DEF NoWriteForgotten
  <2>1. local'[j] = local[j]
    BY DEF Inv, TypeOK
  <2>2. InPending(j) \/ InQueue(j) \/ \E w \in Workers : Covers(w, j, e)
    BY <2>1 DEF Inv, NoWriteForgotten
  <2> QED
    BY <2>1, <2>2 DEF InPending, InQueue, Covers, Failed
<1> QED
  BY <1>1, <1>2, <1>3 DEF Inv

\* The pending write's task enters the queue.
LEMMA QueueInv ==
    ASSUME Inv, NEW p \in pending, QueueReplication(p)
    PROVE  Inv'
<1> USE DEF QueueReplication, remote
<1>1. p \in Keys \X Versions /\ p[1] \in Keys
  BY DEF Inv, TypeOK
<1>2. /\ queue' \in Seq(Keys)
      /\ \A k \in Keys : InQueue(k) \/ k = p[1] => InQueue(k)'
  BY <1>1, AppendQueues DEF Inv, TypeOK
<1>3. TypeOK'
  BY <1>2 DEF Inv, TypeOK
<1>4. VersionsOrdered'
  BY DEF Inv, VersionsOrdered
<1>5. NoWriteForgotten'
  <2>1. ASSUME NEW k \in Keys, InPending(k) PROVE InPending(k)' \/ InQueue(k)'
    BY <1>1, <1>2, <2>1 DEF InPending
  <2>2. \A w \in Workers, k \in Keys, e \in Endpoints : Covers(w, k, e) => Covers(w, k, e)'
    BY DEF Covers, Failed
  <2> QED
    BY <1>2, <2>1, <2>2 DEF Inv, NoWriteForgotten
<1> QED
  BY <1>3, <1>4, <1>5 DEF Inv

-----------------------------------------------------------------------------
(* replicate_to_endpoint.                                                   *)

\* Reading an object, and going on to push it, keeps the endpoints ahead.
LEMMA ReadInv ==
    ASSUME Inv, NEW w \in Workers, ReadObject(w) \/ HeadDiffers(w)
    PROVE  Inv'
<1> USE DEF ReadObject, HeadDiffers, site, remote
<1>1. me[w] \in WorkerState /\ local[me[w].task] \in Versions
  BY DEF Inv, TypeOK, WorkerState
<1>2. PICK s \in WorkerState :
          /\ Becomes(w, s) /\ s.task = me[w].task /\ s.pass = me[w].pass
          /\ s.ep = me[w].ep /\ s.pc \in {"head", "push"}
          /\ \/ me[w].pc = "call" /\ s.data = local[me[w].task]
             \/ me[w].pc = "head" /\ s.data = me[w].data
  <2>1. CASE ReadObject(w)
    <3> DEFINE s == [me[w] EXCEPT !.data = local[me[w].task], !.pc = "head"]
    <3>1. /\ s \in WorkerState /\ s.task = me[w].task /\ s.pass = me[w].pass
          /\ s.ep = me[w].ep /\ s.pc = "head" /\ s.data = local[me[w].task]
      BY <1>1 DEF WorkerState
    <3> QED
      BY <2>1, <3>1
  <2>2. CASE HeadDiffers(w)
    <3> DEFINE s == [me[w] EXCEPT !.pc = "push"]
    <3>1. /\ s \in WorkerState /\ s.task = me[w].task /\ s.pass = me[w].pass
          /\ s.ep = me[w].ep /\ s.pc = "push" /\ s.data = me[w].data
      BY <1>1 DEF WorkerState
    <3> QED
      BY <2>2, <3>1
  <2> QED
    BY <2>1, <2>2
<1>3. /\ me' \in [Workers -> WorkerState] /\ me'[w] = s
      /\ \A v \in Workers \ {w} : me'[v] = me[v]
  BY <1>2, BecomesEffect DEF Inv
<1>4. TypeOK'
  BY <1>3 DEF Inv, TypeOK
<1>5. VersionsOrdered'
  <2>1. local[s.task] <= latest[s.task]
    BY <1>1, <1>2 DEF Inv, TypeOK, WorkerState, VersionsOrdered, Versions
  <2> QED
    BY <1>2, <1>3, <2>1 DEF Inv, VersionsOrdered
<1>6. NoWriteForgotten'
  <2>1. ASSUME NEW k \in Keys, NEW e \in Endpoints, NEW v \in Workers, Covers(v, k, e)
        PROVE  Covers(v, k, e)'
    <3>1. CASE v # w
      BY <1>3, <2>1, <3>1 DEF Covers, Failed
    <3>2. CASE v = w
      BY <1>1, <1>2, <1>3, <2>1, <3>2 DEF Covers, WorkerState, Endpoints
    <3> QED
      BY <3>1, <3>2
  <2> QED
    BY <2>1 DEF Inv, NoWriteForgotten, InPending, InQueue
<1> QED
  BY <1>4, <1>5, <1>6 DEF Inv

\* An attempt that failed leaves the first pass, which queues the task again.
LEMMA FailedReturnCovers ==
    ASSUME Inv, NEW w \in Workers, me[w].pc \in {"call", "head", "push"},
           Return(w, "failed"), UNCHANGED <<site, queue>>,
           NEW k \in Keys, NEW e \in Endpoints,
           InPending(k) \/ InQueue(k) \/ \E v \in Workers : Covers(v, k, e)
    PROVE  InPending(k)' \/ InQueue(k)' \/ \E v \in Workers : Covers(v, k, e)'
<1>1. /\ \A v \in Workers \ {w} : me'[v] = me[v]
      /\ me'[w].task = me[w].task /\ me'[w].pass = me[w].pass
      /\ me'[w].results = me[w].results \cup {"failed"}
      /\ me[w].pass = 1 => me'[w].pc = "end"
  BY ReturnEffect DEF Inv
<1>2. ASSUME NEW v \in Workers, Covers(v, k, e) PROVE Covers(v, k, e)'
  <2>1. CASE v # w
    BY <1>1, <1>2, <2>1 DEF Covers, Failed, site
  <2>2. CASE v = w
    BY <1>1, <1>2, <2>2 DEF Covers, Failed
  <2> QED
    BY <2>1, <2>2
<1> QED
  BY <1>2 DEF InPending, InQueue, site

\* An attempt that succeeded leaves only the endpoint it served.
LEMMA GoodReturnCovers ==
    ASSUME Inv, NEW w \in Workers, me[w].pc \in {"head", "push"},
           Return(w, "ok"), UNCHANGED <<site, queue>>,
           NEW k \in Keys, NEW e \in Endpoints,
           InPending(k) \/ InQueue(k) \/ \E v \in Workers : Covers(v, k, e)
    PROVE  \/ InPending(k)' \/ InQueue(k)' \/ \E v \in Workers : Covers(v, k, e)'
           \/ me[w].task = k /\ me[w].ep = e /\ me[w].data = local[k]
<1>1. /\ \A v \in Workers \ {w} : me'[v] = me[v]
      /\ me'[w].task = me[w].task /\ me'[w].pass = me[w].pass
      /\ \/ me'[w].pc = "call" /\ me'[w].ep = me[w].ep + 1
         \/ me'[w].pc = "end" /\ me[w].ep = N
  BY ReturnEffect DEF Inv
<1>2. me[w].ep \in 1..N /\ e \in 1..N
  BY DEF Inv, TypeOK, WorkerState, Endpoints
<1>3. ASSUME NEW v \in Workers, Covers(v, k, e)
      PROVE  \/ Covers(v, k, e)'
             \/ me[w].task = k /\ me[w].ep = e /\ me[w].data = local[k]
  <2>1. CASE v # w
    BY <1>1, <1>3, <2>1 DEF Covers, Failed, site
  <2>2. CASE v = w
    BY <1>1, <1>2, <1>3, <2>2, EndpointAssumption DEF Covers
  <2> QED
    BY <2>1, <2>2
<1> QED
  BY <1>3 DEF InPending, InQueue, site

\* The breaker's refusal, a missing object, a failed PUT.
LEMMA FailedAttemptInv ==
    ASSUME Inv, NEW w \in Workers, NoAttempt(w) \/ PushFails(w)
    PROVE  Inv'
<1>1. /\ me[w].pc \in {"call", "head", "push"} /\ Fault /\ Return(w, "failed")
      /\ UNCHANGED <<site, queue, running, remote>>
  BY DEF NoAttempt, PushFails
<1>2. /\ me' \in [Workers -> WorkerState]
      /\ \A v \in Workers \ {w} : me'[v] = me[v]
      /\ me'[w].pc \in {"call", "end"}
  BY <1>1, ReturnEffect DEF Inv
<1>3. TypeOK'
  BY <1>1, <1>2, FaultCounts DEF Inv, TypeOK, site, remote
<1>4. VersionsOrdered'
  BY <1>1, <1>2 DEF Inv, VersionsOrdered, site, remote
<1>5. NoWriteForgotten'
  <2> SUFFICES ASSUME NEW k \in Keys, NEW e \in Endpoints,
                      local[k] # 0, delivered[e][k] # local[k]
               PROVE  InPending(k)' \/ InQueue(k)' \/ \E v \in Workers : Covers(v, k, e)'
    BY <1>1 DEF NoWriteForgotten, site, remote
  <2> QED
    BY <1>1, FailedReturnCovers DEF Inv, NoWriteForgotten
<1> QED
  BY <1>3, <1>4, <1>5 DEF Inv

\* A PUT left on its way carries a version that was written.
LEMMA GivenUpInv ==
    ASSUME Inv, NEW w \in Workers, PushGivenUp(w)
    PROVE  Inv'
<1> DEFINE p == <<me[w].ep, me[w].task, me[w].data>>
<1>1. /\ me[w].pc = "push" /\ Fault /\ Return(w, "failed")
      /\ late' = late \cup {p} /\ lost' = lost + 1
      /\ UNCHANGED <<site, queue, running, stored, delivered>>
  BY DEF PushGivenUp
<1>2. /\ me' \in [Workers -> WorkerState]
      /\ \A v \in Workers \ {w} : me'[v] = me[v]
      /\ me'[w].pc \in {"call", "end"}
  BY <1>1, ReturnEffect DEF Inv
<1>3. p \in Endpoints \X Keys \X Versions /\ p[3] <= latest[p[2]]
  BY <1>1 DEF Inv, TypeOK, WorkerState, VersionsOrdered
<1>4. TypeOK'
  BY <1>1, <1>2, <1>3, FaultCounts DEF Inv, TypeOK, site
<1>5. VersionsOrdered'
  BY <1>1, <1>2, <1>3 DEF Inv, VersionsOrdered, site
<1>6. NoWriteForgotten'
  <2> SUFFICES ASSUME NEW k \in Keys, NEW e \in Endpoints,
                      local[k] # 0, delivered[e][k] # local[k]
               PROVE  InPending(k)' \/ InQueue(k)' \/ \E v \in Workers : Covers(v, k, e)'
    BY <1>1 DEF NoWriteForgotten, site
  <2> QED
    BY <1>1, FailedReturnCovers DEF Inv, NoWriteForgotten
<1> QED
  BY <1>4, <1>5, <1>6 DEF Inv

\* A matching ETag means the endpoint holds, so has held, what was read.
LEMMA HeadMatchesInv ==
    ASSUME Inv, NEW w \in Workers, HeadMatches(w)
    PROVE  Inv'
<1>1. /\ me[w].pc = "head" /\ stored[me[w].ep][me[w].task] = me[w].data
      /\ Return(w, "ok") /\ UNCHANGED <<site, queue, running, remote, faults>>
  BY DEF HeadMatches
<1>2. /\ me' \in [Workers -> WorkerState]
      /\ \A v \in Workers \ {w} : me'[v] = me[v]
      /\ me'[w].pc \in {"call", "end"}
  BY <1>1, ReturnEffect DEF Inv
<1>3. TypeOK'
  BY <1>1, <1>2 DEF Inv, TypeOK, site, remote
<1>4. VersionsOrdered'
  BY <1>1, <1>2 DEF Inv, VersionsOrdered, site, remote
<1>5. NoWriteForgotten'
  <2> SUFFICES ASSUME NEW k \in Keys, NEW e \in Endpoints,
                      local[k] # 0, delivered[e][k] # local[k]
               PROVE  InPending(k)' \/ InQueue(k)' \/ \E v \in Workers : Covers(v, k, e)'
    BY <1>1 DEF NoWriteForgotten, site, remote
  <2>1. ~(me[w].task = k /\ me[w].ep = e /\ me[w].data = local[k])
    <3> SUFFICES ASSUME stored[e][k] = local[k] PROVE FALSE
      BY <1>1
    <3>1. /\ local[k] = latest[k] /\ stored[e][k] <= delivered[e][k]
          /\ delivered[e][k] <= latest[k]
      BY DEF Inv, VersionsOrdered
    <3>2. delivered[e][k] \in Int /\ latest[k] \in Int
      BY DEF Inv, TypeOK, Versions
    <3> QED
      BY <3>1, <3>2
  <2> QED
    BY <1>1, <2>1, GoodReturnCovers DEF Inv, NoWriteForgotten
<1> QED
  BY <1>3, <1>4, <1>5 DEF Inv

\* Storing a version that was written keeps the endpoints' versions ordered and
\* takes no key's current version away from the ones delivered.
LEMMA ApplyOrdered ==
    ASSUME Inv, NEW e \in Endpoints, NEW k \in Keys, NEW v \in Versions,
           v <= latest[k], Apply(e, k, v)
    PROVE  /\ \A f \in Endpoints, j \in Keys :
                 stored'[f][j] <= delivered'[f][j] /\ delivered'[f][j] <= latest[j]
           /\ \A f \in Endpoints, j \in Keys :
                 local[j] # 0 /\ delivered'[f][j] # local[j] =>
                    /\ delivered[f][j] # local[j]
                    /\ ~(f = e /\ j = k /\ v = local[k])
<1> SUFFICES ASSUME NEW f \in Endpoints, NEW j \in Keys
             PROVE  /\ stored'[f][j] <= delivered'[f][j] /\ delivered'[f][j] <= latest[j]
                    /\ local[j] # 0 /\ delivered'[f][j] # local[j] =>
                          /\ delivered[f][j] # local[j]
                          /\ ~(f = e /\ j = k /\ v = local[k])
  OBVIOUS
<1>1. /\ stored[f][j] \in Int /\ delivered[f][j] \in Int
      /\ latest[j] \in Int /\ v \in Int
  BY DEF Inv, TypeOK, Versions
<1>2. /\ stored[f][j] <= delivered[f][j] /\ delivered[f][j] <= latest[j]
      /\ local[j] = 0 \/ local[j] = latest[j]
  BY DEF Inv, VersionsOrdered
<1>3. CASE f = e /\ j = k
  <2>1. stored'[f][j] = v
    BY <1>3, ApplyEffect DEF Inv
  <2>2. delivered'[f][j] = IF delivered[f][j] < v THEN v ELSE delivered[f][j]
    BY <1>3, ApplyEffect DEF Inv
  <2> QED
    BY <1>1, <1>2, <1>3, <2>1, <2>2
<1>4. CASE ~(f = e /\ j = k)
  <2>1. stored'[f][j] = stored[f][j] /\ delivered'[f][j] = delivered[f][j]
    BY <1>4, ApplyEffect DEF Inv
  <2> QED
    BY <1>1, <1>2, <1>4, <2>1
<1> QED
  BY <1>3, <1>4

\* A PUT applied and answered, or applied and unanswered.
LEMMA AppliedInv ==
    ASSUME Inv, NEW w \in Workers, PushSucceeds(w) \/ AnswerLost(w)
    PROVE  Inv'
<1>1. /\ me[w].pc = "push" /\ Apply(me[w].ep, me[w].task, me[w].data)
      /\ \/ Return(w, "ok") /\ UNCHANGED faults
         \/ Return(w, "failed") /\ Fault
      /\ UNCHANGED <<site, queue, running, late, lost>>
  BY DEF PushSucceeds, AnswerLost
<1>2. /\ me' \in [Workers -> WorkerState]
      /\ \A v \in Workers \ {w} : me'[v] = me[v]
      /\ me'[w].pc \in {"call", "end"}
  BY <1>1, ReturnEffect DEF Inv
<1>3. /\ me[w].ep \in Endpoints /\ me[w].task \in Keys /\ me[w].data \in Versions
      /\ me[w].data <= latest[me[w].task]
  BY <1>1 DEF Inv, TypeOK, WorkerState, VersionsOrdered
<1>4. TypeOK'
  <2>1. faults' \in Nat
    BY <1>1, FaultCounts DEF Inv, TypeOK
  <2>2. /\ stored' \in [Endpoints -> [Keys -> Versions]]
        /\ delivered' \in [Endpoints -> [Keys -> Versions]]
    BY <1>1, <1>3, ApplyEffect DEF Inv
  <2> QED
    BY <1>1, <1>2, <2>1, <2>2 DEF Inv, TypeOK, site
<1>5. VersionsOrdered'
  <2>1. \A f \in Endpoints, j \in Keys :
           stored'[f][j] <= delivered'[f][j] /\ delivered'[f][j] <= latest[j]
    BY <1>1, <1>3, ApplyOrdered
  <2> QED
    BY <1>1, <1>2, <2>1 DEF Inv, VersionsOrdered, site
<1>6. NoWriteForgotten'
  <2> SUFFICES ASSUME NEW k \in Keys, NEW e \in Endpoints,
                      local[k] # 0, delivered'[e][k] # local[k]
               PROVE  InPending(k)' \/ InQueue(k)' \/ \E v \in Workers : Covers(v, k, e)'
    BY <1>1 DEF NoWriteForgotten, site
  <2>1. /\ delivered[e][k] # local[k]
        /\ ~(me[w].task = k /\ me[w].ep = e /\ me[w].data = local[k])
    BY <1>1, <1>3, ApplyOrdered
  <2>2. InPending(k) \/ InQueue(k) \/ \E v \in Workers : Covers(v, k, e)
    BY <2>1 DEF Inv, NoWriteForgotten
  <2> QED
    BY <1>1, <2>1, <2>2, FailedReturnCovers, GoodReturnCovers
<1> QED
  BY <1>4, <1>5, <1>6 DEF Inv

\* A PUT that arrives late may bring an endpoint back to an old version, but it
\* does not undo a delivery.
LEMMA LateInv ==
    ASSUME Inv, ArrivesLate
    PROVE  Inv'
<1>1. PICK p \in late : late' = late \ {p} /\ Apply(p[1], p[2], p[3])
  BY DEF ArrivesLate
<1>2. UNCHANGED <<site, queue, running, me, lost, faults>>
  BY DEF ArrivesLate
<1>3. /\ p[1] \in Endpoints /\ p[2] \in Keys /\ p[3] \in Versions
      /\ p[3] <= latest[p[2]]
  BY DEF Inv, TypeOK, VersionsOrdered
<1>4. TypeOK'
  BY <1>1, <1>2, <1>3, ApplyEffect DEF Inv, TypeOK, site
<1>5. VersionsOrdered'
  BY <1>1, <1>2, <1>3, ApplyOrdered DEF Inv, VersionsOrdered, site
<1>6. NoWriteForgotten'
  <2> SUFFICES ASSUME NEW k \in Keys, NEW e \in Endpoints,
                      local[k] # 0, delivered'[e][k] # local[k]
               PROVE  InPending(k)' \/ InQueue(k)' \/ \E v \in Workers : Covers(v, k, e)'
    BY <1>2 DEF NoWriteForgotten, site
  <2>1. delivered[e][k] # local[k]
    BY <1>1, <1>3, ApplyOrdered
  <2>2. InPending(k) \/ InQueue(k) \/ \E v \in Workers : Covers(v, k, e)
    BY <2>1 DEF Inv, NoWriteForgotten
  <2>3. \A v \in Workers : Covers(v, k, e) => Covers(v, k, e)'
    BY <1>2 DEF Covers, Failed, site
  <2> QED
    BY <1>2, <2>2, <2>3 DEF InPending, InQueue, site
<1> QED
  BY <1>4, <1>5, <1>6 DEF Inv

-----------------------------------------------------------------------------
(* worker_loop.                                                             *)

\* The worker that takes a task has every endpoint ahead of it.
LEMMA DequeueInv ==
    ASSUME Inv, NEW w \in Workers, Dequeue(w)
    PROVE  Inv'
<1> DEFINE s == [pc |-> "call", task |-> Head(queue), pass |-> 1, ep |-> 1,
                 data |-> 0, results |-> {}, backoff |-> me[w].backoff]
<1>1. /\ me[w].pc = "idle" /\ queue # <<>> /\ queue' = Tail(queue) /\ Becomes(w, s)
      /\ UNCHANGED <<site, running, remote, faults>>
  BY DEF Dequeue
<1>2. /\ queue' \in Seq(Keys) /\ Head(queue) \in Keys
      /\ \A k \in Keys : InQueue(k) => k = Head(queue) \/ InQueue(k)'
  BY <1>1, TailQueues DEF Inv, TypeOK
<1>3. /\ s \in WorkerState /\ s.pc = "call" /\ s.task = Head(queue)
      /\ s.pass = 1 /\ s.ep = 1
  <2>1. me[w].backoff \in Nat /\ 0 \in Versions
    BY BoundAssumption DEF Inv, TypeOK, WorkerState, Versions
  <2> QED
    BY <1>2, <2>1, FirstEndpoint DEF WorkerState
<1> HIDE DEF s
<1>4. /\ me' \in [Workers -> WorkerState] /\ me'[w] = s
      /\ \A v \in Workers \ {w} : me'[v] = me[v]
  BY <1>1, <1>3, BecomesEffect DEF Inv
<1>5. TypeOK'
  BY <1>1, <1>2, <1>4 DEF Inv, TypeOK, site, remote
<1>6. VersionsOrdered'
  BY <1>1, <1>3, <1>4 DEF Inv, VersionsOrdered, site, remote
<1>7. NoWriteForgotten'
  <2> SUFFICES ASSUME NEW k \in Keys, NEW e \in Endpoints,
                      local[k] # 0, delivered[e][k] # local[k]
               PROVE  InPending(k)' \/ InQueue(k)' \/ \E v \in Workers : Covers(v, k, e)'
    BY <1>1 DEF NoWriteForgotten, site, remote
  <2>1. InPending(k) \/ InQueue(k) \/ \E v \in Workers : Covers(v, k, e)
    BY DEF Inv, NoWriteForgotten
  <2>2. CASE k = Head(queue)
    BY <1>3, <1>4, <2>2 DEF Covers, Endpoints
  <2>3. CASE InPending(k)
    BY <1>1, <2>3 DEF InPending, site
  <2>4. ASSUME NEW v \in Workers, Covers(v, k, e) PROVE Covers(v, k, e)'
    <3>1. v # w
      BY <1>1, <2>4 DEF Covers
    <3> QED
      BY <1>1, <1>4, <2>4, <3>1 DEF Covers, Failed, site
  <2> QED
    BY <1>2, <2>1, <2>2, <2>3, <2>4
<1> QED
  BY <1>5, <1>6, <1>7 DEF Inv

\* The end of a pass, with the task queued again if the first pass failed.
LEMMA EndOfPassInv ==
    ASSUME Inv, NEW w \in Workers, NEW s \in WorkerState,
           me[w].pc = "end", Becomes(w, s), s.pc \in {"call", "idle"},
           \/ queue' = queue /\ (me[w].pass = 1 => ~Failed(w))
           \/ queue' = Append(queue, me[w].task),
           UNCHANGED <<site, running, remote, faults>>
    PROVE  Inv'
<1>1. /\ me' \in [Workers -> WorkerState] /\ me'[w] = s
      /\ \A v \in Workers \ {w} : me'[v] = me[v]
  BY BecomesEffect DEF Inv
<1>2. me[w].task \in Keys
  BY DEF Inv, TypeOK, WorkerState
<1>3. /\ queue' \in Seq(Keys)
      /\ \A k \in Keys : InQueue(k) => InQueue(k)'
      /\ me[w].pass = 1 /\ Failed(w) => \A k \in Keys : k = me[w].task => InQueue(k)'
  <2>1. CASE queue' = queue /\ (me[w].pass = 1 => ~Failed(w))
    BY <2>1 DEF Inv, TypeOK, InQueue
  <2>2. CASE queue' = Append(queue, me[w].task)
    BY <1>2, <2>2, AppendQueues DEF Inv, TypeOK
  <2> QED
    BY <2>1, <2>2
<1>4. TypeOK'
  BY <1>1, <1>3 DEF Inv, TypeOK, site, remote
<1>5. VersionsOrdered'
  BY <1>1 DEF Inv, VersionsOrdered, site, remote
<1>6. NoWriteForgotten'
  <2> SUFFICES ASSUME NEW k \in Keys, NEW e \in Endpoints,
                      local[k] # 0, delivered[e][k] # local[k]
               PROVE  InPending(k)' \/ InQueue(k)' \/ \E v \in Workers : Covers(v, k, e)'
    BY DEF NoWriteForgotten, site, remote
  <2>1. InPending(k) \/ InQueue(k) \/ \E v \in Workers : Covers(v, k, e)
    BY DEF Inv, NoWriteForgotten
  <2>2. CASE InPending(k)
    BY <2>2 DEF InPending, site
  <2>3. ASSUME NEW v \in Workers, Covers(v, k, e) PROVE Covers(v, k, e)' \/ InQueue(k)'
    <3>1. CASE v = w
      BY <1>3, <2>3, <3>1 DEF Covers
    <3>2. CASE v # w
      BY <1>1, <2>3, <3>2 DEF Covers, Failed, site
    <3> QED
      BY <3>1, <3>2
  <2> QED
    BY <1>3, <2>1, <2>2, <2>3
<1> QED
  BY <1>4, <1>5, <1>6 DEF Inv

\* The end of a pass that is followed by another one.
LEMMA EndPassInv ==
    ASSUME Inv, NEW w \in Workers, NEW i \in 1..3, NEW again \in BOOLEAN,
           NEW b \in Nat, EndPass(w, i, again, b), i = 1 => (again <=> Failed(w))
    PROVE  Inv'
<1> DEFINE s == [me[w] EXCEPT !.pc = "call", !.pass = i + 1, !.ep = 1,
                              !.results = {}, !.backoff = b]
<1>1. me[w] \in WorkerState
  BY DEF Inv, TypeOK
<1>2. s \in WorkerState /\ s.pc = "call"
  <2>1. i + 1 \in 1..4
    OBVIOUS
  <2> QED
    BY <1>1, <2>1, FirstEndpoint DEF WorkerState
<1>3. /\ me[w].pc = "end" /\ me[w].pass = i /\ Becomes(w, s)
      /\ UNCHANGED <<site, running, remote, faults>>
  BY DEF EndPass
<1>4. CASE again
  <2>1. queue' = Append(queue, me[w].task)
    BY <1>4 DEF EndPass
  <2> QED
    BY <1>2, <1>3, <2>1, EndOfPassInv
<1>5. CASE ~again
  <2>1. queue' = queue /\ (me[w].pass = 1 => ~Failed(w))
    BY <1>3, <1>5 DEF EndPass
  <2> QED
    BY <1>2, <1>3, <2>1, EndOfPassInv
<1> QED
  BY <1>4, <1>5

\* The end of the last pass: the worker is idle again.
LEMMA EndTaskInv ==
    ASSUME Inv, NEW w \in Workers, NEW i \in {2, 4}, NEW again \in BOOLEAN,
           NEW b \in Nat, EndTask(w, i, again, b)
    PROVE  Inv'
<1> DEFINE s == [me[w] EXCEPT !.pc = "idle", !.backoff = b]
<1>1. me[w] \in WorkerState
  BY DEF Inv, TypeOK
<1>2. s \in WorkerState /\ s.pc = "idle"
  BY <1>1 DEF WorkerState
<1>3. /\ me[w].pc = "end" /\ me[w].pass = i /\ Becomes(w, s)
      /\ UNCHANGED <<site, running, remote, faults>>
  BY DEF EndTask
<1>4. CASE again
  <2>1. queue' = Append(queue, me[w].task)
    BY <1>4 DEF EndTask
  <2> QED
    BY <1>2, <1>3, <2>1, EndOfPassInv
<1>5. CASE ~again
  <2>1. queue' = queue /\ me[w].pass # 1
    BY <1>3, <1>5 DEF EndTask
  <2> QED
    BY <1>2, <1>3, <2>1, EndOfPassInv
<1> QED
  BY <1>4, <1>5

\* The five ways a pass of worker_loop ends.
LEMMA PassesInv ==
    ASSUME Inv, NEW w \in Workers,
           \/ EndPass1(w) \/ EndPass2(w) \/ DropTask(w) \/ EndPass3(w) \/ EndPass4(w)
    PROVE  Inv'
<1>1. me[w].backoff \in Nat
  BY DEF Inv, TypeOK, WorkerState
<1>2. Failed(w) \in BOOLEAN /\ ("ok" \notin me[w].results) \in BOOLEAN
  BY DEF Failed
<1>3. CASE EndPass1(w)
  BY <1>1, <1>2, <1>3, EndPassInv DEF EndPass1
<1>4. CASE EndPass2(w)
  <2> DEFINE b == IF Failed(w) THEN me[w].backoff + 1 ELSE 0
  <2>1. b \in Nat
    BY <1>1
  <2>2. EndPass(w, 2, Failed(w), b)
    BY <1>4 DEF EndPass2
  <2> QED
    BY <1>2, <2>1, <2>2, EndPassInv
<1>5. CASE DropTask(w)
  <2>1. me[w].backoff + 1 \in Nat
    BY <1>1
  <2>2. EndTask(w, 2, FALSE, me[w].backoff + 1)
    BY <1>5 DEF DropTask
  <2> QED
    BY <2>1, <2>2, EndTaskInv
<1>6. CASE EndPass3(w)
  BY <1>1, <1>2, <1>6, EndPassInv DEF EndPass3
<1>7. CASE EndPass4(w)
  BY <1>1, <1>2, <1>7, EndTaskInv DEF EndPass4
<1> QED
  BY <1>3, <1>4, <1>5, <1>6, <1>7

\* Stop clears running_; a stuttering step changes nothing.
LEMMA StopInv ==
    ASSUME Inv, Stop \/ UNCHANGED vars
    PROVE  Inv'
<1>1. UNCHANGED <<site, queue, me, remote, faults>>
  BY DEF Stop, vars
<1>2. running' \in BOOLEAN
  BY DEF Stop, vars, Inv, TypeOK
<1>3. TypeOK'
  BY <1>1, <1>2 DEF Inv, TypeOK, site, remote
<1>4. VersionsOrdered'
  BY <1>1 DEF Inv, VersionsOrdered, site, remote
<1>5. NoWriteForgotten'
  BY <1>1 DEF Inv, NoWriteForgotten, InPending, InQueue, Covers, Failed, site, remote
<1> QED
  BY <1>3, <1>4, <1>5 DEF Inv

-----------------------------------------------------------------------------
\* Every step keeps the invariant.
LEMMA InvStep ==
    ASSUME Inv, [Next]_vars
    PROVE  Inv'
<1>1. ASSUME NEW k \in Keys, PutObject(k) \/ DeleteObject(k) PROVE Inv'
  BY <1>1, PutInv, DeleteInv
<1>2. ASSUME NEW p \in pending, QueueReplication(p) PROVE Inv'
  BY <1>2, QueueInv
<1>3. ASSUME NEW w \in Workers, worker_loop(w) PROVE Inv'
  BY <1>3, DequeueInv, ReadInv, FailedAttemptInv, HeadMatchesInv, AppliedInv,
     GivenUpInv, PassesInv DEF worker_loop, replicate_to_endpoint
<1> QED
  BY <1>1, <1>2, <1>3, LateInv, StopInv DEF Next

(* The inductive invariant holds in every behaviour of the engine.          *)
THEOREM EngineInvariant == Spec => []Inv
  BY InvInit, InvStep, PTL DEF Spec

(* Type correctness of the engine.                                          *)
THEOREM EngineTypeCorrect == Spec => []TypeOK
  BY EngineInvariant, PTL DEF Inv

(* No write is forgotten, for any number of workers, endpoints, writes and  *)
(* failures: an endpoint that never held an object's current version still  *)
(* has a task coming for it.                                                *)
THEOREM EngineForgetsNoWrite == Spec => []NoWriteForgotten
  BY EngineInvariant, PTL DEF Inv

(* When the engine has nothing left to do, every endpoint has at some time  *)
(* held the current version of every object (it may since have been         *)
(* overwritten by an older one: see ConvergedWhenQuiescent).                *)
THEOREM EngineDeliversAll ==
    Spec => [](Quiescent => \A k \in Keys, e \in Endpoints :
                               local[k] # 0 => delivered[e][k] = local[k])
<1>1. Inv => (Quiescent => \A k \in Keys, e \in Endpoints :
                              local[k] # 0 => delivered[e][k] = local[k])
  BY DEF Inv, NoWriteForgotten, Quiescent, InPending, InQueue, Covers
<1> QED
  BY <1>1, EngineInvariant, PTL

-----------------------------------------------------------------------------
(* Tasks are paid for.                                                      *)

\* Counting a finite set that grows by at most one element, or loses one.
LEMMA GrowsByOne ==
    ASSUME NEW S, NEW T, NEW x, IsFiniteSet(S), T \subseteq S \cup {x}
    PROVE  Cardinality(T) <= Cardinality(S) + 1
<1> DEFINE n == Cardinality(S)
<1>1. n \in Nat
  BY FS_CardinalityType
<1>2. /\ IsFiniteSet(S \cup {x})
      /\ Cardinality(S \cup {x}) = n \/ Cardinality(S \cup {x}) = n + 1
  BY FS_AddElement
<1>3. IsFiniteSet(T) /\ Cardinality(T) <= Cardinality(S \cup {x}) /\ Cardinality(T) \in Nat
  BY <1>2, FS_Subset, FS_CardinalityType
<1> HIDE DEF n
<1>4. Cardinality(T) <= n + 1
  BY <1>1, <1>2, <1>3
<1> QED
  BY <1>4 DEF n

LEMMA ShrinksByOne ==
    ASSUME NEW S, NEW T, NEW x \in S, IsFiniteSet(S), T \subseteq S \ {x}
    PROVE  Cardinality(T) <= Cardinality(S) - 1
<1>1. IsFiniteSet(S \ {x}) /\ Cardinality(S \ {x}) = Cardinality(S) - 1
  BY FS_RemoveElement
<1>2. Cardinality(T) <= Cardinality(S \ {x})
  BY <1>1, FS_Subset
<1> QED
  BY <1>1, <1>2

\* There are finitely many writes.
LEMMA WritesFinite == IsFiniteSet(Keys \X Versions)
<1>1. 0 \in Int /\ MaxVersion \in Int
  BY BoundAssumption
<1>2. IsFiniteSet(0..MaxVersion)
  BY <1>1, FS_Interval, Zenon
<1>3. IsFiniteSet(Versions)
  BY <1>2 DEF Versions
<1> QED
  BY <1>3, FS_Product, FiniteAssumption

\* The sets that are counted are finite, before and after a step.
LEMMA AllFinite ==
    ASSUME TypeOK, TypeOK'
    PROVE  /\ IsFiniteSet(Busy) /\ IsFiniteSet(Busy')
           /\ IsFiniteSet(Owing) /\ IsFiniteSet(Owing')
           /\ IsFiniteSet(pending) /\ IsFiniteSet(pending')
           /\ IsFiniteSet(Written) /\ IsFiniteSet(Written')
<1>1. Busy \subseteq Workers /\ Busy' \subseteq Workers
  BY DEF Busy
<1>2. Owing \subseteq Workers /\ Owing' \subseteq Workers
  BY <1>1 DEF Owing
<1>3. Written \subseteq Keys \X Versions /\ Written' \subseteq Keys \X Versions
  BY DEF Written
<1>4. pending \subseteq Keys \X Versions /\ pending' \subseteq Keys \X Versions
  BY DEF TypeOK
<1> QED
  BY <1>1, <1>2, <1>3, <1>4, WritesFinite, FS_Subset, FiniteAssumption

\* The balance of a step: what enters the queue, the workers, their debts and
\* the pending writes, against new writes and failures.
LEMMA Balance ==
    ASSUME TypeOK, TypeOK', TasksPaid,
           NEW q \in Int, Len(queue') <= Len(queue) + q,
           NEW b \in Int, Cardinality(Busy') <= Cardinality(Busy) + b,
           NEW o \in Int, Cardinality(Owing') <= Cardinality(Owing) + o,
           NEW p \in Int, Cardinality(pending') <= Cardinality(pending) + p,
           NEW n \in Int, Cardinality(Written') >= Cardinality(Written) + n,
           NEW f \in Int, faults' >= faults + f,
           q + b + o + p <= n + f
    PROVE  TasksPaid'
<1>1. /\ Cardinality(Busy) \in Nat /\ Cardinality(Busy') \in Nat
      /\ Cardinality(Owing) \in Nat /\ Cardinality(Owing') \in Nat
      /\ Cardinality(pending) \in Nat /\ Cardinality(pending') \in Nat
      /\ Cardinality(Written) \in Nat /\ Cardinality(Written') \in Nat
  BY AllFinite, FS_CardinalityType
<1>2. Len(queue) \in Nat /\ Len(queue') \in Nat /\ faults \in Nat /\ faults' \in Nat
  BY DEF TypeOK
<1>3. Len(queue) + Cardinality(Busy) + Cardinality(Owing) + Cardinality(pending)
         <= Cardinality(Written) + faults
  BY DEF TasksPaid
<1> DEFINE a == Len(queue)            a1 == Len(queue')
           b0 == Cardinality(Busy)    b1 == Cardinality(Busy')
           c == Cardinality(Owing)    c1 == Cardinality(Owing')
           d == Cardinality(pending)  d1 == Cardinality(pending')
           e == Cardinality(Written)  e1 == Cardinality(Written')
<1>4. /\ a \in Nat /\ b0 \in Nat /\ c \in Nat /\ d \in Nat /\ e \in Nat
      /\ a1 \in Nat /\ b1 \in Nat /\ c1 \in Nat /\ d1 \in Nat /\ e1 \in Nat
  BY <1>1, <1>2
<1>5. a1 <= a + q /\ b1 <= b0 + b /\ c1 <= c + o /\ d1 <= d + p /\ e1 >= e + n
      /\ a + b0 + c + d <= e + faults
  BY <1>3
<1> HIDE DEF a, a1, b0, b1, c, c1, d, d1, e, e1
<1>6. (a1 + b1) + (c1 + d1) <= (a + b0 + c + d) + (q + b + o + p)
  BY <1>4, <1>5
<1>7. (e + faults) + (n + f) <= e1 + faults'
  <2>1. faults + f <= faults' /\ e + n <= e1
    BY <1>2, <1>4, <1>5
  <2>2. \A g, g1 \in Nat : g + f <= g1 => (e + g) + (n + f) <= e1 + g1
    BY <1>4, <2>1
  <2> QED
    BY <1>2, <2>1, <2>2
<1>8. a1 + b1 + c1 + d1 <= e1 + faults'
  <2> DEFINE old == a + b0 + c + d    new == (a1 + b1) + (c1 + d1)
             x == q + b + o + p       y == n + f
             paid == e + faults       paid1 == e1 + faults'
  <2>1. old \in Int /\ new \in Int /\ x \in Int /\ y \in Int /\ paid \in Int /\ paid1 \in Int
    BY <1>2, <1>4
  <2>2. new <= old + x /\ paid + y <= paid1 /\ old <= paid /\ x <= y
    BY <1>5, <1>6, <1>7
  <2> HIDE DEF old, new, x, y, paid, paid1
  <2>3. new <= paid1
    BY <2>1, <2>2
  <2> QED
    BY <1>4, <2>3 DEF new, paid1
<1> QED
  BY <1>8 DEF TasksPaid, a1, b1, c1, d1, e1

\* A step that changes one worker, which does not start, and queues nothing.
LEMMA WorkerPaid ==
    ASSUME TypeOK, TypeOK', TasksPaid, NEW w \in Workers,
           \A v \in Workers \ {w} : me'[v] = me[v],
           UNCHANGED <<queue, pending, latest>>,
           w \in Busy,
           \/ faults' = faults /\ (Failed(w)' => Failed(w))
           \/ faults' = faults + 1
    PROVE  TasksPaid'
<1>1. Busy' \subseteq Busy
  BY DEF Busy
<1>2. Owing' \subseteq Owing \cup {w}
  BY <1>1 DEF Owing, Failed, Busy
<1>3. Written' = Written
  BY DEF Written
<1>4. Cardinality(Busy') <= Cardinality(Busy) + 0
  BY <1>1, AllFinite, FS_Subset, FS_CardinalityType
<1>5. /\ Len(queue') <= Len(queue) + 0
      /\ Cardinality(pending') <= Cardinality(pending) + 0
      /\ Cardinality(Written') >= Cardinality(Written) + 0
  BY <1>3, AllFinite, FS_CardinalityType DEF TypeOK
<1>6. CASE faults' = faults /\ (Failed(w)' => Failed(w))
  <2>1. Owing' \subseteq Owing
    BY <1>2, <1>6 DEF Owing
  <2>2. Cardinality(Owing') <= Cardinality(Owing) + 0
    BY <2>1, AllFinite, FS_Subset, FS_CardinalityType
  <2>3. faults' >= faults + 0
    BY <1>6 DEF TypeOK
  <2> QED
    BY <1>4, <1>5, <2>2, <2>3, Balance
<1>7. CASE faults' = faults + 1
  <2>1. Cardinality(Owing') <= Cardinality(Owing) + 1
    BY <1>2, AllFinite, GrowsByOne
  <2>2. faults' >= faults + 1
    BY <1>7 DEF TypeOK
  <2> QED
    <3>1. 0 \in Int /\ 1 \in Int /\ 0 + 0 + 1 + 0 <= 0 + 1
      OBVIOUS
    <3> QED
      BY <1>4, <1>5, <2>1, <2>2, <3>1, Balance, Zenon
<1> QED
  BY <1>6, <1>7

\* replicate_to_endpoint: only a failure makes a worker owe a task.
LEMMA AttemptPaid ==
    ASSUME Inv, TypeOK', TasksPaid, NEW w \in Workers, replicate_to_endpoint(w)
    PROVE  TasksPaid'
<1> USE DEF site, remote
<1>1. TypeOK /\ me[w] \in WorkerState
  BY DEF Inv, TypeOK
<1>2. w \in Busy /\ UNCHANGED <<queue, pending, latest>>
  BY DEF replicate_to_endpoint, ReadObject, NoAttempt, HeadMatches, HeadDiffers, PushSucceeds,
     PushFails, AnswerLost, PushGivenUp, Busy
<1>3. CASE ReadObject(w) \/ HeadDiffers(w)
  <2>1. \A v \in Workers \ {w} : me'[v] = me[v]
    BY <1>1, <1>3 DEF ReadObject, HeadDiffers, Becomes, TypeOK
  <2>2. me'[w].results = me[w].results
    <3>1. CASE ReadObject(w)
      BY <1>1, <3>1 DEF ReadObject, Becomes, TypeOK, WorkerState
    <3>2. CASE HeadDiffers(w)
      BY <1>1, <3>2 DEF HeadDiffers, Becomes, TypeOK, WorkerState
    <3> QED
      BY <1>3, <3>1, <3>2
  <2>3. faults' = faults
    BY <1>3 DEF ReadObject, HeadDiffers
  <2> QED
    BY <1>1, <1>2, <2>1, <2>2, <2>3, WorkerPaid DEF Failed
<1>4. CASE HeadMatches(w) \/ PushSucceeds(w)
  <2>1. /\ \A v \in Workers \ {w} : me'[v] = me[v]
        /\ me'[w].results = me[w].results \cup {"ok"}
    BY <1>1, <1>4, ReturnEffect DEF HeadMatches, PushSucceeds
  <2>2. faults' = faults
    BY <1>4 DEF HeadMatches, PushSucceeds
  <2> QED
    BY <1>1, <1>2, <2>1, <2>2, WorkerPaid DEF Failed
<1>5. CASE NoAttempt(w) \/ PushFails(w) \/ AnswerLost(w) \/ PushGivenUp(w)
  <2>1. \A v \in Workers \ {w} : me'[v] = me[v]
    BY <1>1, <1>5, ReturnEffect DEF NoAttempt, PushFails, AnswerLost, PushGivenUp
  <2>2. faults' = faults + 1
    BY <1>5 DEF NoAttempt, PushFails, AnswerLost, PushGivenUp, Fault
  <2> QED
    BY <1>1, <1>2, <2>1, <2>2, WorkerPaid
<1> QED
  BY <1>3, <1>4, <1>5 DEF replicate_to_endpoint

\* A worker starts: its task leaves the queue.
LEMMA DequeuePaid ==
    ASSUME Inv, TypeOK', TasksPaid, NEW w \in Workers, Dequeue(w)
    PROVE  TasksPaid'
<1> USE DEF site, remote
<1>1. TypeOK
  BY DEF Inv
<1>2. /\ \A v \in Workers \ {w} : me'[v] = me[v]
      /\ me'[w].pc = "call" /\ me'[w].results = {}
  BY <1>1 DEF Dequeue, Becomes, TypeOK
<1>3. Len(queue') <= Len(queue) + (-1)
  BY <1>1 DEF Dequeue, TypeOK
<1>4. Cardinality(Busy') <= Cardinality(Busy) + 1
  <2>1. Busy' \subseteq Busy \cup {w}
    BY <1>2 DEF Busy
  <2> QED
    BY <1>1, <2>1, AllFinite, GrowsByOne
<1>5. Cardinality(Owing') <= Cardinality(Owing) + 0
  <2>1. Owing' \subseteq Owing
    BY <1>2 DEF Owing, Failed, Busy
  <2> QED
    BY <1>1, <2>1, AllFinite, FS_Subset, FS_CardinalityType
<1>6. /\ Cardinality(pending') <= Cardinality(pending) + 0
      /\ Cardinality(Written') >= Cardinality(Written) + 0
      /\ faults' >= faults + 0
  <2>1. Written' = Written /\ pending' = pending /\ faults' = faults
    BY DEF Dequeue, Written
  <2> QED
    BY <1>1, <2>1, AllFinite, FS_CardinalityType DEF TypeOK
<1>7. 0 \in Int /\ 1 \in Int /\ -1 \in Int /\ (-1) + 1 + 0 + 0 <= 0 + 0
  OBVIOUS
<1> QED
  BY <1>1, <1>3, <1>4, <1>5, <1>6, <1>7, Balance, Zenon

\* What the end of a pass or of a task does to a worker.
LEMMA EndEffect ==
    ASSUME TypeOK, NEW w \in Workers, NEW i, NEW again, NEW n,
           EndPass(w, i, again, n) \/ EndTask(w, i, again, n)
    PROVE  /\ \A v \in Workers \ {w} : me'[v] = me[v]
           /\ w \in Busy
           /\ EndPass(w, i, again, n) => me'[w].results = {}
           /\ EndTask(w, i, again, n) => me'[w].pc = "idle"
           /\ Len(queue') = IF again THEN Len(queue) + 1 ELSE Len(queue)
           /\ UNCHANGED <<pending, latest, faults>>
<1>1. me[w] \in WorkerState /\ queue \in Seq(Keys) /\ me[w].task \in Keys
  BY DEF TypeOK, WorkerState
<1>2. Len(queue') = IF again THEN Len(queue) + 1 ELSE Len(queue)
  BY <1>1 DEF EndPass, EndTask
<1>3. UNCHANGED <<pending, latest, faults>> /\ w \in Busy
  BY DEF EndPass, EndTask, site, Busy
<1>4. \A v \in Workers \ {w} : me'[v] = me[v]
  BY DEF EndPass, EndTask, Becomes, TypeOK
<1>5. EndPass(w, i, again, n) => me'[w].results = {}
  BY <1>1 DEF EndPass, Becomes, TypeOK, WorkerState
<1>6. EndTask(w, i, again, n) => me'[w].pc = "idle"
  BY <1>1 DEF EndTask, Becomes, TypeOK, WorkerState
<1> QED
  BY <1>2, <1>3, <1>4, <1>5, <1>6

\* A pass ends: a worker that met a failure settles its debt.
LEMMA EndPassPaid ==
    ASSUME Inv, TypeOK', TasksPaid, NEW w \in Workers, NEW i, NEW n,
           EndPass(w, i, Failed(w), n)
    PROVE  TasksPaid'
<1>1. TypeOK
  BY DEF Inv
<1>3. /\ \A v \in Workers \ {w} : me'[v] = me[v]
      /\ w \in Busy /\ me'[w].results = {}
      /\ Len(queue') = IF Failed(w) THEN Len(queue) + 1 ELSE Len(queue)
      /\ UNCHANGED <<pending, latest, faults>>
  BY <1>1, EndEffect
<1>4. Cardinality(Busy') <= Cardinality(Busy) + 0
  <2>1. Busy' \subseteq Busy
    BY <1>3 DEF Busy
  <2> QED
    BY <1>1, <2>1, AllFinite, FS_Subset, FS_CardinalityType
<1>5. Owing' \subseteq Owing \ {w}
  BY <1>3 DEF Owing, Failed, Busy
<1>6. /\ Cardinality(pending') <= Cardinality(pending) + 0
      /\ Cardinality(Written') >= Cardinality(Written) + 0
      /\ faults' >= faults + 0
  <2>1. Written' = Written
    BY <1>3 DEF Written
  <2> QED
    BY <1>1, <1>3, <2>1, AllFinite, FS_CardinalityType DEF TypeOK
<1>7. CASE Failed(w)
  <2>1. w \in Owing
    BY <1>3, <1>7 DEF Owing
  <2>2. Cardinality(Owing') <= Cardinality(Owing) + (-1)
    <3>1. Cardinality(Owing') <= Cardinality(Owing) - 1 /\ Cardinality(Owing) \in Nat
      BY <1>1, <1>5, <2>1, AllFinite, ShrinksByOne, FS_CardinalityType
    <3> QED
      BY <3>1
  <2>3. Len(queue') <= Len(queue) + 1
    BY <1>1, <1>3, <1>7 DEF TypeOK
  <2>4. 0 \in Int /\ 1 \in Int /\ -1 \in Int /\ 1 + 0 + (-1) + 0 <= 0 + 0
    OBVIOUS
  <2> QED
    BY <1>1, <1>4, <1>6, <2>2, <2>3, <2>4, Balance, Zenon
<1>8. CASE ~Failed(w)
  <2>1. Cardinality(Owing') <= Cardinality(Owing) + 0
    BY <1>1, <1>5, AllFinite, FS_Subset, FS_CardinalityType
  <2>2. Len(queue') <= Len(queue) + 0
    BY <1>1, <1>3, <1>8 DEF TypeOK
  <2> QED
    <3>1. 0 \in Int /\ 0 + 0 + 0 + 0 <= 0 + 0
      OBVIOUS
    <3> QED
      BY <1>1, <1>4, <1>6, <2>1, <2>2, <3>1, Balance, Zenon
<1> QED
  BY <1>7, <1>8

\* A task ends: the worker hands it back to the queue, or drops it.
LEMMA EndTaskPaid ==
    ASSUME Inv, TypeOK', TasksPaid, NEW w \in Workers, NEW i, NEW again, NEW n,
           EndTask(w, i, again, n)
    PROVE  TasksPaid'
<1>1. TypeOK
  BY DEF Inv
<1>2. /\ \A v \in Workers \ {w} : me'[v] = me[v]
      /\ w \in Busy /\ me'[w].pc = "idle"
      /\ Len(queue') <= Len(queue) + 1
      /\ UNCHANGED <<pending, latest, faults>>
  <2>1. Len(queue) \in Nat
    BY <1>1 DEF TypeOK
  <2> QED
    BY <1>1, <2>1, EndEffect
<1>3. Cardinality(Busy') <= Cardinality(Busy) + (-1)
  <2>1. Busy' \subseteq Busy \ {w}
    BY <1>2 DEF Busy
  <2>2. Cardinality(Busy') <= Cardinality(Busy) - 1 /\ Cardinality(Busy) \in Nat
    BY <1>1, <1>2, <2>1, AllFinite, ShrinksByOne, FS_CardinalityType
  <2> QED
    BY <2>2
<1>4. Cardinality(Owing') <= Cardinality(Owing) + 0
  <2>1. Owing' \subseteq Owing
    BY <1>2 DEF Owing, Failed, Busy
  <2> QED
    BY <1>1, <2>1, AllFinite, FS_Subset, FS_CardinalityType
<1>5. /\ Cardinality(pending') <= Cardinality(pending) + 0
      /\ Cardinality(Written') >= Cardinality(Written) + 0
      /\ faults' >= faults + 0
  <2>1. Written' = Written
    BY <1>2 DEF Written
  <2> QED
    BY <1>1, <1>2, <2>1, AllFinite, FS_CardinalityType DEF TypeOK
<1>6. 0 \in Int /\ 1 \in Int /\ -1 \in Int /\ 1 + (-1) + 0 + 0 <= 0 + 0
  OBVIOUS
<1> QED
  BY <1>1, <1>2, <1>3, <1>4, <1>5, <1>6, Balance, Zenon

\* A write: one more pending, one more written.
LEMMA PutPaid ==
    ASSUME Inv, TypeOK', TasksPaid, NEW k \in Keys, PutObject(k)
    PROVE  TasksPaid'
<1>1. TypeOK
  BY DEF Inv
<1> DEFINE x == <<k, latest[k] + 1>>
<1>2. Busy' = Busy /\ Owing' = Owing /\ queue' = queue /\ faults' = faults
  BY DEF PutObject, Busy, Owing, Failed
<1>3. Cardinality(pending') <= Cardinality(pending) + 1
  <2>1. pending' \subseteq pending \cup {x}
    BY DEF PutObject
  <2> HIDE DEF x
  <2> QED
    BY <1>1, <2>1, AllFinite, GrowsByOne
<1>4. Cardinality(Written') >= Cardinality(Written) + 1
  <2>1. latest[k] + 1 \in Versions /\ latest[k] \in Versions
    BY <1>1, BoundAssumption DEF PutObject, TypeOK, Versions
  <2>2. latest'[k] = latest[k] + 1 /\ \A j \in Keys \ {k} : latest'[j] = latest[j]
    BY <1>1 DEF PutObject, TypeOK
  <2>3. x \in Written'
    BY <2>1, <2>2 DEF Written, Versions
  <2>4. Written \subseteq Written' \ {x}
    <3>1. ASSUME NEW p \in Written PROVE p \in Written' /\ p # x
      <4>1. PICK j \in Keys, v \in Versions : p = <<j, v>> /\ 1 <= v /\ v <= latest[j]
        BY DEF Written
      <4>2. v <= latest'[j] /\ (j = k => v # latest[k] + 1)
        BY <1>1, <2>1, <2>2, <4>1 DEF Versions, TypeOK
      <4> QED
        BY <4>1, <4>2 DEF Written
    <3> QED
      BY <3>1
  <2> HIDE DEF x
  <2>5. Cardinality(Written) <= Cardinality(Written') - 1
    BY <1>1, <2>3, <2>4, AllFinite, ShrinksByOne
  <2>6. Cardinality(Written) \in Nat /\ Cardinality(Written') \in Nat
    BY <1>1, AllFinite, FS_CardinalityType
  <2> QED
    BY <2>5, <2>6
<1>5. /\ Len(queue') <= Len(queue) + 0 /\ faults' >= faults + 0
      /\ Cardinality(Busy') <= Cardinality(Busy) + 0
      /\ Cardinality(Owing') <= Cardinality(Owing) + 0
  BY <1>1, <1>2, AllFinite, FS_CardinalityType DEF TypeOK
<1>6. 0 \in Int /\ 1 \in Int /\ 0 + 0 + 0 + 1 <= 1 + 0
  OBVIOUS
<1> QED
  BY <1>1, <1>3, <1>4, <1>5, <1>6, Balance, Zenon

\* A pending write is queued.
LEMMA QueuePaid ==
    ASSUME Inv, TypeOK', TasksPaid, NEW p \in pending, QueueReplication(p)
    PROVE  TasksPaid'
<1>1. TypeOK
  BY DEF Inv
<1>2. Busy' = Busy /\ Owing' = Owing /\ Written' = Written /\ faults' = faults
  BY DEF QueueReplication, Busy, Owing, Failed, Written
<1>3. Cardinality(pending') <= Cardinality(pending) + (-1)
  <2>1. Cardinality(pending') <= Cardinality(pending) - 1 /\ Cardinality(pending) \in Nat
    BY <1>1, AllFinite, ShrinksByOne, FS_CardinalityType DEF QueueReplication
  <2> QED
    BY <2>1
<1>4. Len(queue') <= Len(queue) + 1
  <2>1. p[1] \in Keys /\ queue \in Seq(Keys)
    BY <1>1 DEF TypeOK
  <2> QED
    BY <2>1 DEF QueueReplication
<1>5. /\ faults' >= faults + 0
      /\ Cardinality(Busy') <= Cardinality(Busy) + 0
      /\ Cardinality(Owing') <= Cardinality(Owing) + 0
      /\ Cardinality(Written') >= Cardinality(Written) + 0
  BY <1>1, <1>2, AllFinite, FS_CardinalityType DEF TypeOK
<1>6. 0 \in Int /\ 1 \in Int /\ -1 \in Int /\ 1 + 0 + 0 + (-1) <= 0 + 0
  OBVIOUS
<1> QED
  BY <1>1, <1>3, <1>4, <1>5, <1>6, Balance, Zenon

(* Requeueing is paid for by failures, for any number of workers, endpoints *)
(* and keys: the tasks that are queued, worked on or about to be queued     *)
(* never outnumber the writes and the failed attempts.                      *)
THEOREM EngineTasksBounded == Spec => []TasksBounded
<1>1. Init => TasksPaid
  <2> SUFFICES ASSUME Init PROVE TasksPaid
    OBVIOUS
  <2>1. Busy = {} /\ Owing = {} /\ pending = {} /\ Written = {} /\ Len(queue) = 0 /\ faults = 0
    BY DEF Init, Busy, Owing, Written, Versions
  <2> QED
    BY <2>1, FS_EmptySet DEF TasksPaid
<1>2. Inv /\ TasksPaid /\ [Next]_vars => TasksPaid'
  <2> SUFFICES ASSUME Inv, TasksPaid, [Next]_vars PROVE TasksPaid'
    OBVIOUS
  <2>1. TypeOK'
    BY InvStep DEF Inv
  <2>2. ASSUME NEW w \in Workers, worker_loop(w) PROVE TasksPaid'
    <3>1. CASE EndPass1(w) \/ EndPass2(w) \/ EndPass3(w)
      BY <2>1, <3>1, EndPassPaid DEF EndPass1, EndPass2, EndPass3
    <3>2. CASE DropTask(w)
      BY <2>1, <3>2, EndTaskPaid DEF DropTask
    <3>3. CASE EndPass4(w)
      BY <2>1, <3>3, EndTaskPaid DEF EndPass4
    <3> QED
      BY <2>1, <2>2, <3>1, <3>2, <3>3, DequeuePaid, AttemptPaid DEF worker_loop
  <2>3. CASE \/ ArrivesLate \/ Stop \/ UNCHANGED vars \/ \E k \in Keys : DeleteObject(k)
    <3>1. UNCHANGED <<queue, me, pending, latest, faults>>
      BY <2>3 DEF ArrivesLate, Stop, DeleteObject, vars, site, remote
    <3> QED
      BY <3>1 DEF TasksPaid, Busy, Owing, Failed, Written
  <2> QED
    BY <2>1, <2>2, <2>3, PutPaid, QueuePaid DEF Next
<1>3. Inv /\ TasksPaid => TasksBounded
  <2> SUFFICES ASSUME Inv, TasksPaid PROVE TasksBounded
    OBVIOUS
  <2> DEFINE a == Len(queue) b == Cardinality(Busy) c == Cardinality(Owing)
             d == Cardinality(pending) e == Cardinality(Written)
  <2>1. c \in Nat
    <3>1. Owing \subseteq Workers
      BY DEF Owing, Busy
    <3> QED
      BY <3>1, FS_Subset, FS_CardinalityType, FiniteAssumption
  <2>2. a \in Nat /\ b \in Nat /\ d \in Nat /\ e \in Nat /\ faults \in Nat
    <3>1. Busy \subseteq Workers /\ Written \subseteq Keys \X Versions
          /\ pending \subseteq Keys \X Versions /\ a \in Nat /\ faults \in Nat
      BY DEF Busy, Written, Inv, TypeOK
    <3> QED
      BY <3>1, WritesFinite, FS_Subset, FS_CardinalityType, FiniteAssumption
  <2>3. a + b + c + d <= e + faults
    BY DEF TasksPaid
  <2> HIDE DEF a, b, c, d, e
  <2>4. a + b + d <= e + faults
    BY <2>1, <2>2, <2>3
  <2> QED
    BY <2>4 DEF TasksBounded, a, b, d, e
<1> QED
  BY <1>1, <1>2, <1>3, EngineInvariant, PTL DEF Spec

-----------------------------------------------------------------------------
(* One worker stores versions in order.                                     *)

\* A step of the only worker, which stores what it carries or stores nothing.
LEMMA OrderStep ==
    ASSUME Inv, InOrder, NEW w, Workers = {w}, MaxLate = 0, [Next]_vars
    PROVE  InOrder'
<1> USE DEF site, remote
<1>1. TypeOK /\ TypeOK'
  BY InvStep DEF Inv
<1>2. w \in Workers /\ me[w] \in WorkerState /\ me[w].task \in Keys /\ me[w].ep \in Endpoints
      /\ me[w].data \in Versions
  BY <1>1 DEF TypeOK, WorkerState
<1>3. CASE UNCHANGED <<me, stored, delivered, late>>
  BY <1>3 DEF InOrder
<1>4. ASSUME UNCHANGED <<stored, delivered, late>>, me'[w].pc \notin {"head", "push"}
      PROVE  InOrder'
  BY <1>4 DEF InOrder
<1>5. CASE \/ \E k \in Keys : PutObject(k) \/ DeleteObject(k)
           \/ \E p \in pending : QueueReplication(p)
           \/ Stop \/ UNCHANGED vars
  BY <1>3, <1>5 DEF PutObject, DeleteObject, QueueReplication, Stop, vars
<1>6. ~ArrivesLate
  BY DEF ArrivesLate, InOrder
<1>7. CASE ReadObject(w)
  <2>1. /\ me'[w].data = local[me[w].task] /\ me'[w].task = me[w].task
        /\ UNCHANGED <<stored, delivered, late>> /\ local[me[w].task] # 0
    BY <1>2, <1>7, <1>1 DEF ReadObject, Becomes, TypeOK, WorkerState
  <2>2. \A e \in Endpoints : delivered[e][me[w].task] <= local[me[w].task]
    BY <1>2, <2>1 DEF Inv, VersionsOrdered
  <2> QED
    BY <2>1, <2>2 DEF InOrder
<1>8. CASE HeadDiffers(w)
  <2>1. /\ me'[w].data = me[w].data /\ me'[w].task = me[w].task /\ me[w].pc = "head"
        /\ UNCHANGED <<stored, delivered, late>>
    BY <1>1, <1>2, <1>8 DEF HeadDiffers, Becomes, TypeOK, WorkerState
  <2> QED
    BY <2>1 DEF InOrder
<1>9. CASE NoAttempt(w) \/ HeadMatches(w) \/ PushFails(w)
  <2>1. me'[w].pc \notin {"head", "push"}
    BY <1>1, <1>2, <1>9, ReturnEffect DEF NoAttempt, HeadMatches, PushFails
  <2> QED
    BY <1>4, <1>9, <2>1 DEF NoAttempt, HeadMatches, PushFails
<1>10. CASE PushSucceeds(w) \/ AnswerLost(w)
  <2>1. me'[w].pc \notin {"head", "push"}
    BY <1>1, <1>2, <1>10, ReturnEffect DEF PushSucceeds, AnswerLost
  <2>2. PICK e \in Endpoints, k \in Keys, v \in Versions :
           e = me[w].ep /\ k = me[w].task /\ v = me[w].data
    BY <1>2
  <2>3. Apply(e, k, v) /\ me[w].pc = "push" /\ late' = late
    BY <1>10, <2>2 DEF PushSucceeds, AnswerLost
  <2>4. /\ stored' \in [Endpoints -> [Keys -> Versions]]
        /\ delivered' \in [Endpoints -> [Keys -> Versions]]
        /\ stored'[e][k] = v
        /\ delivered'[e][k] = IF delivered[e][k] < v THEN v ELSE delivered[e][k]
        /\ \A f \in Endpoints, j \in Keys : f # e \/ j # k =>
              stored'[f][j] = stored[f][j] /\ delivered'[f][j] = delivered[f][j]
    BY <1>1, <2>3, ApplyEffect
  <2>5. delivered'[e][k] = v
    <3> DEFINE d == delivered[e][k]
    <3>1. d <= v /\ d \in Nat /\ v \in Nat
      BY <1>1, <1>2, <2>2, <2>3 DEF InOrder, TypeOK, Versions
    <3>2. delivered'[e][k] = IF d < v THEN v ELSE d
      BY <2>4
    <3> HIDE DEF d
    <3>3. d < v \/ d = v
      BY <3>1
    <3> QED
      BY <3>2, <3>3
  <2>6. stored' = delivered'
    <3>1. \A f \in Endpoints, j \in Keys : stored'[f][j] = delivered'[f][j]
      BY <2>4, <2>5 DEF InOrder
    <3>2. ASSUME NEW f \in Endpoints PROVE stored'[f] = delivered'[f]
      <4> DEFINE s == stored'[f] d == delivered'[f]
      <4>1. s \in [Keys -> Versions] /\ d \in [Keys -> Versions]
        BY <2>4
      <4>2. \A j \in Keys : s[j] = d[j]
        BY <3>1
      <4> HIDE DEF s, d
      <4>3. s = d
        BY <4>1, <4>2
      <4> QED
        BY <4>3 DEF s, d
    <3>3. \A f \in Endpoints : stored'[f] = delivered'[f]
      BY <3>2
    <3> DEFINE s == stored' d == delivered'
    <3>4. s \in [Endpoints -> [Keys -> Versions]] /\ d \in [Endpoints -> [Keys -> Versions]]
          /\ \A f \in Endpoints : s[f] = d[f]
      BY <2>4, <3>3
    <3> HIDE DEF s, d
    <3>5. s = d
      BY <3>4
    <3> QED
      BY <3>5 DEF s, d
  <2> QED
    BY <2>1, <2>3, <2>6 DEF InOrder
<1>11. ~PushGivenUp(w)
  BY <1>1 DEF PushGivenUp, TypeOK
<1>12. CASE \/ Dequeue(w) \/ EndPass1(w) \/ EndPass2(w) \/ DropTask(w) \/ EndPass3(w)
            \/ EndPass4(w)
  <2>1. ASSUME NEW i, NEW again, NEW n, EndPass(w, i, again, n) \/ EndTask(w, i, again, n)
        PROVE  InOrder'
    <3>1. me'[w].pc \in {"call", "idle"}
      <4>1. CASE EndPass(w, i, again, n)
        BY <1>1, <1>2, <4>1 DEF EndPass, Becomes, TypeOK
      <4>2. CASE EndTask(w, i, again, n)
        BY <1>1, <1>2, <4>2 DEF EndTask, Becomes, TypeOK
      <4> QED
        BY <2>1, <4>1, <4>2
    <3> QED
      BY <1>4, <2>1, <3>1 DEF EndPass, EndTask
  <2>2. CASE Dequeue(w)
    <3>1. me'[w].pc = "call"
      BY <1>1, <1>2, <2>2 DEF Dequeue, Becomes, TypeOK
    <3> QED
      BY <1>4, <2>2, <3>1 DEF Dequeue
  <2> QED
    BY <1>12, <2>1, <2>2 DEF EndPass1, EndPass2, DropTask, EndPass3, EndPass4
<1> QED
  BY <1>5, <1>6, <1>7, <1>8, <1>9, <1>10, <1>11, <1>12
  DEF Next, worker_loop, replicate_to_endpoint

(* With one worker, and no PUT that arrives after the worker gave up on it, *)
(* every endpoint holds the current version of every object that exists     *)
(* when the engine has nothing left to do.  With two workers it need not.   *)
THEOREM EngineConverges ==
    ASSUME NEW w, Workers = {w}, MaxLate = 0
    PROVE  Spec => []ConvergedWhenQuiescent
<1>1. Init => InOrder
  BY DEF Init, InOrder
<1>2. Inv /\ InOrder /\ [Next]_vars => InOrder'
  BY OrderStep
<1>3. Inv /\ InOrder => ConvergedWhenQuiescent
  <2>1. Inv => (Quiescent => \A k \in Keys, e \in Endpoints :
                                local[k] # 0 => delivered[e][k] = local[k])
    BY DEF Inv, NoWriteForgotten, Quiescent, InPending, InQueue, Covers
  <2> QED
    BY <2>1 DEF InOrder, ConvergedWhenQuiescent
<1> QED
  BY <1>1, <1>2, <1>3, EngineInvariant, PTL DEF Spec
=============================================================================
