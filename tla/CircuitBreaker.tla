--------------------------- MODULE CircuitBreaker ---------------------------
(***************************************************************************)
(* The circuit breaker that ReplicationEngine keeps for one endpoint, and  *)
(* the replication workers that consult it (sync_engine.cpp, third         *)
(* definition of replicate_to_endpoint, should_attempt_replication,        *)
(* record_success, record_failure).  The map circuit_breakers_ holds one   *)
(* breaker per endpoint and no operation touches two of them, so one       *)
(* breaker is modelled.                                                    *)
(*                                                                         *)
(* No mutex protects the breaker although Start() runs several workers, so *)
(* every shared access that another worker can come between is a step of   *)
(* its own.                                                                *)
(*                                                                         *)
(* Time: probe_in is next_probe_time - now, floored at 0, so the clock     *)
(* needs no bound.  record_failure reads the clock on entry and uses it    *)
(* several steps later: how much of OPEN_TIMEOUT is left by then is any    *)
(* value.                                                                  *)
(***************************************************************************)
EXTENDS Integers

CONSTANTS
    Workers,            \* worker threads (Start's num_workers)
    FAILURE_THRESHOLD,
    OPEN_TIMEOUT,       \* in ticks
    MaxFailureCount     \* bound on failure_count when a failure is recorded

ASSUME ThresholdAssumption == FAILURE_THRESHOLD \in Nat \ {0}
ASSUME TimeoutAssumption   == OPEN_TIMEOUT \in Nat
ASSUME CountAssumption     == MaxFailureCount \in Nat

VARIABLES
    state,              \* cb.state
    failure_count,      \* cb.failure_count
    probe_in,           \* cb.next_probe_time - now, at least 0
    pc,                 \* where each worker is in replicate_to_endpoint
    loaded,             \* the value failure_count++ has read
    up                  \* environment: do replication attempts succeed now?

vars == <<state, failure_count, probe_in, pc, loaded, up>>

CircuitState == {"Closed", "Open", "HalfOpen"}

PC == {"idle", "attempting",
       "entering", "probing",                       \* should_attempt_replication
       "closing", "clearing",                       \* record_success
       "counting", "testing", "opening", "timing",  \* record_failure
       "reopening", "retiming", "resetting"}

\* The type of every variable.
TypeOK ==
    /\ state \in CircuitState
    /\ failure_count \in Nat
    /\ probe_in \in 0..OPEN_TIMEOUT
    /\ pc \in [Workers -> PC]
    /\ loaded \in [Workers -> Nat]
    /\ up \in BOOLEAN

Init ==
    /\ state = "Closed"
    /\ failure_count = 0
    /\ probe_in = 0
    /\ pc = [w \in Workers |-> "idle"]
    /\ loaded = [w \in Workers |-> 0]
    /\ up \in BOOLEAN

Goto(w, l) == pc' = [pc EXCEPT ![w] = l]

\* Worker w moves from one label to another and does nothing else.
Jump(w, from, to) ==
    /\ pc[w] = from
    /\ Goto(w, to)
    /\ UNCHANGED <<state, failure_count, probe_in, loaded, up>>

\* cb.state = s
SetState(w, from, s, to) ==
    /\ pc[w] = from
    /\ state' = s
    /\ Goto(w, to)
    /\ UNCHANGED <<failure_count, probe_in, loaded, up>>

\* cb.failure_count = 0
ClearCount(w, from, to) ==
    /\ pc[w] = from
    /\ failure_count' = 0
    /\ Goto(w, to)
    /\ UNCHANGED <<state, probe_in, loaded, up>>

\* (mutation) OPEN_TIMEOUT is added to the probe time that was set before
ExtendProbeTime(w, from, to) ==
    /\ pc[w] = from
    /\ probe_in' = probe_in + OPEN_TIMEOUT
    /\ Goto(w, to)
    /\ UNCHANGED <<state, failure_count, loaded, up>>

\* cb.next_probe_time = now + OPEN_TIMEOUT, with the clock read on entry
SetProbeTime(w, from, to) ==
    /\ pc[w] = from
    /\ probe_in' \in 0..OPEN_TIMEOUT
    /\ Goto(w, to)
    /\ UNCHANGED <<state, failure_count, loaded, up>>

-----------------------------------------------------------------------------
(* should_attempt_replication.  Returning false changes nothing, so it is  *)
(* the step the worker does not take.                                      *)

\* Closed, or already Half-Open: return true.
AdmitNow(w) == state # "Open" /\ Jump(w, "idle", "attempting")

\* Open and now >= next_probe_time: the test, then its two assignments.
ProbeDue(w) == state = "Open" /\ probe_in = 0 /\ Jump(w, "idle", "entering")

EnterHalfOpen(w) == SetState(w, "entering", "HalfOpen", "probing")

ForgetFailures(w) == ClearCount(w, "probing", "attempting")

should_attempt_replication(w) ==
    AdmitNow(w) \/ ProbeDue(w) \/ EnterHalfOpen(w) \/ ForgetFailures(w)

-----------------------------------------------------------------------------
(* record_success: the remote ETag matched, or the PUT was answered 200.   *)

\* (mutation) the recovery branch tests for Open only
SucceedIfOpen(w) ==
    /\ up
    /\ Jump(w, "attempting", IF state = "Open" THEN "closing" ELSE "idle")

Succeed(w) ==
    /\ up
    /\ Jump(w, "attempting", IF state # "Closed" THEN "closing" ELSE "idle")

CloseCircuit(w) == SetState(w, "closing", "Closed", "clearing")

ClearOnClose(w) == ClearCount(w, "clearing", "idle")

record_success(w) == Succeed(w) \/ CloseCircuit(w) \/ ClearOnClose(w)

-----------------------------------------------------------------------------
(* record_failure: reading the object failed, or the PUT did.              *)

\* failure_count++ is a load ...
Fail(w) ==
    /\ pc[w] = "attempting"
    /\ ~up
    /\ failure_count < MaxFailureCount
    /\ loaded' = [loaded EXCEPT ![w] = failure_count]
    /\ Goto(w, "counting")
    /\ UNCHANGED <<state, failure_count, probe_in, up>>

\* ... and a store.
StoreCount(w) ==
    /\ pc[w] = "counting"
    /\ failure_count' = loaded[w] + 1
    /\ Goto(w, "testing")
    /\ UNCHANGED <<state, probe_in, loaded, up>>

\* (mutation) the threshold is compared with > instead of >=
TestAboveThreshold(w) ==
    Jump(w, "testing",
         CASE state = "Closed" /\ failure_count > FAILURE_THRESHOLD -> "opening"
           [] state = "HalfOpen" -> "reopening"
           [] OTHER -> "idle")

TestState(w) ==
    Jump(w, "testing",
         CASE state = "Closed" /\ failure_count >= FAILURE_THRESHOLD -> "opening"
           [] state = "HalfOpen" -> "reopening"
           [] OTHER -> "idle")

OpenCircuit(w) == SetState(w, "opening", "Open", "timing")

ScheduleProbe(w) == SetProbeTime(w, "timing", "idle")

ReopenCircuit(w) == SetState(w, "reopening", "Open", "retiming")

RescheduleProbe(w) == SetProbeTime(w, "retiming", "resetting")

ClearOnReopen(w) == ClearCount(w, "resetting", "idle")

record_failure(w) ==
    \/ Fail(w) \/ StoreCount(w) \/ TestState(w)
    \/ OpenCircuit(w) \/ ScheduleProbe(w)
    \/ ReopenCircuit(w) \/ RescheduleProbe(w) \/ ClearOnReopen(w)

-----------------------------------------------------------------------------
(* The environment: the steady clock, and the endpoint's health.           *)

Tick ==
    /\ probe_in > 0
    /\ probe_in' = probe_in - 1
    /\ UNCHANGED <<state, failure_count, pc, loaded, up>>

EndpointFlips ==
    /\ up' = ~up
    /\ UNCHANGED <<state, failure_count, probe_in, pc, loaded>>

replicate_to_endpoint(w) ==
    should_attempt_replication(w) \/ record_success(w) \/ record_failure(w)

Next ==
    \/ Tick
    \/ EndpointFlips
    \/ \E w \in Workers : replicate_to_endpoint(w)

\* A worker inside a call goes on, and the clock advances.  The endpoint owes
\* nothing, and neither does the queue: an idle worker may never get a task.
Fairness ==
    /\ WF_vars(Tick)
    /\ \A w \in Workers : WF_vars(pc[w] # "idle" /\ replicate_to_endpoint(w))

Spec == Init /\ [][Next]_vars /\ Fairness

-----------------------------------------------------------------------------
(* Closed past its threshold is only ever a passing state: some worker is  *)
(* about to open the circuit or to clear the count.  Whatever stale counts *)
(* late workers store, the breaker does not come to rest closed with       *)
(* FAILURE_THRESHOLD failures on the books.                                *)
NeverRestsPastThreshold ==
    state = "Closed" /\ failure_count >= FAILURE_THRESHOLD
        => \E w \in Workers : pc[w] \in {"testing", "opening", "clearing"}

\* The outcome worker w has yet to record will close or re-open the circuit.
WillSettle(w) ==
    pc[w] \in {"probing", "attempting", "counting", "testing",
               "opening", "reopening", "closing"}

(* A Half-Open circuit always has an attempt whose outcome will close or   *)
(* re-open it: no interleaving of should_attempt_replication,              *)
(* record_success and record_failure strands it half-open.                 *)
HalfOpenIsProbed == state = "HalfOpen" => \E w \in Workers : WillSettle(w)

\* Tasks for the endpoint keep coming: a worker whose call would go through makes
\* one.  worker_loop does not see to that.  It drops a task that failed here if
\* another endpoint took it.
TasksKeepComing == \A w \in Workers : WF_vars(AdmitNow(w) \/ ProbeDue(w))

(* Once attempts succeed for good, and if tasks for the endpoint keep      *)
(* coming, the circuit ends up Closed for good, even though late           *)
(* record_failure calls may re-open it on the way.  Without a task nobody  *)
(* asks, and an Open circuit stays Open.                                   *)
RecoversWhenUp == TasksKeepComing /\ <>[]up => <>[](state = "Closed")
=============================================================================
