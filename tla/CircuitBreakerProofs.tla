------------------------ MODULE CircuitBreakerProofs ------------------------
(* Proofs about the circuit breaker for any number of workers, any          *)
(* threshold and any timeout.                                               *)
EXTENDS CircuitBreaker, TLAPS

(* Type correctness: no race on the breaker makes failure_count negative,   *)
(* leaves probe_in outside 0..OPEN_TIMEOUT or a worker off the code.        *)
THEOREM BreakerTypeCorrect == Spec => []TypeOK
<1>1. Init => TypeOK
  BY TimeoutAssumption DEF Init, TypeOK, CircuitState, PC
<1>2. TypeOK /\ [Next]_vars => TypeOK'
  <2> SUFFICES ASSUME TypeOK, [Next]_vars PROVE TypeOK'
    OBVIOUS
  <2> USE ThresholdAssumption, TimeoutAssumption, CountAssumption
          DEF TypeOK, CircuitState, PC
  <2>1. CASE Tick
    BY <2>1 DEF Tick
  <2>2. CASE EndpointFlips
    BY <2>2 DEF EndpointFlips
  <2>3. ASSUME NEW w \in Workers, should_attempt_replication(w)
        PROVE  TypeOK'
    BY <2>3 DEF should_attempt_replication, AdmitNow, ProbeDue, EnterHalfOpen,
                ForgetFailures, Jump, SetState, ClearCount, Goto
  <2>4. ASSUME NEW w \in Workers, record_success(w)
        PROVE  TypeOK'
    BY <2>4 DEF record_success, Succeed, CloseCircuit, ClearOnClose,
                Jump, SetState, ClearCount, Goto
  <2>5. ASSUME NEW w \in Workers, record_failure(w)
        PROVE  TypeOK'
    <3>1. CASE Fail(w) \/ StoreCount(w)
      BY <3>1 DEF Fail, StoreCount, Goto
    <3>2. CASE TestState(w)
      BY <3>2 DEF TestState, Jump, Goto
    <3>3. CASE \/ OpenCircuit(w) \/ ScheduleProbe(w) \/ ReopenCircuit(w)
               \/ RescheduleProbe(w) \/ ClearOnReopen(w)
      BY <3>3 DEF OpenCircuit, ScheduleProbe, ReopenCircuit, RescheduleProbe,
                  ClearOnReopen, SetState, SetProbeTime, ClearCount, Goto
    <3> QED
      BY <2>5, <3>1, <3>2, <3>3 DEF record_failure
  <2>6. CASE UNCHANGED vars
    BY <2>6 DEF vars
  <2> QED
    BY <2>1, <2>2, <2>3, <2>4, <2>5, <2>6 DEF Next, replicate_to_endpoint
<1> QED
  BY <1>1, <1>2, PTL DEF Spec

(* The breaker does not come to rest closed with FAILURE_THRESHOLD failures *)
(* on the books, whatever counts late record_failure calls store.  The      *)
(* property is inductive given the types: the circuit becomes Closed only   *)
(* with a worker about to clear the count, and the count reaches the        *)
(* threshold only with a worker about to test it.                           *)
THEOREM BreakerNeverRestsPastThreshold == Spec => []NeverRestsPastThreshold
<1>1. Init => NeverRestsPastThreshold
  BY ThresholdAssumption DEF Init, NeverRestsPastThreshold
<1>2. TypeOK /\ NeverRestsPastThreshold /\ [Next]_vars => NeverRestsPastThreshold'
  <2> SUFFICES ASSUME TypeOK, NeverRestsPastThreshold, [Next]_vars,
                      state' = "Closed", failure_count' >= FAILURE_THRESHOLD
               PROVE  \E v \in Workers : pc'[v] \in {"testing", "opening", "clearing"}
    BY DEF NeverRestsPastThreshold
  <2> USE ThresholdAssumption DEF TypeOK, NeverRestsPastThreshold
  <2>1. CASE Tick \/ EndpointFlips \/ UNCHANGED vars
    BY <2>1 DEF Tick, EndpointFlips, vars
  <2>2. ASSUME NEW w \in Workers, should_attempt_replication(w)
        PROVE  \E v \in Workers : pc'[v] \in {"testing", "opening", "clearing"}
    BY <2>2 DEF should_attempt_replication, AdmitNow, ProbeDue, EnterHalfOpen,
                ForgetFailures, Jump, SetState, ClearCount, Goto
  <2>3. ASSUME NEW w \in Workers, record_success(w)
        PROVE  \E v \in Workers : pc'[v] \in {"testing", "opening", "clearing"}
    BY <2>3 DEF record_success, Succeed, CloseCircuit, ClearOnClose,
                Jump, SetState, ClearCount, Goto
  <2>4. ASSUME NEW w \in Workers, record_failure(w)
        PROVE  \E v \in Workers : pc'[v] \in {"testing", "opening", "clearing"}
    <3>1. CASE Fail(w) \/ StoreCount(w)
      BY <3>1 DEF Fail, StoreCount, Goto
    <3>2. CASE TestState(w)
      <4>1. state = "Closed" /\ failure_count >= FAILURE_THRESHOLD
        BY <3>2 DEF TestState, Jump
      <4>2. pc' = [pc EXCEPT ![w] = "opening"]
        BY <3>2, <4>1 DEF TestState, Jump, Goto
      <4> QED
        BY <4>2
    <3>3. CASE \/ OpenCircuit(w) \/ ScheduleProbe(w) \/ ReopenCircuit(w)
               \/ RescheduleProbe(w) \/ ClearOnReopen(w)
      BY <3>3 DEF OpenCircuit, ScheduleProbe, ReopenCircuit, RescheduleProbe,
                  ClearOnReopen, SetState, SetProbeTime, ClearCount, Goto
    <3> QED
      BY <2>4, <3>1, <3>2, <3>3 DEF record_failure
  <2> QED
    BY <2>1, <2>2, <2>3, <2>4 DEF Next, replicate_to_endpoint
<1> QED
  BY <1>1, <1>2, BreakerTypeCorrect, PTL DEF Spec

(* A Half-Open circuit is never stranded: it always has an attempt whose    *)
(* outcome will close or re-open it.  The worker that enters Half-Open is   *)
(* that attempt; it leaves WillSettle only by writing Closed or Open, or by *)
(* finding the circuit already out of Half-Open.                            *)
THEOREM BreakerHalfOpenIsProbed == Spec => []HalfOpenIsProbed
<1>1. Init => HalfOpenIsProbed
  BY DEF Init, HalfOpenIsProbed
<1>2. TypeOK /\ HalfOpenIsProbed /\ [Next]_vars => HalfOpenIsProbed'
  <2> SUFFICES ASSUME TypeOK, HalfOpenIsProbed, [Next]_vars, state' = "HalfOpen"
               PROVE  \E v \in Workers : WillSettle(v)'
    BY DEF HalfOpenIsProbed
  <2> USE DEF TypeOK, HalfOpenIsProbed, WillSettle
  <2>1. CASE Tick \/ EndpointFlips \/ UNCHANGED vars
    BY <2>1 DEF Tick, EndpointFlips, vars
  <2>2. ASSUME NEW w \in Workers, should_attempt_replication(w)
        PROVE  \E v \in Workers : WillSettle(v)'
    BY <2>2 DEF should_attempt_replication, AdmitNow, ProbeDue, EnterHalfOpen,
                ForgetFailures, Jump, SetState, ClearCount, Goto
  <2>3. ASSUME NEW w \in Workers, record_success(w)
        PROVE  \E v \in Workers : WillSettle(v)'
    BY <2>3 DEF record_success, Succeed, CloseCircuit, ClearOnClose,
                Jump, SetState, ClearCount, Goto
  <2>4. ASSUME NEW w \in Workers, record_failure(w)
        PROVE  \E v \in Workers : WillSettle(v)'
    <3>1. CASE Fail(w) \/ StoreCount(w)
      BY <3>1 DEF Fail, StoreCount, Goto
    <3>2. CASE TestState(w)
      <4>1. state = "HalfOpen"
        BY <3>2 DEF TestState, Jump
      <4>2. pc' = [pc EXCEPT ![w] = "reopening"]
        BY <3>2, <4>1 DEF TestState, Jump, Goto
      <4> QED
        BY <4>2
    <3>3. CASE \/ OpenCircuit(w) \/ ScheduleProbe(w) \/ ReopenCircuit(w)
               \/ RescheduleProbe(w) \/ ClearOnReopen(w)
      BY <3>3 DEF OpenCircuit, ScheduleProbe, ReopenCircuit, RescheduleProbe,
                  ClearOnReopen, SetState, SetProbeTime, ClearCount, Goto
    <3> QED
      BY <2>4, <3>1, <3>2, <3>3 DEF record_failure
  <2> QED
    BY <2>1, <2>2, <2>3, <2>4 DEF Next, replicate_to_endpoint
<1> QED
  BY <1>1, <1>2, BreakerTypeCorrect, PTL DEF Spec
=============================================================================
