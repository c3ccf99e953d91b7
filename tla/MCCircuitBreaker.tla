-------------------------- MODULE MCCircuitBreaker --------------------------
(* A small instance of CircuitBreaker: the threshold is 2 failures, so that *)
(* one failure leaves the circuit Closed and late failures overshoot it.    *)
EXTENDS CircuitBreaker, TLC

CONSTANTS w1, w2, w3

TwoWorkers   == {w1, w2}
ThreeWorkers == {w1, w2, w3}

\* The workers are interchangeable (sound for the invariants, not used with liveness).
WorkerSymmetry == Permutations(Workers)
=============================================================================
