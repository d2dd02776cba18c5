--------------------------- MODULE MCCircuitBreaker ---------------------------
(* CircuitBreaker for TLC: handler threads are interchangeable. *)
EXTENDS CircuitBreaker, TLC

Symmetry == Permutations(Requests)
=============================================================================
