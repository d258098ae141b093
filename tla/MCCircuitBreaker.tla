------------------------- MODULE MCCircuitBreaker -------------------------
(* Small instances of CircuitBreaker for TLC.                                *)
EXTENDS CircuitBreaker, TLC

Interchangeable == Permutations(Callers) \cup Permutations(Operators)
=============================================================================
