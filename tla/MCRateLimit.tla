----------------------------- MODULE MCRateLimit -----------------------------
(* A small instance of RateLimit for TLC: a source with a burst of its own,  *)
(* 1.5, of which the script uses the whole part, and the environment's rate; *)
(* and a key of another kind whose rate is below the slowest.                *)
EXTENDS RateLimit, TLC

CONSTANTS s1, s2

Own       == (s1 :> [period |-> 0, burst |-> 3]) @@ (s2 :> [period |-> 0, burst |-> 0])
Variables == (s1 :> [period |-> 2, burst |-> 0]) @@ (s2 :> [period |-> 4, burst |-> 0])
Presets   == (s1 :> [period |-> 1, burst |-> 40]) @@ (s2 :> [period |-> 2, burst |-> 2])
Symmetric == Permutations(Callers)
=============================================================================
