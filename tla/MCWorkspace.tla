------------------------------ MODULE MCWorkspace ------------------------------
(* A small instance of Workspace for TLC: two accounts, of which the second  *)
(* is there to be protected, and two concurrent requests.                    *)
EXTENDS Workspace, TLC

Limits == [t \in {"source", "destination", "route", "token"} |-> 1]
Symmetric == Permutations(Callers) \cup Permutations(Users)
=============================================================================
