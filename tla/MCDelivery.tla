---------------------------- MODULE MCDelivery ----------------------------
(* Small instances of Delivery for TLC.                                      *)
EXTENDS Delivery, TLC

CONSTANT x   \* a destination

OneDestination == [d \in Deliveries |-> x]

WorkerSymmetry == Permutations(Workers)
=============================================================================
