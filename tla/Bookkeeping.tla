----------------------------- MODULE Bookkeeping -----------------------------
(***************************************************************************)
(* What the pipeline of Delivery feeds to the circuit breaker: the worker  *)
(* that wrote a delivery exhausted calls recordExhausted afterwards, which *)
(* increments the counter of the destination if that is enabled. A history *)
(* variable remembers how often each delivery was counted.                 *)
(***************************************************************************)
EXTENDS Delivery

VARIABLE counted   \* history: increments made for each delivery

bookVars == <<vars, counted>>

BookInit == Init /\ counted = [d \in Deliveries |-> 0]

\* It wrote exhausted and has not called recordExhausted yet.
Owes(w) == pc[w] = "book" /\ GivesUp(w)

\* The increment. The worker may die right after it, and the job run again.
RecordExhausted(w) ==
  /\ Owes(w) /\ enabled[DestinationOf[job[w]]]
  /\ Bookkeep(w) \/ Crash(w)
  /\ counted' = [counted EXCEPT ![job[w]] = @ + 1]

\* Everything else; a call that throws, or that a crash forestalls, counts nothing.
Elsewhere == Next /\ UNCHANGED counted

BookNext == Elsewhere \/ \E w \in Workers : RecordExhausted(w)

BookSpec == BookInit /\ [][BookNext]_bookVars

-----------------------------------------------------------------------------
(* Properties.                                                              *)

\* "A single delivery cannot increment this counter twice even under at-least-once
\* semantics": however often a delivery is queued, taken and taken over, cancelled
\* meanwhile or reopened by a late write, one exhaustion of it is counted at most.
CountedOnce == \A d \in Deliveries : counted[d] <= 1
=============================================================================
