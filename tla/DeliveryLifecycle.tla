------------------------- MODULE DeliveryLifecycle -------------------------
(***************************************************************************)
(* What the pipeline promises about one delivery, with no jobs, workers or *)
(* reaper: at most one attempt is under way at a time, only an attempt can *)
(* reopen a delivery, every finished attempt is counted once, and a        *)
(* delivery that is terminal with no attempt under way is never attempted  *)
(* again.                                                                  *)
(***************************************************************************)
EXTENDS Integers

CONSTANT Deliveries

VARIABLES status, attemptCount, attempting

lifecycleVars == <<status, attemptCount, attempting>>

LInit ==
  /\ status = [d \in Deliveries |-> "none"]
  /\ attemptCount = [d \in Deliveries |-> 0]
  /\ attempting = {}

Become(d, s) == status' = [status EXCEPT ![d] = s]

Appear(d) ==
  /\ status[d] = "none"
  /\ Become(d, "pending")
  /\ UNCHANGED <<attemptCount, attempting>>

BeginAttempt(d) ==
  /\ d \notin attempting
  /\ status[d] \in {"pending", "failed", "in_flight"}
  /\ Become(d, "in_flight")
  /\ attempting' = attempting \cup {d}
  /\ UNCHANGED attemptCount

FinishAttempt(d, s) ==
  /\ d \in attempting
  /\ status[d] # "deleted"
  /\ Become(d, s)
  /\ attemptCount' = [attemptCount EXCEPT ![d] = @ + 1]
  /\ attempting' = attempting \ {d}

\* The worker died, threw, or found the delivery deleted: nothing is recorded.
AbandonAttempt(d) ==
  /\ d \in attempting
  /\ attempting' = attempting \ {d}
  /\ UNCHANGED <<status, attemptCount>>

\* Cancelled, exhausted because the destination is paused, or skipped by the
\* filter. An attempt under way is not stopped.
Close(d, s) ==
  /\ status[d] \notin {"none", "deleted"}
  /\ Become(d, s)
  /\ UNCHANGED <<attemptCount, attempting>>

Disappear(d) ==
  /\ status[d] \notin {"none", "deleted"}
  /\ Become(d, "deleted")
  /\ UNCHANGED <<attemptCount, attempting>>

LNext ==
  \E d \in Deliveries :
    \/ Appear(d) \/ BeginAttempt(d) \/ AbandonAttempt(d) \/ Disappear(d)
    \/ \E s \in {"delivered", "failed", "exhausted"} : FinishAttempt(d, s)
    \/ \E s \in {"delivered", "exhausted"} : Close(d, s)

LSpec == LInit /\ [][LNext]_lifecycleVars
=============================================================================
