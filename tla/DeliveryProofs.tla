--------------------------- MODULE DeliveryProofs ---------------------------
(***************************************************************************)
(* Proofs about Delivery and Bookkeeping, for any number of deliveries,    *)
(* destinations, worker slots, attempts and faults.                        *)
(***************************************************************************)
EXTENDS Bookkeeping, FiniteSetTheorems, TLAPS

-----------------------------------------------------------------------------
(* What the shared pieces of the actions do to the types.                   *)

\* A busy slot works on a delivery.
LEMMA BusySlotHasDelivery ==
  ASSUME TypeOK, NEW w \in Workers, pc[w] # "idle"
  PROVE  job[w] \in Deliveries
BY DEF TypeOK, SlotTypes

\* A status update keeps the table well typed.
LEMMA SetStatusTypes ==
  ASSUME TypeOK, NEW d \in Deliveries, NEW s \in Statuses, SetStatus(d, s)
  PROVE  RowTypes'
BY DEF TypeOK, RowTypes, SetStatus

\* So does the update that ends an attempt.
LEMMA EndAttemptTypes ==
  ASSUME TypeOK, NEW d \in Deliveries, NEW s \in Statuses,
         EndAttempt(d, s)
  PROVE  RowTypes'
BY DEF TypeOK, RowTypes, EndAttempt

\* Ending a job leaves an idle slot and disturbs no other slot.
LEMMA EndJobTypes ==
  ASSUME TypeOK, NEW w \in Workers, EndJob(w)
  PROVE  SlotTypes'
BY DEF TypeOK, SlotTypes, EndJob, Steps

\* A step from one busy program point to another keeps the slots well typed.
LEMMA GotoTypes ==
  ASSUME TypeOK, NEW w \in Workers, NEW step \in Steps \ {"idle"},
         pc[w] # "idle", Goto(w, step), UNCHANGED job,
         attemptRead' \in [Workers -> Nat],
         result' \in [Workers -> Outcomes \cup {"none", "rejected"}]
  PROVE  SlotTypes'
BY DEF TypeOK, SlotTypes, Goto

\* Falling through the filter keeps the slots well typed.
LEMMA FallThroughTypes ==
  ASSUME TypeOK, NEW w \in Workers, pc[w] # "idle", FallThrough(w)
  PROVE  SlotTypes'
<1>1. result' \in [Workers -> Outcomes \cup {"none", "rejected"}]
  BY DEF FallThrough, TypeOK, SlotTypes
<1> QED
  BY <1>1, GotoTypes DEF FallThrough, TypeOK, SlotTypes, Steps

\* Variables an action leaves alone keep their types.
LEMMA UnchangedTypes ==
  ASSUME TypeOK
  PROVE  /\ UNCHANGED rowVars => RowTypes'
         /\ UNCHANGED queueVars => QueueTypes'
         /\ UNCHANGED workerVars => SlotTypes'
BY DEF TypeOK, RowTypes, QueueTypes, SlotTypes, rowVars, queueVars, workerVars

-----------------------------------------------------------------------------
(* Type correctness.                                                        *)

\* The variables of the table, the queue, the slots and the reaper range over
\* their domains, and a slot is idle exactly when it has no job.
THEOREM TypeCorrect == Spec => []TypeOK
<1>1. Init => TypeOK
  BY DeliveryAssumption DEF Init, TypeOK, RowTypes, QueueTypes, SlotTypes, OtherTypes,
         Statuses, Outcomes, Steps
<1>2. TypeOK /\ [Next]_vars => TypeOK'
  <2> SUFFICES ASSUME TypeOK, [Next]_vars PROVE TypeOK'
    OBVIOUS
  <2>1. ASSUME NEW d \in Deliveries, Create(d) PROVE TypeOK'
    <3>1. CASE ReadRoutes(d)
      BY <3>1, UnchangedTypes DEF ReadRoutes, TypeOK, OtherTypes
    <3>2. CASE Persist(d)
      BY <3>2, UnchangedTypes DEF Persist, TypeOK, OtherTypes, RowTypes, Statuses, Open
    <3>3. CASE Enqueue(d)
      BY <3>3, UnchangedTypes DEF Enqueue, TypeOK, OtherTypes, QueueTypes
    <3> QED
      BY <2>1, <3>1, <3>2, <3>3 DEF Create
  <2>2. ASSUME NEW d \in Deliveries, Timers(d) PROVE TypeOK'
    <3>1. CASE DelayElapses(d)
      BY <3>1, UnchangedTypes DEF DelayElapses, TypeOK, OtherTypes, QueueTypes, RowTypes
    <3>2. CASE PendingGraceExpires(d)
      BY <3>2, UnchangedTypes DEF PendingGraceExpires, TypeOK, OtherTypes, RowTypes
    <3>3. CASE InFlightGraceExpires(d)
      BY <3>3, UnchangedTypes DEF InFlightGraceExpires, TypeOK, OtherTypes, RowTypes
    <3> QED
      BY <2>2, <3>1, <3>2, <3>3 DEF Timers
  <2>3. ASSUME NEW d \in Deliveries, ReapEnqueue(d) PROVE TypeOK'
    BY <2>3, UnchangedTypes DEF ReapEnqueue, TypeOK, OtherTypes, QueueTypes
  <2>4. ASSUME NEW w \in Workers, Process(w) PROVE TypeOK'
    <3>1. CASE ReadRow(w)
      <4>1. CASE EndJob(w)
        BY <3>1, <4>1, EndJobTypes, UnchangedTypes DEF ReadRow, TypeOK, OtherTypes
      <4>2. CASE Goto(w, "pause") /\ UNCHANGED <<job, attemptRead, result>>
        <5>1. SlotTypes'
          BY <3>1, <4>2, GotoTypes DEF ReadRow, TypeOK, SlotTypes, Steps
        <5> QED
          BY <3>1, <5>1, UnchangedTypes DEF ReadRow, TypeOK, OtherTypes
      <4>3. CASE /\ attemptRead' = [attemptRead EXCEPT ![w] = attemptCount[job[w]]]
                 /\ Goto(w, "route") /\ UNCHANGED <<job, result>>
        <5>1. attemptCount[job[w]] \in Nat
          BY <3>1, BusySlotHasDelivery DEF ReadRow, TypeOK, RowTypes
        <5>2. SlotTypes'
          BY <3>1, <4>3, <5>1, GotoTypes DEF ReadRow, TypeOK, SlotTypes, Steps
        <5> QED
          BY <3>1, <5>2, UnchangedTypes DEF ReadRow, TypeOK, OtherTypes
      <4> QED
        BY <3>1, <4>1, <4>2, <4>3 DEF ReadRow
    <3>2. CASE PauseRow(w)
      BY <3>2, UnchangedTypes, BusySlotHasDelivery, EndJobTypes, SetStatusTypes
         DEF PauseRow, TypeOK, OtherTypes, Statuses, Terminal
    <3>3. CASE ReadRoute(w)
      BY <3>3, UnchangedTypes, GotoTypes DEF ReadRoute, TypeOK, OtherTypes, SlotTypes, Steps
    <3>4. CASE SkipRow(w)
      <4>1. SlotTypes'
        BY <3>4, FallThroughTypes, EndJobTypes DEF SkipRow
      <4>2. RowTypes'
        BY <3>4, UnchangedTypes, BusySlotHasDelivery, SetStatusTypes
           DEF SkipRow, FallThrough, Statuses, Terminal
      <4> QED
        BY <3>4, <4>1, <4>2, UnchangedTypes DEF SkipRow, TypeOK, OtherTypes
    <3>5. CASE ClaimDelivery(w)
      <4>1. SlotTypes'
        BY <3>5, EndJobTypes, GotoTypes DEF ClaimDelivery, TypeOK, SlotTypes, Steps
      <4>2. RowTypes'
        BY <3>5, BusySlotHasDelivery, UnchangedTypes
           DEF ClaimDelivery, TypeOK, RowTypes, Statuses, Open
      <4> QED
        BY <3>5, <4>1, <4>2, UnchangedTypes DEF ClaimDelivery, TypeOK, OtherTypes
    <3>6. CASE Post(w)
      <4>1. SlotTypes'
        BY <3>6, GotoTypes DEF Post, TypeOK, SlotTypes, Steps
      <4> QED
        BY <3>6, <4>1, UnchangedTypes DEF Post, TypeOK, OtherTypes
    <3>7. ASSUME NEW s \in {"delivered", "exhausted", "failed"},
                 NEW step \in {"book", "schedule"}, WriteOutcome(w, s, step)
          PROVE  TypeOK'
      <4>1. SlotTypes'
        BY <3>7, EndJobTypes, GotoTypes DEF WriteOutcome, TypeOK, SlotTypes, Steps
      <4>2. RowTypes'
        BY <3>7, BusySlotHasDelivery, EndAttemptTypes, UnchangedTypes
           DEF WriteOutcome, Statuses, Open, Terminal
      <4> QED
        BY <3>7, <4>1, <4>2, UnchangedTypes DEF WriteOutcome, TypeOK, OtherTypes
    <3>8. CASE WriteDelivered(w) \/ WriteExhausted(w) \/ WriteFailed(w)
      BY <3>7, <3>8 DEF WriteDelivered, WriteExhausted, WriteFailed
    <3>9. CASE ScheduleRetry(w)
      <4>1. QueueTypes'
        <5>1. job[w] \in Deliveries
          BY <3>9, BusySlotHasDelivery DEF ScheduleRetry
        <5>2. delayed' = [delayed EXCEPT ![job[w]] = @ + 1] /\ ready' = ready
          BY <3>9 DEF ScheduleRetry
        <5> QED
          BY <5>1, <5>2 DEF TypeOK, QueueTypes
      <4>2. SlotTypes'
        BY <3>9, GotoTypes DEF ScheduleRetry, TypeOK, SlotTypes, Steps
      <4> QED
        BY <3>9, <4>1, <4>2, UnchangedTypes DEF ScheduleRetry, TypeOK, OtherTypes
    <3>10. CASE Bookkeep(w)
      BY <3>10, UnchangedTypes, EndJobTypes DEF Bookkeep, TypeOK, OtherTypes
    <3> QED
      BY <2>4, <3>1, <3>2, <3>3, <3>4, <3>5, <3>6, <3>8, <3>9, <3>10 DEF Process
  <2>5. ASSUME NEW w \in Workers, NEW d \in Deliveries, TakeJob(w, d) PROVE TypeOK'
    <3>1. SlotTypes'
      BY <2>5, DeliveryAssumption DEF TakeJob, Goto, TypeOK, SlotTypes, Steps
    <3>2. QueueTypes'
      <4>1. ready' = [ready EXCEPT ![d] = @ - 1] /\ ready[d] > 0 /\ delayed' = delayed
        BY <2>5 DEF TakeJob
      <4> QED
        BY <4>1 DEF TypeOK, QueueTypes
    <3> QED
      BY <2>5, <3>1, <3>2, UnchangedTypes DEF TakeJob, TypeOK, OtherTypes
  <2>6. CASE ReapScan
    BY <2>6, UnchangedTypes DEF ReapScan, Oldest, Stalled, TypeOK, OtherTypes
  <2>7. CASE Operator
    <3>1. ASSUME NEW x \in Destinations, NEW b \in BOOLEAN, SetEnabled(x, b) PROVE TypeOK'
      BY <3>1, UnchangedTypes DEF SetEnabled, TypeOK, OtherTypes
    <3>2. ASSUME NEW d \in Deliveries, Cancel(d) \/ Delete(d) PROVE TypeOK'
      BY <3>2, UnchangedTypes, SetStatusTypes
         DEF Cancel, Delete, TypeOK, OtherTypes, Statuses, Terminal
    <3> QED
      BY <2>7, <3>1, <3>2 DEF Operator
  <2>8. CASE Failures
    <3>1. ASSUME NEW d \in Deliveries, EnqueueFails(d) PROVE TypeOK'
      BY <3>1, UnchangedTypes, DeliveryAssumption DEF EnqueueFails, Fault, TypeOK, OtherTypes
    <3>2. ASSUME NEW w \in Workers, Throw(w) PROVE TypeOK'
      BY <3>2, UnchangedTypes, EndJobTypes, DeliveryAssumption DEF Throw, Fault, TypeOK, OtherTypes
    <3>3. ASSUME NEW w \in Workers, Crash(w) PROVE TypeOK'
      <4>1. QueueTypes'
        <5>1. job[w] \in Deliveries
          BY <3>3, BusySlotHasDelivery DEF Crash
        <5>2. ready' = [ready EXCEPT ![job[w]] = @ + 1] /\ delayed' = delayed
          BY <3>3 DEF Crash
        <5> QED
          BY <5>1, <5>2 DEF TypeOK, QueueTypes
      <4> QED
        BY <3>3, <4>1, UnchangedTypes, EndJobTypes, DeliveryAssumption DEF Crash, Fault, TypeOK, OtherTypes
    <3>4. CASE ReapFails
      BY <3>4, UnchangedTypes, DeliveryAssumption DEF ReapFails, Fault, TypeOK, OtherTypes
    <3>5. ASSUME NEW w \in Workers, SkipFails(w) PROVE TypeOK'
      <4>1. SlotTypes'
        BY <3>5, FallThroughTypes DEF SkipFails
      <4> QED
        BY <3>5, <4>1, UnchangedTypes, DeliveryAssumption
           DEF SkipFails, FallThrough, Fault, TypeOK, OtherTypes
    <3> QED
      BY <2>8, <3>1, <3>2, <3>3, <3>4, <3>5 DEF Failures
  <2>9. CASE UNCHANGED vars
    BY <2>9, UnchangedTypes DEF vars, TypeOK, OtherTypes
  <2> QED
    BY <2>1, <2>2, <2>3, <2>4, <2>5, <2>6, <2>7, <2>8, <2>9 DEF Next
<1> QED
  BY <1>1, <1>2, PTL DEF Spec
-----------------------------------------------------------------------------
(* Jobs and rows.                                                           *)

\* No job is queued or worked on for a row that was never inserted.
THEOREM JobsNeedRows == Spec => []JobsHaveRows
<1>1. Init => JobsHaveRows
  BY DeliveryAssumption DEF Init, JobsHaveRows
<1>2. TypeOK /\ JobsHaveRows /\ [Next]_vars => JobsHaveRows'
  <2> SUFFICES ASSUME TypeOK, JobsHaveRows, [Next]_vars PROVE JobsHaveRows'
    OBVIOUS
  <2> USE DEF JobsHaveRows
  <2>1. ASSUME NEW d \in Deliveries, Create(d) PROVE JobsHaveRows'
    <3>1. CASE ReadRoutes(d)
      BY <3>1 DEF ReadRoutes, rowVars, queueVars, workerVars, TypeOK, OtherTypes
    <3>2. CASE Persist(d)
      BY <3>2 DEF Persist, queueVars, workerVars, TypeOK, OtherTypes, RowTypes
    <3>3. CASE Enqueue(d)
      BY <3>3 DEF Enqueue, rowVars, queueVars, workerVars, TypeOK, OtherTypes, QueueTypes
    <3> QED
      BY <2>1, <3>1, <3>2, <3>3 DEF Create
  <2>2. ASSUME NEW d \in Deliveries, Timers(d) PROVE JobsHaveRows'
    BY <2>2 DEF Timers, DelayElapses, PendingGraceExpires, InFlightGraceExpires,
                rowVars, queueVars, workerVars, TypeOK, QueueTypes
  <2>3. ASSUME NEW d \in Deliveries, ReapEnqueue(d) PROVE JobsHaveRows'
    BY <2>3 DEF ReapEnqueue, rowVars, workerVars, TypeOK, QueueTypes, OtherTypes
  <2>4. ASSUME NEW w \in Workers, Process(w) PROVE JobsHaveRows'
    <3>1. pc[w] # "idle" => job[w] \in Deliveries /\ status[job[w]] # "none"
      BY BusySlotHasDelivery
    <3>2. CASE UNCHANGED <<rowVars, queueVars, creator, reaped>> /\ (EndJob(w) \/ UNCHANGED job)
      BY <3>2, DeliveryAssumption DEF EndJob, rowVars, queueVars, TypeOK, SlotTypes
    <3>3. CASE ReadRow(w) \/ ReadRoute(w) \/ Post(w) \/ Bookkeep(w)
      BY <3>2, <3>3 DEF ReadRow, ReadRoute, Post, Bookkeep
    <3>4. ASSUME NEW s \in Statuses \ {"none"}, pc[w] # "idle",
                 status' = [status EXCEPT ![job[w]] = s],
                 UNCHANGED <<queueVars, creator, reaped>>, EndJob(w) \/ UNCHANGED job
          PROVE  JobsHaveRows'
      BY <3>1, <3>4, DeliveryAssumption DEF EndJob, queueVars, TypeOK, SlotTypes, RowTypes
    <3>5. CASE PauseRow(w) \/ SkipRow(w)
      BY <3>2, <3>4, <3>5 DEF PauseRow, SkipRow, FallThrough, SetStatus, Statuses, Terminal
    <3>6. CASE ClaimDelivery(w)
      BY <3>2, <3>4, <3>6 DEF ClaimDelivery, Statuses, Open
    <3>7. CASE WriteDelivered(w) \/ WriteExhausted(w) \/ WriteFailed(w)
      BY <3>2, <3>4, <3>7 DEF WriteDelivered, WriteExhausted, WriteFailed, WriteOutcome,
                              EndAttempt, Statuses, Open, Terminal
    <3>8. CASE ScheduleRetry(w)
      BY <3>1, <3>8, DeliveryAssumption
         DEF ScheduleRetry, rowVars, TypeOK, SlotTypes, QueueTypes
    <3> QED
      BY <2>4, <3>3, <3>5, <3>6, <3>7, <3>8 DEF Process
  <2>5. ASSUME NEW w \in Workers, NEW d \in Deliveries, TakeJob(w, d) PROVE JobsHaveRows'
    BY <2>5 DEF TakeJob, rowVars, TypeOK, QueueTypes, SlotTypes
  <2>6. CASE ReapScan
    BY <2>6 DEF ReapScan, Oldest, Stalled, rowVars, queueVars, workerVars, TypeOK, OtherTypes
  <2>7. CASE Operator
    <3>1. ASSUME NEW x \in Destinations, NEW b \in BOOLEAN, SetEnabled(x, b) PROVE JobsHaveRows'
      BY <3>1 DEF SetEnabled, rowVars, queueVars, workerVars
    <3>2. ASSUME NEW d \in Deliveries, Cancel(d) \/ Delete(d) PROVE JobsHaveRows'
      BY <3>2 DEF Cancel, Delete, SetStatus, Open, queueVars, workerVars, TypeOK, RowTypes
    <3> QED
      BY <2>7, <3>1, <3>2 DEF Operator
  <2>8. CASE Failures
    <3>1. ASSUME NEW d \in Deliveries, EnqueueFails(d) PROVE JobsHaveRows'
      BY <3>1 DEF EnqueueFails, rowVars, queueVars, workerVars, TypeOK, OtherTypes
    <3>2. ASSUME NEW w \in Workers, Throw(w) PROVE JobsHaveRows'
      BY <3>2, DeliveryAssumption DEF Throw, EndJob, rowVars, queueVars, TypeOK, SlotTypes
    <3>3. ASSUME NEW w \in Workers, Crash(w) PROVE JobsHaveRows'
      <4>1. job[w] \in Deliveries /\ status[job[w]] # "none"
        BY <3>3, BusySlotHasDelivery DEF Crash
      <4>2. /\ ready' = [ready EXCEPT ![job[w]] = @ + 1]
            /\ job' = [job EXCEPT ![w] = NoJob]
            /\ UNCHANGED <<status, delayed, creator, reaped>>
        BY <3>3 DEF Crash, EndJob, rowVars
      <4> QED
        BY <4>1, <4>2, DeliveryAssumption DEF TypeOK, SlotTypes, QueueTypes
    <3>4. CASE ReapFails
      BY <3>4 DEF ReapFails, rowVars, queueVars, workerVars
    <3>5. ASSUME NEW w \in Workers, SkipFails(w) PROVE JobsHaveRows'
      BY <3>5 DEF SkipFails, FallThrough, rowVars, queueVars
    <3> QED
      BY <2>8, <3>1, <3>2, <3>3, <3>4, <3>5 DEF Failures
  <2>9. CASE UNCHANGED vars
    BY <2>9 DEF vars, rowVars, queueVars, workerVars
  <2> QED
    BY <2>1, <2>2, <2>3, <2>4, <2>5, <2>6, <2>7, <2>8, <2>9 DEF Next
<1> QED
  BY <1>1, <1>2, TypeCorrect, PTL DEF Spec
-----------------------------------------------------------------------------
(* Seen from the table and the claims, a step is of one of seven kinds.     *)

\* The delivery each slot holds the claim of.
Held == [w \in Workers |-> IF pc[w] \in {"post", "write"} THEN job[w] ELSE NoJob]

RowsKept == UNCHANGED <<status, attemptCount, inFlightGraceOver>>

RowBecomes(d, s) ==
  /\ status' = [status EXCEPT ![d] = s]
  /\ inFlightGraceOver' = [inFlightGraceOver EXCEPT ![d] = FALSE]

QuietStep == RowsKept /\ Held' = Held

ExpiryStep(d) ==
  /\ status[d] = "in_flight"
  /\ Overrun \/ \A w \in Workers : Held[w] # d
  /\ inFlightGraceOver' = [inFlightGraceOver EXCEPT ![d] = TRUE]
  /\ UNCHANGED <<status, attemptCount>> /\ Held' = Held

AppearStep(d) ==
  /\ status[d] = "none"
  /\ status' = [status EXCEPT ![d] = "pending"]
  /\ UNCHANGED <<attemptCount, inFlightGraceOver>> /\ Held' = Held

CloseStep(d, s) ==
  /\ status[d] \notin {"none", "deleted"}
  /\ RowBecomes(d, s)
  /\ UNCHANGED attemptCount /\ Held' = Held

ClaimStep(w, d) ==
  /\ Claimable(d)
  /\ Held[w] = NoJob
  /\ RowBecomes(d, "in_flight")
  /\ UNCHANGED attemptCount /\ Held' = [Held EXCEPT ![w] = d]

FinishStep(w, d, s) ==
  /\ Held[w] = d
  /\ status[d] # "deleted"
  /\ RowBecomes(d, s)
  /\ attemptCount' = [attemptCount EXCEPT ![d] = @ + 1]
  /\ Held' = [Held EXCEPT ![w] = NoJob]

AbandonStep(w) == RowsKept /\ Held' = [Held EXCEPT ![w] = NoJob]

KindOfStep ==
  \/ QuietStep
  \/ \E d \in Deliveries : ExpiryStep(d) \/ AppearStep(d)
  \/ \E d \in Deliveries, s \in Terminal \cup {"deleted"} : CloseStep(d, s)
  \/ \E w \in Workers, d \in Deliveries : ClaimStep(w, d)
  \/ \E w \in Workers, d \in Deliveries, s \in Terminal \cup {"failed"} : FinishStep(w, d, s)
  \/ \E w \in Workers : AbandonStep(w)

\* What holding a claim means, in the terms of Delivery.
LEMMA HeldIsHolds ==
  ASSUME NEW w \in Workers, NEW d \in Deliveries
  PROVE  /\ Holds(w, d) <=> Held[w] = d
         /\ Holds(w, d)' <=> Held'[w] = d
BY DeliveryAssumption DEF Holds, Held

\* A slot that ends its job holds no claim any more; the others keep theirs.
LEMMA EndJobHeld ==
  ASSUME TypeOK, NEW w \in Workers, EndJob(w)
  PROVE  Held' = [Held EXCEPT ![w] = NoJob]
BY DEF TypeOK, SlotTypes, EndJob, Held

\* If it held none, no claim changes.
LEMMA EndJobQuiet ==
  ASSUME TypeOK, NEW w \in Workers, EndJob(w), pc[w] \notin {"post", "write"}
  PROVE  Held' = Held
BY DEF TypeOK, SlotTypes, EndJob, Held

\* A slot that moves between two program points on the same side of the claim
\* changes no claim.
LEMMA GotoQuiet ==
  ASSUME TypeOK, NEW w \in Workers, NEW step \in Steps, Goto(w, step), UNCHANGED job,
         pc[w] \in {"post", "write"} <=> step \in {"post", "write"}
  PROVE  Held' = Held
BY DEF TypeOK, SlotTypes, Goto, Held

\* Every step of Delivery is of one of the kinds above.
LEMMA StepKinds == TypeOK /\ JobsHaveRows /\ [Next]_vars => KindOfStep
<1> SUFFICES ASSUME TypeOK, JobsHaveRows, [Next]_vars PROVE KindOfStep
  OBVIOUS
<1>1. ASSUME NEW d \in Deliveries, Create(d) PROVE KindOfStep
  <2>1. Held' = Held
    BY <1>1 DEF Create, ReadRoutes, Persist, Enqueue, Held, workerVars
  <2>2. CASE Persist(d)
    BY <2>1, <2>2 DEF Persist, KindOfStep, AppearStep, JobsHaveRows
  <2> QED
    BY <1>1, <2>1, <2>2 DEF Create, ReadRoutes, Enqueue, KindOfStep, QuietStep, RowsKept, rowVars
<1>2. ASSUME NEW d \in Deliveries, Timers(d) PROVE KindOfStep
  <2>1. Held' = Held
    BY <1>2 DEF Timers, DelayElapses, PendingGraceExpires, InFlightGraceExpires, Held, workerVars
  <2>2. CASE InFlightGraceExpires(d)
    BY <2>1, <2>2, HeldIsHolds DEF InFlightGraceExpires, KindOfStep, ExpiryStep
  <2> QED
    BY <1>2, <2>1, <2>2 DEF Timers, DelayElapses, PendingGraceExpires, KindOfStep, QuietStep, RowsKept, rowVars
<1>3. ASSUME NEW d \in Deliveries, ReapEnqueue(d) PROVE KindOfStep
  BY <1>3 DEF ReapEnqueue, KindOfStep, QuietStep, RowsKept, Held, rowVars, workerVars
<1>4. ASSUME NEW w \in Workers, Process(w) PROVE KindOfStep
  <2>1. CASE ReadRow(w)
    <3>1. Held' = Held
      BY <2>1, EndJobQuiet, GotoQuiet DEF ReadRow, Steps
    <3> QED
      BY <2>1, <3>1 DEF ReadRow, KindOfStep, QuietStep, RowsKept, rowVars
  <2>2. CASE ReadRoute(w) \/ Post(w)
    <3>1. Held' = Held
      BY <2>2, GotoQuiet DEF ReadRoute, Post, Steps
    <3> QED
      BY <2>2, <3>1 DEF ReadRoute, Post, KindOfStep, QuietStep, RowsKept, rowVars
  <2>3. CASE ScheduleRetry(w) \/ Bookkeep(w)
    <3>1. Held' = Held
      BY <2>3, EndJobQuiet, GotoQuiet DEF ScheduleRetry, Bookkeep, Steps
    <3> QED
      BY <2>3, <3>1 DEF ScheduleRetry, Bookkeep, KindOfStep, QuietStep, RowsKept, rowVars
  <2>4. CASE SkipRow(w) /\ FallThrough(w)
    <3>1. Held' = Held
      BY <2>4, GotoQuiet DEF SkipRow, FallThrough, Steps
    <3> QED
      BY <2>4, <3>1 DEF FallThrough, KindOfStep, QuietStep, RowsKept, rowVars
  <2>5. CASE PauseRow(w) \/ (SkipRow(w) /\ EndJob(w))
    <3>1. Held' = Held
      BY <2>5, EndJobQuiet DEF PauseRow, SkipRow
    <3>2. job[w] \in Deliveries /\ status[job[w]] # "none"
      BY <2>5, BusySlotHasDelivery DEF PauseRow, SkipRow, JobsHaveRows
    <3>3. CASE UNCHANGED rowVars
      BY <3>1, <3>3 DEF KindOfStep, QuietStep, RowsKept, rowVars
    <3>4. CASE /\ status[job[w]] # "deleted"
               /\ \E s \in Terminal : SetStatus(job[w], s)
      BY <3>1, <3>2, <3>4 DEF SetStatus, KindOfStep, CloseStep, RowBecomes
    <3>5. \/ UNCHANGED rowVars
          \/ status[job[w]] # "deleted" /\ \E s \in Terminal : SetStatus(job[w], s)
      BY <2>5 DEF PauseRow, SkipRow, FallThrough, Terminal
    <3> QED
      BY <3>3, <3>4, <3>5
  <2>6. CASE ClaimDelivery(w)
    <3>1. CASE ~Claimable(job[w])
      <4>1. Held' = Held
        BY <2>6, <3>1, EndJobQuiet DEF ClaimDelivery
      <4> QED
        BY <2>6, <3>1, <4>1 DEF ClaimDelivery, KindOfStep, QuietStep, RowsKept, rowVars
    <3>2. CASE Claimable(job[w])
      <4>1. job[w] \in Deliveries
        BY <2>6, BusySlotHasDelivery DEF ClaimDelivery
      <4>2. Held[w] = NoJob
        BY <2>6 DEF ClaimDelivery, Held
      <4>3. Held' = [Held EXCEPT ![w] = job[w]]
        BY <2>6, <3>2 DEF ClaimDelivery, Goto, Held, TypeOK, SlotTypes
      <4>4. ClaimStep(w, job[w])
        BY <2>6, <3>2, <4>2, <4>3 DEF ClaimDelivery, ClaimStep, RowBecomes
      <4> QED
        BY <4>1, <4>4 DEF KindOfStep
    <3> QED
      BY <3>1, <3>2
  <2>7. ASSUME NEW s \in Terminal \cup {"failed"},
               NEW step \in {"book", "schedule"}, WriteOutcome(w, s, step)
        PROVE  KindOfStep
    <3>1. job[w] \in Deliveries /\ Held[w] = job[w]
      BY <2>7, BusySlotHasDelivery DEF WriteOutcome, Held
    <3>2. CASE status[job[w]] = "deleted"
      <4>1. Held' = [Held EXCEPT ![w] = NoJob]
        BY <2>7, <3>2, EndJobHeld DEF WriteOutcome
      <4> QED
        BY <2>7, <3>2, <4>1 DEF WriteOutcome, KindOfStep, AbandonStep, RowsKept, rowVars
    <3>3. CASE status[job[w]] # "deleted"
      <4>1. Held' = [Held EXCEPT ![w] = NoJob]
        BY <2>7, <3>3 DEF WriteOutcome, Goto, Held, TypeOK, SlotTypes
      <4>2. FinishStep(w, job[w], s)
        BY <2>7, <3>1, <3>3, <4>1 DEF WriteOutcome, EndAttempt, FinishStep, RowBecomes
      <4> QED
        BY <3>1, <4>2 DEF KindOfStep
    <3> QED
      BY <3>2, <3>3
  <2>8. CASE WriteDelivered(w) \/ WriteExhausted(w) \/ WriteFailed(w)
    BY <2>7, <2>8 DEF WriteDelivered, WriteExhausted, WriteFailed, Terminal
  <2> QED
    BY <1>4, <2>1, <2>2, <2>3, <2>4, <2>5, <2>6, <2>8 DEF Process, SkipRow
<1>5. ASSUME NEW w \in Workers, NEW d \in Deliveries, TakeJob(w, d) PROVE KindOfStep
  <2>1. Held' = Held
    BY <1>5 DEF TakeJob, Goto, Held, TypeOK, SlotTypes
  <2> QED
    BY <1>5, <2>1 DEF TakeJob, KindOfStep, QuietStep, RowsKept, rowVars
<1>6. CASE ReapScan
  BY <1>6 DEF ReapScan, KindOfStep, QuietStep, RowsKept, Held, rowVars, workerVars
<1>7. CASE Operator
  <2>1. Held' = Held
    BY <1>7 DEF Operator, SetEnabled, Cancel, Delete, Held, workerVars
  <2>2. ASSUME NEW d \in Deliveries, Cancel(d) \/ Delete(d) PROVE KindOfStep
    BY <2>1, <2>2 DEF Cancel, Delete, SetStatus, Open, Terminal, KindOfStep, CloseStep, RowBecomes
  <2> QED
    BY <1>7, <2>1, <2>2 DEF Operator, SetEnabled, KindOfStep, QuietStep, RowsKept, rowVars
<1>8. CASE Failures
  <2>1. ASSUME NEW w \in Workers, Throw(w) \/ Crash(w) PROVE KindOfStep
    <3>1. Held' = [Held EXCEPT ![w] = NoJob]
      BY <2>1, EndJobHeld DEF Throw, Crash
    <3> QED
      BY <2>1, <3>1 DEF Throw, Crash, KindOfStep, AbandonStep, RowsKept, rowVars
  <2>2. CASE (\E d \in Deliveries : EnqueueFails(d)) \/ ReapFails
    BY <2>2 DEF EnqueueFails, ReapFails, KindOfStep, QuietStep, RowsKept, Held, rowVars, workerVars
  <2>3. ASSUME NEW w \in Workers, SkipFails(w) PROVE KindOfStep
    <3>1. Held' = Held
      BY <2>3, GotoQuiet DEF SkipFails, FallThrough, Steps
    <3> QED
      BY <2>3, <3>1 DEF SkipFails, FallThrough, KindOfStep, QuietStep, RowsKept, rowVars
  <2> QED
    BY <1>8, <2>1, <2>2, <2>3 DEF Failures
<1>9. CASE UNCHANGED vars
  BY <1>9 DEF vars, KindOfStep, QuietStep, RowsKept, Held, rowVars, workerVars
<1> QED
  BY <1>1, <1>2, <1>3, <1>4, <1>5, <1>6, <1>7, <1>8, <1>9 DEF Next
-----------------------------------------------------------------------------
(* Claims are exclusive while the grace outlasts every live attempt.        *)

\* Exclusiveness is not inductive by itself: a claim can be lost only to
\* another claim, so the row of a held claim must not be claimable.
ClaimInv ==
  /\ \A v, w \in Workers : Held[v] = Held[w] /\ Held[v] # NoJob => v = w
  /\ \A w \in Workers, d \in Deliveries :
       Held[w] = d => status[d] \in Terminal \cup {"in_flight", "deleted"} /\ ~inFlightGraceOver[d]

LEMMA ClaimInvInductive ==
  ASSUME ~Overrun
  PROVE  /\ Init => ClaimInv
         /\ TypeOK /\ JobsHaveRows /\ ClaimInv /\ [Next]_vars => ClaimInv'
<1>1. Init => ClaimInv
  BY DeliveryAssumption DEF Init, ClaimInv, Held
<1>2. ASSUME TypeOK, JobsHaveRows, ClaimInv, [Next]_vars PROVE ClaimInv'
  <2>1. KindOfStep
    BY <1>2, StepKinds
  <2>2. /\ status \in [Deliveries -> Statuses] /\ inFlightGraceOver \in [Deliveries -> BOOLEAN]
        /\ Held \in [Workers -> Deliveries \cup {NoJob}] /\ NoJob \notin Deliveries
    BY <1>2, DeliveryAssumption DEF TypeOK, RowTypes, SlotTypes, Held
  <2>3. CASE QuietStep
    BY <1>2, <2>3 DEF QuietStep, RowsKept, ClaimInv
  <2>4. ASSUME NEW d \in Deliveries, ExpiryStep(d) PROVE ClaimInv'
    BY <1>2, <2>2, <2>4 DEF ExpiryStep, ClaimInv
  <2>5. ASSUME NEW d \in Deliveries, AppearStep(d) PROVE ClaimInv'
    BY <1>2, <2>2, <2>5 DEF AppearStep, ClaimInv, Terminal
  <2>6. ASSUME NEW d \in Deliveries, NEW s \in Terminal \cup {"deleted"}, CloseStep(d, s)
        PROVE  ClaimInv'
    BY <1>2, <2>2, <2>6 DEF CloseStep, RowBecomes, ClaimInv
  <2>7. ASSUME NEW w \in Workers, NEW d \in Deliveries, ClaimStep(w, d) PROVE ClaimInv'
    <3>1. \A v \in Workers : Held[v] # d
      BY <1>2, <2>7 DEF ClaimStep, Claimable, ClaimInv, Terminal
    <3> QED
      BY <1>2, <2>2, <2>7, <3>1 DEF ClaimStep, RowBecomes, ClaimInv
  <2>8. ASSUME NEW w \in Workers, NEW d \in Deliveries, NEW s \in Terminal \cup {"failed"},
               FinishStep(w, d, s)
        PROVE  ClaimInv'
    <3>1. \A v \in Workers : v # w => Held[v] # d
      BY <1>2, <2>2, <2>8 DEF FinishStep, ClaimInv
    <3> QED
      BY <1>2, <2>2, <2>8, <3>1 DEF FinishStep, RowBecomes, ClaimInv
  <2>9. ASSUME NEW w \in Workers, AbandonStep(w) PROVE ClaimInv'
    BY <1>2, <2>2, <2>9 DEF AbandonStep, RowsKept, ClaimInv
  <2> QED
    BY <2>1, <2>3, <2>4, <2>5, <2>6, <2>7, <2>8, <2>9 DEF KindOfStep
<1> QED
  BY <1>1, <1>2

\* No two slots attempt the same delivery at the same time, whatever
\* duplicate jobs there are, if no live attempt outlasts the grace.
THEOREM ClaimsAreExclusive ==
  ASSUME ~Overrun
  PROVE  Spec => []ClaimExclusive
<1>1. TypeOK /\ ClaimInv => ClaimExclusive
  BY HeldIsHolds, DeliveryAssumption DEF ClaimInv, ClaimExclusive
<1> QED
  BY <1>1, ClaimInvInductive, TypeCorrect, JobsNeedRows, PTL DEF Spec

-----------------------------------------------------------------------------
(* A settled delivery stays settled, with or without overruns.              *)

LEMMA SettledStep ==
  ASSUME TypeOK, JobsHaveRows, [Next]_vars, NEW d \in Deliveries,
         status[d] \in Terminal, \A w \in Workers : ~Holds(w, d)
  PROVE  /\ status'[d] \in Terminal \cup {"deleted"}
         /\ \A w \in Workers : ~Holds(w, d)'
<1>1. KindOfStep
  BY StepKinds
<1>2. \A w \in Workers : Held[w] # d /\ (Held'[w] # d => ~Holds(w, d)')
  BY HeldIsHolds
<1>3. /\ status \in [Deliveries -> Statuses]
      /\ Held \in [Workers -> Deliveries \cup {NoJob}] /\ NoJob \notin Deliveries
  BY DeliveryAssumption DEF TypeOK, RowTypes, SlotTypes, Held
<1>4. status'[d] \in Terminal \cup {"deleted"} /\ \A w \in Workers : Held'[w] # d
  BY <1>1, <1>2, <1>3 DEF KindOfStep, QuietStep, RowsKept, ExpiryStep, AppearStep,
     CloseStep, ClaimStep, FinishStep, AbandonStep, RowBecomes, Claimable, Terminal
<1> QED
  BY <1>2, <1>4

\* Nothing brings a deleted row back.
LEMMA DeletedStep ==
  ASSUME TypeOK, JobsHaveRows, [Next]_vars, NEW d \in Deliveries, status[d] = "deleted"
  PROVE  status'[d] = "deleted"
<1>1. KindOfStep /\ status \in [Deliveries -> Statuses]
  BY StepKinds DEF TypeOK, RowTypes
<1> QED
  BY <1>1 DEF KindOfStep, QuietStep, RowsKept, ExpiryStep, AppearStep,
     CloseStep, ClaimStep, FinishStep, AbandonStep, RowBecomes, Claimable

\* While nothing has failed, a rejected delivery that got past the skip has lost
\* its row, and waits for the claim to find that out.
RejectedIsGone ==
  \A w \in Workers :
    result[w] = "rejected" /\ faults = 0 => pc[w] = "claim" /\ status[job[w]] = "deleted"

\* A step of one slot that leaves the others alone and no row undeleted keeps
\* RejectedIsGone, if it keeps it at that slot.
LEMMA RejectedElsewhere ==
  ASSUME TypeOK, TypeOK', RejectedIsGone, NEW w \in Workers,
         \A d \in Deliveries : status[d] = "deleted" => status'[d] = "deleted",
         faults' = 0 => faults = 0,
         \A v \in Workers \ {w} : pc'[v] = pc[v] /\ job'[v] = job[v] /\ result'[v] = result[v],
         result'[w] = "rejected" /\ faults' = 0 => pc'[w] = "claim" /\ status'[job'[w]] = "deleted"
  PROVE  RejectedIsGone'
<1> SUFFICES ASSUME NEW v \in Workers \ {w}, result'[v] = "rejected", faults' = 0
             PROVE  pc'[v] = "claim" /\ status'[job'[v]] = "deleted"
  BY DEF RejectedIsGone
<1>1. pc[v] = "claim" /\ status[job[v]] = "deleted"
  BY DEF RejectedIsGone
<1>2. job[v] \in Deliveries
  BY <1>1, BusySlotHasDelivery
<1> QED
  BY <1>1, <1>2

\* Without a fault no step takes a rejected delivery past the claim.
LEMMA RejectedStep ==
  ASSUME TypeOK, TypeOK', JobsHaveRows, RejectedIsGone, [Next]_vars
  PROVE  RejectedIsGone'
<1>1. \A d \in Deliveries : status[d] = "deleted" => status'[d] = "deleted"
  BY DeletedStep
<1>2. ASSUME UNCHANGED <<pc, job, result>>, UNCHANGED faults \/ faults' > 0 PROVE RejectedIsGone'
  <2>1. \A w \in Workers : pc[w] = "claim" => job[w] \in Deliveries
    BY BusySlotHasDelivery
  <2> QED
    BY <1>1, <1>2, <2>1 DEF RejectedIsGone
<1>3. ASSUME NEW w \in Workers, EndJob(w), UNCHANGED faults \/ faults' > 0 PROVE RejectedIsGone'
  <2>1. /\ result'[w] # "rejected"
        /\ \A v \in Workers \ {w} : pc'[v] = pc[v] /\ job'[v] = job[v] /\ result'[v] = result[v]
    BY <1>3 DEF EndJob, TypeOK, SlotTypes
  <2> QED
    BY <1>1, <1>3, <2>1, RejectedElsewhere
<1>4. ASSUME NEW w \in Workers, NEW s, pc[w] # "claim", Goto(w, s), UNCHANGED <<job, result, faults>>
      PROVE  RejectedIsGone'
  <2>1. result[w] = "rejected" => faults # 0
    BY <1>4 DEF RejectedIsGone
  <2> QED
    BY <1>1, <1>4, <2>1, RejectedElsewhere DEF Goto, TypeOK, SlotTypes
<1>5. ASSUME NEW w \in Workers, Process(w) PROVE RejectedIsGone'
  <2>1. CASE ReadRow(w)
    BY <1>3, <1>4, <2>1 DEF ReadRow
  <2>2. CASE PauseRow(w) \/ Bookkeep(w)
    BY <1>3, <2>2 DEF PauseRow, Bookkeep
  <2>3. CASE ReadRoute(w) \/ ScheduleRetry(w)
    BY <1>4, <2>3 DEF ReadRoute, ScheduleRetry
  <2>4. CASE SkipRow(w)
    <3>1. CASE status[job[w]] = "deleted"
      <4>1. FallThrough(w) /\ UNCHANGED faults /\ job[w] \in Deliveries
        BY <2>4, <3>1, BusySlotHasDelivery DEF SkipRow
      <4> QED
        BY <1>1, <3>1, <4>1, RejectedElsewhere DEF FallThrough, Goto, TypeOK, SlotTypes
    <3>2. CASE status[job[w]] # "deleted"
      BY <1>3, <2>4, <3>2 DEF SkipRow
    <3> QED
      BY <3>1, <3>2
  <2>5. CASE ClaimDelivery(w)
    <3>1. CASE Claimable(job[w]) /\ Goto(w, "post") /\ UNCHANGED <<job, result, faults>>
      <4>1. result[w] = "rejected" => faults # 0
        BY <3>1 DEF RejectedIsGone, Claimable
      <4> QED
        BY <1>1, <3>1, <4>1, RejectedElsewhere DEF Goto, TypeOK, SlotTypes
    <3>2. CASE EndJob(w) /\ UNCHANGED faults
      BY <1>3, <3>2
    <3> QED
      BY <2>5, <3>1, <3>2 DEF ClaimDelivery
  <2>6. CASE Post(w)
    <3>1. /\ result'[w] # "rejected" /\ UNCHANGED <<job, faults>>
          /\ \A v \in Workers \ {w} : pc'[v] = pc[v] /\ result'[v] = result[v]
      BY <2>6 DEF Post, Goto, Outcomes, TypeOK, SlotTypes
    <3> QED
      BY <1>1, <3>1, RejectedElsewhere
  <2>7. CASE WriteDelivered(w) \/ WriteExhausted(w) \/ WriteFailed(w)
    BY <1>3, <1>4, <2>7 DEF WriteDelivered, WriteExhausted, WriteFailed, WriteOutcome
  <2> QED
    BY <1>5, <2>1, <2>2, <2>3, <2>4, <2>5, <2>6, <2>7 DEF Process
<1>6. ASSUME NEW w \in Workers, NEW d \in Deliveries, TakeJob(w, d) PROVE RejectedIsGone'
  <2>1. result[w] = "rejected" => faults # 0
    BY <1>6 DEF RejectedIsGone, TakeJob
  <2> QED
    BY <1>1, <1>6, <2>1, RejectedElsewhere DEF TakeJob, Goto, TypeOK, SlotTypes
<1>7. CASE Failures
  <2>1. ASSUME Fault PROVE faults' > 0
    BY <2>1 DEF Fault, TypeOK, OtherTypes
  <2>2. ASSUME NEW w \in Workers, SkipFails(w) PROVE RejectedIsGone'
    BY <1>1, <2>1, <2>2, RejectedElsewhere DEF SkipFails, FallThrough, Goto, TypeOK, SlotTypes
  <2> QED
    BY <1>2, <1>3, <1>7, <2>1, <2>2 DEF Failures, Throw, Crash, EnqueueFails, ReapFails, workerVars
<1>8. ASSUME NEW d \in Deliveries, Create(d) \/ Timers(d) \/ ReapEnqueue(d) PROVE RejectedIsGone'
  BY <1>2, <1>8 DEF Create, ReadRoutes, Persist, Enqueue, Timers, DelayElapses,
     PendingGraceExpires, InFlightGraceExpires, ReapEnqueue, workerVars
<1>9. CASE ReapScan \/ Operator
  BY <1>2, <1>9 DEF ReapScan, Operator, SetEnabled, Cancel, Delete, workerVars
<1>10. CASE UNCHANGED vars
  BY <1>2, <1>10 DEF vars, workerVars
<1> QED
  BY <1>5, <1>6, <1>7, <1>8, <1>9, <1>10 DEF Next

\* What the filter rejected is sent only after a fault: when the row is gone by
\* the time it is to be marked skipped, the claim stops the handler.
THEOREM RejectedNeedsAFault == Spec => []RejectedIsSentOnlyOnFault
<1>1. Init => RejectedIsGone
  BY DEF Init, RejectedIsGone
<1>2. TypeOK /\ TypeOK' /\ JobsHaveRows /\ RejectedIsGone /\ [Next]_vars => RejectedIsGone'
  BY RejectedStep
<1>3. TypeOK /\ RejectedIsGone => RejectedIsSentOnlyOnFault
  BY DEF RejectedIsGone, RejectedIsSentOnlyOnFault, TypeOK, OtherTypes
<1> QED
  BY <1>1, <1>2, <1>3, TypeCorrect, JobsNeedRows, PTL DEF Spec

\* A terminal row with no attempt under way is never attempted again.
THEOREM SettledIsFinal == Spec => SettledStaysSettled
<1>1. TypeOK /\ JobsHaveRows /\ [Next]_vars =>
        [\A d \in Deliveries :
           status[d] \in Terminal /\ (\A w \in Workers : ~Holds(w, d)) =>
             /\ status'[d] \in Terminal \cup {"deleted"}
             /\ \A w \in Workers : ~Holds(w, d)']_vars
  BY SettledStep
<1> QED
  BY <1>1, TypeCorrect, JobsNeedRows, PTL DEF Spec, SettledStaysSettled
-----------------------------------------------------------------------------
(* Delivery implements DeliveryLifecycle.                                   *)

\* Every step is a step of the life cycle, or none.
LEMMA StepRefines ==
  ASSUME TypeOK, JobsHaveRows, ClaimInv, [Next]_vars
  PROVE  [Lifecycle!LNext]_<<status, attemptCount, attempting>>
<1> DEFINE HeldSet == {d \in Deliveries : \E w \in Workers : Held[w] = d}
<1>1. attempting = HeldSet /\ attempting' = HeldSet'
  BY HeldIsHolds DEF attempting
<1>2. KindOfStep
  BY StepKinds
<1>3. /\ status \in [Deliveries -> Statuses]
      /\ Held \in [Workers -> Deliveries \cup {NoJob}] /\ NoJob \notin Deliveries
  BY DeliveryAssumption DEF TypeOK, RowTypes, SlotTypes, Held
<1>4. CASE QuietStep
  BY <1>1, <1>4 DEF QuietStep, RowsKept
<1>5. ASSUME NEW d \in Deliveries, ExpiryStep(d)
      PROVE  [Lifecycle!LNext]_<<status, attemptCount, attempting>>
  BY <1>1, <1>5 DEF ExpiryStep
<1>6. ASSUME NEW d \in Deliveries, AppearStep(d) PROVE Lifecycle!Appear(d)
  BY <1>1, <1>6 DEF AppearStep, Lifecycle!Appear, Lifecycle!Become
<1>8. ASSUME NEW w \in Workers, NEW d \in Deliveries, ClaimStep(w, d)
      PROVE  Lifecycle!BeginAttempt(d)
  <2>1. \A v \in Workers : Held[v] # d
    BY <1>8 DEF ClaimStep, Claimable, ClaimInv, Terminal
  <2>2. HeldSet' = HeldSet \cup {d}
    BY <1>3, <1>8 DEF ClaimStep
  <2> QED
    BY <1>1, <1>8, <2>1, <2>2 DEF ClaimStep, RowBecomes, Claimable,
       Lifecycle!BeginAttempt, Lifecycle!Become
<1>9. ASSUME NEW w \in Workers, NEW d \in Deliveries, NEW s \in Terminal \cup {"failed"},
             FinishStep(w, d, s)
      PROVE  Lifecycle!FinishAttempt(d, s)
  <2>1. \A v \in Workers : v # w => Held[v] # d
    BY <1>3, <1>9 DEF FinishStep, ClaimInv
  <2>2. HeldSet' = HeldSet \ {d}
    BY <1>3, <1>9, <2>1 DEF FinishStep
  <2> QED
    BY <1>1, <1>9, <2>2 DEF FinishStep, RowBecomes, Lifecycle!FinishAttempt, Lifecycle!Become
<1>10. ASSUME NEW w \in Workers, AbandonStep(w)
       PROVE  [Lifecycle!LNext]_<<status, attemptCount, attempting>>
  <2>1. CASE Held[w] = NoJob
    BY <1>1, <1>3, <1>10, <2>1 DEF AbandonStep, RowsKept
  <2>2. CASE Held[w] # NoJob
    <3>1. PICK d \in Deliveries : Held[w] = d
      BY <1>3, <2>2
    <3>2. HeldSet' = HeldSet \ {d}
      BY <1>3, <1>10, <3>1 DEF AbandonStep, ClaimInv
    <3>3. Lifecycle!AbandonAttempt(d)
      BY <1>1, <1>10, <3>1, <3>2 DEF AbandonStep, RowsKept, Lifecycle!AbandonAttempt
    <3> QED
      BY <3>3 DEF Lifecycle!LNext
  <2> QED
    BY <2>1, <2>2
<1> QED
  <2>1. CASE \E d \in Deliveries, s \in Terminal \cup {"deleted"} : CloseStep(d, s)
    <3>1. PICK d \in Deliveries, s \in Terminal \cup {"deleted"} : CloseStep(d, s)
      BY <2>1
    <3>2. CASE s = "deleted"
      BY <1>1, <3>1, <3>2 DEF CloseStep, RowBecomes, Lifecycle!Disappear, Lifecycle!Become, Lifecycle!LNext
    <3>3. CASE s \in Terminal
      BY <1>1, <3>1, <3>3 DEF CloseStep, RowBecomes, Lifecycle!Close, Lifecycle!Become, Lifecycle!LNext, Terminal
    <3> QED
      BY <3>1, <3>2, <3>3
  <2>2. CASE \E w \in Workers, d \in Deliveries, s \in Terminal \cup {"failed"} : FinishStep(w, d, s)
    BY <2>2, <1>9 DEF Lifecycle!LNext, Terminal
  <2>3. CASE \E w \in Workers, d \in Deliveries : ClaimStep(w, d)
    BY <2>3, <1>8 DEF Lifecycle!LNext
  <2>4. CASE \E d \in Deliveries : ExpiryStep(d) \/ AppearStep(d)
    BY <2>4, <1>5, <1>6 DEF Lifecycle!LNext
  <2> QED
    BY <1>2, <1>4, <1>10, <2>1, <2>2, <2>3, <2>4 DEF KindOfStep

\* While the grace outlasts every live attempt, every behaviour of the queue,
\* the slots, the reaper, the operator and the faults is one of the life cycle.
THEOREM RefinesLifecycle ==
  ASSUME ~Overrun
  PROVE  Spec => ImplementsLifecycle
<1>1. Init => Lifecycle!LInit
  BY DeliveryAssumption DEF Init, Lifecycle!LInit, attempting, Holds
<1>2. TypeOK /\ JobsHaveRows /\ ClaimInv /\ [Next]_vars =>
        [Lifecycle!LNext]_<<status, attemptCount, attempting>>
  BY StepRefines
<1> QED
  BY <1>1, <1>2, ClaimInvInductive, TypeCorrect, JobsNeedRows, PTL
     DEF Spec, ImplementsLifecycle, Lifecycle!LSpec, Lifecycle!lifecycleVars
-----------------------------------------------------------------------------
(* Without faults no open row is forgotten.                                 *)

\* A step of one slot leaves the deliveries it does not work on driven.
LEMMA DrivenElsewhere ==
  ASSUME TypeOK, NEW w \in Workers, NEW d \in Deliveries, job[w] # d, Driven(d),
         status'[d] = status[d], creator'[d] = creator[d],
         ready'[d] = ready[d], delayed'[d] = delayed[d],
         \A v \in Workers : v # w => pc'[v] = pc[v] /\ job'[v] = job[v]
  PROVE  Driven(d)'
BY DEF Driven, Waiting, Pursues, Scheduling, Holds

\* So does a step of no slot that adds jobs or takes none away.
LEMMA DrivenWithoutSlots ==
  ASSUME TypeOK, NEW d \in Deliveries, Driven(d), UNCHANGED <<pc, job>>,
         status'[d] = status[d], creator'[d] = creator[d],
         ready'[d] > 0 \/ (ready'[d] = ready[d] /\ delayed'[d] = delayed[d])
  PROVE  Driven(d)'
BY DEF Driven, Waiting, Pursues, Scheduling, Holds

\* A row that is not open needs no driver.
LEMMA ClosedIsDriven ==
  ASSUME NEW d \in Deliveries, status'[d] \notin Open
  PROVE  Driven(d)'
BY DEF Driven, Open

\* A slot that neither pursues the row nor holds its claim nor schedules its
\* retry may stop.
LEMMA DrivenByOthers ==
  ASSUME TypeOK, NEW w \in Workers, NEW d \in Deliveries, Driven(d),
         status'[d] = status[d], creator'[d] = creator[d],
         ready'[d] = ready[d], delayed'[d] = delayed[d],
         \A v \in Workers : v # w => pc'[v] = pc[v] /\ job'[v] = job[v],
         status[d] = "in_flight" => ~Holds(w, d),
         status[d] \in {"pending", "failed"} => ~Pursues(w, d),
         status[d] = "failed" => ~Scheduling(w, d)
  PROVE  Driven(d)'
BY DEF Driven, Waiting, Pursues, Scheduling, Holds

LEMMA DrivenProcess ==
  ASSUME TypeOK, NEW w \in Workers, Process(w), NEW d \in Deliveries, Driven(d)
  PROVE  Driven(d)'
<1>1. /\ \A v \in Workers : v # w => pc'[v] = pc[v] /\ job'[v] = job[v]
      /\ pc[w] # "idle" /\ UNCHANGED <<ready, creator>>
  BY DEF Process, ReadRow, ReadRoute, PauseRow, SkipRow, FallThrough, ClaimDelivery, Post,
         WriteDelivered, WriteExhausted, WriteFailed, WriteOutcome, ScheduleRetry, Bookkeep,
         EndJob, Goto, TypeOK, SlotTypes, queueVars
<1>2. /\ status \in [Deliveries -> Statuses] /\ delayed \in [Deliveries -> Nat]
      /\ pc \in [Workers -> Steps] /\ job \in [Workers -> Deliveries \cup {NoJob}]
  BY DEF TypeOK, RowTypes, QueueTypes, SlotTypes
<1>3. CASE job[w] # d
  <2>1. status'[d] = status[d] /\ delayed'[d] = delayed[d]
    BY <1>2, <1>3
       DEF Process, ReadRow, ReadRoute, PauseRow, SkipRow, FallThrough, SetStatus,
           ClaimDelivery, Post, WriteDelivered, WriteExhausted, WriteFailed, WriteOutcome,
           EndAttempt, ScheduleRetry, Bookkeep, rowVars, queueVars
  <2> QED
    BY <1>1, <1>3, <2>1, DrivenElsewhere
<1>4. CASE job[w] = d
  <2>1. CASE ReadRow(w)
    <3>1. UNCHANGED <<status, delayed>>
      BY <2>1 DEF ReadRow, rowVars, queueVars
    <3>2. CASE status[d] \notin Open
      BY <3>1, <3>2, ClosedIsDriven
    <3>3. CASE status[d] \in Open
      <4>1. Pursues(w, d)' /\ Pursues(w, d)
        BY <1>2, <1>4, <2>1, <3>3 DEF ReadRow, Goto, Pursues, Open, Terminal
      <4> QED
        BY <1>1, <3>1, <4>1 DEF Driven, Waiting, Pursues, Scheduling, Holds
    <3> QED
      BY <3>2, <3>3
  <2>2. CASE ReadRoute(w)
    <3>1. Pursues(w, d)' /\ Pursues(w, d) /\ UNCHANGED <<status, delayed>>
      BY <1>2, <1>4, <2>2 DEF ReadRoute, Goto, Pursues, rowVars, queueVars
    <3> QED
      BY <1>1, <3>1 DEF Driven, Waiting, Pursues, Scheduling, Holds
  <2>3. CASE PauseRow(w) \/ SkipRow(w)
    <3>1. status'[d] \notin Open
      BY <1>2, <1>4, <2>3 DEF PauseRow, SkipRow, FallThrough, SetStatus, rowVars, Open
    <3> QED
      BY <3>1, ClosedIsDriven
  <2>4. CASE ClaimDelivery(w)
    <3>1. CASE Claimable(d)
      BY <1>2, <1>4, <2>4, <3>1 DEF ClaimDelivery, Goto, Driven, Holds
    <3>2. CASE ~Claimable(d)
      <4>1. UNCHANGED <<status, delayed>> /\ pc[w] = "claim"
        BY <1>4, <2>4, <3>2 DEF ClaimDelivery, rowVars, queueVars
      <4> QED
        BY <1>1, <3>2, <4>1, DrivenByOthers DEF Claimable, Holds, Scheduling
    <3> QED
      BY <3>1, <3>2
  <2>5. CASE Post(w)
    <3>1. Holds(w, d)' /\ Holds(w, d) /\ UNCHANGED <<status, delayed>>
      BY <1>2, <1>4, <2>5 DEF Post, Goto, Holds, rowVars, queueVars
    <3> QED
      BY <1>1, <3>1 DEF Driven, Waiting, Pursues, Scheduling, Holds
  <2>6. CASE WriteDelivered(w) \/ WriteExhausted(w)
    <3>1. status'[d] \notin Open
      BY <1>2, <1>4, <2>6
         DEF WriteDelivered, WriteExhausted, WriteOutcome, EndAttempt, rowVars, Open
    <3> QED
      BY <3>1, ClosedIsDriven
  <2>7. CASE WriteFailed(w)
    <3>1. CASE status[d] = "deleted"
      <4>1. status'[d] = "deleted"
        BY <1>4, <2>7, <3>1 DEF WriteFailed, WriteOutcome, rowVars
      <4> QED
        BY <4>1, ClosedIsDriven DEF Open
    <3>2. CASE status[d] # "deleted"
      <4>1. status'[d] = "failed" /\ Scheduling(w, d)'
        BY <1>2, <1>4, <2>7, <3>2 DEF WriteFailed, WriteOutcome, EndAttempt, Goto, Scheduling
      <4> QED
        BY <4>1 DEF Driven
    <3> QED
      BY <3>1, <3>2
  <2>8. CASE ScheduleRetry(w)
    <3>1. /\ UNCHANGED status /\ delayed'[d] = delayed[d] + 1 /\ delayed[d] \in Nat
          /\ pc[w] = "schedule"
      BY <1>2, <1>4, <2>8 DEF ScheduleRetry, rowVars
    <3>2. status[d] = "failed" => Driven(d)'
      BY <3>1 DEF Driven
    <3>3. status[d] # "failed" => Driven(d)'
      BY <1>1, <3>1 DEF Driven, Waiting, Pursues, Holds
    <3> QED
      BY <3>2, <3>3
  <2>9. CASE Bookkeep(w)
    <3>1. UNCHANGED <<status, delayed>> /\ pc[w] = "book"
      BY <2>9 DEF Bookkeep, rowVars, queueVars
    <3> QED
      BY <1>1, <3>1, DrivenByOthers DEF Pursues, Holds, Scheduling
  <2> QED
    BY <2>1, <2>2, <2>3, <2>4, <2>5, <2>6, <2>7, <2>8, <2>9 DEF Process
<1> QED
  BY <1>3, <1>4

\* As long as no fault happened, every open row has a job or a process that
\* will move it on.
THEOREM OpenRowsAreDriven == Spec => []OpenRowIsDriven
<1>1. Init => OpenRowIsDriven
  BY DEF Init, OpenRowIsDriven, Driven
<1>2. TypeOK /\ JobsHaveRows /\ OpenRowIsDriven /\ [Next]_vars => OpenRowIsDriven'
  <2> SUFFICES ASSUME TypeOK, JobsHaveRows, OpenRowIsDriven, [Next]_vars, faults' = 0,
                      NEW d \in Deliveries
               PROVE  Driven(d)'
    BY DEF OpenRowIsDriven
  <2>1. faults \in Nat /\ ~Failures
    BY DeliveryAssumption
       DEF TypeOK, OtherTypes, Failures, Fault, EnqueueFails, SkipFails, Throw, Crash, ReapFails
  <2>2. CASE faults = 0
    <3>1. Driven(d)
      BY <2>2 DEF OpenRowIsDriven
    <3>2. ASSUME NEW e \in Deliveries, Create(e) PROVE Driven(d)'
      <4>1. CASE ReadRoutes(e)
        <5>1. creator[d] = "created" => creator'[d] = "created"
          BY <4>1 DEF ReadRoutes, TypeOK, OtherTypes
        <5> QED
          BY <3>1, <4>1, <5>1 DEF ReadRoutes, rowVars, queueVars, workerVars,
             Driven, Waiting, Pursues, Scheduling, Holds
      <4>2. CASE Persist(e)
        <5>1. CASE e = d
          BY <4>2, <5>1 DEF Persist, Driven, TypeOK, RowTypes, OtherTypes
        <5>2. CASE e # d
          BY <3>1, <4>2, <5>2, DrivenWithoutSlots
             DEF Persist, queueVars, workerVars, TypeOK, RowTypes, OtherTypes
        <5> QED
          BY <5>1, <5>2
      <4>3. CASE Enqueue(e)
        <5>1. UNCHANGED <<status, pc, job, delayed>> /\ ready[d] \in Nat
          BY <4>3 DEF Enqueue, rowVars, workerVars, TypeOK, QueueTypes
        <5>2. CASE e = d
          <6>1. ready'[d] > 0
            BY <4>3, <5>1, <5>2 DEF Enqueue, TypeOK, QueueTypes
          <6> QED
            BY <3>1, <5>1, <6>1 DEF Driven, Waiting, Holds
        <5>3. CASE e # d
          BY <3>1, <4>3, <5>1, <5>3, DrivenWithoutSlots
             DEF Enqueue, TypeOK, QueueTypes, OtherTypes
        <5> QED
          BY <5>2, <5>3
      <4> QED
        BY <3>2, <4>1, <4>2, <4>3 DEF Create
    <3>3. ASSUME NEW e \in Deliveries, Timers(e) PROVE Driven(d)'
      <4>1. UNCHANGED <<status, creator, pc, job>>
        BY <3>3 DEF Timers, DelayElapses, PendingGraceExpires, InFlightGraceExpires, rowVars, workerVars
      <4>2. ready'[d] > 0 \/ (ready'[d] = ready[d] /\ delayed'[d] = delayed[d])
        BY <3>3 DEF Timers, DelayElapses, PendingGraceExpires, InFlightGraceExpires,
                    queueVars, TypeOK, QueueTypes
      <4> QED
        BY <3>1, <4>1, <4>2, DrivenWithoutSlots
    <3>4. ASSUME NEW e \in Deliveries, ReapEnqueue(e) PROVE Driven(d)'
      <4>1. ready'[d] > 0 \/ (ready'[d] = ready[d] /\ delayed'[d] = delayed[d])
        BY <3>4 DEF ReapEnqueue, TypeOK, QueueTypes
      <4> QED
        BY <3>1, <3>4, <4>1, DrivenWithoutSlots DEF ReapEnqueue, rowVars, workerVars
    <3>5. ASSUME NEW w \in Workers, Process(w) PROVE Driven(d)'
      BY <3>1, <3>5, DrivenProcess
    <3>6. ASSUME NEW w \in Workers, NEW e \in Deliveries, TakeJob(w, e) PROVE Driven(d)'
      <4>1. /\ \A v \in Workers : v # w => pc'[v] = pc[v] /\ job'[v] = job[v]
            /\ UNCHANGED <<status, creator, delayed>>
            /\ pc[w] = "idle" /\ job[w] = NoJob
        BY <3>6 DEF TakeJob, Goto, rowVars, TypeOK, SlotTypes
      <4>2. CASE e = d
        <5>1. Pursues(w, d)'
          BY <3>6, <4>2 DEF TakeJob, Goto, Pursues, TypeOK, SlotTypes
        <5> QED
          BY <3>1, <4>1, <5>1 DEF Driven, Waiting, Holds, Scheduling
      <4>3. CASE e # d
        <5>1. ready'[d] = ready[d]
          BY <3>6, <4>3 DEF TakeJob, TypeOK, QueueTypes
        <5> QED
          BY <3>1, <4>1, <5>1, DrivenElsewhere, DeliveryAssumption
      <4> QED
        BY <4>2, <4>3
    <3>7. CASE ReapScan
      BY <3>1, <3>7, DrivenWithoutSlots DEF ReapScan, rowVars, queueVars, workerVars
    <3>8. CASE Operator
      <4>1. ASSUME NEW x \in Destinations, NEW b \in BOOLEAN, SetEnabled(x, b) PROVE Driven(d)'
        BY <3>1, <4>1, DrivenWithoutSlots DEF SetEnabled, rowVars, queueVars, workerVars
      <4>2. ASSUME NEW e \in Deliveries, Cancel(e) \/ Delete(e) PROVE Driven(d)'
        <5>1. CASE e = d
          <6>1. status'[d] \notin Open
            BY <4>2, <5>1 DEF Cancel, Delete, SetStatus, Open, TypeOK, RowTypes
          <6> QED
            BY <6>1, ClosedIsDriven
        <5>2. CASE e # d
          <6>1. status'[d] = status[d]
            BY <4>2, <5>2 DEF Cancel, Delete, SetStatus, TypeOK, RowTypes
          <6> QED
            BY <3>1, <4>2, <6>1, DrivenWithoutSlots DEF Cancel, Delete, queueVars, workerVars
        <5> QED
          BY <5>1, <5>2
      <4> QED
        BY <3>8, <4>1, <4>2 DEF Operator
    <3>9. CASE UNCHANGED vars
      BY <3>1, <3>9, DrivenWithoutSlots DEF vars, rowVars, queueVars, workerVars
    <3> QED
      BY <2>1, <3>2, <3>3, <3>4, <3>5, <3>6, <3>7, <3>8, <3>9 DEF Next
  <2>3. UNCHANGED faults
    <3>1. ASSUME NEW w \in Workers, Process(w) PROVE UNCHANGED faults
      BY <3>1 DEF Process, ReadRow, ReadRoute, PauseRow, SkipRow, FallThrough,
         ClaimDelivery, Post, WriteDelivered, WriteExhausted, WriteFailed, WriteOutcome,
         ScheduleRetry, Bookkeep
    <3> QED
      BY <2>1, <3>1 DEF Next, Create, ReadRoutes, Persist, Enqueue, Timers, DelayElapses,
         PendingGraceExpires, InFlightGraceExpires, ReapEnqueue, TakeJob, ReapScan,
         Operator, SetEnabled, Cancel, Delete, vars
  <2> QED
    BY <2>2, <2>3
<1> QED
  BY <1>1, <1>2, TypeCorrect, JobsNeedRows, PTL DEF Spec

-----------------------------------------------------------------------------
(***************************************************************************)
(* How many attempts a delivery can get when its duplicates run side by    *)
(* side: MAX_ATTEMPTS, and one more for every other worker slot.           *)
(*                                                                         *)
(* A slot that read the count before the last attempt (a low slot) writes  *)
(* `failed` when its request fails, and so leaves the delivery open. Once  *)
(* the count has reached MAX_ATTEMPTS - 1, whoever reads it is no longer   *)
(* low, so from then on each further attempt uses up a low slot, until a   *)
(* slot that is not low writes a terminal status.                          *)
(***************************************************************************)

Low(d) == {w \in Workers : /\ job[w] = d
                           /\ pc[w] \in {"route", "skip", "claim", "post", "write"}
                           /\ attemptRead[w] + 1 < MaxAttempts}

\* No attempt of the delivery is under way or can begin.
Frozen(d) == \/ status[d] = "deleted"
             \/ status[d] \in Terminal /\ \A w \in Workers : ~Holds(w, d)

Slack(d) == IF Frozen(d) THEN 1 ELSE 0

AttemptInv ==
  \A d \in Deliveries :
    attemptCount[d] + 1 >= MaxAttempts =>
      attemptCount[d] + Cardinality(Low(d))
        <= MaxAttempts + Cardinality(Workers) - 2 + Slack(d)

\* Low slots can be counted.
LEMMA LowIsFinite ==
  ASSUME IsFiniteSet(Workers), NEW d \in Deliveries
  PROVE  /\ IsFiniteSet(Low(d))  /\ Cardinality(Low(d)) \in Nat
         /\ IsFiniteSet(Low(d)') /\ Cardinality(Low(d)') \in Nat
         /\ Cardinality(Low(d)) <= Cardinality(Workers)
         /\ Cardinality(Low(d)') <= Cardinality(Workers)
         /\ Cardinality(Workers) \in Nat
<1>1. Low(d) \in SUBSET Workers /\ Low(d)' \in SUBSET Workers
  BY DEF Low
<1> QED
  BY <1>1, FS_Subset, FS_CardinalityType

\* A frozen delivery stays frozen.
LEMMA FrozenStays ==
  ASSUME TypeOK, JobsHaveRows, [Next]_vars, NEW d \in Deliveries, Frozen(d)
  PROVE  Frozen(d)'
BY SettledStep, DeletedStep DEF Frozen

\* A slot that keeps its job, its copy of the count and its side of the claim
\* does not become low; nor does one that starts or ends a job.
LEMMA LowElsewhere ==
  ASSUME NEW w \in Workers, NEW d \in Deliveries,
         \A v \in Workers : v # w => /\ pc'[v] = pc[v] /\ job'[v] = job[v]
                                     /\ attemptRead'[v] = attemptRead[v],
         w \in Low(d)' => w \in Low(d)
  PROVE  Low(d)' \subseteq Low(d)
BY DEF Low

\* Only the read of the row makes a slot low, and only while the count is low.
LEMMA LowProcess ==
  ASSUME TypeOK, NEW w \in Workers, Process(w), NEW d \in Deliveries
  PROVE  \/ Low(d)' \subseteq Low(d)
         \/ attemptCount[d] + 1 < MaxAttempts /\ UNCHANGED attemptCount
<1>1. /\ pc \in [Workers -> Steps] /\ job \in [Workers -> Deliveries \cup {NoJob}]
      /\ attemptRead \in [Workers -> Nat] /\ NoJob \notin Deliveries
  BY DeliveryAssumption DEF TypeOK, SlotTypes
<1>2. \A v \in Workers : v # w => /\ pc'[v] = pc[v] /\ job'[v] = job[v]
                                  /\ attemptRead'[v] = attemptRead[v]
  BY <1>1 DEF Process, ReadRow, ReadRoute, PauseRow, SkipRow, FallThrough, ClaimDelivery, Post,
     WriteDelivered, WriteExhausted, WriteFailed, WriteOutcome, ScheduleRetry, Bookkeep,
     EndJob, Goto
<1>3. CASE ReadRow(w)
  <2>1. UNCHANGED attemptCount
    BY <1>3 DEF ReadRow, rowVars
  <2>2. w \in Low(d)' => job[w] = d /\ attemptRead'[w] = attemptCount[d]
    BY <1>1, <1>3 DEF ReadRow, EndJob, Goto, Low
  <2>3. CASE w \in Low(d)'
    BY <2>1, <2>2, <2>3 DEF Low
  <2>4. CASE w \notin Low(d)'
    BY <1>2, <2>4, LowElsewhere
  <2> QED
    BY <2>3, <2>4
<1>4. CASE ~ReadRow(w)
  <2>1. \/ job'[w] = NoJob
        \/ pc'[w] = "schedule" \/ pc'[w] = "book"
        \/ /\ pc[w] \in {"route", "skip", "claim", "post"}
           /\ UNCHANGED <<job, attemptRead>>
    BY <1>1, <1>4 DEF Process, ReadRoute, PauseRow, SkipRow, FallThrough, ClaimDelivery, Post,
       WriteDelivered, WriteExhausted, WriteFailed, WriteOutcome, ScheduleRetry, Bookkeep,
       EndJob, Goto
  <2>2. w \in Low(d)' => w \in Low(d)
    BY <1>1, <2>1 DEF Low
  <2> QED
    BY <1>2, <2>2, LowElsewhere
<1> QED
  BY <1>3, <1>4

\* The same for every step.
LEMMA LowStep ==
  ASSUME TypeOK, [Next]_vars, NEW d \in Deliveries
  PROVE  \/ Low(d)' \subseteq Low(d)
         \/ attemptCount[d] + 1 < MaxAttempts /\ UNCHANGED attemptCount
<1>1. ASSUME NEW w \in Workers, Process(w)
      PROVE  \/ Low(d)' \subseteq Low(d)
             \/ attemptCount[d] + 1 < MaxAttempts /\ UNCHANGED attemptCount
  BY <1>1, LowProcess
<1>2. /\ pc \in [Workers -> Steps] /\ job \in [Workers -> Deliveries \cup {NoJob}]
      /\ attemptRead \in [Workers -> Nat] /\ NoJob \notin Deliveries
  BY DeliveryAssumption DEF TypeOK, SlotTypes
<1>3. ASSUME NEW w \in Workers, NEW e \in Deliveries, TakeJob(w, e)
      PROVE  Low(d)' \subseteq Low(d)
  BY <1>2, <1>3, LowElsewhere DEF TakeJob, Goto, Low
<1>4. ASSUME NEW w \in Workers, Throw(w) \/ Crash(w)
      PROVE  Low(d)' \subseteq Low(d)
  BY <1>2, <1>4, LowElsewhere DEF Throw, Crash, EndJob, Low
<1>5. ASSUME NEW w \in Workers, SkipFails(w)
      PROVE  Low(d)' \subseteq Low(d)
  BY <1>2, <1>5, LowElsewhere DEF SkipFails, FallThrough, Goto, Low
<1>6. CASE UNCHANGED workerVars
  BY <1>6 DEF workerVars, Low
<1> QED
  BY <1>1, <1>3, <1>4, <1>5, <1>6
     DEF Next, Create, ReadRoutes, Persist, Enqueue, Timers, DelayElapses,
         PendingGraceExpires, InFlightGraceExpires, ReapEnqueue, ReapScan, Operator,
         SetEnabled, Cancel, Delete, Failures, EnqueueFails, ReapFails, vars

\* The count changes only when a holder of the claim finishes: it ceases to be
\* low if it was, and otherwise writes a terminal status.
CountedWrite(w, d) ==
  /\ Holds(w, d) /\ status[d] # "deleted"
  /\ attemptCount' = [attemptCount EXCEPT ![d] = @ + 1]
  /\ w \notin Low(d)'
  /\ w \in Low(d) \/ status'[d] \in Terminal
  /\ \A v \in Workers : Holds(v, d)' => Holds(v, d) /\ v # w

LEMMA CountStep ==
  ASSUME TypeOK, [Next]_vars
  PROVE  UNCHANGED attemptCount \/ \E w \in Workers, d \in Deliveries : CountedWrite(w, d)
<1>1. /\ pc \in [Workers -> Steps] /\ job \in [Workers -> Deliveries \cup {NoJob}]
      /\ attemptRead \in [Workers -> Nat] /\ NoJob \notin Deliveries
      /\ status \in [Deliveries -> Statuses] /\ MaxAttempts \in Nat
  BY DeliveryAssumption DEF TypeOK, SlotTypes, RowTypes
<1>2. ASSUME NEW w \in Workers, NEW s \in Statuses,
             NEW step \in {"book", "schedule"}, WriteOutcome(w, s, step),
             s \in Terminal \/ attemptRead[w] + 1 < MaxAttempts
      PROVE  UNCHANGED attemptCount \/ \E d \in Deliveries : CountedWrite(w, d)
  <2>1. job[w] \in Deliveries
    BY <1>2, BusySlotHasDelivery DEF WriteOutcome
  <2>2. CASE status[job[w]] = "deleted"
    BY <1>2, <2>2 DEF WriteOutcome, rowVars
  <2>3. CASE status[job[w]] # "deleted"
    <3>1. /\ pc[w] = "write" /\ pc' = [pc EXCEPT ![w] = step]
          /\ UNCHANGED <<job, attemptRead>>
          /\ status' = [status EXCEPT ![job[w]] = s]
          /\ attemptCount' = [attemptCount EXCEPT ![job[w]] = @ + 1]
      BY <1>2, <2>3 DEF WriteOutcome, EndAttempt, Goto
    <3>2. CountedWrite(w, job[w])
      BY <1>1, <1>2, <2>1, <2>3, <3>1 DEF CountedWrite, Holds, Low
    <3> QED
      BY <2>1, <3>2
  <2> QED
    BY <2>2, <2>3
<1>3. ASSUME NEW w \in Workers, Process(w)
      PROVE  UNCHANGED attemptCount \/ \E d \in Deliveries : CountedWrite(w, d)
  <2>1. CASE WriteDelivered(w) \/ WriteExhausted(w)
    BY <1>2, <2>1 DEF WriteDelivered, WriteExhausted, Terminal, Statuses
  <2>2. CASE WriteFailed(w)
    <3>1. attemptRead[w] + 1 < MaxAttempts
      BY <1>1, <2>2 DEF WriteFailed, GivesUp, Attempt
    <3> QED
      BY <1>2, <2>2, <3>1 DEF WriteFailed, Statuses, Open
  <2> QED
    BY <1>3, <2>1, <2>2 DEF Process, ReadRow, ReadRoute, PauseRow, SkipRow, FallThrough,
       SetStatus, ClaimDelivery, Post, ScheduleRetry, Bookkeep, rowVars
<1> QED
  BY <1>3
     DEF Next, Create, ReadRoutes, Persist, Enqueue, Timers, DelayElapses,
         PendingGraceExpires, InFlightGraceExpires, ReapEnqueue, TakeJob, ReapScan, Operator,
         SetEnabled, Cancel, Delete, SetStatus, Failures, EnqueueFails, SkipFails, FallThrough,
         Throw, Crash, ReapFails, rowVars, vars

\* The bound is inductive.
LEMMA AttemptStep ==
  ASSUME TypeOK, JobsHaveRows, ClaimExclusive, AttemptInv, [Next]_vars,
         IsFiniteSet(Workers), NEW d \in Deliveries,
         attemptCount'[d] + 1 >= MaxAttempts
  PROVE  attemptCount'[d] + Cardinality(Low(d)')
           <= MaxAttempts + Cardinality(Workers) - 2 + Slack(d)'
<1>1. /\ attemptCount \in [Deliveries -> Nat] /\ MaxAttempts \in Nat
      /\ Cardinality(Low(d)) \in Nat /\ Cardinality(Low(d)') \in Nat
      /\ Cardinality(Workers) \in Nat /\ Cardinality(Low(d)') <= Cardinality(Workers)
  BY LowIsFinite, DeliveryAssumption DEF TypeOK, RowTypes
<1>2. Slack(d) \in {0, 1} /\ Slack(d)' \in {0, 1} /\ Slack(d) <= Slack(d)'
  BY FrozenStays DEF Slack
<1>3. attemptCount[d] + 1 >= MaxAttempts =>
        attemptCount[d] + Cardinality(Low(d))
          <= MaxAttempts + Cardinality(Workers) - 2 + Slack(d)
  BY DEF AttemptInv
<1>4. CASE attemptCount'[d] = attemptCount[d]
  <2>1. Low(d)' \subseteq Low(d)
    BY <1>1, <1>4, LowStep
  <2>2. Cardinality(Low(d)') <= Cardinality(Low(d))
    BY <2>1, LowIsFinite, FS_Subset
  <2> QED
    BY <1>1, <1>2, <1>3, <1>4, <2>2
<1>5. CASE attemptCount'[d] # attemptCount[d]
  <2>1. PICK w \in Workers : CountedWrite(w, d)
    <3>1. PICK w \in Workers, e \in Deliveries : CountedWrite(w, e)
      BY <1>5, CountStep
    <3>2. e = d
      BY <1>1, <1>5, <3>1 DEF CountedWrite
    <3> QED
      BY <3>1, <3>2
  <2>2. attemptCount'[d] = attemptCount[d] + 1
    BY <1>1, <2>1 DEF CountedWrite
  <2>3. Slack(d) = 0
    BY <2>1 DEF CountedWrite, Slack, Frozen
  <2>4. Low(d)' \subseteq Low(d)
    BY <1>1, <1>5, LowStep
  <2>5. CASE w \in Low(d)
    <3>1. Low(d)' \subseteq Low(d) \ {w}
      BY <2>1, <2>4 DEF CountedWrite
    <3>2. /\ IsFiniteSet(Low(d) \ {w})
          /\ Cardinality(Low(d) \ {w}) = Cardinality(Low(d)) - 1
      BY <2>5, LowIsFinite, FS_RemoveElement
    <3>3. Cardinality(Low(d)') <= Cardinality(Low(d)) - 1
      BY <3>1, <3>2, FS_Subset
    <3>4. Cardinality(Low(d)) <= Cardinality(Workers)
      BY LowIsFinite
    <3> QED
      BY <1>1, <1>2, <1>3, <2>2, <2>3, <3>3, <3>4
  <2>6. CASE w \notin Low(d)
    <3>1. status'[d] \in Terminal /\ \A v \in Workers : ~Holds(v, d)'
      BY <2>1, <2>6 DEF CountedWrite, ClaimExclusive
    <3>2. Slack(d)' = 1
      BY <3>1 DEF Slack, Frozen
    <3>3. Cardinality(Low(d)') <= Cardinality(Low(d))
      BY <2>4, LowIsFinite, FS_Subset
    <3> QED
      BY <1>1, <1>3, <2>2, <2>3, <3>2, <3>3
  <2> QED
    BY <2>5, <2>6
<1> QED
  BY <1>4, <1>5

\* However many duplicate jobs run at once, a delivery is attempted at most
\* MAX_ATTEMPTS times and once more per additional worker slot, if no live
\* attempt outlasts the grace.
THEOREM AttemptsAreBounded ==
  ASSUME ~Overrun, IsFiniteSet(Workers), Workers # {}
  PROVE  Spec => []AttemptsBounded
<1>1. Cardinality(Workers) \in Nat /\ Cardinality(Workers) >= 1
  BY FS_CardinalityType, FS_EmptySet
<1>2. Init => AttemptInv
  <2> SUFFICES ASSUME Init, NEW d \in Deliveries, attemptCount[d] + 1 >= MaxAttempts
               PROVE  attemptCount[d] + Cardinality(Low(d))
                        <= MaxAttempts + Cardinality(Workers) - 2 + Slack(d)
    BY DEF AttemptInv
  <2>1. Low(d) = {} /\ attemptCount[d] = 0 /\ Slack(d) \in {0, 1}
    BY DeliveryAssumption DEF Init, Low, Slack
  <2> QED
    BY <1>1, <2>1, FS_EmptySet, DeliveryAssumption
<1>3. TypeOK /\ JobsHaveRows /\ ClaimExclusive /\ AttemptInv /\ [Next]_vars => AttemptInv'
  <2> SUFFICES ASSUME TypeOK, JobsHaveRows, ClaimExclusive, AttemptInv, [Next]_vars,
                      NEW d \in Deliveries, attemptCount'[d] + 1 >= MaxAttempts
               PROVE  attemptCount'[d] + Cardinality(Low(d)')
                        <= MaxAttempts + Cardinality(Workers) - 2 + Slack(d)'
    BY DEF AttemptInv
  <2> QED
    BY AttemptStep
<1>4. TypeOK /\ AttemptInv => AttemptsBounded
  <2> SUFFICES ASSUME TypeOK, AttemptInv, NEW d \in Deliveries
               PROVE  attemptCount[d] <= MaxAttempts + Cardinality(Workers) - 1
    BY DEF AttemptsBounded
  <2>1. /\ attemptCount[d] \in Nat /\ MaxAttempts \in Nat
        /\ Cardinality(Low(d)) \in Nat /\ Slack(d) \in {0, 1}
    BY LowIsFinite, DeliveryAssumption DEF TypeOK, RowTypes, Slack
  <2> QED
    BY <1>1, <2>1 DEF AttemptInv
<1> QED
  BY <1>2, <1>3, <1>4, ClaimsAreExclusive, TypeCorrect, JobsNeedRows, PTL DEF Spec

-----------------------------------------------------------------------------
(* An exhausted delivery is counted once.                                   *)

\* The increments change nothing the pipeline sees.
LEMMA CountingIsHistory == BookSpec => Spec
<1>1. BookInit => Init
  BY DEF BookInit
<1>2. [BookNext]_bookVars => [Next]_vars
  BY DEF BookNext, RecordExhausted, Elsewhere, Next, Process, Failures, bookVars
<1> QED
  BY <1>1, <1>2, PTL DEF BookSpec, Spec

\* The row is closed for good: unlike a frozen one it has no holder even if it is
\* deleted.
Settled(d) == status[d] \in Terminal \cup {"deleted"} /\ \A w \in Workers : ~Holds(w, d)

LEMMA SettledRemains ==
  ASSUME TypeOK, JobsHaveRows, [Next]_vars, NEW d \in Deliveries, Settled(d)
  PROVE  Settled(d)'
<1>1. KindOfStep
  BY StepKinds
<1>2. \A w \in Workers : Held[w] # d /\ (Held'[w] # d => ~Holds(w, d)')
  BY HeldIsHolds DEF Settled
<1>3. /\ status \in [Deliveries -> Statuses]
      /\ Held \in [Workers -> Deliveries \cup {NoJob}] /\ NoJob \notin Deliveries
  BY DeliveryAssumption DEF TypeOK, RowTypes, SlotTypes, Held
<1>4. status'[d] \in Terminal \cup {"deleted"} /\ \A w \in Workers : Held'[w] # d
  BY <1>1, <1>2, <1>3 DEF Settled, KindOfStep, QuietStep, RowsKept, ExpiryStep, AppearStep,
     CloseStep, ClaimStep, FinishStep, AbandonStep, RowBecomes, Claimable, Terminal
<1> QED
  BY <1>2, <1>4 DEF Settled


\* A slot comes to owe an increment only by writing exhausted, as a holder of
\* the claim, and keeps owing it for the same delivery; a slot that schedules a
\* retry has not given up, so it owes none afterwards.
RetriesAreOpen == \A w \in Workers : pc[w] = "schedule" => ~GivesUp(w)

TakesUp(w) == /\ Holds(w, job[w]) /\ status'[job[w]] = "exhausted"
              /\ \A v \in Workers : v # w => pc'[v] = pc[v] /\ job'[v] = job[v]

LEMMA OwesStep ==
  ASSUME TypeOK, RetriesAreOpen, [Next]_vars, NEW w \in Workers
  PROVE  /\ Owes(w)' => /\ job'[w] = job[w] /\ job[w] \in Deliveries
                        /\ Owes(w) \/ TakesUp(w)
         /\ pc'[w] = "schedule" => ~GivesUp(w)'
<1> DEFINE Goal == /\ Owes(w)' => /\ job'[w] = job[w] /\ job[w] \in Deliveries
                                  /\ Owes(w) \/ TakesUp(w)
                   /\ pc'[w] = "schedule" => ~GivesUp(w)'
<1>1. /\ pc \in [Workers -> Steps] /\ job \in [Workers -> Deliveries \cup {NoJob}]
      /\ attemptRead \in [Workers -> Nat] /\ status \in [Deliveries -> Statuses]
      /\ result \in [Workers -> Outcomes \cup {"none", "rejected"}]
      /\ \A v \in Workers : pc[v] # "idle" => job[v] \in Deliveries
  BY BusySlotHasDelivery DEF TypeOK, SlotTypes, RowTypes
<1>2. ASSUME pc'[w] = pc[w], job'[w] = job[w], attemptRead'[w] = attemptRead[w],
             result'[w] = result[w]
      PROVE  Goal
  BY <1>1, <1>2 DEF Owes, GivesUp, Attempt, RetriesAreOpen
<1>3. ASSUME NEW v \in Workers, v # w, Process(v) \/ (\E d \in Deliveries : TakeJob(v, d))
                                      \/ Throw(v) \/ Crash(v) \/ SkipFails(v)
      PROVE  Goal
  <2>1. /\ pc'[w] = pc[w] /\ job'[w] = job[w] /\ attemptRead'[w] = attemptRead[w]
        /\ result'[w] = result[w]
    BY <1>1, <1>3 DEF Process, ReadRow, ReadRoute, PauseRow, SkipRow, FallThrough,
       ClaimDelivery, Post, WriteDelivered, WriteExhausted, WriteFailed, WriteOutcome,
       ScheduleRetry, Bookkeep, EndJob, Goto, TakeJob, Throw, Crash, SkipFails
  <2> QED
    BY <1>2, <2>1
<1>4. ASSUME (\E d \in Deliveries : TakeJob(w, d)) \/ Throw(w) \/ Crash(w) \/ SkipFails(w)
      PROVE  Goal
  <2>1. pc'[w] \in {"read", "idle", "claim"}
    BY <1>1, <1>4 DEF TakeJob, Goto, Throw, Crash, SkipFails, FallThrough, EndJob
  <2> QED
    BY <2>1 DEF Owes
<1>5. ASSUME Process(w) PROVE Goal
  <2>1. CASE pc'[w] \notin {"book", "schedule"}
    BY <2>1 DEF Owes
  <2>2. CASE pc'[w] \in {"book", "schedule"}
    <3>1. \/ WriteDelivered(w) \/ WriteExhausted(w) \/ WriteFailed(w)
          \/ ScheduleRetry(w)
      BY <1>1, <1>5, <2>2 DEF Process, ReadRow, ReadRoute, PauseRow, SkipRow, FallThrough,
         ClaimDelivery, Post, Bookkeep, EndJob, Goto
    <3>2. CASE ScheduleRetry(w)
      <4>1. pc[w] = "schedule" /\ pc'[w] = "book" /\ UNCHANGED <<attemptRead, result>>
        BY <1>1, <3>2 DEF ScheduleRetry, Goto
      <4> QED
        BY <4>1 DEF RetriesAreOpen, Owes, GivesUp, Attempt
    <3>3. ASSUME NEW s \in Terminal \cup {"failed"}, NEW step \in {"book", "schedule"},
                 WriteOutcome(w, s, step)
          PROVE  /\ pc[w] = "write" /\ pc'[w] = step /\ status'[job[w]] = s
                 /\ UNCHANGED <<job, attemptRead, result>>
                 /\ \A v \in Workers : v # w => pc'[v] = pc[v]
      BY <1>1, <2>2, <3>3 DEF WriteOutcome, EndAttempt, EndJob, Goto
    <3>4. CASE WriteDelivered(w)
      BY <1>1, <3>3, <3>4 DEF WriteDelivered, Terminal, Owes, GivesUp
    <3>5. CASE WriteExhausted(w)
      <4>1. WriteOutcome(w, "exhausted", "book")
        BY <3>5 DEF WriteExhausted
      <4>2. TakesUp(w)
        BY <3>3, <4>1 DEF Terminal, TakesUp, Holds
      <4> QED
        BY <1>1, <3>3, <4>1, <4>2 DEF Terminal
    <3>6. CASE WriteFailed(w)
      BY <3>3, <3>6 DEF WriteFailed, Owes, GivesUp, Attempt
    <3> QED
      BY <3>1, <3>2, <3>4, <3>5, <3>6
  <2> QED
    BY <2>1, <2>2
<1>6. CASE UNCHANGED workerVars
  BY <1>2, <1>6 DEF workerVars
<1> QED
  BY <1>3, <1>4, <1>5, <1>6
     DEF Next, Create, ReadRoutes, Persist, Enqueue, Timers, DelayElapses,
         PendingGraceExpires, InFlightGraceExpires, ReapEnqueue, ReapScan, Operator,
         SetEnabled, Cancel, Delete, Failures, EnqueueFails, ReapFails, vars

\* One increment per delivery, none while one is owed, and one slot at most
\* that owes it. Both the slot that owes and the count imply a settled row,
\* which nobody can claim any more and so nobody exhausts again.
CountInv ==
  /\ RetriesAreOpen
  /\ counted \in [Deliveries -> 0..1]
  /\ \A d \in Deliveries : counted[d] = 1 => Settled(d)
  /\ \A w \in Workers : Owes(w) => Settled(job[w]) /\ counted[job[w]] = 0
  /\ \A v, w \in Workers : Owes(v) /\ Owes(w) /\ job[v] = job[w] => v = w

\* The slot that writes exhausted settles the row, which nobody owed or counted.
LEMMA TakesUpSettles ==
  ASSUME CountInv, ClaimExclusive, NEW w \in Workers, job[w] \in Deliveries, TakesUp(w)
  PROVE  /\ \A v \in Workers : v # w => ~(job'[v] = job[w] /\ pc'[v] \in {"post", "write"})
         /\ counted[job[w]] = 0
         /\ \A v \in Workers : Owes(v) => job[v] # job[w]
<1>1. ~Settled(job[w])
  BY DEF TakesUp, Settled
<1>2. counted[job[w]] \in 0..1 /\ counted[job[w]] # 1
  BY <1>1 DEF CountInv
<1>3. \A v \in Workers : v # w => ~(job'[v] = job[w] /\ pc'[v] \in {"post", "write"})
  BY DEF ClaimExclusive, TakesUp, Holds
<1>4. \A v \in Workers : Owes(v) => job[v] # job[w]
  BY <1>1 DEF CountInv
<1>5. counted[job[w]] = 0
  BY <1>2
<1> QED
  BY <1>3, <1>4, <1>5

LEMMA CountInvStep ==
  ASSUME TypeOK, JobsHaveRows, ClaimExclusive, CountInv, [BookNext]_bookVars
  PROVE  CountInv'
<1>1. [Next]_vars
  BY DEF BookNext, RecordExhausted, Elsewhere, Next, Process, Failures, bookVars
<1>2. \A d \in Deliveries : Settled(d) => Settled(d)'
  BY <1>1, SettledRemains
<1>3. \A w \in Workers : Owes(w) => job[w] \in Deliveries
  BY BusySlotHasDelivery DEF Owes
<1>4. RetriesAreOpen'
  BY <1>1, OwesStep DEF CountInv, RetriesAreOpen
<1>5. \A w \in Workers : Owes(w)' => /\ job'[w] = job[w] /\ job[w] \in Deliveries
                                     /\ Owes(w) \/ (TakesUp(w) /\ ~Owes(w) /\ pc'[w] = "book")
  BY <1>1, OwesStep DEF CountInv, Owes, TakesUp, Holds
<1>6. \A w \in Workers : Owes(w)' => Settled(job[w])'
  <2> SUFFICES ASSUME NEW w \in Workers, Owes(w)' PROVE Settled(job[w])'
    OBVIOUS
  <2>1. job'[w] = job[w] /\ job[w] \in Deliveries
    BY <1>5
  <2>2. CASE Owes(w)
    BY <1>2, <2>1, <2>2 DEF CountInv, Settled, Holds
  <2>3. CASE TakesUp(w) /\ pc'[w] = "book"
    BY <2>1, <2>3, TakesUpSettles DEF Settled, Holds, TakesUp, Terminal
  <2> QED
    BY <1>5, <2>2, <2>3
<1>7. \A v, w \in Workers : Owes(v)' /\ Owes(w)' /\ job'[v] = job'[w] => v = w
  <2> SUFFICES ASSUME NEW v \in Workers, NEW w \in Workers, Owes(v)', Owes(w)',
                      job[v] = job[w], v # w
               PROVE  FALSE
    BY <1>5
  <2>1. CASE Owes(v) /\ Owes(w)
    BY <2>1 DEF CountInv
  <2>2. CASE TakesUp(w) /\ TakesUp(v)
    BY <1>5, <2>2 DEF TakesUp, ClaimExclusive
  <2>3. CASE (TakesUp(w) /\ Owes(v)) \/ (TakesUp(v) /\ Owes(w))
    BY <1>5, <2>3, TakesUpSettles
  <2> QED
    BY <1>5, <2>1, <2>2, <2>3
<1>8. CASE UNCHANGED counted
  <2>1. \A w \in Workers : Owes(w)' => counted[job[w]] = 0
    BY <1>5, TakesUpSettles DEF CountInv
  <2> QED
    BY <1>2, <1>4, <1>5, <1>6, <1>7, <1>8, <2>1 DEF CountInv
<1>9. ASSUME NEW w \in Workers, RecordExhausted(w) PROVE CountInv'
  <2>1. /\ Owes(w) /\ job[w] \in Deliveries /\ counted[job[w]] = 0 /\ Settled(job[w])
        /\ counted' = [counted EXCEPT ![job[w]] = @ + 1]
    BY <1>3, <1>9 DEF RecordExhausted, CountInv
  <2>2. /\ counted' \in [Deliveries -> 0..1]
        /\ \A d \in Deliveries : d # job[w] => counted'[d] = counted[d]
    BY <2>1 DEF CountInv
  <2>3. ~Owes(w)'
    BY <1>9 DEF RecordExhausted, Bookkeep, Crash, EndJob, Owes, TypeOK, SlotTypes
  <2>4. \A v \in Workers : Owes(v)' => counted[job[v]] = 0 /\ job[v] # job[w]
    BY <1>5, <2>1, <2>3, TakesUpSettles DEF CountInv
  <2>5. \A v \in Workers : Owes(v)' => counted'[job'[v]] = 0
    BY <1>5, <2>2, <2>4
  <2>6. \A d \in Deliveries : counted'[d] = 1 => Settled(d)'
    BY <1>2, <2>1, <2>2 DEF CountInv
  <2>7. \A v \in Workers : Owes(v)' => Settled(job[v])' /\ counted'[job'[v]] = 0
    BY <1>6, <2>5
  <2> QED
    BY <1>4, <1>7, <2>2, <2>6, <2>7 DEF CountInv
<1> QED
  BY <1>8, <1>9 DEF BookNext, Elsewhere, bookVars

\* If no live attempt outlasts the grace, a delivery is counted once at most by
\* the circuit breaker, whatever jobs, crashes and cancels there are.
THEOREM ExhaustionIsCountedOnce ==
  ASSUME ~Overrun
  PROVE  BookSpec => []CountedOnce
<1>1. BookInit => CountInv
  BY DeliveryAssumption
     DEF BookInit, Init, CountInv, RetriesAreOpen, Owes, Settled, Terminal
<1>2. TypeOK /\ JobsHaveRows /\ ClaimExclusive /\ CountInv /\ [BookNext]_bookVars => CountInv'
  BY CountInvStep
<1>3. CountInv => CountedOnce
  BY DEF CountInv, CountedOnce
<1> QED
  BY <1>1, <1>2, <1>3, CountingIsHistory, ClaimsAreExclusive, TypeCorrect, JobsNeedRows, PTL
     DEF BookSpec

=============================================================================
