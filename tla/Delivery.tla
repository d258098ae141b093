------------------------------ MODULE Delivery ------------------------------
(***************************************************************************)
(* The delivery pipeline of Odyhook: a request handler (ingest or replay)  *)
(* inserts a delivery row in Postgres and then adds a BullMQ job; worker   *)
(* slots run processDelivery on those jobs; a reaper re-enqueues rows that *)
(* seem to have lost their job; an operator pauses destinations, cancels   *)
(* deliveries and deletes events.                                          *)
(*                                                                         *)
(* Every await of the code is a step boundary, so each variable a worker   *)
(* reads before an await may be out of date when the worker acts on it.    *)
(* Wall-clock time is represented by the facts the code derives from it:   *)
(* a row is past its pending grace or past its in-flight grace, a delayed  *)
(* job is due. nextRetryAt is left out: the pipeline writes it and never   *)
(* reads it.                                                               *)
(***************************************************************************)
EXTENDS Integers, FiniteSets

CONSTANTS
  Deliveries,     \* delivery ids, natural numbers in order of createdAt
  Destinations,   \* destination ids
  DestinationOf,  \* the destination each delivery is addressed to
  Workers,        \* worker slots: concurrency times number of processes
  MaxAttempts,    \* MAX_ATTEMPTS
  ReaperBatch,    \* REAPER_BATCH_SIZE
  Overrun,        \* may a live worker outlast IN_FLIGHT_GRACE_MS?
  MaxFaults,      \* bound: crashes and thrown Redis/Postgres errors
  MaxQueued,      \* bound: ready jobs per delivery the reaper may build up
  NoJob           \* what an idle worker slot is working on

ASSUME DeliveryAssumption ==
  /\ Deliveries \subseteq Nat
  /\ DestinationOf \in [Deliveries -> Destinations]
  /\ MaxAttempts \in Nat \ {0}
  /\ ReaperBatch \in Nat \ {0}
  /\ Overrun \in BOOLEAN
  /\ MaxFaults \in Nat
  /\ MaxQueued \in Nat \ {0}
  /\ NoJob \notin Deliveries

VARIABLES
  \* the Delivery table
  status, attemptCount,
  pendingGraceOver,  \* createdAt   < now - PENDING_GRACE_MS
  inFlightGraceOver, \* updatedAt   < now - IN_FLIGHT_GRACE_MS
  \* the Destination table (only what the pipeline reads)
  enabled,
  \* the BullMQ queue, as a bag of jobs
  ready, delayed,
  \* processes
  creator,           \* the request handler that inserts each delivery
  pc, job, attemptRead, result,   \* the worker slots
  reaped,            \* ids the reaper has found and not yet enqueued
  faults             \* how many faults happened so far

rowVars    == <<status, attemptCount, pendingGraceOver, inFlightGraceOver>>
queueVars  == <<ready, delayed>>
workerVars == <<pc, job, attemptRead, result>>
vars == <<rowVars, enabled, queueVars, creator, workerVars, reaped, faults>>

Terminal  == {"delivered", "exhausted"}
Open      == {"pending", "in_flight", "failed"}
Statuses  == {"none", "deleted"} \cup Open \cup Terminal
Outcomes  == {"ok", "error", "transformError", "blocked"}
Sent      == {"ok", "error"}   \* outcomes of a request that left the process
Steps     == {"idle", "read", "pause", "route", "skip", "claim",
              "post", "write", "schedule", "book"}

\* A worker that won the claim and has not yet written the outcome.
Holds(w, d)    == job[w] = d /\ pc[w] \in {"post", "write"}
\* A worker that will still look at, or act on, the row of its job.
Pursues(w, d)  == job[w] = d /\ pc[w] \in {"read", "pause", "route", "skip", "claim"}

RowTypes ==
  /\ status \in [Deliveries -> Statuses]
  /\ attemptCount \in [Deliveries -> Nat]
  /\ pendingGraceOver \in [Deliveries -> BOOLEAN]
  /\ inFlightGraceOver \in [Deliveries -> BOOLEAN]

QueueTypes ==
  /\ ready \in [Deliveries -> Nat]
  /\ delayed \in [Deliveries -> Nat]

SlotTypes ==
  /\ pc \in [Workers -> Steps]
  /\ job \in [Workers -> Deliveries \cup {NoJob}]
  /\ attemptRead \in [Workers -> Nat]
  /\ result \in [Workers -> Outcomes \cup {"none", "rejected"}]
  /\ \A w \in Workers : job[w] = NoJob <=> pc[w] = "idle"

OtherTypes ==
  /\ enabled \in [Destinations -> BOOLEAN]
  /\ creator \in [Deliveries -> {"idle", "routed", "created", "done"}]
  /\ reaped \in SUBSET Deliveries
  /\ faults \in 0..MaxFaults

TypeOK == RowTypes /\ QueueTypes /\ SlotTypes /\ OtherTypes

Init ==
  /\ status = [d \in Deliveries |-> "none"]
  /\ attemptCount = [d \in Deliveries |-> 0]
  /\ pendingGraceOver = [d \in Deliveries |-> FALSE]
  /\ inFlightGraceOver = [d \in Deliveries |-> FALSE]
  /\ enabled = [x \in Destinations |-> TRUE]
  /\ ready = [d \in Deliveries |-> 0]
  /\ delayed = [d \in Deliveries |-> 0]
  /\ creator = [d \in Deliveries |-> "idle"]
  /\ pc = [w \in Workers |-> "idle"]
  /\ job = [w \in Workers |-> NoJob]
  /\ attemptRead = [w \in Workers |-> 0]
  /\ result = [w \in Workers |-> "none"]
  /\ reaped = {}
  /\ faults = 0

-----------------------------------------------------------------------------
(* Shared pieces of the actions. *)

Fault == faults < MaxFaults /\ faults' = faults + 1

\* prisma.delivery.update without an attempt: status and lastError.
\* updatedAt is bumped, so the in-flight clock of the row restarts.
SetStatus(d, s) ==
  /\ status' = [status EXCEPT ![d] = s]
  /\ inFlightGraceOver' = [inFlightGraceOver EXCEPT ![d] = FALSE]
  /\ UNCHANGED <<attemptCount, pendingGraceOver>>

\* Mutant of EndAttempt: the attempt is not counted.
EndAttemptUncounted(d, s) ==
  /\ status' = [status EXCEPT ![d] = s]
  /\ inFlightGraceOver' = [inFlightGraceOver EXCEPT ![d] = FALSE]
  /\ UNCHANGED <<attemptCount, pendingGraceOver>>

\* The three updates that end an attempt also increment attemptCount.
EndAttempt(d, s) ==
  /\ status' = [status EXCEPT ![d] = s]
  /\ attemptCount' = [attemptCount EXCEPT ![d] = @ + 1]
  /\ inFlightGraceOver' = [inFlightGraceOver EXCEPT ![d] = FALSE]
  /\ UNCHANGED pendingGraceOver

Goto(w, step) == pc' = [pc EXCEPT ![w] = step]

\* The job ends, whether processDelivery returned or threw: attempts is 1, so
\* BullMQ does not run a failed job again.
EndJob(w) ==
  /\ pc' = [pc EXCEPT ![w] = "idle"]
  /\ job' = [job EXCEPT ![w] = NoJob]
  /\ attemptRead' = [attemptRead EXCEPT ![w] = 0]
  /\ result' = [result EXCEPT ![w] = "none"]

-----------------------------------------------------------------------------
(* The request handler that creates a delivery: ingest and replay.          *)

\* The routes are read with the destinations that are enabled now; the rest
\* of the handler works from that list.
ReadRoutes(d) ==
  /\ creator[d] = "idle"
  /\ enabled[DestinationOf[d]]
  /\ creator' = [creator EXCEPT ![d] = "routed"]
  /\ UNCHANGED <<rowVars, enabled, queueVars, workerVars, reaped, faults>>

Persist(d) ==
  /\ creator[d] = "routed"
  /\ \A e \in Deliveries : e < d => status[e] # "none"
  /\ status' = [status EXCEPT ![d] = "pending"]
  /\ creator' = [creator EXCEPT ![d] = "created"]
  /\ UNCHANGED <<attemptCount, pendingGraceOver, inFlightGraceOver,
                 enabled, queueVars, workerVars, reaped, faults>>

Enqueue(d) ==
  /\ creator[d] = "created"
  /\ ready' = [ready EXCEPT ![d] = @ + 1]
  /\ creator' = [creator EXCEPT ![d] = "done"]
  /\ UNCHANGED <<rowVars, enabled, delayed, workerVars, reaped, faults>>

\* queue.add rejects, or the web process dies, after the insert committed.
EnqueueFails(d) ==
  /\ creator[d] = "created"
  /\ Fault
  /\ creator' = [creator EXCEPT ![d] = "done"]
  /\ UNCHANGED <<rowVars, enabled, queueVars, workerVars, reaped>>

-----------------------------------------------------------------------------
(* processDelivery, one action per await.                                   *)

TakeJob(w, d) ==
  /\ pc[w] = "idle"
  /\ ready[d] > 0
  /\ ready' = [ready EXCEPT ![d] = @ - 1]
  /\ job' = [job EXCEPT ![w] = d]
  /\ Goto(w, "read")
  /\ UNCHANGED <<rowVars, enabled, delayed, creator, attemptRead, result, reaped, faults>>

\* The row and its destination are read once, and every later decision uses
\* this copy.
ReadRow(w) ==
  LET d == job[w] IN
  /\ pc[w] = "read"
  /\ \/ /\ status[d] \notin Open   \* terminal, or no such row
        /\ EndJob(w)
     \/ /\ status[d] \in Open
        /\ ~enabled[DestinationOf[d]]
        /\ Goto(w, "pause")
        /\ UNCHANGED <<job, attemptRead, result>>
     \/ /\ status[d] \in Open
        /\ enabled[DestinationOf[d]]
        /\ attemptRead' = [attemptRead EXCEPT ![w] = attemptCount[d]]
        /\ Goto(w, "route")
        /\ UNCHANGED <<job, result>>
  /\ UNCHANGED <<rowVars, enabled, queueVars, creator, reaped, faults>>

\* The route is read and its filter evaluated; the filter may reject.
ReadRoute(w) ==
  /\ pc[w] = "route"
  /\ \E step \in {"skip", "claim"} : Goto(w, step)
  /\ UNCHANGED <<rowVars, enabled, queueVars, creator, job, attemptRead, result, reaped, faults>>

\* The updates are addressed by id alone: nothing checks what the row is by
\* now, and prisma throws if it is gone. Here that ends the job.
PauseRow(w) ==
  LET d == job[w] IN
  /\ pc[w] = "pause"
  /\ IF status[d] = "deleted" THEN UNCHANGED rowVars ELSE SetStatus(d, "exhausted")
  /\ EndJob(w)
  /\ UNCHANGED <<enabled, queueVars, creator, reaped, faults>>

\* The update of a rejected delivery sits in the try block that guards the
\* filter, so an exception it throws is taken for a broken filter, and the
\* handler goes on to deliver.
FallThrough(w) ==
  /\ Goto(w, "claim")
  /\ result' = [result EXCEPT ![w] = "rejected"]
  /\ UNCHANGED <<rowVars, job, attemptRead>>

SkipRow(w) ==
  LET d == job[w] IN
  /\ pc[w] = "skip"
  /\ IF status[d] = "deleted"
       THEN FallThrough(w)
       ELSE SetStatus(d, "delivered") /\ EndJob(w)
  /\ UNCHANGED <<enabled, queueVars, creator, reaped, faults>>

SkipFails(w) ==
  /\ pc[w] = "skip"
  /\ Fault
  /\ FallThrough(w)
  /\ UNCHANGED <<enabled, queueVars, creator, reaped>>

\* Mutants of Claimable: an attempt may be taken over at any time; a failed row
\* may not be claimed; a cancelled row may.
ClaimableAtOnce(d)    == status[d] \in Open
ClaimableUnlessFailed(d) ==
  status[d] = "pending" \/ (status[d] = "in_flight" /\ inFlightGraceOver[d])
ClaimableIfCancelled(d) ==
  status[d] \in {"pending", "failed", "exhausted"} \/ (status[d] = "in_flight" /\ inFlightGraceOver[d])

Claimable(d) == \/ status[d] \in {"pending", "failed"}
                \/ status[d] = "in_flight" /\ inFlightGraceOver[d]

\* Mutant of ClaimDelivery: the answer of the claim is not looked at.
ClaimUnheeded(w) ==
  LET d == job[w] IN
  /\ pc[w] = "claim"
  /\ IF Claimable(d)
       THEN /\ status' = [status EXCEPT ![d] = "in_flight"]
            /\ inFlightGraceOver' = [inFlightGraceOver EXCEPT ![d] = FALSE]
            /\ UNCHANGED <<attemptCount, pendingGraceOver>>
       ELSE UNCHANGED rowVars
  /\ Goto(w, "post")
  /\ UNCHANGED <<enabled, queueVars, creator, job, attemptRead, result, reaped, faults>>

\* The compare-and-swap. Neither the retry time, nor `enabled`, nor
\* the count is part of it.
ClaimDelivery(w) ==
  LET d == job[w] IN
  /\ pc[w] = "claim"
  /\ \/ /\ Claimable(d)
        /\ status' = [status EXCEPT ![d] = "in_flight"]
        /\ inFlightGraceOver' = [inFlightGraceOver EXCEPT ![d] = FALSE]
        /\ Goto(w, "post")
        /\ UNCHANGED <<attemptCount, pendingGraceOver, job, attemptRead, result>>
     \/ /\ ~Claimable(d)
        /\ EndJob(w)
        /\ UNCHANGED rowVars
  /\ UNCHANGED <<enabled, queueVars, creator, reaped, faults>>

\* Transform, sign, send. The timeout makes every request end.
Post(w) ==
  /\ pc[w] = "post"
  /\ \E r \in Outcomes : result' = [result EXCEPT ![w] = r]
  /\ Goto(w, "write")
  /\ UNCHANGED <<rowVars, enabled, queueVars, creator, job, attemptRead, reaped, faults>>

Attempt(w)    == attemptRead[w] + 1
\* Mutant of GivesUp: one attempt too many.
GivesUpLate(w) == result[w] = "blocked" \/ (result[w] # "ok" /\ Attempt(w) > MaxAttempts)
GivesUp(w)    == result[w] = "blocked" \/ (result[w] # "ok" /\ Attempt(w) >= MaxAttempts)

\* The update that ends the attempt, again addressed by id alone.
WriteOutcome(w, s, step) ==
  LET d == job[w] IN
  /\ pc[w] = "write"
  /\ IF status[d] = "deleted"
       THEN EndJob(w) /\ UNCHANGED rowVars
       ELSE /\ EndAttempt(d, s)
            /\ Goto(w, step)
            /\ UNCHANGED <<job, attemptRead, result>>
  /\ UNCHANGED <<enabled, queueVars, creator, reaped, faults>>

WriteDelivered(w) == result[w] = "ok" /\ WriteOutcome(w, "delivered", "book")
WriteExhausted(w) == GivesUp(w) /\ WriteOutcome(w, "exhausted", "book")
WriteFailed(w)    == result[w] # "ok" /\ ~GivesUp(w) /\ WriteOutcome(w, "failed", "schedule")

\* Mutant of ScheduleRetry: the job is not added.
ScheduleNothing(w) ==
  /\ pc[w] = "schedule"
  /\ Goto(w, "book")
  /\ UNCHANGED <<rowVars, enabled, queueVars, creator, job, attemptRead, result, reaped, faults>>

\* queue.add with the back-off delay, after the row already says `failed`.
ScheduleRetry(w) ==
  /\ pc[w] = "schedule"
  /\ delayed' = [delayed EXCEPT ![job[w]] = @ + 1]
  /\ Goto(w, "book")
  /\ UNCHANGED <<rowVars, enabled, ready, creator, job, attemptRead, result, reaped, faults>>

\* Circuit breaker and alerts. They keep the slot busy, are wrapped in
\* try/catch and touch neither the table nor the queue.
Bookkeep(w) ==
  /\ pc[w] = "book"
  /\ EndJob(w)
  /\ UNCHANGED <<rowVars, enabled, queueVars, creator, reaped, faults>>

\* A call to Postgres or Redis, or the host of the sandbox, throws outside every
\* try/catch.
Throw(w) ==
  /\ pc[w] \in Steps \ {"idle", "skip", "book"}
  /\ Fault
  /\ EndJob(w)
  /\ UNCHANGED <<rowVars, enabled, queueVars, creator, reaped>>

\* The worker process dies; BullMQ finds the job stalled and runs it again.
Crash(w) ==
  /\ pc[w] # "idle"
  /\ Fault
  /\ ready' = [ready EXCEPT ![job[w]] = @ + 1]
  /\ EndJob(w)
  /\ UNCHANGED <<rowVars, enabled, delayed, creator, reaped>>

\* A delayed job becomes ready.
DelayElapses(d) ==
  /\ delayed[d] > 0
  /\ delayed' = [delayed EXCEPT ![d] = @ - 1]
  /\ ready' = [ready EXCEPT ![d] = @ + 1]
  /\ UNCHANGED <<rowVars, enabled, creator, workerVars, reaped, faults>>

-----------------------------------------------------------------------------
(* The reaper.                                                              *)

\* Mutant of Stalled: the case of a row in flight is forgotten.
StalledPending  == {d \in Deliveries : status[d] = "pending" /\ pendingGraceOver[d]}

Stalled == {d \in Deliveries :
              \/ status[d] = "pending" /\ pendingGraceOver[d]
              \/ status[d] = "in_flight" /\ inFlightGraceOver[d]}

\* Mutant of Oldest: the limit is applied before the filter.
OldestOfTable(S) == {d \in S : Cardinality({e \in Deliveries : e < d}) < ReaperBatch}

\* The oldest REAPER_BATCH_SIZE of them.
Oldest(S) == {d \in S : Cardinality({e \in S : e < d}) < ReaperBatch}

ReapScan ==
  /\ reaped = {}
  /\ Stalled # {}
  /\ reaped' = Oldest(Stalled)
  /\ UNCHANGED <<rowVars, enabled, queueVars, creator, workerVars, faults>>

\* The job id holds the scan's time, so every scan adds a new job even when
\* an earlier one is still waiting.
ReapEnqueue(d) ==
  /\ d \in reaped
  /\ ready[d] < MaxQueued
  /\ ready' = [ready EXCEPT ![d] = @ + 1]
  /\ reaped' = reaped \ {d}
  /\ UNCHANGED <<rowVars, enabled, delayed, creator, workerVars, faults>>

ReapFails ==
  /\ reaped # {}
  /\ Fault
  /\ reaped' = {}
  /\ UNCHANGED <<rowVars, enabled, queueVars, creator, workerVars>>

-----------------------------------------------------------------------------
(* The operator, and the passage of time.                                   *)

SetEnabled(x, b) ==
  /\ enabled[x] # b
  /\ enabled' = [enabled EXCEPT ![x] = b]
  /\ UNCHANGED <<rowVars, queueVars, creator, workerVars, reaped, faults>>

\* Bulk cancel: only rows that are not terminal yet.
Cancel(d) ==
  /\ status[d] \in Open
  /\ SetStatus(d, "exhausted")
  /\ UNCHANGED <<enabled, queueVars, creator, workerVars, reaped, faults>>

\* Deleting the event, source or destination cascades to the delivery; its
\* jobs stay in the queue.
Delete(d) ==
  /\ status[d] \notin {"none", "deleted"}
  /\ SetStatus(d, "deleted")
  /\ UNCHANGED <<enabled, queueVars, creator, workerVars, reaped, faults>>

PendingGraceExpires(d) ==
  /\ status[d] = "pending"
  /\ ~pendingGraceOver[d]
  /\ pendingGraceOver' = [pendingGraceOver EXCEPT ![d] = TRUE]
  /\ UNCHANGED <<status, attemptCount, inFlightGraceOver,
                 enabled, queueVars, creator, workerVars, reaped, faults>>

\* Without Overrun the grace outlasts every live claim-to-write cycle, which
\* is what delivery-claim.ts asks of IN_FLIGHT_GRACE_MS.
InFlightGraceExpires(d) ==
  /\ status[d] = "in_flight"
  /\ ~inFlightGraceOver[d]
  /\ Overrun \/ \A w \in Workers : ~Holds(w, d)
  /\ inFlightGraceOver' = [inFlightGraceOver EXCEPT ![d] = TRUE]
  /\ UNCHANGED <<status, attemptCount, pendingGraceOver,
                 enabled, queueVars, creator, workerVars, reaped, faults>>

-----------------------------------------------------------------------------
Create(d)   == ReadRoutes(d) \/ Persist(d) \/ Enqueue(d)

Process(w)  == \/ ReadRow(w) \/ PauseRow(w) \/ ReadRoute(w) \/ SkipRow(w)
               \/ ClaimDelivery(w) \/ Post(w)
               \/ WriteDelivered(w) \/ WriteExhausted(w) \/ WriteFailed(w)
               \/ ScheduleRetry(w) \/ Bookkeep(w)

Timers(d)   == DelayElapses(d) \/ PendingGraceExpires(d) \/ InFlightGraceExpires(d)

Operator    == \/ \E x \in Destinations, b \in BOOLEAN : SetEnabled(x, b)
               \/ \E d \in Deliveries : Cancel(d) \/ Delete(d)

Failures    == \/ \E d \in Deliveries : EnqueueFails(d)
               \/ \E w \in Workers : SkipFails(w) \/ Throw(w) \/ Crash(w)
               \/ ReapFails

Next ==
  \/ \E d \in Deliveries : Create(d) \/ Timers(d) \/ ReapEnqueue(d)
  \/ \E w \in Workers : Process(w) \/ \E d \in Deliveries : TakeJob(w, d)
  \/ ReapScan
  \/ Operator
  \/ Failures

Spec == Init /\ [][Next]_vars
-----------------------------------------------------------------------------
(* Safety.                                                                  *)

\* A job exists only for a row that was inserted before it: a worker never
\* mistakes "not inserted yet" for "deleted" and drops the job.
JobsHaveRows ==
  \A d \in Deliveries :
    /\ creator[d] \in {"idle", "routed"} => status[d] = "none"
    /\ status[d] = "none" =>
         /\ creator[d] \in {"idle", "routed"}
         /\ ready[d] = 0 /\ delayed[d] = 0
         /\ d \notin reaped
         /\ \A w \in Workers : job[w] # d

\* "If it evaluates false, skip delivery entirely", as far as it is true: a
\* delivery the filter rejected is sent only after a fault. The update that
\* marks it skipped also throws when the row was deleted meanwhile, and the
\* handler takes that too for a broken filter and goes on to deliver; there it
\* is the claim, and nothing else, that stops it.
RejectedIsSentOnlyOnFault ==
  \A w \in Workers : pc[w] = "post" /\ result[w] = "rejected" => faults > 0

\* While the grace outlasts every live attempt, a delivery is being attempted
\* by at most one worker, whatever duplicate jobs the reaper, a crash or a
\* retry has produced ("the destination is only POSTed once").
ClaimExclusive ==
  \A d \in Deliveries, v, w \in Workers : Holds(v, d) /\ Holds(w, d) => v = w

\* Attempt numbers come from a copy of attemptCount read before the claim, so
\* duplicates can push the count past MAX_ATTEMPTS, but each worker slot can
\* hold one outdated copy at most.
AttemptsBounded ==
  \A d \in Deliveries : attemptCount[d] <= MaxAttempts + Cardinality(Workers) - 1

\* The row has a ready job, or a worker that has yet to look at it.
Waiting(d)       == ready[d] > 0 \/ \E w \in Workers : Pursues(w, d)
Scheduling(w, d) == job[w] = d /\ pc[w] = "schedule"

Driven(d) ==
  /\ status[d] = "pending" => creator[d] = "created" \/ Waiting(d)
  /\ status[d] = "failed" =>
       Waiting(d) \/ delayed[d] > 0 \/ \E w \in Workers : Scheduling(w, d)
  /\ status[d] = "in_flight" => \E w \in Workers : Holds(w, d)

\* As long as nothing failed, a row that is not terminal has a job or a process
\* that will move it on, even when duplicates, cancels, pauses and deletes
\* interleave: no handler ends a job that was the last hope of its row.
OpenRowIsDriven == faults = 0 => \A d \in Deliveries : Driven(d)

\* A terminal row that no attempt is under way for is settled: no leftover job,
\* reaper pass or outdated worker starts another attempt or reopens it.
SettledStaysSettled ==
  [][\A d \in Deliveries :
       status[d] \in Terminal /\ (\A w \in Workers : ~Holds(w, d)) =>
         /\ status'[d] \in Terminal \cup {"deleted"}
         /\ \A w \in Workers : ~Holds(w, d)']_vars

-----------------------------------------------------------------------------
(* Refinement.                                                               *)

attempting == {d \in Deliveries : \E w \in Workers : Holds(w, d)}

Lifecycle == INSTANCE DeliveryLifecycle WITH
  Deliveries <- Deliveries, status <- status, attemptCount <- attemptCount, attempting <- attempting

\* While the grace outlasts every live attempt, the queue, the slots, the
\* reaper and the crashes together are an implementation of the life cycle.
ImplementsLifecycle == Lifecycle!LSpec

-----------------------------------------------------------------------------
(* Liveness. The scheduler runs every slot and BullMQ hands jobs out in      *)
(* order, so a ready job is eventually taken and a running handler reaches   *)
(* its next await; timers fire; the reaper is an interval. Nothing makes an  *)
(* operator act or a fault happen.                                           *)

Fairness ==
  /\ \A d \in Deliveries : /\ WF_vars(Enqueue(d))
                           /\ WF_vars(DelayElapses(d))
                           /\ WF_vars(PendingGraceExpires(d))
                           /\ WF_vars(InFlightGraceExpires(d))
                           /\ WF_vars(ReapEnqueue(d))
                           /\ SF_vars(\E w \in Workers : TakeJob(w, d))
  /\ \A w \in Workers : WF_vars(Process(w))
  /\ WF_vars(ReapScan)

FairSpec == Spec /\ Fairness

\* A delivery whose enqueue failed, or whose job was lost, is still picked up:
\* the reaper's first case.
PendingIsPickedUp ==
  \A d \in Deliveries : status[d] = "pending" ~> status[d] # "pending"

\* A delivery whose worker died or threw after the claim leaves in_flight: the
\* reaper's second case.
InFlightIsResolved ==
  \A d \in Deliveries : status[d] = "in_flight" ~> status[d] # "in_flight"

\* As long as nothing failed, every delivery reaches a terminal status: retries
\* do not go on for ever and no claim that is lost loses the delivery.
EveryDeliverySettles ==
  \A d \in Deliveries :
    status[d] = "pending" ~> status[d] \in Terminal \cup {"deleted"} \/ faults > 0

-----------------------------------------------------------------------------
(* What the documentation says and the code does not do.                     *)

\* "There are up to 7 attempts in total."
AtMostMaxAttempts == \A d \in Deliveries : attemptCount[d] <= MaxAttempts

\* "`delivered`/`exhausted` rows are terminal", and a cancelled delivery is
\* overwritten, if at all, by a terminal write.
CancelledStaysTerminal ==
  [][\A d \in Deliveries :
       status[d] = "exhausted" => status'[d] \in Terminal \cup {"deleted"}]_vars

\* "Odyhook retries it ...; after the 6th retry fails, the delivery is marked
\* exhausted": a failed delivery is tried again.
FailedIsRetried ==
  \A d \in Deliveries : status[d] = "failed" ~> status[d] # "failed"

\* "If it evaluates false, skip delivery entirely."
RejectedIsNotSent ==
  [][\A w \in Workers :
       pc[w] = "post" /\ result[w] = "rejected" => result'[w] \notin Sent]_vars

=============================================================================
