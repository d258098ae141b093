------------------------------- MODULE Records -------------------------------
(***************************************************************************)
(* The events and deliveries of one user as the pages and services that    *)
(* only read them find them: tables that change under the reader. Event e  *)
(* was received at time e, so that the order of the lists, (receivedAt,    *)
(* id), is that of the numbers; it is committed some time later, with a    *)
(* delivery for every route. "open" stands for pending and in flight,      *)
(* "failed" for failed and exhausted, and "skipped" for a delivery that a  *)
(* filter held back, which is delivered with no response code.             *)
(***************************************************************************)
EXTENDS Integers, FiniteSets

CONSTANTS
  MaxEvent,
  Slots,         \* of an event: a row of its deliveries goes to each
  Destinations,
  To,            \* [Slots -> Destinations], several slots for what is replayed
  Earlier,       \* events that were received before the behaviour begins
  Histories      \* what has become of them

ASSUME RecordsAssumption ==
  /\ MaxEvent \in Nat /\ Earlier \in 0..MaxEvent
  /\ IsFiniteSet(Slots) /\ Slots \cap 1..MaxEvent = {}
  /\ IsFiniteSet(Destinations) /\ To \in [Slots -> Destinations]

Events     == 1..MaxEvent
Deliveries == Events \X Slots

\* The earlier events may still have to be committed; their deliveries are settled.
ASSUME HistoriesAssumption ==
  \A h \in Histories :
    /\ h.event \in [Events -> {"none", "stored"}]
    /\ h.delivery \in [Deliveries -> {"none", "failed", "delivered", "skipped"}]
    /\ \A d \in Deliveries : h.delivery[d] # "none" => h.event[d[1]] = "stored"
    /\ \A e \in Events : h.event[e] = "stored" => e <= Earlier

VARIABLES
  event,     \* [Events -> {"none", "stored", "gone"}]
  delivery,  \* [Deliveries -> "none", a status, "gone"]
  touched,   \* updatedAt of a delivery
  clock      \* bounded by MaxEvent

tables     == <<event, delivery, touched>>
recordVars == <<tables, clock>>

RecordsInit ==
  /\ \E h \in Histories : event = h.event /\ delivery = h.delivery
  /\ touched = [d \in Deliveries |-> IF delivery[d] = "none" THEN 0 ELSE d[1]]
  /\ clock = Earlier

Present(e)  == event[e] = "stored"
Recorded(d) == delivery[d] \notin {"none", "gone"}

\* The worker's writes: a failed delivery is claimed again, or exhausted.
Successors ==
  [open |-> {"failed", "delivered", "skipped"}, failed |-> {"open", "failed"},
   delivered |-> {}, skipped |-> {}, none |-> {}, gone |-> {}]

Write(D, s) ==
  /\ delivery' = [d \in Deliveries |-> IF d \in D THEN s ELSE delivery[d]]
  /\ touched' = [d \in Deliveries |-> IF d \in D THEN clock ELSE touched[d]]
  /\ UNCHANGED clock

\* One delivery for each route at the most: no two of an event go to the same place.
Routed(D) == \A c, d \in D : c[1] = d[1] /\ To[c[2]] = To[d[2]] => c = d

\* The commit of an event, which later ones may have overtaken, with its deliveries.
Arrive(e) ==
  /\ event[e] = "none" /\ e <= clock
  /\ event' = [event EXCEPT ![e] = "stored"]
  /\ \E D \in SUBSET ({e} \X Slots) : Routed(D) /\ Write(D, "open")

\* One or several events are sent again: one transaction inserts all the rows.
Replay ==
  \E D \in SUBSET {d \in Deliveries : Present(d[1]) /\ delivery[d] = "none"} \ {{}} :
    Routed(D) /\ Write(D, "open") /\ UNCHANGED event

Settle(d) == UNCHANGED event /\ \E s \in Successors[delivery[d]] : Write({d}, s)

\* Retention deletes a batch of events, and the deletion of a source all of its own.
DeleteEvents ==
  \E E \in SUBSET {e \in Events : Present(e)} \ {{}} :
    /\ event' = [e \in Events |-> IF e \in E THEN "gone" ELSE event[e]]
    /\ Write({d \in Deliveries : d[1] \in E /\ Recorded(d)}, "gone")

\* The deliveries go with their destination, and the events stay.
DeleteDestination(x) ==
  LET rows == {d \in Deliveries : Recorded(d) /\ To[d[2]] = x}
  IN rows # {} /\ Write(rows, "gone") /\ UNCHANGED event

Tick == clock < MaxEvent /\ clock' = clock + 1 /\ UNCHANGED tables

RecordChange ==
  \/ \E e \in Events : Arrive(e)
  \/ Replay
  \/ \E d \in Deliveries : Settle(d)
  \/ DeleteEvents
  \/ \E x \in Destinations : DeleteDestination(x)
=============================================================================
