----------------------------- MODULE IngestProofs -----------------------------
(* A webhook is stored once per style of verification, and a 2xx names the   *)
(* row of the webhook it answers, for every number of webhooks, requests and *)
(* edits. The inductive invariants say that a row's key is the key of its    *)
(* webhook under its style, that keys and numbers are unique, and that a     *)
(* request names a row with its own key and nothing left to queue after 202. *)
EXTENDS Ingest, TLAPS

Styles == {s.style : s \in Settings}
Keys   == {KeyFor(h, s) : h \in Hooks, s \in Styles}
Rows   == [id : Nat, key : Keys, hook : Hooks, style : Styles,
           targets : SUBSET Destinations, unqueued : SUBSET Destinations]

RequestsOK ==
  /\ pc \in [Requests -> {"idle", "read", "screened", "new", "P2002", "P2003", "created", "answered"}]
  /\ hook \in [Requests -> Hooks \cup {Null}] /\ seen \in [Requests -> Settings \cup {Null}]
  /\ plan \in [Requests -> SUBSET Destinations]
  /\ \A r \in Requests : pc[r] # "idle" => hook[r] \in Hooks /\ seen[r] \in Settings

TablesOK ==
  /\ source \in Settings \cup {Null} /\ routed \subseteq Destinations
  /\ created \in Nat /\ events \subseteq Rows

RowsAreKeyed ==
  /\ \A e \in events : e.key = KeyFor(e.hook, e.style)
  /\ \A e, f \in events : e.key = f.key => e = f

IngestInv == RequestsOK /\ TablesOK /\ RowsAreKeyed

\* Changing the targets or the queue of rows, and deleting rows, keeps keys apart.
LEMMA RewritingKeepsKeys ==
  ASSUME IngestInv, NEW new, NEW rows \in SUBSET events,
         \A e \in rows : new[e] \in Rows /\ new[e].key = e.key
                         /\ new[e].hook = e.hook /\ new[e].style = e.style,
         events' = {new[e] : e \in rows}
  PROVE  events' \subseteq Rows /\ RowsAreKeyed'
<1>1. events' \subseteq Rows
  OBVIOUS
<1>2. ASSUME NEW e \in events' PROVE e.key = KeyFor(e.hook, e.style)
  <2>1. PICK x \in rows : e = new[x]
    OBVIOUS
  <2>2. x.key = KeyFor(x.hook, x.style)
    BY DEF IngestInv, RowsAreKeyed
  <2> QED
    BY <2>1, <2>2
<1>3. ASSUME NEW e \in events', NEW f \in events', e.key = f.key PROVE e = f
  <2>1. PICK x \in rows : e = new[x]
    OBVIOUS
  <2>2. PICK y \in rows : f = new[y]
    OBVIOUS
  <2>3. x.key = y.key
    BY <1>3, <2>1, <2>2
  <2>4. x = y
    BY <2>3 DEF IngestInv, RowsAreKeyed
  <2> QED
    BY <2>1, <2>2, <2>4
<1> QED
  BY <1>1, <1>2, <1>3 DEF RowsAreKeyed, KeyFor

\* Marking deliveries as queued is such a rewriting.
LEMMA QueueKeepsKeys ==
  ASSUME IngestInv, NEW id, NEW ds, Queue(id, ds)
  PROVE  events' \subseteq Rows /\ RowsAreKeyed'
<1> DEFINE new == [e \in events |-> IF e.id = id THEN [e EXCEPT !.unqueued = @ \ ds] ELSE e]
<1>1. \A e \in events : new[e] \in Rows /\ new[e].key = e.key
                        /\ new[e].hook = e.hook /\ new[e].style = e.style
  BY DEF IngestInv, TablesOK, Rows
<1>2. events' = {new[e] : e \in events}
  BY DEF Queue
<1> HIDE DEF new
<1> QED
  BY <1>1, <1>2, RewritingKeepsKeys

\* Freeing a slot, and answering, keep the requests in order.
LEMMA RequestSteps ==
  ASSUME IngestInv, NEW r \in Requests
  PROVE  /\ Free(r) => RequestsOK'
         /\ \A s \in {"screened", "new", "P2002", "P2003", "created", "answered"} :
              pc[r] # "idle" /\ To(r, s) /\ UNCHANGED <<hook, seen, plan>> => RequestsOK'
  BY DEF IngestInv, RequestsOK, Free, To

LEMMA IngestInvInit == IngestInit => IngestInv
  BY DEF IngestInit, IngestInv, RequestsOK, TablesOK, RowsAreKeyed

LEMMA IngestInvStep == IngestInv /\ [IngestNext]_ingestVars => IngestInv'
<1> SUFFICES ASSUME IngestInv, [IngestNext]_ingestVars PROVE IngestInv'
  OBVIOUS
<1>t. RequestsOK /\ TablesOK /\ RowsAreKeyed
  BY DEF IngestInv
<1>u. UNCHANGED <<source, routed, existing, events, created>> => TablesOK' /\ RowsAreKeyed'
  BY <1>t DEF TablesOK, RowsAreKeyed, KeyFor
<1>v. UNCHANGED requestVars => RequestsOK'
  BY <1>t DEF RequestsOK, requestVars
<1>f. ASSUME NEW r \in Requests, Refuse(r) PROVE IngestInv'
  BY <1>f, <1>u, RequestSteps DEF Refuse, tableVars, IngestInv
<1>1. ASSUME NEW r \in Requests, NEW h \in Hooks, Receive(r, h) PROVE IngestInv'
  <2>1. RequestsOK'
    BY <1>1, <1>t DEF Receive, To, RequestsOK, TablesOK
  <2> QED
    BY <1>1, <1>u, <2>1 DEF Receive, tableVars, IngestInv
<1>2. ASSUME NEW r \in Requests, Limited(r) PROVE IngestInv'
  BY <1>2, <1>f DEF Limited
<1>3. ASSUME NEW r \in Requests, NEW timely \in BOOLEAN, Screen(r, timely) PROVE IngestInv'
  <2>1. CASE Refuse(r)
    BY <2>1, <1>f
  <2>2. CASE pc[r] # "idle" /\ To(r, "screened") /\ UNCHANGED <<tableVars, hook, seen, plan>>
    BY <2>2, <1>u, RequestSteps DEF tableVars, IngestInv
  <2> QED
    BY <1>3, <2>1, <2>2 DEF Screen
<1>4. ASSUME NEW r \in Requests, Lookup(r) PROVE IngestInv'
  <2>1. /\ To(r, "answered") \/ To(r, "new")
        /\ pc[r] # "idle" /\ UNCHANGED <<tableVars, hook, seen, plan>>
    BY <1>4 DEF Lookup, Answer
  <2> QED
    BY <2>1, <1>u, RequestSteps DEF tableVars, IngestInv
<1>5. ASSUME NEW r \in Requests, Create(r) PROVE IngestInv'
  <2>0. pc[r] # "idle" /\ UNCHANGED <<source, routed, hook, seen, plan>>
    BY <1>5 DEF Create
  <2>1. CASE (To(r, "P2002") \/ To(r, "P2003")) /\ UNCHANGED <<events, created>>
    <3>1. RequestsOK'
      BY <2>0, <2>1, RequestSteps
    <3>2. TablesOK' /\ RowsAreKeyed'
      BY <2>0, <2>1, <1>t DEF TablesOK, RowsAreKeyed, KeyFor
    <3> QED
      BY <3>1, <3>2 DEF IngestInv
  <2>2. CASE ~Taken(Key(r)) /\ To(r, "created") /\ created' = created + 1
             /\ events' = events \cup {[id |-> created + 1, key |-> Key(r), hook |-> hook[r],
                                        style |-> seen[r].style, targets |-> plan[r],
                                        unqueued |-> plan[r]]}
    <3> DEFINE row == [id |-> created + 1, key |-> Key(r), hook |-> hook[r],
                       style |-> seen[r].style, targets |-> plan[r], unqueued |-> plan[r]]
    <3>1. hook[r] \in Hooks /\ seen[r] \in Settings /\ plan[r] \in SUBSET Destinations
      BY <2>0, <1>t DEF RequestsOK
    <3>2. seen[r].style \in Styles /\ Key(r) \in Keys /\ Key(r) = KeyFor(hook[r], seen[r].style)
      BY <3>1 DEF Styles, Keys, Key
    <3>3. row \in Rows /\ row.key = KeyFor(row.hook, row.style)
      BY <3>1, <3>2, <1>t DEF Rows, TablesOK
    <3>4. \A e \in events : e.key # row.key
      BY <2>2 DEF Taken, WithKey
    <3>r. RequestsOK'
      BY <2>0, <2>2, RequestSteps
    <3>5. events' = events \cup {row}
      BY <2>2
    <3> HIDE DEF row
    <3>6. TablesOK'
      BY <3>3, <3>5, <2>0, <2>2, <1>t DEF TablesOK
    <3>7. RowsAreKeyed'
      <4>1. \A e \in events' : e.key = KeyFor(e.hook, e.style)
        BY <3>3, <3>5, <1>t DEF RowsAreKeyed
      <4>2. \A e, f \in events' : e.key = f.key => e = f
        BY <3>4, <3>5, <1>t DEF RowsAreKeyed
      <4> QED
        BY <4>1, <4>2 DEF RowsAreKeyed, KeyFor
    <3> QED
      BY <3>r, <3>6, <3>7 DEF IngestInv
  <2> QED
    BY <1>5, <2>1, <2>2 DEF Create
<1>6. ASSUME NEW r \in Requests, CreateFailed(r) PROVE IngestInv'
  <2>1. CASE Refuse(r)
    BY <2>1, <1>f
  <2>2. CASE pc[r] # "idle" /\ To(r, "answered") /\ UNCHANGED <<tableVars, hook, seen, plan>>
    BY <2>2, <1>u, RequestSteps DEF tableVars, IngestInv
  <2> QED
    BY <1>6, <2>1, <2>2 DEF CreateFailed, Answer
<1>7. ASSUME NEW r \in Requests, Enqueue(r) PROVE IngestInv'
  <2>1. \E id, ds : Queue(id, ds)
    BY <1>7 DEF Enqueue
  <2>2. events' \subseteq Rows /\ RowsAreKeyed'
    BY <2>1, QueueKeepsKeys
  <2>3. TablesOK'
    BY <1>7, <2>2, <1>t DEF Enqueue, TablesOK
  <2>4. Free(r) \/ (pc[r] # "idle" /\ To(r, "answered") /\ UNCHANGED <<hook, seen, plan>>)
    BY <1>7 DEF Enqueue, Answer
  <2> QED
    BY <2>2, <2>3, <2>4, RequestSteps DEF IngestInv
<1>8. ASSUME NEW r \in Requests, Reply(r) \/ Abandon(r) PROVE IngestInv'
  BY <1>8, <1>u, RequestSteps DEF Reply, Abandon, tableVars, IngestInv
<1>9. ASSUME Operate PROVE IngestInv'
  <2>0. RequestsOK' /\ created' = created /\ source' \in Settings \cup {Null}
        /\ routed' \subseteq Destinations
    BY <1>9, <1>v, <1>t
    DEF Operate, EditSource, SwitchRoute, DeleteDestination, DeleteEvent, DeleteSource, TablesOK, Delete
  <2>1. CASE UNCHANGED events
    BY <2>0, <2>1, <1>t DEF IngestInv, TablesOK, RowsAreKeyed, KeyFor
  <2>2. CASE \E e \in events : DeleteEvent(e)
    <3>1. events' \subseteq events
      BY <2>2 DEF DeleteEvent
    <3> QED
      BY <3>1, <2>0, <1>t DEF IngestInv, TablesOK, RowsAreKeyed, KeyFor
  <2>3. CASE DeleteSource
    BY <2>3, <2>0 DEF DeleteSource, IngestInv, TablesOK, RowsAreKeyed
  <2>4. ASSUME NEW d \in Destinations, DeleteDestination(d) PROVE IngestInv'
    <3> DEFINE new == [e \in events |-> [e EXCEPT !.targets = @ \ {d}, !.unqueued = @ \ {d}]]
    <3>1. \A e \in events : new[e] \in Rows /\ new[e].key = e.key
                            /\ new[e].hook = e.hook /\ new[e].style = e.style
      BY <1>t DEF TablesOK, Rows
    <3>2. events' = {new[e] : e \in events}
      BY <2>4 DEF DeleteDestination
    <3> HIDE DEF new
    <3>3. events' \subseteq Rows /\ RowsAreKeyed'
      BY <3>1, <3>2, RewritingKeepsKeys
    <3> QED
      BY <3>3, <2>0, <1>t DEF IngestInv, TablesOK
  <2> QED
    BY <1>9, <2>1, <2>2, <2>3, <2>4 DEF Operate, EditSource, SwitchRoute
<1>10. CASE UNCHANGED ingestVars
  BY <1>10, <1>u, <1>v DEF ingestVars, tableVars, IngestInv
<1> QED
  BY <1>1, <1>2, <1>3, <1>4, <1>5, <1>6, <1>7, <1>8, <1>9, <1>10 DEF IngestNext, Handle

\* Rows carry the key of their webhook, and the unique index keeps keys apart.
THEOREM RowsStayKeyed == IngestSpec => []IngestInv
<1>1. IngestInit => IngestInv
  BY IngestInvInit
<1>2. IngestInv /\ [IngestNext]_ingestVars => IngestInv'
  BY IngestInvStep
<1> QED
  BY <1>1, <1>2, PTL DEF IngestSpec

\* The route's comment on the create-create race (route.ts:201): concurrent and
\* repeated requests for a webhook leave one event per style of verification.
THEOREM WebhookStoredOncePerStyle == IngestSpec => []OneEventPerHook
<1>1. IngestInv => OneEventPerHook
  BY DEF IngestInv, RowsAreKeyed, OneEventPerHook
<1> QED
  BY <1>1, RowsStayKeyed, PTL

-----------------------------------------------------------------------------
(* What an answer says. Rows are numbered in the order of their insertion,   *)
(* and a request that names a row names one that carries its own key.        *)

\* Numbers are never used twice, and a key in the table was stored.
RowsAreNumbered ==
  /\ \A e \in events : e.id \in 1..created /\ e.key \in everStored
  /\ \A e, f \in events : e.id = f.id => e = f

\* What request r may say once it names a row: the key was stored; if the row is
\* still there it is the row of that key; a row r has inserted is of its own webhook,
\* and only the deliveries r is about to queue (none, after a 202) wait for a job.
NamesItsRow(r) ==
  pc[r] \in {"created", "answered"} =>
    /\ reply[r].event \in 1..created /\ Key(r) \in everStored
    /\ \A e \in events : e.id = reply[r].event =>
         /\ e.key = Key(r)
         /\ pc[r] = "created" => e.hook = hook[r] /\ e.unqueued \subseteq plan[r]
         /\ pc[r] = "answered" /\ reply[r].status = 202 => e.hook = hook[r] /\ e.unqueued = {}

RepliesOK == reply \in [Requests -> [status : Nat, event : Nat]]

AnswerInv == RepliesOK /\ RowsAreNumbered /\ \A r \in Requests : NamesItsRow(r)

\* What every step does to the tables: a row is new, with a fresh number, or it
\* is an old row with fewer deliveries left to queue.
RowsDescend ==
  /\ created' \in Nat /\ created' >= created /\ everStored \subseteq everStored'
  /\ \A e \in events' : \/ e.id > created
                        \/ \E f \in events : /\ f.id = e.id /\ f.key = e.key /\ f.hook = e.hook
                                             /\ e.unqueued \subseteq f.unqueued

\* A request that does not move is not contradicted by what others do to the rows.
Untouched(r) == /\ pc'[r] = pc[r] /\ hook'[r] = hook[r] /\ seen'[r] = seen[r]
                /\ plan'[r] = plan[r] /\ reply'[r] = reply[r]

LEMMA RewritingDescends ==
  ASSUME RowsAreNumbered, created \in Nat, UNCHANGED <<created, everStored>>,
         NEW new, NEW rows \in SUBSET events,
         \A e \in rows : new[e].id = e.id /\ new[e].key = e.key /\ new[e].hook = e.hook
                         /\ new[e].unqueued \subseteq e.unqueued,
         events' = {new[e] : e \in rows}
  PROVE  RowsDescend /\ RowsAreNumbered'
<1>1. \A e \in events' : \E f \in events : /\ f.id = e.id /\ f.key = e.key /\ f.hook = e.hook
                                           /\ e.unqueued \subseteq f.unqueued
  OBVIOUS
<1>2. \A e \in events' : e.id \in 1..created' /\ e.key \in everStored'
  BY <1>1 DEF RowsAreNumbered
<1>3. ASSUME NEW e \in events', NEW f \in events', e.id = f.id PROVE e = f
  <2>1. PICK x \in rows : e = new[x]
    OBVIOUS
  <2>2. PICK y \in rows : f = new[y]
    OBVIOUS
  <2>3. x.id = y.id
    BY <1>3, <2>1, <2>2
  <2> QED
    BY <2>1, <2>2, <2>3 DEF RowsAreNumbered
<1> QED
  BY <1>1, <1>2, <1>3 DEF RowsDescend, RowsAreNumbered

LEMMA QueueDescends ==
  ASSUME IngestInv, RowsAreNumbered, NEW id, NEW ds, Queue(id, ds),
         UNCHANGED <<created, everStored>>
  PROVE  RowsDescend /\ RowsAreNumbered'
<1> DEFINE new == [e \in events |-> IF e.id = id THEN [e EXCEPT !.unqueued = @ \ ds] ELSE e]
<1>1. \A e \in events : new[e].id = e.id /\ new[e].key = e.key /\ new[e].hook = e.hook
                        /\ new[e].unqueued \subseteq e.unqueued
  BY DEF IngestInv, TablesOK, Rows
<1>2. events' = {new[e] : e \in events}
  BY DEF Queue
<1>3. created \in Nat
  BY DEF IngestInv, TablesOK
<1> HIDE DEF new
<1> QED
  BY <1>1, <1>2, <1>3, RewritingDescends

LEMMA InsertionDescends ==
  ASSUME IngestInv, RowsAreNumbered, NEW row, row.id = created + 1,
         created' = created + 1, events' = events \cup {row},
         everStored' = everStored \cup {row.key}
  PROVE  RowsDescend /\ RowsAreNumbered'
<1>1. created \in Nat /\ \A e \in events : e.id \in Nat /\ e.id <= created
  BY DEF IngestInv, TablesOK, RowsAreNumbered
<1>2. RowsDescend
  BY <1>1 DEF RowsDescend
<1>3. \A e \in events' : e.id \in 1..created' /\ e.key \in everStored'
  BY <1>1 DEF RowsAreNumbered
<1>4. \A e, f \in events' : e.id = f.id => e = f
  BY <1>1 DEF RowsAreNumbered
<1> QED
  BY <1>2, <1>3, <1>4 DEF RowsAreNumbered

LEMMA TablesDescend ==
  ASSUME IngestInv, RowsAreNumbered, [IngestNext]_ingestVars
  PROVE  RowsDescend /\ RowsAreNumbered'
<1>c. created \in Nat
  BY DEF IngestInv, TablesOK
<1>1. CASE UNCHANGED <<created, everStored>> /\ events' \subseteq events
  BY <1>1, <1>c DEF RowsDescend, RowsAreNumbered
<1>2. ASSUME NEW id, NEW ds, Queue(id, ds), UNCHANGED <<created, everStored>>
      PROVE  RowsDescend /\ RowsAreNumbered'
  BY <1>2, QueueDescends
<1>3. ASSUME NEW d \in Destinations, DeleteDestination(d) PROVE RowsDescend /\ RowsAreNumbered'
  <2> DEFINE new == [e \in events |-> [e EXCEPT !.targets = @ \ {d}, !.unqueued = @ \ {d}]]
  <2>1. \A e \in events : new[e].id = e.id /\ new[e].key = e.key /\ new[e].hook = e.hook
                          /\ new[e].unqueued \subseteq e.unqueued
    BY DEF IngestInv, TablesOK, Rows
  <2>2. events' = {new[e] : e \in events} /\ UNCHANGED <<created, everStored>>
    BY <1>3 DEF DeleteDestination
  <2> HIDE DEF new
  <2> QED
    BY <2>1, <2>2, <1>c, RewritingDescends
<1>4. ASSUME NEW r \in Requests, Create(r) PROVE RowsDescend /\ RowsAreNumbered'
  <2> DEFINE row == [id |-> created + 1, key |-> Key(r), hook |-> hook[r],
                     style |-> seen[r].style, targets |-> plan[r], unqueued |-> plan[r]]
  <2>1. CASE UNCHANGED <<events, created, everStored>>
    BY <2>1, <1>1
  <2>2. CASE /\ created' = created + 1 /\ events' = events \cup {row}
             /\ everStored' = everStored \cup {Key(r)}
    <3>1. row.id = created + 1 /\ row.key = Key(r)
      OBVIOUS
    <3> HIDE DEF row
    <3> QED
      BY <2>2, <3>1, InsertionDescends
  <2> QED
    BY <1>4, <2>1, <2>2 DEF Create
<1>5. ASSUME NEW r \in Requests, Enqueue(r) PROVE RowsDescend /\ RowsAreNumbered'
  BY <1>5, <1>2 DEF Enqueue
<1>6. ASSUME NEW r \in Requests,
             \/ \E h \in Hooks : Receive(r, h)
             \/ Limited(r) \/ (\E timely \in BOOLEAN : Screen(r, timely))
             \/ Lookup(r) \/ CreateFailed(r) \/ Reply(r) \/ Abandon(r)
      PROVE  UNCHANGED <<created, everStored>> /\ events' \subseteq events
  BY <1>6 DEF Receive, Limited, Screen, Refuse, Lookup, CreateFailed, Reply, Abandon, tableVars
<1>7. ASSUME Operate, ~\E d \in Destinations : DeleteDestination(d)
      PROVE  UNCHANGED <<created, everStored>> /\ events' \subseteq events
  BY <1>7 DEF Operate, EditSource, SwitchRoute, DeleteEvent, DeleteSource
<1>8. CASE UNCHANGED ingestVars
  BY <1>8, <1>1 DEF ingestVars, tableVars
<1> QED
  BY <1>1, <1>3, <1>4, <1>5, <1>6, <1>7, <1>8 DEF IngestNext, Handle, Operate

LEMMA WaitingKeepsAnswer ==
  ASSUME AnswerInv, RowsDescend, NEW r \in Requests, Untouched(r), created \in Nat
  PROVE  NamesItsRow(r)'
<1> SUFFICES ASSUME pc[r] \in {"created", "answered"} PROVE NamesItsRow(r)'
  BY DEF NamesItsRow, Untouched
<1>1. NamesItsRow(r)
  BY DEF AnswerInv
<1>2. KeyFor(hook[r], seen[r].style) = Key(r) /\ Key(r)' = Key(r)
  BY DEF Key, Untouched, KeyFor
<1>3. reply'[r].event \in 1..created' /\ Key(r)' \in everStored'
  BY <1>1, <1>2 DEF NamesItsRow, RowsDescend, Untouched
<1>4. ASSUME NEW e \in events', e.id = reply'[r].event
      PROVE  /\ e.key = Key(r)
             /\ pc[r] = "created" => e.hook = hook[r] /\ e.unqueued \subseteq plan[r]
             /\ pc[r] = "answered" /\ reply[r].status = 202 => e.hook = hook[r] /\ e.unqueued = {}
  <2>1. e.id <= created
    BY <1>1, <1>4 DEF NamesItsRow, Untouched
  <2>2. e.id \in Nat
    BY <1>1, <1>4 DEF NamesItsRow, Untouched
  <2>3. PICK f \in events : /\ f.id = e.id /\ f.key = e.key /\ f.hook = e.hook
                            /\ e.unqueued \subseteq f.unqueued
    BY <2>1, <2>2 DEF RowsDescend
  <2> QED
    BY <2>3, <1>1, <1>4 DEF NamesItsRow, Untouched
<1> QED
  BY <1>2, <1>3, <1>4 DEF NamesItsRow, Untouched

\* Whoever is answered with a row of its key names its row.
LEMMA AnsweredWithItsRow ==
  ASSUME IngestInv, AnswerInv, RowsAreNumbered', NEW r \in Requests,
         NEW e \in WithKey(Key(r)), Answer(r, 200, e.id),
         UNCHANGED <<tableVars, hook, seen, plan>>
  PROVE  NamesItsRow(r)'
<1>1. Key(r)' = Key(r)
  BY DEF Key, KeyFor
<1>2. e \in events /\ e.key = Key(r)
  BY DEF WithKey
<1>3. pc'[r] = "answered" /\ reply'[r] = [status |-> 200, event |-> e.id]
  BY DEF Answer, To, IngestInv, RequestsOK, AnswerInv, RepliesOK
<1>4. e.id \in 1..created /\ Key(r) \in everStored
  BY <1>2 DEF AnswerInv, RowsAreNumbered
<1>5. \A f \in events : f.id = e.id => f = e
  BY <1>2 DEF AnswerInv, RowsAreNumbered
<1> QED
  BY <1>1, <1>2, <1>3, <1>4, <1>5 DEF NamesItsRow, tableVars

\* A request that rests in a step before the insertion, or is over, names no row.
LEMMA SilentNamesNothing ==
  ASSUME IngestInv, NEW r \in Requests,
         NEW s \in {"idle", "read", "screened", "new", "P2002", "P2003"}, To(r, s)
  PROVE  NamesItsRow(r)'
  BY DEF To, IngestInv, RequestsOK, NamesItsRow

LEMMA AnswerInvInit == IngestInit => AnswerInv
  BY DEF IngestInit, AnswerInv, RepliesOK, RowsAreNumbered, NamesItsRow, NoReply

LEMMA AnswerInvStep ==
  IngestInv /\ IngestInv' /\ AnswerInv /\ [IngestNext]_ingestVars => AnswerInv'
<1> SUFFICES ASSUME IngestInv, IngestInv', AnswerInv, [IngestNext]_ingestVars PROVE AnswerInv'
  OBVIOUS
<1>t. RowsDescend /\ RowsAreNumbered'
  BY TablesDescend DEF AnswerInv
<1>c. created \in Nat /\ RequestsOK /\ RepliesOK
  BY DEF IngestInv, TablesOK, AnswerInv
<1>w. ASSUME NEW q \in Requests, Untouched(q) PROVE NamesItsRow(q)'
  BY <1>w, <1>t, <1>c, WaitingKeepsAnswer
<1>o. ASSUME NEW r \in Requests, RepliesOK', NamesItsRow(r)',
             \A q \in Requests \ {r} : Untouched(q)
      PROVE  AnswerInv'
  BY <1>o, <1>t, <1>w DEF AnswerInv
<1>f. ASSUME NEW r \in Requests, Free(r) PROVE AnswerInv'
  <2>1. NamesItsRow(r)'
    BY <1>f, SilentNamesNothing DEF Free
  <2>2. RepliesOK' /\ \A q \in Requests \ {r} : Untouched(q)
    BY <1>f, <1>c DEF Free, To, RequestsOK, RepliesOK, NoReply, Untouched
  <2> QED
    BY <2>1, <2>2, <1>o
<1>s. ASSUME NEW r \in Requests, NEW s \in {"read", "screened", "new", "P2002", "P2003"},
             To(r, s), reply' = reply,
             \A q \in Requests \ {r} : hook'[q] = hook[q] /\ seen'[q] = seen[q] /\ plan'[q] = plan[q]
      PROVE  AnswerInv'
  <2>1. NamesItsRow(r)'
    BY <1>s, SilentNamesNothing
  <2>2. RepliesOK' /\ \A q \in Requests \ {r} : Untouched(q)
    BY <1>s, <1>c DEF To, RequestsOK, RepliesOK, Untouched
  <2> QED
    BY <2>1, <2>2, <1>o
<1>a. ASSUME NEW r \in Requests, NEW e \in WithKey(Key(r)), Answer(r, 200, e.id),
             UNCHANGED <<tableVars, hook, seen, plan>>
      PROVE  AnswerInv'
  <2>1. NamesItsRow(r)'
    BY <1>a, <1>t, AnsweredWithItsRow
  <2>2. e.id \in Nat
    BY <1>c DEF WithKey, AnswerInv, RowsAreNumbered
  <2>3. RepliesOK' /\ \A q \in Requests \ {r} : Untouched(q)
    BY <1>a, <1>c, <2>2 DEF Answer, To, RequestsOK, RepliesOK, Untouched
  <2> QED
    BY <2>1, <2>3, <1>o
<1>1. ASSUME NEW r \in Requests, NEW h \in Hooks, Receive(r, h) PROVE AnswerInv'
  BY <1>1, <1>s, <1>c DEF Receive, RequestsOK
<1>2. ASSUME NEW r \in Requests, Limited(r) PROVE AnswerInv'
  BY <1>2, <1>f DEF Limited, Refuse
<1>3. ASSUME NEW r \in Requests, NEW timely \in BOOLEAN, Screen(r, timely) PROVE AnswerInv'
  BY <1>3, <1>f, <1>s DEF Screen, Refuse
<1>4. ASSUME NEW r \in Requests, Lookup(r) PROVE AnswerInv'
  BY <1>4, <1>a, <1>s DEF Lookup
<1>5. ASSUME NEW r \in Requests, Create(r) PROVE AnswerInv'
  <2>0. UNCHANGED <<hook, seen, plan>>
    BY <1>5 DEF Create
  <2>1. CASE (To(r, "P2002") \/ To(r, "P2003")) /\ reply' = reply
    BY <2>0, <2>1, <1>s
  <2> DEFINE row == [id |-> created + 1, key |-> Key(r), hook |-> hook[r],
                     style |-> seen[r].style, targets |-> plan[r], unqueued |-> plan[r]]
  <2>2. CASE /\ created' = created + 1 /\ events' = events \cup {row}
             /\ everStored' = everStored \cup {Key(r)} /\ To(r, "created")
             /\ reply' = [reply EXCEPT ![r].event = created + 1]
    <3>1. pc'[r] = "created" /\ reply'[r].event = created + 1
      BY <2>2, <1>c DEF To, RequestsOK, RepliesOK
    <3>2. Key(r)' = Key(r)
      BY <2>0 DEF Key, KeyFor
    <3>3. \A e \in events : e.id # created + 1
      BY <1>c DEF AnswerInv, RowsAreNumbered
    <3>4. NamesItsRow(r)'
      BY <2>0, <2>2, <3>1, <3>2, <3>3, <1>c DEF NamesItsRow
    <3>5. RepliesOK' /\ \A q \in Requests \ {r} : Untouched(q)
      BY <2>0, <2>2, <1>c DEF To, RequestsOK, RepliesOK, Untouched
    <3> QED
      BY <3>4, <3>5, <1>o
  <2> QED
    BY <1>5, <2>1, <2>2 DEF Create
<1>6. ASSUME NEW r \in Requests, CreateFailed(r) PROVE AnswerInv'
  BY <1>6, <1>a, <1>f DEF CreateFailed, Refuse
<1>7. ASSUME NEW r \in Requests, Enqueue(r) PROVE AnswerInv'
  <2>1. CASE Free(r)
    BY <2>1, <1>f
  <2>2. CASE /\ Queue(reply[r].event, plan[r]) /\ Answer(r, 202, reply[r].event)
             /\ UNCHANGED <<hook, seen, plan, created, everStored>>
    <3>1. pc[r] = "created" /\ NamesItsRow(r)
      BY <1>7 DEF Enqueue, AnswerInv
    <3>2. pc'[r] = "answered" /\ reply'[r] = [status |-> 202, event |-> reply[r].event]
      BY <2>2, <1>c DEF Answer, To, RequestsOK, RepliesOK
    <3>3. Key(r)' = Key(r)
      BY <2>2 DEF Key, KeyFor
    <3>4. ASSUME NEW e \in events', e.id = reply[r].event
          PROVE  e.key = Key(r) /\ e.hook = hook[r] /\ e.unqueued = {}
      <4>1. PICK f \in events : e = IF f.id = reply[r].event
                                    THEN [f EXCEPT !.unqueued = @ \ plan[r]] ELSE f
        BY <2>2 DEF Queue
      <4>2. f \in Rows
        BY DEF IngestInv, TablesOK
      <4>3. f.id = e.id /\ f.key = e.key /\ f.hook = e.hook /\ e.unqueued = f.unqueued \ plan[r]
        BY <4>1, <4>2, <3>4 DEF Rows
      <4>4. f.key = Key(r) /\ f.hook = hook[r] /\ f.unqueued \subseteq plan[r]
        BY <4>3, <3>1, <3>4 DEF NamesItsRow
      <4> QED
        BY <4>3, <4>4
    <3>5. NamesItsRow(r)'
      BY <2>2, <3>1, <3>2, <3>3, <3>4 DEF NamesItsRow
    <3>6. RepliesOK' /\ \A q \in Requests \ {r} : Untouched(q)
      BY <2>2, <1>c DEF Answer, To, RequestsOK, RepliesOK, Untouched
    <3> QED
      BY <3>5, <3>6, <1>o
  <2> QED
    BY <1>7, <2>1, <2>2 DEF Enqueue
<1>8. ASSUME NEW r \in Requests, Reply(r) \/ Abandon(r) PROVE AnswerInv'
  BY <1>8, <1>f DEF Reply, Abandon
<1>9. CASE UNCHANGED requestVars
  <2>1. RepliesOK' /\ \A q \in Requests : Untouched(q)
    BY <1>9, <1>c DEF requestVars, RepliesOK, Untouched
  <2> QED
    BY <2>1, <1>t, <1>w DEF AnswerInv
<1>10. Operate \/ UNCHANGED ingestVars => UNCHANGED requestVars
  BY DEF Operate, EditSource, SwitchRoute, DeleteDestination, DeleteEvent, DeleteSource,
         ingestVars
<1> QED
  BY <1>1, <1>2, <1>3, <1>4, <1>5, <1>6, <1>7, <1>8, <1>9, <1>10 DEF IngestNext, Handle

\* The row a request names, while it exists, has the request's key, and that key was
\* stored; a row the request inserted is of its own webhook (route.ts:189-223).
THEOREM AnswersNameTheirRow == IngestSpec => []AnswerInv
<1>1. IngestInit => AnswerInv
  BY AnswerInvInit
<1>2. IngestInv /\ IngestInv' /\ AnswerInv /\ [IngestNext]_ingestVars => AnswerInv'
  BY AnswerInvStep
<1> QED
  BY <1>1, <1>2, RowsStayKeyed, PTL DEF IngestSpec

\* An answer names a row of the request's key, or one deleted since, and no webhook is
\* answered whose key was never stored; the row of a 202 is the request's own webhook,
\* with a job for every delivery it still has (route.ts:236).
THEOREM AcknowledgedIsStored == IngestSpec => []AnswersAreTrue
<1>1. AnswerInv => AnswersAreTrue
  BY DEF AnswerInv, NamesItsRow, AnswersAreTrue
<1> QED
  BY <1>1, AnswersNameTheirRow, PTL

-----------------------------------------------------------------------------
(* What a webhook may be taken for.                                          *)

\* A request past the screening, and a row, has the signature its style asks for.
VerifiedInv ==
  /\ \A r \in Requests : pc[r] \notin {"idle", "read"} => Verified(hook[r], seen[r].style)
  /\ \A e \in events : Verified(e.hook, e.style)

LEMMA ScreeningVerifies ==
  ASSUME NEW h \in Hooks, NEW set \in Settings, NEW timely \in BOOLEAN,
         Rejections(h, set, timely) = {}
  PROVE  Verified(h, set.style)
BY DEF Rejections, Signed, Verified

\* A row is an old one with other targets, or that of a request that passed.
LEMMA RowsComeVerified ==
  ASSUME IngestInv, VerifiedInv, [IngestNext]_ingestVars
  PROVE  \A e \in events' : Verified(e.hook, e.style)
<1>s. ASSUME events' \subseteq events PROVE \A e \in events' : Verified(e.hook, e.style)
  BY <1>s DEF VerifiedInv
<1>r. ASSUME \A e \in events' : \E f \in events : f.hook = e.hook /\ f.style = e.style
      PROVE  \A e \in events' : Verified(e.hook, e.style)
  BY <1>r DEF VerifiedInv
<1>q. ASSUME NEW id, NEW ds, Queue(id, ds) PROVE \A e \in events' : Verified(e.hook, e.style)
  <2>1. \A e \in events' : \E f \in events : f.hook = e.hook /\ f.style = e.style
    BY <1>q DEF Queue, IngestInv, TablesOK, Rows
  <2> QED
    BY <2>1, <1>r
<1>1. ASSUME NEW r \in Requests, Create(r) PROVE \A e \in events' : Verified(e.hook, e.style)
  <2>1. \A e \in events' : e \in events \/ (e.hook = hook[r] /\ e.style = seen[r].style)
    BY <1>1 DEF Create
  <2>2. Verified(hook[r], seen[r].style)
    BY <1>1 DEF Create, VerifiedInv
  <2> QED
    BY <2>1, <2>2 DEF VerifiedInv
<1>2. ASSUME NEW r \in Requests, Enqueue(r) PROVE \A e \in events' : Verified(e.hook, e.style)
  BY <1>2, <1>q DEF Enqueue
<1>3. ASSUME NEW d \in Destinations, DeleteDestination(d)
      PROVE  \A e \in events' : Verified(e.hook, e.style)
  <2>1. \A e \in events' : \E f \in events : f.hook = e.hook /\ f.style = e.style
    BY <1>3 DEF DeleteDestination, IngestInv, TablesOK, Rows
  <2> QED
    BY <2>1, <1>r
<1>4. ASSUME NEW r \in Requests,
             \/ \E h \in Hooks : Receive(r, h)
             \/ Limited(r) \/ (\E timely \in BOOLEAN : Screen(r, timely))
             \/ Lookup(r) \/ CreateFailed(r) \/ Reply(r) \/ Abandon(r)
      PROVE  events' \subseteq events
  BY <1>4 DEF Receive, Limited, Screen, Refuse, Lookup, CreateFailed, Reply, Abandon, tableVars
<1>5. ASSUME Operate, ~\E d \in Destinations : DeleteDestination(d)
      PROVE  events' \subseteq events
  BY <1>5 DEF Operate, EditSource, SwitchRoute, DeleteEvent, DeleteSource
<1>6. UNCHANGED ingestVars => events' \subseteq events
  BY DEF ingestVars, tableVars
<1> QED
  BY <1>s, <1>1, <1>2, <1>3, <1>4, <1>5, <1>6 DEF IngestNext, Handle

LEMMA VerifiedInvStep ==
  ASSUME IngestInv, VerifiedInv, [IngestNext]_ingestVars
  PROVE  VerifiedInv'
<1> DEFINE Passed(r) == pc[r] \notin {"idle", "read"}
<1>t. RequestsOK
  BY DEF IngestInv
<1>e. \A e \in events' : Verified(e.hook, e.style)
  BY RowsComeVerified
<1>m. ASSUME \A q \in Requests : pc'[q] \notin {"idle", "read"} =>
               \/ Passed(q) /\ hook'[q] = hook[q] /\ seen'[q] = seen[q]
               \/ Verified(hook'[q], seen'[q].style)
      PROVE  VerifiedInv'
  BY <1>m, <1>e DEF VerifiedInv, Verified
<1>f. ASSUME NEW r \in Requests, Free(r) PROVE VerifiedInv'
  BY <1>f, <1>m, <1>t DEF Free, To, RequestsOK
<1>g. ASSUME NEW r \in Requests, NEW st, To(r, st), Passed(r), UNCHANGED <<hook, seen>>
      PROVE  VerifiedInv'
  BY <1>g, <1>m, <1>t DEF To, RequestsOK
<1>1. ASSUME NEW r \in Requests, NEW h \in Hooks, Receive(r, h) PROVE VerifiedInv'
  BY <1>1, <1>m, <1>t DEF Receive, To, RequestsOK
<1>2. ASSUME NEW r \in Requests, Limited(r) \/ Abandon(r) \/ Reply(r) PROVE VerifiedInv'
  BY <1>2, <1>f DEF Limited, Abandon, Reply, Refuse
<1>3. ASSUME NEW r \in Requests, NEW timely \in BOOLEAN, Screen(r, timely) PROVE VerifiedInv'
  <2>1. CASE Refuse(r)
    BY <2>1, <1>f DEF Refuse
  <2>2. CASE Rejections(hook[r], seen[r], timely) = {} /\ To(r, "screened") /\ UNCHANGED <<hook, seen>>
    <3>1. hook[r] \in Hooks /\ seen[r] \in Settings
      BY <1>3, <1>t DEF Screen, RequestsOK
    <3>2. Verified(hook[r], seen[r].style)
      BY <3>1, <2>2, ScreeningVerifies
    <3> QED
      BY <3>2, <2>2, <1>m, <1>t DEF To, RequestsOK
  <2> QED
    BY <1>3, <2>1, <2>2 DEF Screen
<1>4. ASSUME NEW r \in Requests, Lookup(r) PROVE VerifiedInv'
  BY <1>4, <1>g DEF Lookup, Answer
<1>5. ASSUME NEW r \in Requests, Create(r) PROVE VerifiedInv'
  BY <1>5, <1>g DEF Create
<1>6. ASSUME NEW r \in Requests, CreateFailed(r) PROVE VerifiedInv'
  BY <1>6, <1>f, <1>g DEF CreateFailed, Answer, Refuse
<1>7. ASSUME NEW r \in Requests, Enqueue(r) PROVE VerifiedInv'
  BY <1>7, <1>f, <1>g DEF Enqueue, Answer
<1>8. CASE UNCHANGED requestVars
  BY <1>8, <1>m DEF requestVars
<1>9. Operate \/ UNCHANGED ingestVars => UNCHANGED requestVars
  BY DEF Operate, EditSource, SwitchRoute, DeleteDestination, DeleteEvent, DeleteSource,
         ingestVars
<1> QED
  BY <1>1, <1>2, <1>3, <1>4, <1>5, <1>6, <1>7, <1>8, <1>9 DEF IngestNext, Handle

\* computeIdempotencyKey (idempotency.ts:15-19) trusts a provider's id only in that
\* provider's style, and route.ts:103-158 checks the signature before the key is ever
\* used: so a webhook is taken for another on the strength of such an id only if a
\* source in that style verified both.
THEOREM ProviderIdsAreVerified == IngestSpec => []DuplicatesAreVouchedFor
<1>1. IngestInit => VerifiedInv
  BY DEF IngestInit, VerifiedInv
<1>2. IngestInv /\ VerifiedInv /\ [IngestNext]_ingestVars => VerifiedInv'
  BY VerifiedInvStep
<1>3. IngestInv /\ AnswerInv /\ VerifiedInv => DuplicatesAreVouchedFor
  <2> SUFFICES ASSUME IngestInv, AnswerInv, VerifiedInv, NEW r \in Requests, NEW e \in events,
                      pc[r] = "answered", e.id = reply[r].event,
                      ~(Content[hook[r]].header # Null
                          /\ Content[hook[r]].header = Content[e.hook].header),
                      Content[hook[r]].body # Content[e.hook].body
               PROVE  /\ e.style = seen[r].style /\ SameProviderId(hook[r], e.hook, e.style)
                      /\ Verified(hook[r], e.style) /\ Verified(e.hook, e.style)
    BY DEF DuplicatesAreVouchedFor
  <2>1. KeyFor(e.hook, e.style) = KeyFor(hook[r], seen[r].style)
    BY DEF AnswerInv, NamesItsRow, IngestInv, RowsAreKeyed, Key
  <2>2. e.style = seen[r].style /\ SameProviderId(hook[r], e.hook, e.style)
    BY <2>1 DEF KeyFor, SameProviderId
  <2>3. Verified(hook[r], seen[r].style) /\ Verified(e.hook, e.style)
    BY DEF VerifiedInv
  <2> QED
    BY <2>2, <2>3
<1> QED
  BY <1>1, <1>2, <1>3, RowsStayKeyed, AnswersNameTheirRow, PTL DEF IngestSpec

-----------------------------------------------------------------------------
(* Ingest implements WebhookStore.                                           *)

\* Rewriting the targets or the queue of rows does not change what is stored.
LEMMA RewritingStores ==
  ASSUME NEW new, events' = {new[e] : e \in events},
         \A e \in events : new[e].key = e.key /\ new[e].hook = e.hook
  PROVE  stored' = stored
BY DEF stored

\* Marking deliveries as queued is such a rewriting.
LEMMA QueueStores ==
  ASSUME IngestInv, NEW id, NEW ds, Queue(id, ds)
  PROVE  stored' = stored
<1> DEFINE new == [e \in events |-> IF e.id = id THEN [e EXCEPT !.unqueued = @ \ ds] ELSE e]
<1>1. \A e \in events : new[e].key = e.key /\ new[e].hook = e.hook
  BY DEF IngestInv, TablesOK, Rows
<1>2. events' = {new[e] : e \in events}
  BY DEF Queue
<1> HIDE DEF new
<1> QED
  BY <1>1, <1>2, RewritingStores

\* The key of a request is one of the keys of its webhook.
LEMMA KeyIsOfHook ==
  ASSUME IngestInv, NEW r \in Requests, pc[r] # "idle"
  PROVE  hook[r] \in Hooks /\ Key(r) \in KeysOf[hook[r]]
BY DEF IngestInv, RequestsOK, Key, KeysOf

\* Every step of the endpoint is a step of the store, or none.
LEMMA StepImplementsStore ==
  ASSUME IngestInv, AnswerInv, [IngestNext]_ingestVars
  PROVE  [WebhookStore!StoreNext]_<<stored, everStored, acked>>
<1> DEFINE Goal == [WebhookStore!StoreNext]_<<stored, everStored, acked>>
<1>u. ASSUME UNCHANGED <<events, everStored, acked>> PROVE Goal
  BY <1>u DEF stored
<1>f. ASSUME events' \subseteq events, UNCHANGED <<everStored, acked>> PROVE Goal
  <2>1. stored' \in SUBSET stored
    BY <1>f DEF stored
  <2> QED
    BY <2>1, <1>f DEF WebhookStore!StoreNext, WebhookStore!Forget
<1>1. ASSUME NEW r \in Requests, Create(r) PROVE Goal
  <2>1. CASE UNCHANGED <<events, everStored>>
    BY <1>1, <1>u, <2>1 DEF Create
  <2>2. CASE /\ ~Taken(Key(r)) /\ everStored' = everStored \cup {Key(r)}
             /\ events' = events \cup {[id |-> created + 1, key |-> Key(r), hook |-> hook[r],
                                        style |-> seen[r].style, targets |-> plan[r],
                                        unqueued |-> plan[r]]}
    <3>1. hook[r] \in Hooks /\ Key(r) \in KeysOf[hook[r]]
      BY <1>1, KeyIsOfHook DEF Create
    <3>2. stored' = stored \cup {[key |-> Key(r), hook |-> hook[r]]}
      <4> DEFINE row == [id |-> created + 1, key |-> Key(r), hook |-> hook[r],
                         style |-> seen[r].style, targets |-> plan[r], unqueued |-> plan[r]]
      <4>1. row.key = Key(r) /\ row.hook = hook[r] /\ events' = events \cup {row}
        BY <2>2
      <4> HIDE DEF row
      <4> QED
        BY <4>1 DEF stored
    <3>3. \A row \in stored : row.key # Key(r)
      BY <2>2 DEF stored, Taken, WithKey
    <3>4. WebhookStore!Store(hook[r], Key(r))
      BY <1>1, <2>2, <3>1, <3>2, <3>3 DEF Create, WebhookStore!Store
    <3> QED
      BY <3>1, <3>4 DEF WebhookStore!StoreNext
  <2> QED
    BY <1>1, <2>1, <2>2 DEF Create
<1>2. ASSUME NEW r \in Requests, Enqueue(r) PROVE Goal
  <2>1. stored' = stored
    BY <1>2, QueueStores DEF Enqueue
  <2> QED
    BY <1>2, <2>1 DEF Enqueue
<1>3. ASSUME NEW r \in Requests, Reply(r) PROVE Goal
  <2>1. hook[r] \in Hooks /\ Key(r) \in KeysOf[hook[r]]
    BY <1>3, KeyIsOfHook DEF Reply
  <2>2. Key(r) \in everStored
    BY <1>3 DEF Reply, AnswerInv, NamesItsRow
  <2>3. stored' = stored
    BY <1>3 DEF Reply, tableVars, stored
  <2>4. WebhookStore!Acknowledge(hook[r])
    BY <1>3, <2>1, <2>2, <2>3 DEF Reply, tableVars, WebhookStore!Acknowledge
  <2> QED
    BY <2>1, <2>4 DEF WebhookStore!StoreNext
<1>4. ASSUME NEW r \in Requests,
             \/ \E h \in Hooks : Receive(r, h)
             \/ Limited(r) \/ (\E timely \in BOOLEAN : Screen(r, timely))
             \/ Lookup(r) \/ CreateFailed(r) \/ Abandon(r)
      PROVE  Goal
  BY <1>4, <1>u DEF Receive, Limited, Screen, Lookup, CreateFailed, Abandon, Refuse, tableVars
<1>5. ASSUME NEW d \in Destinations, DeleteDestination(d) PROVE Goal
  <2> DEFINE new == [e \in events |-> [e EXCEPT !.targets = @ \ {d}, !.unqueued = @ \ {d}]]
  <2>1. \A e \in events : new[e].key = e.key /\ new[e].hook = e.hook
    BY DEF IngestInv, TablesOK, Rows
  <2>2. events' = {new[e] : e \in events}
    BY <1>5 DEF DeleteDestination
  <2> HIDE DEF new
  <2>3. stored' = stored
    BY <2>1, <2>2, RewritingStores
  <2> QED
    BY <1>5, <2>3 DEF DeleteDestination
<1>6. ASSUME (\E e \in events : DeleteEvent(e)) \/ DeleteSource PROVE Goal
  BY <1>6, <1>f DEF DeleteEvent, DeleteSource
<1>7. ASSUME (\E set \in Settings : EditSource(set)) \/ \E d \in Destinations : SwitchRoute(d)
      PROVE  Goal
  BY <1>7, <1>u DEF EditSource, SwitchRoute
<1>8. CASE UNCHANGED ingestVars
  BY <1>8, <1>u DEF ingestVars, tableVars
<1> QED
  BY <1>1, <1>2, <1>3, <1>4, <1>5, <1>6, <1>7, <1>8 DEF IngestNext, Handle, Operate

\* The requests, their races, failures and repetitions implement a store of one
\* webhook per key (route.ts:214, the unique index and the answers around it).
THEOREM ImplementsWebhookStore == IngestSpec => ImplementsStore
<1>1. IngestInit => WebhookStore!StoreInit
  BY DEF IngestInit, WebhookStore!StoreInit, stored
<1>2. IngestInv /\ AnswerInv /\ [IngestNext]_ingestVars =>
        [WebhookStore!StoreNext]_<<stored, everStored, acked>>
  BY StepImplementsStore
<1> QED
  BY <1>1, <1>2, RowsStayKeyed, AnswersNameTheirRow, PTL
     DEF IngestSpec, ImplementsStore, WebhookStore!StoreSpec, WebhookStore!storeVars

\* What the store promises, the endpoint keeps: a webhook whose provider has seen a
\* 2xx was in the table under one of its keys.
THEOREM AcknowledgedWasStored == IngestSpec => []WebhookStore!AcknowledgedWasHeld
<1>1. WebhookStore!StoreInit => WebhookStore!AcknowledgedWasHeld
  BY DEF WebhookStore!StoreInit, WebhookStore!AcknowledgedWasHeld
<1>2. WebhookStore!AcknowledgedWasHeld /\ [WebhookStore!StoreNext]_<<stored, everStored, acked>>
        => WebhookStore!AcknowledgedWasHeld'
  BY DEF WebhookStore!AcknowledgedWasHeld, WebhookStore!StoreNext, WebhookStore!Store,
         WebhookStore!Acknowledge, WebhookStore!Forget
<1> QED
  BY <1>1, <1>2, ImplementsWebhookStore, PTL
     DEF ImplementsStore, WebhookStore!StoreSpec, WebhookStore!storeVars

-----------------------------------------------------------------------------
(* When the key is as stable as the comment says.                            *)

\* Until the first edit every row, and every copy of the settings that can still
\* lead to one, has the style the source has.
StyleInv ==
  /\ edits \in Nat
  /\ edits = 0 => /\ \A e \in events : source # Null /\ e.style = source.style
                  /\ \A r \in Requests : pc[r] # "idle" /\ source # Null => seen[r] = source

LEMMA StyleInvStep ==
  ASSUME IngestInv, StyleInv, [IngestNext]_ingestVars
  PROVE  StyleInv'
<1>t. /\ pc \in [Requests -> {"idle", "read", "screened", "new", "P2002", "P2003", "created",
                              "answered"}]
      /\ seen \in [Requests -> Settings \cup {Null}]
  BY DEF IngestInv, RequestsOK
<1>r. ASSUME NEW new, events' = {new[e] : e \in events}, UNCHANGED <<source, requestVars, edits>>,
             \A e \in events : new[e].style = e.style
      PROVE  StyleInv'
  BY <1>r DEF StyleInv, requestVars
<1>q. ASSUME NEW r \in Requests, NEW id, NEW ds, Queue(id, ds), UNCHANGED <<source, edits>>,
             \A q \in Requests : pc'[q] # "idle" => pc[q] # "idle" /\ seen'[q] = seen[q]
      PROVE  StyleInv'
  <2>1. \A e \in events' : \E f \in events : e.style = f.style
    BY <1>q DEF Queue, IngestInv, TablesOK, Rows
  <2> QED
    BY <1>q, <2>1 DEF StyleInv
<1>s. ASSUME events' \subseteq events, UNCHANGED <<source, edits>>,
             \A q \in Requests : pc'[q] # "idle" => pc[q] # "idle" /\ seen'[q] = seen[q]
      PROVE  StyleInv'
  BY <1>s DEF StyleInv
<1>f. ASSUME NEW r \in Requests, Free(r), UNCHANGED <<events, source, edits>> PROVE StyleInv'
  BY <1>f, <1>s, <1>t DEF Free, To
<1>g. ASSUME NEW r \in Requests, NEW st, To(r, st), pc[r] # "idle",
             UNCHANGED <<events, source, edits, seen>>
      PROVE  StyleInv'
  BY <1>g, <1>s, <1>t DEF To
<1>1. ASSUME NEW r \in Requests, NEW h \in Hooks, Receive(r, h) PROVE StyleInv'
  BY <1>1, <1>t DEF Receive, To, tableVars, budgets, StyleInv
<1>2. ASSUME NEW r \in Requests, Limited(r) \/ Abandon(r) \/ Reply(r) PROVE StyleInv'
  BY <1>2, <1>f DEF Limited, Abandon, Reply, Refuse, tableVars, budgets
<1>3. ASSUME NEW r \in Requests, NEW timely \in BOOLEAN, Screen(r, timely) PROVE StyleInv'
  BY <1>3, <1>f, <1>g DEF Screen, Refuse, tableVars, budgets
<1>4. ASSUME NEW r \in Requests, Lookup(r) PROVE StyleInv'
  BY <1>4, <1>g DEF Lookup, Answer, tableVars, budgets
<1>5. ASSUME NEW r \in Requests, Create(r) PROVE StyleInv'
  <2>1. CASE UNCHANGED events
    BY <1>5, <2>1, <1>g DEF Create, budgets
  <2>2. CASE /\ source # Null /\ To(r, "created")
             /\ events' = events \cup {[id |-> created + 1, key |-> Key(r), hook |-> hook[r],
                                        style |-> seen[r].style, targets |-> plan[r],
                                        unqueued |-> plan[r]]}
    <3>1. edits = 0 => seen[r] = source
      BY <1>5, <2>2 DEF Create, StyleInv
    <3>2. \A e \in events' : e \in events \/ e.style = seen[r].style
      BY <2>2
    <3>3. \A q \in Requests : pc'[q] # "idle" => pc[q] # "idle"
      BY <1>5, <1>t, <2>2 DEF Create, To
    <3> QED
      BY <1>5, <2>2, <3>1, <3>2, <3>3 DEF Create, budgets, StyleInv
  <2> QED
    BY <1>5, <2>1, <2>2 DEF Create, Referenced
<1>6. ASSUME NEW r \in Requests, CreateFailed(r) PROVE StyleInv'
  BY <1>6, <1>f, <1>g DEF CreateFailed, Answer, Refuse, tableVars, budgets
<1>7. ASSUME NEW r \in Requests, Enqueue(r) PROVE StyleInv'
  <2>1. \A q \in Requests : pc'[q] # "idle" => pc[q] # "idle" /\ seen'[q] = seen[q]
    BY <1>7, <1>t DEF Enqueue, Answer, Free, To
  <2> QED
    BY <1>7, <1>q, <2>1 DEF Enqueue
<1>8. ASSUME NEW d \in Destinations, DeleteDestination(d) PROVE StyleInv'
  <2> DEFINE new == [e \in events |-> [e EXCEPT !.targets = @ \ {d}, !.unqueued = @ \ {d}]]
  <2>1. \A e \in events : new[e].style = e.style
    BY DEF IngestInv, TablesOK, Rows
  <2>2. events' = {new[e] : e \in events} /\ UNCHANGED <<source, requestVars, edits>>
    BY <1>8 DEF DeleteDestination
  <2> HIDE DEF new
  <2> QED
    BY <2>1, <2>2, <1>r
<1>9. ASSUME (\E e \in events : DeleteEvent(e)) \/ DeleteSource PROVE StyleInv'
  BY <1>9 DEF DeleteEvent, DeleteSource, StyleInv, requestVars
<1>10. ASSUME (\E set \in Settings : EditSource(set)) \/ \E d \in Destinations : SwitchRoute(d)
       PROVE  StyleInv'
  BY <1>10 DEF EditSource, SwitchRoute, StyleInv
<1>11. CASE UNCHANGED ingestVars
  BY <1>11 DEF ingestVars, tableVars, requestVars, budgets, StyleInv
<1> QED
  BY <1>1, <1>2, <1>3, <1>4, <1>5, <1>6, <1>7, <1>8, <1>9, <1>10, <1>11
     DEF IngestNext, Handle, Operate

\* idempotency.ts:4 is right as long as nobody edits the source: then a webhook has
\* one event at most, however often and however concurrently it is sent.
THEOREM UneditedSourceStoresOnce == IngestSpec => [](edits = 0 => HookStoredOnce)
<1>1. IngestInit => StyleInv
  BY DEF IngestInit, StyleInv
<1>2. IngestInv /\ StyleInv /\ [IngestNext]_ingestVars => StyleInv'
  BY StyleInvStep
<1>3. IngestInv /\ StyleInv => (edits = 0 => HookStoredOnce)
  <2> SUFFICES ASSUME IngestInv, StyleInv, edits = 0, NEW e \in events, NEW f \in events,
                      e.hook = f.hook
               PROVE  e = f
    BY DEF HookStoredOnce
  <2>1. e.key = f.key
    BY DEF IngestInv, RowsAreKeyed, StyleInv
  <2> QED
    BY <2>1 DEF IngestInv, RowsAreKeyed
<1> QED
  BY <1>1, <1>2, <1>3, RowsStayKeyed, PTL DEF IngestSpec
=============================================================================
