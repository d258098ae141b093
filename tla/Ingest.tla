-------------------------------- MODULE Ingest --------------------------------
(***************************************************************************)
(* The ingest endpoint of one source (app/api/ingest/[slug]/route.ts):     *)
(* providers send webhooks and send them again until a 2xx arrives, while  *)
(* the operator edits the source, routes change and events are deleted.    *)
(* A request reads the source once and works on that copy.                 *)
(***************************************************************************)
EXTENDS Integers, FiniteSets

CONSTANTS
  Hooks,          \* the webhooks providers have to deliver
  Content,        \* of each: its [header, stripe, github, body] identity, signedBy, large
  Requests,       \* request slots
  Destinations,
  Settings,       \* the [style, secret] pairs the operator may store
  Opens,          \* secrets that decrypt
  MaxEdits, MaxDeletes, MaxFaults, MaxEvents,   \* bounds
  Null

\* The Stripe id is parsed from the body, and the size is the body's.
ASSUME IngestAssumption ==
  /\ MaxEdits \in Nat /\ MaxDeletes \in Nat /\ MaxFaults \in Nat /\ MaxEvents \in Nat
  /\ Null \notin Settings /\ Null \notin Hooks
  /\ \A g, h \in Hooks : Content[g].body = Content[h].body =>
       Content[g].stripe = Content[h].stripe /\ Content[g].large = Content[h].large

VARIABLES
  source,       \* its settings, or Null once deleted
  routed,       \* destinations with an enabled route, themselves enabled
  existing,     \* destinations that still exist
  events,       \* rows of Event: [id, key, hook, style, targets, unqueued]
  created,      \* rows ever inserted
  pc, hook,     \* of each request: where it is and what it carries,
  seen, plan,   \* the settings and targets it read,
  reply,        \* and the 2xx it answers: status and the event named
  acked,        \* hooks whose provider has seen a 2xx
  edits, deletes, faults,
  everStored    \* history: keys ever inserted

tableVars   == <<source, routed, existing, events, created, everStored>>
requestVars == <<pc, hook, seen, plan, reply>>
budgets     == <<edits, deletes, faults>>
ingestVars  == <<tableVars, requestVars, acked, budgets>>

NoReply == [status |-> 0, event |-> 0]

IngestInit ==
  /\ source \in Settings /\ routed = Destinations /\ existing = Destinations
  /\ events = {} /\ created = 0 /\ everStored = {}
  /\ pc = [r \in Requests |-> "idle"] /\ hook = [r \in Requests |-> Null]
  /\ seen = [r \in Requests |-> Null] /\ plan = [r \in Requests |-> {}]
  /\ reply = [r \in Requests |-> NoReply]
  /\ acked = {} /\ edits = 0 /\ deletes = 0 /\ faults = 0

Fault == faults < MaxFaults /\ faults' = faults + 1

-----------------------------------------------------------------------------
(* What the handler computes.                                               *)

\* Mutant of KeyFor: the Stripe id is trusted whatever the style.
KeyForUngated(h, style) ==
  LET c == Content[h]
  IN IF c.header # Null THEN <<"hdr", c.header>>
     ELSE IF c.stripe # Null THEN <<"stripe", c.stripe>>
     ELSE IF style = "github" /\ c.github # Null THEN <<"gh", c.github>>
     ELSE <<"body", c.body>>

\* computeIdempotencyKey: the first identity that the style lets it trust.
KeyFor(h, style) ==
  LET c == Content[h]
  IN IF c.header # Null THEN <<"hdr", c.header>>
     ELSE IF style = "stripe" /\ c.stripe # Null THEN <<"stripe", c.stripe>>
     ELSE IF style = "github" /\ c.github # Null THEN <<"gh", c.github>>
     ELSE <<"body", c.body>>

\* verifySignature, with a Stripe timestamp in or out of tolerance.
Signed(h, set, timely) ==
  /\ Content[h].signedBy = set.secret
  /\ set.style = "stripe" => timely

\* The status codes the checks after the rate limit may answer; none: it passes.
Rejections(h, set, timely) ==
  IF Content[h].large THEN {413}
  ELSE IF set.style # Null /\ set.secret = Null THEN {503}
  ELSE IF set.style = Null THEN {}
  ELSE IF set.secret \notin Opens THEN {500}
  ELSE IF ~Signed(h, set, timely) THEN {401} ELSE {}

WithKey(k) == {e \in events : e.key = k}

\* Mutant of Taken: the index is missing.
TakenNever(k) == FALSE

\* The unique index on (sourceId, idempotencyKey).
Taken(k) == WithKey(k) # {}

-----------------------------------------------------------------------------
(* A request.                                                               *)

To(r, s) == pc' = [pc EXCEPT ![r] = s]

Answer(r, status, id) ==
  /\ To(r, "answered")
  /\ reply' = [reply EXCEPT ![r] = [status |-> status, event |-> id]]

Free(r) ==
  /\ To(r, "idle") /\ hook' = [hook EXCEPT ![r] = Null] /\ seen' = [seen EXCEPT ![r] = Null]
  /\ plan' = [plan EXCEPT ![r] = {}] /\ reply' = [reply EXCEPT ![r] = NoReply]

\* Any answer but a 2xx: the provider will send the hook again.
Refuse(r) == Free(r) /\ UNCHANGED <<tableVars, acked, budgets>>

\* The provider sends a hook it has no 2xx for; the source and the routes to
\* enabled destinations are read. (404 if the source is gone: nothing changes.)
Receive(r, h) ==
  /\ pc[r] = "idle" /\ h \notin acked /\ source # Null
  /\ hook' = [hook EXCEPT ![r] = h] /\ To(r, "read")
  /\ seen' = [seen EXCEPT ![r] = source] /\ plan' = [plan EXCEPT ![r] = routed]
  /\ UNCHANGED <<tableVars, reply, acked, budgets>>

\* The rate limiter refuses (429).
Limited(r) == pc[r] = "read" /\ Refuse(r)

\* It grants, or fails open; then size, secret and signature.
Screen(r, timely) ==
  /\ pc[r] = "read"
  /\ IF Rejections(hook[r], seen[r], timely) # {} THEN Refuse(r)
     ELSE To(r, "screened") /\ UNCHANGED <<tableVars, hook, seen, plan, reply, acked, budgets>>

Key(r) == KeyFor(hook[r], seen[r].style)

\* Mutant of Lookup: a duplicate is refused.
LookupRefusing(r) ==
  /\ pc[r] = "screened"
  /\ IF Taken(Key(r)) THEN Refuse(r)
     ELSE To(r, "new") /\ UNCHANGED <<tableVars, hook, seen, plan, reply, acked, budgets>>

\* The prior event of this key, if any, is the answer.
Lookup(r) ==
  /\ pc[r] = "screened"
  /\ IF Taken(Key(r)) THEN \E e \in WithKey(Key(r)) : Answer(r, 200, e.id)
     ELSE To(r, "new") /\ UNCHANGED reply
  /\ UNCHANGED <<tableVars, hook, seen, plan, acked, budgets>>

Referenced(r) == source # Null /\ plan[r] \subseteq existing

\* The event and a pending delivery per target of the copy, in one statement: the
\* index and the foreign keys (source, destinations) may refuse it.
Create(r) ==
  /\ pc[r] = "new"
  /\ IF Taken(Key(r)) THEN To(r, "P2002") /\ UNCHANGED <<events, created, everStored, reply>>
     ELSE IF ~Referenced(r)
          THEN To(r, "P2003") /\ UNCHANGED <<events, created, everStored, reply>>
     ELSE /\ created < MaxEvents /\ created' = created + 1
          /\ events' = events \cup {[id |-> created + 1, key |-> Key(r), hook |-> hook[r],
                                     style |-> seen[r].style, targets |-> plan[r],
                                     unqueued |-> plan[r]]}
          /\ everStored' = everStored \cup {Key(r)}
          /\ To(r, "created")
          /\ reply' = [reply EXCEPT ![r].event = created + 1]
  /\ UNCHANGED <<source, routed, existing, hook, seen, plan, acked, budgets>>

\* The loser of a race answers with the winner's event; any other error, and a
\* winner deleted meanwhile, is rethrown.
CreateFailed(r) ==
  /\ pc[r] \in {"P2002", "P2003"}
  /\ IF pc[r] = "P2002" /\ Taken(Key(r))
     THEN /\ \E e \in WithKey(Key(r)) : Answer(r, 200, e.id)
          /\ UNCHANGED <<tableVars, hook, seen, plan, acked, budgets>>
     ELSE Refuse(r)

Queue(id, ds) ==
  events' = {IF e.id = id THEN [e EXCEPT !.unqueued = @ \ ds] ELSE e : e \in events}

\* Mutant of Enqueue: an add that rejects is not noticed.
EnqueueUnawaited(r) ==
  /\ pc[r] = "created"
  /\ \/ Queue(reply[r].event, plan[r]) /\ UNCHANGED faults
     \/ Fault /\ UNCHANGED events
  /\ Answer(r, 202, reply[r].event)
  /\ UNCHANGED <<source, routed, existing, created, everStored, hook, seen, plan, acked, edits, deletes>>

\* One job per delivery, all awaited. If an add rejects, the others may be in the
\* queue already and the request fails although the event is stored.
Enqueue(r) ==
  /\ pc[r] = "created"
  /\ \/ /\ Queue(reply[r].event, plan[r]) /\ Answer(r, 202, reply[r].event)
        /\ UNCHANGED <<hook, seen, plan, faults>>
     \/ /\ Fault
        /\ \E ds \in SUBSET plan[r] : ds # plan[r] /\ Queue(reply[r].event, ds)
        /\ Free(r)
  /\ UNCHANGED <<source, routed, existing, created, everStored, acked, edits, deletes>>

\* The provider sees the 2xx.
Reply(r) ==
  /\ pc[r] = "answered"
  /\ acked' = acked \cup {hook[r]}
  /\ Free(r)
  /\ UNCHANGED <<tableVars, budgets>>

\* The server dies, or the answer is lost.
Abandon(r) == pc[r] # "idle" /\ Fault /\ Free(r) /\ UNCHANGED <<tableVars, acked, edits, deletes>>

-----------------------------------------------------------------------------
(* Meanwhile.                                                               *)

\* The operator stores other settings.
EditSource(set) ==
  /\ source # Null /\ source # set /\ edits < MaxEdits /\ edits' = edits + 1
  /\ source' = set
  /\ UNCHANGED <<routed, existing, events, created, everStored, requestVars, acked, deletes, faults>>

\* A route or a destination is switched, on or off.
SwitchRoute(d) ==
  /\ d \in existing /\ edits < MaxEdits /\ edits' = edits + 1
  /\ routed' = IF d \in routed THEN routed \ {d} ELSE routed \cup {d}
  /\ UNCHANGED <<source, existing, events, created, everStored, requestVars, acked, deletes, faults>>

Delete == deletes < MaxDeletes /\ deletes' = deletes + 1

\* A destination goes, with its routes and deliveries.
DeleteDestination(d) ==
  /\ d \in existing /\ Delete
  /\ existing' = existing \ {d} /\ routed' = routed \ {d}
  /\ events' = {[e EXCEPT !.targets = @ \ {d}, !.unqueued = @ \ {d}] : e \in events}
  /\ UNCHANGED <<source, created, everStored, requestVars, acked, edits, faults>>

\* Retention or the operator deletes an event; the source goes with its events.
DeleteEvent(e) ==
  /\ Delete /\ events' = events \ {e}
  /\ UNCHANGED <<source, routed, existing, created, everStored, requestVars, acked, edits, faults>>

DeleteSource ==
  /\ source # Null /\ Delete /\ source' = Null /\ events' = {} /\ routed' = {}
  /\ UNCHANGED <<existing, created, everStored, requestVars, acked, edits, faults>>

Handle(r) == \/ \E timely \in BOOLEAN : Screen(r, timely)
             \/ Lookup(r) \/ Create(r) \/ CreateFailed(r) \/ Enqueue(r) \/ Reply(r)

Operate == \/ \E set \in Settings : EditSource(set)
           \/ \E d \in Destinations : SwitchRoute(d) \/ DeleteDestination(d)
           \/ \E e \in events : DeleteEvent(e)
           \/ DeleteSource

IngestNext ==
  \/ \E r \in Requests : (\E h \in Hooks : Receive(r, h)) \/ Limited(r) \/ Handle(r) \/ Abandon(r)
  \/ Operate

IngestSpec == IngestInit /\ [][IngestNext]_ingestVars

\* Providers send again, handlers run on, and the bucket refills: a request that
\* is made again and again is granted again and again, in time and fresh.
IngestFairSpec ==
  /\ IngestSpec
  /\ \A h \in Hooks : SF_ingestVars(\E r \in Requests : Receive(r, h))
  /\ \A r \in Requests, h \in Hooks : SF_ingestVars(hook[r] = h /\ Screen(r, TRUE))
  /\ \A r \in Requests : WF_ingestVars(Handle(r))

-----------------------------------------------------------------------------
(* Properties.                                                              *)

\* However requests race, a webhook has two events only if the source verified
\* it in two styles: a retry under the same style finds the first event.
OneEventPerHook ==
  \A e, f \in events : e.hook = f.hook /\ e.style = f.style => e = f

\* The row an answer names, unless it was deleted since, has the request's key; after
\* a 202 it is the request's own webhook, with a job for each of its deliveries. And
\* no webhook is answered whose key the database never held.
AnswersAreTrue ==
  \A r \in Requests : pc[r] = "answered" =>
    /\ Key(r) \in everStored
    /\ \A e \in events : e.id = reply[r].event =>
         /\ e.key = Key(r)
         /\ reply[r].status = 202 => e.hook = hook[r] /\ e.unqueued = {}

\* A source set to this style has checked the signature of hook h.
Verified(h, style) ==
  style # Null => \E set \in Settings : set.style = style /\ Content[h].signedBy = set.secret

SameProviderId(g, h, style) ==
  \/ style = "stripe" /\ Content[g].stripe # Null /\ Content[g].stripe = Content[h].stripe
  \/ style = "github" /\ Content[g].github # Null /\ Content[g].github = Content[h].github

\* A webhook is taken for another one only if the callers gave both the same header, or
\* both have the same body, or the same id of a provider whose style both were verified
\* in: no webhook with a made-up provider id stands in the way of a genuine one.
DuplicatesAreVouchedFor ==
  \A r \in Requests, e \in events :
    pc[r] = "answered" /\ e.id = reply[r].event /\ e.hook # hook[r] =>
      LET g == hook[r]
          h == e.hook
      IN \/ Content[g].header # Null /\ Content[g].header = Content[h].header
         \/ Content[g].body = Content[h].body
         \/ /\ e.style = seen[r].style /\ SameProviderId(g, h, e.style)
            /\ Verified(g, e.style) /\ Verified(h, e.style)

-----------------------------------------------------------------------------
(* Refinement.                                                              *)

KeysOf == [h \in Hooks |-> {KeyFor(h, set.style) : set \in Settings}]

stored == {[key |-> e.key, hook |-> e.hook] : e \in events}

WebhookStore == INSTANCE WebhookStore WITH
  Hooks <- Hooks, KeysOf <- KeysOf, stored <- stored, held <- everStored, acked <- acked

\* However requests race, fail half-way and are sent again, and whatever is edited
\* or deleted meanwhile, the endpoint is a store that holds one webhook per key and
\* acknowledges none before it has held one of its key.
ImplementsStore == WebhookStore!StoreSpec

-----------------------------------------------------------------------------
(* Liveness.                                                                *)

Acceptable(h) == source # Null /\ Rejections(h, source, TRUE) = {}

\* A webhook that the source can verify from some point on is acknowledged,
\* whatever failed or raced before.
HooksGetThrough == \A h \in Hooks : <>[]Acceptable(h) => <>(h \in acked)

-----------------------------------------------------------------------------
(* What the comments say and the code does not do.                          *)

\* idempotency.ts calls the key stable, so that a re-send reuses the prior row:
\* a webhook never has two events; but a source that changes its style changes
\* the keys.
HookStoredOnce == \A e, f \in events : e.hook = f.hook => e = f
=============================================================================
