----------------------------- MODULE LiveStream -----------------------------
(***************************************************************************)
(* The live event stream: the ingest handler commits an event and          *)
(* publishes it on the Redis channel of its source; GET /api/v1/listen     *)
(* subscribes to the channel, sends what the client missed since its       *)
(* Last-Event-ID, then the messages buffered meanwhile, and then every     *)
(* further message; `ody listen` reads the stream, forwards each event and *)
(* connects again when the stream ends or breaks.                          *)
(*                                                                         *)
(* One source, one user, one client. Events are numbered in the order of   *)
(* receivedAt, which is not the order in which they are committed or       *)
(* published.                                                              *)
(***************************************************************************)
EXTENDS Integers, Sequences, FiniteSets, SequencesExt

CONSTANTS
  Events,       \* natural numbers, in the order of receivedAt
  Streams,      \* requests of the client to /listen
  MaxStreams,   \* maxStreamsPerUser()
  FaultKinds,   \* which of "publish", "delete", "break", "start" may happen
  MaxFaults,    \* bound: how many of them
  None          \* no stream, no event id

ASSUME LiveStreamAssumption ==
  /\ Events \subseteq Nat /\ IsFiniteSet(Events)
  /\ IsFiniteSet(Streams)
  /\ MaxStreams \in Nat \ {0}
  /\ MaxFaults \in Nat
  /\ None \notin Streams /\ None \notin Nat

VARIABLES
  \* the Event table and the ingest handlers
  table, handler,
  \* each /listen request
  phase, lastEventId, resumed, snapshot, inbox, buffer, sent, released,
  slots,                      \* the entry of `counts` for the user
  \* `ody listen`
  conn, resumeFrom, lastSeen, taken, forwarded,
  \* what happened so far
  overlapped,                 \* an event overtook an earlier one
  faults

ingestVars == <<table, handler, overlapped>>
streamVars == <<phase, lastEventId, resumed, snapshot, inbox, buffer, sent, released, slots>>
clientVars == <<conn, resumeFrom, lastSeen, taken, forwarded>>
liveVars   == <<ingestVars, streamVars, clientVars, faults>>

Phases == {"free", "subscribe", "marker", "query", "flush", "live", "closed", "failed"}
Subscribed(s) == phase[s] \in {"marker", "query", "flush", "live"}

IngestTypes ==
  /\ table \in SUBSET Events
  /\ handler \in [Events -> {"new", "committed", "published", "silent"}]
  /\ overlapped \in BOOLEAN

StreamTypes ==
  /\ phase \in [Streams -> Phases]
  /\ lastEventId \in [Streams -> Events \cup {None}]
  /\ resumed \in [Streams -> BOOLEAN]
  /\ snapshot \in [Streams -> Seq(Events)]
  /\ inbox \in [Streams -> Seq(Events)]
  /\ buffer \in [Streams -> Seq(Events)]
  /\ sent \in [Streams -> Seq(Events)]
  /\ released \in [Streams -> BOOLEAN]
  /\ slots \in Nat

ClientTypes ==
  /\ conn \in Streams \cup {None}
  /\ conn # None => Subscribed(conn) \/ phase[conn] = "subscribe"
  /\ resumeFrom \in Events \cup {None}
  /\ lastSeen \in Events \cup {None}
  /\ taken \in Nat
  /\ forwarded \in SUBSET Events

LiveTypeOK == IngestTypes /\ StreamTypes /\ ClientTypes /\ faults \in 0..MaxFaults

LiveInit ==
  /\ table = {}
  /\ handler = [e \in Events |-> "new"]
  /\ phase = [s \in Streams |-> "free"]
  /\ lastEventId = [s \in Streams |-> None]
  /\ resumed = [s \in Streams |-> FALSE]
  /\ snapshot = [s \in Streams |-> <<>>]
  /\ inbox = [s \in Streams |-> <<>>]
  /\ buffer = [s \in Streams |-> <<>>]
  /\ sent = [s \in Streams |-> <<>>]
  /\ released = [s \in Streams |-> FALSE]
  /\ slots = 0
  /\ conn = None /\ resumeFrom = None /\ lastSeen = None
  /\ taken = 0 /\ forwarded = {}
  /\ overlapped = FALSE /\ faults = 0

Fault(kind) ==
  /\ kind \in FaultKinds
  /\ faults < MaxFaults
  /\ faults' = faults + 1

-----------------------------------------------------------------------------
(* Ingest, and retention.                                                   *)

\* An event overtakes when it is committed before one with an earlier
\* receivedAt, or while an earlier one has yet to be published.
Commit(e) ==
  /\ handler[e] = "new"
  /\ handler' = [handler EXCEPT ![e] = "committed"]
  /\ table' = table \cup {e}
  /\ overlapped' = (overlapped \/ \E f \in Events : handler[f] = "committed" \/
                                                    (f > e /\ handler[f] # "new"))
  /\ UNCHANGED <<streamVars, clientVars, faults>>

\* publishEvent is not awaited and reaches whoever is subscribed now.
Publish(e) ==
  /\ handler[e] = "committed"
  /\ handler' = [handler EXCEPT ![e] = "published"]
  /\ inbox' = [s \in Streams |-> IF Subscribed(s) THEN Append(inbox[s], e) ELSE inbox[s]]
  /\ UNCHANGED <<table, overlapped, phase, lastEventId, resumed, snapshot, buffer, sent,
                 released, slots, clientVars, faults>>

\* publishEvent swallows its error, or the enqueue before it threw.
PublishFails(e) ==
  /\ handler[e] = "committed"
  /\ Fault("publish")
  /\ handler' = [handler EXCEPT ![e] = "silent"]
  /\ UNCHANGED <<table, overlapped, streamVars, clientVars>>

DeleteEvent(e) ==
  /\ e \in table
  /\ Fault("delete")
  /\ table' = table \ {e}
  /\ UNCHANGED <<handler, overlapped, streamVars, clientVars>>

-----------------------------------------------------------------------------
(* GET /api/v1/listen.                                                      *)

Goto(s, p) == phase' = [phase EXCEPT ![s] = p]

\* The client connects; the handler acquires a slot before anything else.
Connect(s) ==
  /\ conn = None
  /\ phase[s] = "free"
  /\ slots < MaxStreams
  /\ slots' = slots + 1
  /\ released' = [released EXCEPT ![s] = FALSE]
  /\ lastEventId' = [lastEventId EXCEPT ![s] = resumeFrom]
  /\ Goto(s, "subscribe")
  /\ conn' = s
  /\ lastSeen' = None
  /\ taken' = 0
  /\ UNCHANGED <<ingestVars, resumed, snapshot, inbox, buffer, sent, resumeFrom, forwarded, faults>>

\* 429: the client waits and tries again.
Refuse ==
  /\ conn = None
  /\ slots >= MaxStreams
  /\ UNCHANGED liveVars

Subscribe(s) ==
  /\ phase[s] = "subscribe"
  /\ Goto(s, "marker")
  /\ UNCHANGED <<ingestVars, lastEventId, resumed, snapshot, inbox, buffer, sent, released,
                 slots, clientVars, faults>>

\* No id, or an id that is no longer in the table: no backfill.
FindMarker(s) ==
  /\ phase[s] = "marker"
  /\ resumed' = [resumed EXCEPT ![s] = lastEventId[s] \in table]
  /\ Goto(s, IF lastEventId[s] \in table THEN "query" ELSE "flush")
  /\ UNCHANGED <<ingestVars, lastEventId, snapshot, inbox, buffer, sent, released,
                 slots, clientVars, faults>>

Missed(s) == {e \in table : e > lastEventId[s]}

\* q lists S in ascending order: ORDER BY receivedAt ASC.
Enumerates(q, S) ==
  /\ ToSet(q) = S
  /\ \A i, j \in DOMAIN q : i < j => q[i] < q[j]

RunQuery(s) ==
  /\ phase[s] = "query"
  /\ \E q \in [1..Cardinality(Missed(s)) -> Missed(s)] :
       /\ Enumerates(q, Missed(s))
       /\ snapshot' = [snapshot EXCEPT ![s] = q]
  /\ Goto(s, "flush")
  /\ UNCHANGED <<ingestVars, lastEventId, resumed, inbox, buffer, sent, released, slots,
                 clientVars, faults>>

\* Mutant of Unsent: the whole buffer is sent.
UnsentAll(s) == DOMAIN buffer[s]

\* Which buffered messages the backfill has not sent, by their index.
Unsent(s) == {i \in DOMAIN buffer[s] : buffer[s][i] \notin ToSet(snapshot[s])}

\* The continuation after the last query, without an await: backfill, flush, live.
GoLive(s) ==
  /\ phase[s] = "flush"
  /\ \E h \in [1..Cardinality(Unsent(s)) -> Unsent(s)] :
       /\ Enumerates(h, Unsent(s))
       /\ sent' = [sent EXCEPT ![s] = snapshot[s] \o [i \in DOMAIN h |-> buffer[s][h[i]]]]
  /\ buffer' = [buffer EXCEPT ![s] = <<>>]
  /\ Goto(s, "live")
  /\ UNCHANGED <<ingestVars, lastEventId, resumed, snapshot, inbox, released, slots,
                 clientVars, faults>>

\* Mutant of Receive: messages that arrive during the backfill are dropped.
ReceiveUnbuffered(s) ==
  /\ Subscribed(s)
  /\ inbox[s] # <<>>
  /\ inbox' = [inbox EXCEPT ![s] = Tail(@)]
  /\ sent' = [sent EXCEPT ![s] = IF phase[s] = "live" THEN Append(@, Head(inbox[s])) ELSE @]
  /\ UNCHANGED <<ingestVars, phase, lastEventId, resumed, snapshot, buffer, released, slots,
                 clientVars, faults>>

\* sub.on("message"), between two awaits of the handler.
Receive(s) ==
  /\ Subscribed(s)
  /\ inbox[s] # <<>>
  /\ inbox' = [inbox EXCEPT ![s] = Tail(@)]
  /\ IF phase[s] = "live"
       THEN /\ sent' = [sent EXCEPT ![s] = Append(@, Head(inbox[s]))]
            /\ UNCHANGED buffer
       ELSE /\ buffer' = [buffer EXCEPT ![s] = Append(@, Head(inbox[s]))]
            /\ UNCHANGED sent
  /\ UNCHANGED <<ingestVars, phase, lastEventId, resumed, snapshot, released, slots,
                 clientVars, faults>>

\* Mutant of Release: every call of cleanup releases.
ReleaseAlways(s) ==
  /\ slots' = IF slots > 1 THEN slots - 1 ELSE 0
  /\ released' = [released EXCEPT ![s] = TRUE]

Release(s) ==
  /\ slots' = IF released[s] THEN slots ELSE IF slots > 1 THEN slots - 1 ELSE 0
  /\ released' = [released EXCEPT ![s] = TRUE]

\* Mutant of Cleanup: only a failing send calls it.
CleanupOnSend(s) ==
  /\ conn # s
  /\ phase[s] = "live"
  /\ inbox[s] # <<>>
  /\ Release(s)
  /\ Goto(s, "closed")
  /\ inbox' = [inbox EXCEPT ![s] = <<>>]
  /\ UNCHANGED <<ingestVars, lastEventId, resumed, snapshot, buffer, sent, clientVars, faults>>

\* cleanup, called by the abort listener, by cancel() and by a failing send: the
\* client is gone. It may be called again before the request is forgotten.
Cleanup(s) ==
  /\ conn # s
  /\ Subscribed(s) \/ phase[s] \in {"subscribe", "closed"}
  /\ Release(s)
  /\ Goto(s, "closed")
  /\ inbox' = [inbox EXCEPT ![s] = <<>>]
  /\ UNCHANGED <<ingestVars, lastEventId, resumed, snapshot, buffer, sent, clientVars, faults>>

Forget(s) ==
  /\ phase[s] = "closed"
  /\ Goto(s, "free")
  /\ lastEventId' = [lastEventId EXCEPT ![s] = None]
  /\ resumed' = [resumed EXCEPT ![s] = FALSE]
  /\ snapshot' = [snapshot EXCEPT ![s] = <<>>]
  /\ buffer' = [buffer EXCEPT ![s] = <<>>]
  /\ sent' = [sent EXCEPT ![s] = <<>>]
  /\ released' = [released EXCEPT ![s] = FALSE]
  /\ UNCHANGED <<ingestVars, inbox, slots, clientVars, faults>>

-----------------------------------------------------------------------------
(* ody listen.                                                              *)

\* reader.read() and forward(). The id is local to consumeStream.
Take ==
  /\ conn # None
  /\ taken < Len(sent[conn])
  /\ taken' = taken + 1
  /\ lastSeen' = sent[conn][taken + 1]
  /\ forwarded' = forwarded \cup {sent[conn][taken + 1]}
  /\ UNCHANGED <<ingestVars, streamVars, conn, resumeFrom, faults>>

\* Mutant of EndOfStream: the id is not kept from one stream to the next.
EndOfStreamForgetful ==
  /\ conn # None
  /\ conn' = None
  /\ resumeFrom' = lastSeen
  /\ UNCHANGED <<ingestVars, streamVars, lastSeen, taken, forwarded, faults>>

\* The stream ends: consumeStream returns the id.
EndOfStream ==
  /\ conn # None
  /\ conn' = None
  /\ resumeFrom' = IF lastSeen = None THEN resumeFrom ELSE lastSeen
  /\ UNCHANGED <<ingestVars, streamVars, lastSeen, taken, forwarded, faults>>

\* The stream breaks: consumeStream throws, and its id is lost.
Break ==
  /\ conn # None
  /\ Fault("break")
  /\ conn' = None
  /\ UNCHANGED <<ingestVars, streamVars, resumeFrom, lastSeen, taken, forwarded>>

\* SUBSCRIBE or a query rejects: start() rejects and the stream breaks for its
\* reader. The abort listener is not attached yet, and cancel() is not called on
\* a stream that has failed.
StartFails(s) ==
  /\ phase[s] \in {"subscribe", "query"} \/ (phase[s] = "marker" /\ lastEventId[s] # None)
  /\ Fault("start")
  /\ Goto(s, "failed")
  /\ inbox' = [inbox EXCEPT ![s] = <<>>]
  /\ conn' = IF conn = s THEN None ELSE conn
  /\ UNCHANGED <<ingestVars, lastEventId, resumed, snapshot, buffer, sent, released, slots,
                 resumeFrom, lastSeen, taken, forwarded>>

-----------------------------------------------------------------------------
Handler(s) == Subscribe(s) \/ FindMarker(s) \/ RunQuery(s) \/ GoLive(s)

LiveNext ==
  \/ \E e \in Events : Commit(e) \/ Publish(e) \/ PublishFails(e) \/ DeleteEvent(e)
  \/ \E s \in Streams : \/ Connect(s) \/ Handler(s) \/ Receive(s)
                        \/ Cleanup(s) \/ Forget(s) \/ StartFails(s)
  \/ Refuse \/ Take \/ EndOfStream \/ Break

LiveSpec == LiveInit /\ [][LiveNext]_liveVars

\* An async handler goes on, Redis delivers, a request whose client is gone is
\* cancelled.
LiveFairSpec ==
  /\ LiveSpec
  /\ \A s \in Streams : /\ WF_liveVars(Handler(s)) /\ WF_liveVars(Receive(s))
                        /\ WF_liveVars(Cleanup(s)) /\ WF_liveVars(Forget(s))

-----------------------------------------------------------------------------
(* Properties.                                                              *)

\* Whether a slot is taken for the request.
HoldsSlot(s) == phase[s] # "free" /\ ~released[s]

\* cleanup runs once or several times, connections come and go: the counter is
\* the number of requests that hold a slot.
SlotsAreCounted == slots = Cardinality({s \in Streams : HoldsSlot(s)})

\* What is, or will be, on the stream.
OnStream(s) == ToSet(sent[s]) \cup ToSet(inbox[s])

\* Subscribing before the backfill leaves no gap: once the stream is live, each
\* published event that is later than the client's marker and still stored has
\* been sent or is about to be received.
NoGapAfterMarker ==
  \A s \in Streams : phase[s] = "live" /\ resumed[s] =>
    \A e \in table : e > lastEventId[s] /\ handler[e] = "published" => e \in OnStream(s)

\* When a stream goes live it has sent no event twice, although the backfill and
\* the subscription overlap.
FlushedOnce ==
  [][\A s \in Streams : phase[s] = "flush" /\ phase'[s] = "live" => IsInjective(sent'[s])]_liveVars

\* Whether the client will still get e, if nothing fails from here on.
Coming(e) ==
  IF conn = None
    THEN resumeFrom # None /\ resumeFrom < e
    ELSE \/ \E i \in DOMAIN sent[conn] : i > taken /\ sent[conn][i] = e
         \/ e \in ToSet(inbox[conn]) \cup ToSet(buffer[conn])
         \/ phase[conn] = "flush" /\ e \in ToSet(snapshot[conn])
         \/ /\ phase[conn] \in {"subscribe", "marker", "query"}
            /\ lastEventId[conn] # None /\ lastEventId[conn] < e

\* Stored and published after an event the client already has.
Expected(e) == e \in table /\ handler[e] = "published" /\ \E f \in forwarded : f < e

\* While nothing has failed and no event has overtaken another, a client that
\* has got one event gets every later one, however often it connects again.
ResumesWhereItStopped ==
  faults = 0 /\ ~overlapped => \A e \in Events : Expected(e) => e \in forwarded \/ Coming(e)

-----------------------------------------------------------------------------
(* Refinement.                                                              *)

Log == INSTANCE EventLog WITH Events <- Events, log <- table, read <- forwarded

\* While nothing has failed and no event has overtaken another, ingest, requests
\* and client together are a log that is read: whatever the backfill, the buffer
\* and the live messages repeat, and wherever a connection ends, the next new
\* event the client gets is the next one of the table; and what it has yet to
\* get is on its way.
FollowsTheLog ==
  [][faults' = 0 /\ ~overlapped' =>
        [Log!LogNext]_<<table, forwarded>> /\ ResumesWhereItStopped']_liveVars

-----------------------------------------------------------------------------
(* Liveness.                                                                *)

\* A request whose client is gone gives its slot back, wherever it was, unless
\* it had failed before.
SlotComesBackOrFailed ==
  \A s \in Streams :
    HoldsSlot(s) /\ conn # s ~> ~HoldsSlot(s) \/ phase[s] = "failed"

-----------------------------------------------------------------------------
(* What the documentation says and the code does not do.                    *)

\* "Release the concurrency slot exactly once", "there's nothing to leak".
SlotComesBack ==
  \A s \in Streams : HoldsSlot(s) /\ conn # s ~> ~HoldsSlot(s)

\* "Skipping any the backfill query already delivered."
NotSentTwice == \A s \in Streams : IsInjective(sent[s])

\* "If the connection drops, `ody` reconnects and backfills any events you
\* missed while disconnected, so nothing is lost", even when no event overtakes
\* another.
NothingIsLost ==
  ~overlapped => \A e \in Events : Expected(e) => e \in forwarded \/ Coming(e)

=============================================================================
