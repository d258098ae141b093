-------------------------- MODULE LiveStreamProofs --------------------------
(***************************************************************************)
(* Proofs about LiveStream, for any set of events and of streams, any      *)
(* limit on slots and any number of faults.                                *)
(***************************************************************************)
EXTENDS LiveStream, FiniteSetTheorems, TLAPS

\* A sequence and its elements.
LEMMA AppendElements ==
  ASSUME NEW S, NEW q \in Seq(S), NEW e \in S
  PROVE  /\ Append(q, e) \in Seq(S)
         /\ ToSet(Append(q, e)) = ToSet(q) \cup {e}
<1>1. /\ Append(q, e) \in Seq(S) /\ DOMAIN Append(q, e) = 1..(Len(q) + 1)
      /\ DOMAIN q = 1..Len(q) /\ Len(q) \in Nat
      /\ Append(q, e)[Len(q) + 1] = e
      /\ \A i \in 1..Len(q) : Append(q, e)[i] = q[i]
  OBVIOUS
<1>2. ToSet(Append(q, e)) \subseteq ToSet(q) \cup {e}
  <2> SUFFICES ASSUME NEW i \in 1..(Len(q) + 1)
               PROVE  Append(q, e)[i] \in ToSet(q) \cup {e}
    BY <1>1 DEF ToSet
  <2>1. i \in 1..Len(q) \/ i = Len(q) + 1
    BY <1>1
  <2> QED
    BY <1>1, <2>1 DEF ToSet
<1>3. ToSet(q) \cup {e} \subseteq ToSet(Append(q, e))
  <2>1. \A i \in 1..Len(q) : i \in 1..(Len(q) + 1)
    BY <1>1
  <2>2. Len(q) + 1 \in 1..(Len(q) + 1)
    BY <1>1
  <2> QED
    BY <1>1, <2>1, <2>2 DEF ToSet
<1> QED
  BY <1>1, <1>2, <1>3

LEMMA TailElements ==
  ASSUME NEW S, NEW q \in Seq(S), q # <<>>
  PROVE  /\ Head(q) \in S
         /\ Tail(q) \in Seq(S)
         /\ ToSet(q) \subseteq {Head(q)} \cup ToSet(Tail(q))
<1>1. Head(q) \in S /\ Tail(q) \in Seq(S) /\ Len(q) \in Nat \ {0}
  OBVIOUS
<1>2. ASSUME NEW i \in DOMAIN q PROVE q[i] = Head(q) \/ q[i] \in ToSet(Tail(q))
  <2>1. CASE i = 1
    BY <2>1
  <2>2. CASE i # 1
    <3>1. i - 1 \in DOMAIN Tail(q) /\ Tail(q)[i - 1] = q[i]
      BY <2>2, <1>1
    <3> QED
      BY <3>1 DEF ToSet
  <2> QED
    BY <2>1, <2>2
<1> QED
  BY <1>1, <1>2 DEF ToSet

LEMMA ConcatElements ==
  ASSUME NEW S, NEW p \in Seq(S), NEW q \in Seq(S)
  PROVE  /\ p \o q \in Seq(S)
         /\ ToSet(p \o q) = ToSet(p) \cup ToSet(q)
<1>1. /\ p \o q \in Seq(S) /\ Len(p \o q) = Len(p) + Len(q)
      /\ Len(p) \in Nat /\ Len(q) \in Nat
  OBVIOUS
<1>2. ASSUME NEW i \in DOMAIN p PROVE p[i] \in ToSet(p \o q)
  <2>1. i \in DOMAIN (p \o q) /\ (p \o q)[i] = p[i]
    BY <1>1
  <2> QED
    BY <2>1 DEF ToSet
<1>3. ASSUME NEW i \in DOMAIN q PROVE q[i] \in ToSet(p \o q)
  <2>1. Len(p) + i \in DOMAIN (p \o q) /\ (p \o q)[Len(p) + i] = q[i]
    BY <1>1
  <2> QED
    BY <2>1 DEF ToSet
<1>4. ASSUME NEW i \in DOMAIN (p \o q) PROVE (p \o q)[i] \in ToSet(p) \cup ToSet(q)
  <2>1. CASE i <= Len(p)
    <3>1. i \in DOMAIN p /\ (p \o q)[i] = p[i]
      BY <2>1, <1>1
    <3> QED
      BY <3>1 DEF ToSet
  <2>2. CASE i > Len(p)
    <3>1. i - Len(p) \in DOMAIN q /\ (p \o q)[i] = q[i - Len(p)]
      BY <2>2, <1>1
    <3> QED
      BY <3>1 DEF ToSet
  <2> QED
    BY <1>1, <2>1, <2>2
<1> QED
  BY <1>1, <1>2, <1>3, <1>4 DEF ToSet

\* A sequence without repetitions, and one that is ascending.
Ascending(q) == \A i, j \in DOMAIN q : i < j => q[i] < q[j]

LEMMA AppendKeeps ==
  ASSUME NEW q \in Seq(Nat), NEW e \in Nat
  PROVE  /\ IsInjective(q) /\ e \notin ToSet(q) => IsInjective(Append(q, e))
         /\ Ascending(q) /\ (\A x \in ToSet(q) : x < e) => Ascending(Append(q, e))
<1> DEFINE p == Append(q, e)
<1>1. /\ DOMAIN p = 1..(Len(q) + 1) /\ DOMAIN q = 1..Len(q) /\ Len(q) \in Nat
      /\ p[Len(q) + 1] = e /\ \A i \in 1..Len(q) : p[i] = q[i]
  OBVIOUS
<1>2. \A i \in DOMAIN p : i \in DOMAIN q \/ i = Len(q) + 1
  BY <1>1
<1>3. \A i \in DOMAIN q : q[i] \in ToSet(q) /\ q[i] \in Nat /\ i < Len(q) + 1
  BY <1>1 DEF ToSet
<1> HIDE DEF p
<1>4. ASSUME IsInjective(q), e \notin ToSet(q) PROVE IsInjective(p)
  BY <1>1, <1>2, <1>3, <1>4 DEF IsInjective
<1>5. ASSUME Ascending(q), \A x \in ToSet(q) : x < e PROVE Ascending(p)
  <2> SUFFICES ASSUME NEW i \in DOMAIN p, NEW j \in DOMAIN p, i < j PROVE p[i] < p[j]
    BY DEF Ascending
  <2>1. i \in DOMAIN q
    BY <1>1
  <2>2. CASE j \in DOMAIN q
    BY <1>1, <1>5, <2>1, <2>2 DEF Ascending
  <2>3. CASE j = Len(q) + 1
    BY <1>1, <1>3, <1>5, <2>1, <2>3
  <2> QED
    BY <1>2, <2>2, <2>3
<1> QED
  BY <1>4, <1>5 DEF p

LEMMA TailKeeps ==
  ASSUME NEW q \in Seq(Nat), q # <<>>
  PROVE  /\ ToSet(q) = {Head(q)} \cup ToSet(Tail(q))
         /\ IsInjective(q) => IsInjective(Tail(q)) /\ Head(q) \notin ToSet(Tail(q))
         /\ Ascending(q) => Ascending(Tail(q)) /\ \A x \in ToSet(Tail(q)) : Head(q) < x
<1> DEFINE p == Tail(q)
<1>1. /\ DOMAIN p = 1..(Len(q) - 1) /\ DOMAIN q = 1..Len(q) /\ Len(q) \in Nat \ {0}
      /\ \A i \in DOMAIN p : p[i] = q[i + 1]
      /\ Head(q) = q[1]
  OBVIOUS
<1>2. \A i \in DOMAIN p : i + 1 \in DOMAIN q /\ 1 < i + 1 /\ i \in Nat
  BY <1>1
<1>3. 1 \in DOMAIN q
  BY <1>1
<1> HIDE DEF p
<1>4. ToSet(p) \subseteq ToSet(q) /\ Head(q) \in ToSet(q)
  BY <1>1, <1>2, <1>3 DEF ToSet
<1>5. ToSet(q) \subseteq {Head(q)} \cup ToSet(p)
  BY TailElements DEF p
<1>6. ASSUME IsInjective(q) PROVE IsInjective(p) /\ Head(q) \notin ToSet(p)
  <2>1. ASSUME NEW i \in DOMAIN p, NEW j \in DOMAIN p, p[i] = p[j] PROVE i = j
    BY <1>1, <1>2, <1>6, <2>1 DEF IsInjective
  <2>2. ASSUME NEW i \in DOMAIN p PROVE p[i] # Head(q)
    BY <1>1, <1>2, <1>3, <1>6 DEF IsInjective
  <2> QED
    BY <2>1, <2>2 DEF IsInjective, ToSet
<1>7. ASSUME Ascending(q) PROVE Ascending(p) /\ \A x \in ToSet(p) : Head(q) < x
  <2>1. ASSUME NEW i \in DOMAIN p, NEW j \in DOMAIN p, i < j PROVE p[i] < p[j]
    <3>1. i + 1 < j + 1
      BY <1>2, <2>1
    <3> QED
      BY <1>1, <1>2, <1>7, <3>1 DEF Ascending
  <2>2. ASSUME NEW i \in DOMAIN p PROVE Head(q) < p[i]
    BY <1>1, <1>2, <1>3, <1>7 DEF Ascending
  <2> QED
    BY <2>1, <2>2 DEF Ascending, ToSet
<1> QED
  BY <1>4, <1>5, <1>6, <1>7 DEF p

\* An enumeration lists exactly the set, and its length is a number.
LEMMA EnumerationIsSeq ==
  ASSUME NEW S, IsFiniteSet(S), NEW q \in [1..Cardinality(S) -> S]
  PROVE  q \in Seq(S)
<1>1. Cardinality(S) \in Nat
  BY FS_CardinalityType
<1> QED
  BY <1>1

\* What GoLive puts on the stream after the backfill.
LEMMA UnsentElements ==
  ASSUME LiveTypeOK, NEW s \in Streams,
         NEW h \in [1..Cardinality(Unsent(s)) -> Unsent(s)], Enumerates(h, Unsent(s))
  PROVE  LET q == [i \in DOMAIN h |-> buffer[s][h[i]]]
         IN  /\ q \in Seq(Events)
             /\ ToSet(buffer[s]) \subseteq ToSet(snapshot[s]) \cup ToSet(q)
<1> DEFINE q == [i \in DOMAIN h |-> buffer[s][h[i]]]
<1>1. buffer[s] \in Seq(Events)
  BY DEF LiveTypeOK, StreamTypes
<1>2. IsFiniteSet(Unsent(s))
  <2>1. Len(buffer[s]) \in Nat /\ DOMAIN buffer[s] = 1..Len(buffer[s])
    BY <1>1
  <2>2. IsFiniteSet(1..Len(buffer[s]))
    BY <2>1, FS_Interval
  <2>3. Unsent(s) \subseteq 1..Len(buffer[s])
    BY <2>1 DEF Unsent
  <2> QED
    BY <2>2, <2>3, FS_Subset
<1>3. Cardinality(Unsent(s)) \in Nat /\ DOMAIN h = 1..Cardinality(Unsent(s))
  BY <1>2, FS_CardinalityType
<1>4. \A i \in DOMAIN h : buffer[s][h[i]] \in Events
  BY <1>1 DEF Unsent
<1>5. q \in Seq(Events)
  BY <1>3, <1>4
<1>6. ASSUME NEW i \in DOMAIN buffer[s], buffer[s][i] \notin ToSet(snapshot[s])
      PROVE  buffer[s][i] \in ToSet(q)
  <2>1. i \in ToSet(h)
    BY <1>6 DEF Unsent, Enumerates
  <2>2. PICK j \in DOMAIN h : h[j] = i
    BY <2>1 DEF ToSet
  <2>3. j \in DOMAIN q /\ q[j] = buffer[s][i]
    BY <2>2
  <2> QED
    BY <2>3 DEF ToSet
<1> QED
  BY <1>5, <1>6 DEF ToSet

\* The messages flushed after the backfill are not in the backfill, and come in
\* the order of the buffer.
LEMMA FlushedMessages ==
  ASSUME LiveTypeOK, NEW s \in Streams,
         NEW h \in [1..Cardinality(Unsent(s)) -> Unsent(s)], Enumerates(h, Unsent(s))
  PROVE  LET q == [i \in DOMAIN h |-> buffer[s][h[i]]]
         IN  /\ ToSet(q) \subseteq ToSet(buffer[s]) \ ToSet(snapshot[s])
             /\ IsInjective(buffer[s]) => IsInjective(q)
             /\ Ascending(buffer[s]) => Ascending(q)
<1> DEFINE q == [i \in DOMAIN h |-> buffer[s][h[i]]]
<1>1. DOMAIN q = DOMAIN h /\ \A i \in DOMAIN q : q[i] = buffer[s][h[i]]
  OBVIOUS
<1>2. \A i \in DOMAIN h : /\ h[i] \in DOMAIN buffer[s]
                          /\ buffer[s][h[i]] \notin ToSet(snapshot[s])
  BY DEF Unsent
<1>3. DOMAIN h = 1..Cardinality(Unsent(s))
  OBVIOUS
<1>4. buffer[s] \in Seq(Events)
  BY DEF LiveTypeOK, StreamTypes
<1>5. \A i \in DOMAIN h : h[i] \in Nat /\ i \in Int
  BY <1>2, <1>3, <1>4
<1>6. \A i, j \in DOMAIN h : i < j => h[i] < h[j]
  BY DEF Enumerates
<1> HIDE DEF q
<1>7. ToSet(q) \subseteq ToSet(buffer[s]) \ ToSet(snapshot[s])
  BY <1>1, <1>2 DEF ToSet
<1>8. ASSUME IsInjective(buffer[s]) PROVE IsInjective(q)
  <2> SUFFICES ASSUME NEW i \in DOMAIN q, NEW j \in DOMAIN q, q[i] = q[j] PROVE i = j
    BY DEF IsInjective
  <2>1. h[i] = h[j]
    BY <1>1, <1>2, <1>8 DEF IsInjective
  <2>2. ~(i < j) /\ ~(j < i)
    BY <1>1, <1>5, <1>6, <2>1
  <2> QED
    BY <1>1, <1>5, <2>2
<1>9. ASSUME Ascending(buffer[s]) PROVE Ascending(q)
  BY <1>1, <1>2, <1>6, <1>9 DEF Ascending
<1> QED
  BY <1>7, <1>8, <1>9 DEF q

\* One ascending sequence before one without repetitions, and nothing in both.
LEMMA ConcatOnce ==
  ASSUME NEW p \in Seq(Nat), NEW q \in Seq(Nat), Ascending(p), IsInjective(q),
         ToSet(p) \cap ToSet(q) = {}
  PROVE  IsInjective(p \o q)
<1> DEFINE r == p \o q
<1>1. /\ DOMAIN r = 1..(Len(p) + Len(q)) /\ Len(p) \in Nat /\ Len(q) \in Nat
      /\ DOMAIN p = 1..Len(p) /\ DOMAIN q = 1..Len(q)
      /\ \A i \in DOMAIN r : r[i] = IF i <= Len(p) THEN p[i] ELSE q[i - Len(p)]
  OBVIOUS
<1>2. \A i \in DOMAIN r : /\ i <= Len(p) => i \in DOMAIN p
                          /\ i > Len(p) => i - Len(p) \in DOMAIN q
  BY <1>1
<1> HIDE DEF r
<1>3. ASSUME NEW i \in DOMAIN r, NEW j \in DOMAIN r, r[i] = r[j], i < j PROVE FALSE
  <2>1. CASE j <= Len(p)
    <3>1. i \in DOMAIN p /\ j \in DOMAIN p /\ r[i] = p[i] /\ r[j] = p[j]
      BY <1>1, <1>3, <2>1
    <3>2. p[i] \in Nat /\ p[j] \in Nat
      BY <3>1
    <3>3. p[i] < p[j]
      BY <1>3, <3>1 DEF Ascending
    <3>4. p[i] = p[j]
      BY <1>3, <3>1
    <3> QED
      BY <3>2, <3>3, <3>4
  <2>2. CASE i <= Len(p) /\ j > Len(p)
    <3>1. i \in DOMAIN p /\ j - Len(p) \in DOMAIN q
      BY <1>2, <2>2
    <3>2. r[i] = p[i] /\ r[j] = q[j - Len(p)]
      BY <1>1, <2>2
    <3>3. r[i] \in ToSet(p) /\ r[j] \in ToSet(q)
      BY <3>1, <3>2 DEF ToSet
    <3> QED
      BY <1>3, <3>3
  <2>3. CASE i > Len(p)
    BY <1>1, <1>2, <1>3, <2>3 DEF IsInjective
  <2> QED
    BY <1>1, <2>1, <2>2, <2>3
<1>4. \A i, j \in DOMAIN r : r[i] = r[j] => i = j
  <2> SUFFICES ASSUME NEW i \in DOMAIN r, NEW j \in DOMAIN r, r[i] = r[j] PROVE i = j
    OBVIOUS
  <2>1. ~(i < j) /\ ~(j < i)
    BY <1>3
  <2>2. i \in Int /\ j \in Int
    BY <1>1
  <2> QED
    BY <2>1, <2>2
<1> QED
  BY <1>4 DEF IsInjective, r

-----------------------------------------------------------------------------
(* Type correctness.                                                        *)

\* Variables an action leaves alone keep their types.
LEMMA KeptLiveTypes ==
  ASSUME LiveTypeOK
  PROVE  /\ UNCHANGED ingestVars => IngestTypes'
         /\ UNCHANGED streamVars => StreamTypes'
         /\ UNCHANGED <<phase, clientVars>> => ClientTypes'
         /\ \A kind : Fault(kind) => faults' \in 0..MaxFaults
<1>1. UNCHANGED ingestVars => IngestTypes'
  BY DEF LiveTypeOK, IngestTypes, ingestVars
<1>2. UNCHANGED streamVars => StreamTypes'
  BY DEF LiveTypeOK, StreamTypes, streamVars
<1>3. UNCHANGED <<phase, clientVars>> => ClientTypes'
  BY DEF LiveTypeOK, ClientTypes, clientVars, Subscribed
<1>4. ASSUME NEW kind, Fault(kind) PROVE faults' \in 0..MaxFaults
  BY <1>4, LiveStreamAssumption DEF LiveTypeOK, Fault
<1> QED
  BY <1>1, <1>2, <1>3, <1>4

\* A request that only moves to another phase while its client may be reading.
LEMMA GotoTypes ==
  ASSUME LiveTypeOK, NEW s \in Streams, NEW p \in {"marker", "query", "flush", "live"},
         Goto(s, p), UNCHANGED clientVars
  PROVE  phase' \in [Streams -> Phases] /\ ClientTypes'
<1>1. phase' \in [Streams -> Phases] /\ phase'[s] = p
  BY DEF LiveTypeOK, StreamTypes, Phases, Goto
<1>2. \A r \in Streams : r # s => phase'[r] = phase[r]
  BY DEF LiveTypeOK, StreamTypes, Goto
<1>3. UNCHANGED <<conn, resumeFrom, lastSeen, taken, forwarded>>
  BY DEF clientVars
<1>4. conn' # None => Subscribed(conn)' \/ phase'[conn'] = "subscribe"
  <2> SUFFICES ASSUME conn # None PROVE Subscribed(conn)' \/ phase'[conn] = "subscribe"
    BY <1>3
  <2>1. CASE conn = s
    BY <2>1, <1>1, <1>3 DEF Subscribed
  <2>2. CASE conn # s
    BY <2>2, <1>2, <1>3 DEF Subscribed, LiveTypeOK, ClientTypes
  <2> QED
    BY <2>1, <2>2
<1> QED
  BY <1>1, <1>3, <1>4 DEF LiveTypeOK, ClientTypes, Subscribed

\* Every variable ranges over its domain, and the client reads a request that is
\* neither closed nor failed.
THEOREM LiveTypeCorrect == LiveSpec => []LiveTypeOK
<1>1. LiveInit => LiveTypeOK
  <2>1. <<>> \in Seq(Events)
    OBVIOUS
  <2>2. LiveInit => StreamTypes
    BY <2>1 DEF LiveInit, StreamTypes, Phases
  <2>3. LiveInit => IngestTypes
    BY DEF LiveInit, IngestTypes
  <2>5. LiveInit => ClientTypes
    BY DEF LiveInit, ClientTypes
  <2>4. LiveInit => faults \in 0..MaxFaults
    BY LiveStreamAssumption DEF LiveInit
  <2> QED
    BY <2>2, <2>3, <2>4, <2>5 DEF LiveTypeOK
<1>2. LiveTypeOK /\ [LiveNext]_liveVars => LiveTypeOK'
  <2> SUFFICES ASSUME LiveTypeOK, [LiveNext]_liveVars PROVE LiveTypeOK'
    OBVIOUS
  <2>1. ASSUME NEW e \in Events, Commit(e) PROVE LiveTypeOK'
    <3>1. IngestTypes'
      BY <2>1 DEF Commit, LiveTypeOK, IngestTypes
    <3> QED
      BY <2>1, <3>1, KeptLiveTypes DEF Commit, LiveTypeOK, streamVars
  <2>2. ASSUME NEW e \in Events, Publish(e) PROVE LiveTypeOK'
    <3>1. IngestTypes'
      BY <2>2 DEF Publish, LiveTypeOK, IngestTypes
    <3>2. inbox' \in [Streams -> Seq(Events)]
      BY <2>2, AppendElements DEF Publish, LiveTypeOK, StreamTypes
    <3>3. StreamTypes'
      BY <2>2, <3>2 DEF Publish, LiveTypeOK, StreamTypes
    <3> QED
      BY <2>2, <3>1, <3>3, KeptLiveTypes DEF Publish, LiveTypeOK
  <2>3. ASSUME NEW e \in Events, PublishFails(e) \/ DeleteEvent(e) PROVE LiveTypeOK'
    <3>1. IngestTypes'
      BY <2>3 DEF PublishFails, DeleteEvent, LiveTypeOK, IngestTypes
    <3> QED
      BY <2>3, <3>1, KeptLiveTypes DEF PublishFails, DeleteEvent, LiveTypeOK, streamVars
  <2>4. ASSUME NEW s \in Streams, Connect(s) PROVE LiveTypeOK'
    <3>1. StreamTypes'
      BY <2>4 DEF Connect, Goto, Phases, LiveTypeOK, StreamTypes, ClientTypes
    <3>2. ClientTypes'
      BY <2>4 DEF Connect, Goto, LiveTypeOK, StreamTypes, ClientTypes
    <3> QED
      BY <2>4, <3>1, <3>2, KeptLiveTypes DEF Connect, LiveTypeOK
  <2>5. ASSUME NEW s \in Streams, Handler(s) PROVE LiveTypeOK'
    <3>1. CASE Subscribe(s)
      BY <3>1, GotoTypes, KeptLiveTypes DEF Subscribe, LiveTypeOK, StreamTypes
    <3>2. CASE FindMarker(s)
      BY <3>2, GotoTypes, KeptLiveTypes DEF FindMarker, LiveTypeOK, StreamTypes
    <3>3. CASE RunQuery(s)
      <4>1. PICK q \in [1..Cardinality(Missed(s)) -> Missed(s)] :
              /\ Enumerates(q, Missed(s))
              /\ snapshot' = [snapshot EXCEPT ![s] = q]
        BY <3>3 DEF RunQuery
      <4>2. q \in Seq(Events)
        <5>1. Missed(s) \subseteq Events /\ IsFiniteSet(Missed(s))
          BY LiveStreamAssumption, FS_Subset DEF Missed, LiveTypeOK, IngestTypes
        <5>2. q \in Seq(Missed(s))
          BY <4>1, <5>1, EnumerationIsSeq
        <5> QED
          BY <5>1, <5>2
      <4>3. StreamTypes'
        BY <3>3, <4>1, <4>2, GotoTypes DEF RunQuery, LiveTypeOK, StreamTypes
      <4> QED
        BY <3>3, <4>3, GotoTypes, KeptLiveTypes DEF RunQuery, LiveTypeOK
    <3>4. CASE GoLive(s)
      <4>1. PICK h \in [1..Cardinality(Unsent(s)) -> Unsent(s)] :
              /\ Enumerates(h, Unsent(s))
              /\ sent' = [sent EXCEPT ![s] = snapshot[s] \o [i \in DOMAIN h |-> buffer[s][h[i]]]]
        BY <3>4 DEF GoLive
      <4>2. snapshot[s] \o [i \in DOMAIN h |-> buffer[s][h[i]]] \in Seq(Events)
        <5>1. [i \in DOMAIN h |-> buffer[s][h[i]]] \in Seq(Events)
          BY <4>1, UnsentElements
        <5>2. snapshot[s] \in Seq(Events)
          BY DEF LiveTypeOK, StreamTypes
        <5> QED
          BY <5>1, <5>2, ConcatElements
      <4>3. sent' \in [Streams -> Seq(Events)] /\ buffer' \in [Streams -> Seq(Events)]
        <5>1. <<>> \in Seq(Events)
          OBVIOUS
        <5> QED
          BY <3>4, <4>1, <4>2, <5>1 DEF GoLive, LiveTypeOK, StreamTypes
      <4>4. StreamTypes'
        BY <3>4, <4>3, GotoTypes DEF GoLive, LiveTypeOK, StreamTypes
      <4> QED
        BY <3>4, <4>4, GotoTypes, KeptLiveTypes DEF GoLive, LiveTypeOK
    <3> QED
      BY <2>5, <3>1, <3>2, <3>3, <3>4 DEF Handler
  <2>6. ASSUME NEW s \in Streams, Receive(s) PROVE LiveTypeOK'
    <3>1. /\ inbox[s] \in Seq(Events) /\ inbox[s] # <<>>
          /\ sent[s] \in Seq(Events) /\ buffer[s] \in Seq(Events)
      BY <2>6 DEF Receive, LiveTypeOK, StreamTypes
    <3>a. Head(inbox[s]) \in Events /\ Tail(inbox[s]) \in Seq(Events)
      BY <3>1, TailElements
    <3>b. /\ Append(sent[s], Head(inbox[s])) \in Seq(Events)
          /\ Append(buffer[s], Head(inbox[s])) \in Seq(Events)
      BY <3>1, <3>a, AppendElements
    <3>2. StreamTypes'
      BY <2>6, <3>a, <3>b DEF Receive, LiveTypeOK, StreamTypes
    <3> QED
      BY <2>6, <3>2, KeptLiveTypes DEF Receive, LiveTypeOK
  <2>7. ASSUME NEW s \in Streams, Cleanup(s) \/ Forget(s) PROVE LiveTypeOK'
    <3>1. <<>> \in Seq(Events)
      OBVIOUS
    <3>2. ASSUME Cleanup(s) PROVE StreamTypes'
      <4>1. slots' \in Nat /\ released' \in [Streams -> BOOLEAN]
        BY <3>2 DEF Cleanup, Release, LiveTypeOK, StreamTypes
      <4>2. phase' \in [Streams -> Phases] /\ inbox' \in [Streams -> Seq(Events)]
        BY <3>1, <3>2 DEF Cleanup, Goto, Phases, LiveTypeOK, StreamTypes
      <4> QED
        BY <3>2, <4>1, <4>2 DEF Cleanup, LiveTypeOK, StreamTypes
    <3>3. ASSUME Forget(s) PROVE StreamTypes'
      <4>1. phase' \in [Streams -> Phases] /\ released' \in [Streams -> BOOLEAN]
        BY <3>3 DEF Forget, Goto, Phases, LiveTypeOK, StreamTypes
      <4>2. /\ snapshot' \in [Streams -> Seq(Events)] /\ buffer' \in [Streams -> Seq(Events)]
            /\ sent' \in [Streams -> Seq(Events)]
        BY <3>1, <3>3 DEF Forget, LiveTypeOK, StreamTypes
      <4>3. lastEventId' \in [Streams -> Events \cup {None}] /\ resumed' \in [Streams -> BOOLEAN]
        BY <3>3 DEF Forget, LiveTypeOK, StreamTypes
      <4> QED
        BY <3>3, <4>1, <4>2, <4>3 DEF Forget, LiveTypeOK, StreamTypes
    <3>4. StreamTypes'
      BY <2>7, <3>2, <3>3
    <3>5. ClientTypes'
      BY <2>7 DEF Cleanup, Forget, Goto, Subscribed, clientVars, LiveTypeOK, StreamTypes, ClientTypes
    <3> QED
      BY <2>7, <3>4, <3>5, KeptLiveTypes DEF Cleanup, Forget, LiveTypeOK
  <2>8. ASSUME NEW s \in Streams, StartFails(s) PROVE LiveTypeOK'
    <3>1. StreamTypes'
      BY <2>8 DEF StartFails, Goto, Phases, LiveTypeOK, StreamTypes
    <3>2. ClientTypes'
      BY <2>8 DEF StartFails, Goto, Subscribed, LiveTypeOK, StreamTypes, ClientTypes
    <3> QED
      BY <2>8, <3>1, <3>2, KeptLiveTypes DEF StartFails, LiveTypeOK
  <2>9. CASE Take
    <3>1. /\ conn \in Streams /\ taken + 1 \in 1..Len(sent[conn]) /\ sent[conn] \in Seq(Events)
      BY <2>9 DEF Take, LiveTypeOK, StreamTypes, ClientTypes
    <3>2. sent[conn][taken + 1] \in Events
      BY <3>1
    <3>3. ClientTypes'
      BY <2>9, <3>2 DEF Take, LiveTypeOK, ClientTypes, Subscribed, streamVars
    <3> QED
      BY <2>9, <3>3, KeptLiveTypes DEF Take, LiveTypeOK
  <2>10. CASE EndOfStream \/ Break
    <3>1. ClientTypes'
      BY <2>10, LiveStreamAssumption DEF EndOfStream, Break, LiveTypeOK, ClientTypes
    <3> QED
      BY <2>10, <3>1, KeptLiveTypes DEF EndOfStream, Break, LiveTypeOK
  <2>11. CASE UNCHANGED liveVars
    BY <2>11, KeptLiveTypes DEF liveVars, LiveTypeOK, streamVars
  <2> QED
    BY <2>1, <2>2, <2>3, <2>4, <2>5, <2>6, <2>7, <2>8, <2>9, <2>10, <2>11
       DEF LiveNext, Refuse
<1> QED
  BY <1>1, <1>2, PTL DEF LiveSpec

-----------------------------------------------------------------------------
(* Slots.                                                                   *)

Holders == {s \in Streams : HoldsSlot(s)}

\* The counter is exact because cleanup marks the request as released, and the
\* mark outlives the closing of the request.
SlotsInv ==
  /\ slots = Cardinality(Holders)
  /\ \A s \in Streams : phase[s] = "closed" => released[s]

\* A step that takes and gives back no slot.
LEMMA SameHolders ==
  ASSUME LiveTypeOK, SlotsInv, UNCHANGED <<slots, released>>,
         \A s \in Streams : /\ phase'[s] = "free" <=> phase[s] = "free"
                            /\ phase'[s] = "closed" => phase[s] = "closed"
  PROVE  SlotsInv'
<1>1. slots' = slots /\ released' = released
  OBVIOUS
<1>2. \A s \in Streams : HoldsSlot(s)' <=> HoldsSlot(s)
  <2> SUFFICES ASSUME NEW s \in Streams
               PROVE  phase'[s] # "free" /\ ~released'[s] <=> phase[s] # "free" /\ ~released[s]
    BY DEF HoldsSlot
  <2> QED
    BY <1>1
<1>3. Holders' = Holders
  BY <1>2 DEF Holders
<1>4. \A s \in Streams : phase'[s] = "closed" => released'[s]
  BY <1>1 DEF SlotsInv
<1>5. slots' = Cardinality(Holders')
  BY <1>1, <1>3 DEF SlotsInv
<1> QED
  BY <1>4, <1>5 DEF SlotsInv

\* cleanup runs once or several times, clients come and go: the counter of
\* sse-limit.ts is the number of requests that hold a slot.
THEOREM SlotsAreExact == LiveSpec => []SlotsAreCounted
<1>1. LiveInit => SlotsInv
  <2> SUFFICES ASSUME LiveInit PROVE SlotsInv
    OBVIOUS
  <2>1. Holders = {}
    BY DEF Holders, HoldsSlot, LiveInit
  <2> QED
    BY <2>1, FS_EmptySet DEF SlotsInv, LiveInit
<1>2. LiveTypeOK /\ SlotsInv /\ [LiveNext]_liveVars => SlotsInv'
  <2> SUFFICES ASSUME LiveTypeOK, SlotsInv, [LiveNext]_liveVars PROVE SlotsInv'
    OBVIOUS
  <2>1. ASSUME NEW e \in Events, Commit(e) \/ Publish(e) \/ PublishFails(e) \/ DeleteEvent(e)
        PROVE  SlotsInv'
    BY <2>1, SameHolders DEF Commit, Publish, PublishFails, DeleteEvent, streamVars
  <2>2. ASSUME NEW s \in Streams, Connect(s) PROVE SlotsInv'
    <3>1. phase[s] = "free" /\ phase'[s] = "subscribe" /\ ~released'[s]
      BY <2>2 DEF Connect, Goto, LiveTypeOK, StreamTypes
    <3>2. \A r \in Streams : r # s => phase'[r] = phase[r] /\ released'[r] = released[r]
      BY <2>2 DEF Connect, Goto, LiveTypeOK, StreamTypes
    <3>3. Holders' = Holders \cup {s} /\ s \notin Holders
      BY <3>1, <3>2 DEF Holders, HoldsSlot
    <3>4. IsFiniteSet(Holders)
      BY LiveStreamAssumption, FS_Subset DEF Holders
    <3>5. Cardinality(Holders') = Cardinality(Holders) + 1
      BY <3>3, <3>4, FS_AddElement
    <3> QED
      BY <2>2, <3>1, <3>2, <3>5 DEF Connect, SlotsInv
  <2>3. ASSUME NEW s \in Streams, Handler(s) \/ Receive(s) \/ StartFails(s) PROVE SlotsInv'
    <3>1. UNCHANGED <<slots, released>>
      BY <2>3 DEF Handler, Subscribe, FindMarker, RunQuery, GoLive, Receive, StartFails
    <3>2. \A r \in Streams : /\ phase'[r] = "free" <=> phase[r] = "free"
                             /\ phase'[r] = "closed" => phase[r] = "closed"
      BY <2>3 DEF Handler, Subscribe, FindMarker, RunQuery, GoLive, Receive, StartFails, Goto,
                  LiveTypeOK, StreamTypes
    <3> QED
      BY <3>1, <3>2, SameHolders
  <2>4. ASSUME NEW s \in Streams, Cleanup(s) PROVE SlotsInv'
    <3>1. phase[s] # "free" /\ phase'[s] = "closed" /\ released'[s]
      BY <2>4 DEF Cleanup, Release, Goto, Subscribed, LiveTypeOK, StreamTypes
    <3>2. \A r \in Streams : r # s => phase'[r] = phase[r] /\ released'[r] = released[r]
      BY <2>4 DEF Cleanup, Release, Goto, LiveTypeOK, StreamTypes
    <3>3. Holders' = Holders \ {s}
      BY <3>1, <3>2 DEF Holders, HoldsSlot
    <3>4. IsFiniteSet(Holders)
      BY LiveStreamAssumption, FS_Subset DEF Holders
    <3>5. Cardinality(Holders) \in Nat
      BY <3>4, FS_CardinalityType
    <3>6. slots' = Cardinality(Holders')
      <4>1. CASE released[s]
        <5>1. Holders' = Holders
          BY <4>1, <3>3 DEF Holders, HoldsSlot
        <5> QED
          BY <2>4, <4>1, <5>1 DEF Cleanup, Release, SlotsInv
      <4>2. CASE ~released[s]
        <5>1. s \in Holders
          BY <4>2, <3>1 DEF Holders, HoldsSlot
        <5>2. Cardinality(Holders') = Cardinality(Holders) - 1
          BY <5>1, <3>3, <3>4, FS_RemoveElement
        <5>3. Cardinality(Holders) # 0
          BY <5>1, <3>4, FS_EmptySet
        <5>4. slots' = IF slots > 1 THEN slots - 1 ELSE 0
          BY <2>4, <4>2 DEF Cleanup, Release
        <5> QED
          BY <3>5, <5>2, <5>3, <5>4 DEF SlotsInv
      <4> QED
        BY <4>1, <4>2
    <3> QED
      BY <3>1, <3>2, <3>6 DEF SlotsInv
  <2>5. ASSUME NEW s \in Streams, Forget(s) PROVE SlotsInv'
    <3>1. phase[s] = "closed" /\ phase'[s] = "free" /\ released[s]
      BY <2>5 DEF Forget, Goto, LiveTypeOK, StreamTypes, SlotsInv
    <3>2. \A r \in Streams : r # s => phase'[r] = phase[r] /\ released'[r] = released[r]
      BY <2>5 DEF Forget, Goto, LiveTypeOK, StreamTypes
    <3>3. Holders' = Holders
      BY <3>1, <3>2 DEF Holders, HoldsSlot
    <3> QED
      BY <2>5, <3>1, <3>2, <3>3 DEF SlotsInv, Forget
  <2>6. CASE Take \/ EndOfStream \/ Break \/ UNCHANGED liveVars
    BY <2>6, SameHolders DEF Take, EndOfStream, Break, liveVars, streamVars
  <2> QED
    BY <2>1, <2>2, <2>3, <2>4, <2>5, <2>6 DEF LiveNext, Refuse
<1>3. SlotsInv => SlotsAreCounted
  BY DEF SlotsInv, SlotsAreCounted, Holders
<1> QED
  BY <1>1, <1>2, <1>3, LiveTypeCorrect, PTL DEF LiveSpec

-----------------------------------------------------------------------------
(* The backfill and the subscription together leave no gap.                 *)

Due(s) == {e \in table : /\ resumed[s] /\ phase[s] \in {"flush", "live"}
                         /\ e > lastEventId[s] /\ handler[e] = "published"}

Held(s) == ToSet(inbox[s]) \cup
           (IF phase[s] = "live" THEN ToSet(sent[s]) ELSE ToSet(buffer[s]) \cup ToSet(snapshot[s]))

\* From the backfill query on, a published event is in the backfill, in the
\* buffer or still to be received: the query ran after the subscription.
NoGapInv == \A s \in Streams : Due(s) \subseteq Held(s)

\* An action of one request leaves the others alone.
LEMMA OtherRequest ==
  ASSUME LiveTypeOK, NEW s \in Streams, NEW r \in Streams, r # s,
         Connect(s) \/ Handler(s) \/ Receive(s) \/ Cleanup(s) \/ Forget(s) \/ StartFails(s)
  PROVE  /\ UNCHANGED <<table, handler>>
         /\ phase'[r] = phase[r] /\ resumed'[r] = resumed[r] /\ lastEventId'[r] = lastEventId[r]
         /\ inbox'[r] = inbox[r] /\ sent'[r] = sent[r] /\ buffer'[r] = buffer[r]
         /\ snapshot'[r] = snapshot[r]
<1>1. UNCHANGED <<table, handler>>
  BY DEF Connect, Handler, Subscribe, FindMarker, RunQuery, GoLive, Receive, Cleanup, Forget,
              StartFails, ingestVars
<1>2. /\ phase'[r] = phase[r] /\ resumed'[r] = resumed[r]
      /\ lastEventId'[r] = lastEventId[r] /\ inbox'[r] = inbox[r]
  BY DEF Connect, Handler, Subscribe, FindMarker, RunQuery, GoLive, Receive, Cleanup, Forget,
              StartFails, Goto, LiveTypeOK, StreamTypes
<1>3. sent'[r] = sent[r] /\ buffer'[r] = buffer[r] /\ snapshot'[r] = snapshot[r]
  BY DEF Connect, Handler, Subscribe, FindMarker, RunQuery, GoLive, Receive, Cleanup, Forget,
              StartFails, LiveTypeOK, StreamTypes
<1> QED
  BY <1>1, <1>2, <1>3

\* A step that changes nothing of a request but perhaps its other variables.
LEMMA SameRequest ==
  ASSUME NEW s \in Streams, Due(s) \subseteq Held(s),
         UNCHANGED <<table, handler>>,
         phase'[s] = phase[s], resumed'[s] = resumed[s], lastEventId'[s] = lastEventId[s],
         inbox'[s] = inbox[s], sent'[s] = sent[s], buffer'[s] = buffer[s],
         snapshot'[s] = snapshot[s]
  PROVE  Due(s)' \subseteq Held(s)'
<1>1. Held(s)' = Held(s)
  BY DEF Held
<1>2. Due(s)' = Due(s)
  BY DEF Due
<1> QED
  BY <1>1, <1>2

LEMMA NoGapInvariant == LiveSpec => []NoGapInv
<1>1. LiveInit => NoGapInv
  BY DEF LiveInit, NoGapInv, Due
<1>2. LiveTypeOK /\ NoGapInv /\ [LiveNext]_liveVars => NoGapInv'
  <2> SUFFICES ASSUME LiveTypeOK, NoGapInv, [LiveNext]_liveVars, NEW r \in Streams
               PROVE  Due(r)' \subseteq Held(r)'
    BY DEF NoGapInv
  <2>0. Due(r) \subseteq Held(r)
    BY DEF NoGapInv
  <2>1. ASSUME NEW e \in Events, Commit(e) PROVE Due(r)' \subseteq Held(r)'
    <3>1. Held(r)' = Held(r)
      BY <2>1 DEF Commit, Held, streamVars
    <3>2. handler' = [handler EXCEPT ![e] = "committed"] /\ handler'[e] = "committed"
      BY <2>1 DEF Commit, LiveTypeOK, IngestTypes
    <3>3. Due(r)' \subseteq Due(r)
      BY <2>1, <3>2 DEF Commit, Due, streamVars, LiveTypeOK, IngestTypes
    <3> QED
      BY <2>0, <3>1, <3>3
  <2>2. ASSUME NEW e \in Events, Publish(e) PROVE Due(r)' \subseteq Held(r)'
    <3>1. Due(r)' \subseteq Due(r) \cup {e}
      BY <2>2 DEF Publish, Due, LiveTypeOK, IngestTypes
    <3>2. CASE Subscribed(r)
      <4>1. inbox[r] \in Seq(Events) /\ inbox'[r] = Append(inbox[r], e)
        BY <2>2, <3>2 DEF Publish, LiveTypeOK, StreamTypes
      <4>2. ToSet(inbox[r])' = ToSet(inbox[r]) \cup {e}
        BY <4>1, AppendElements
      <4>3. Held(r)' = Held(r) \cup {e}
        BY <2>2, <4>2 DEF Publish, Held
      <4> QED
        BY <2>0, <3>1, <4>3
    <3>3. CASE ~Subscribed(r)
      <4>1. Due(r)' = {}
        BY <2>2, <3>3 DEF Publish, Due, Subscribed
      <4> QED
        BY <4>1
    <3> QED
      BY <3>2, <3>3
  <2>3. ASSUME NEW e \in Events, PublishFails(e) \/ DeleteEvent(e) PROVE Due(r)' \subseteq Held(r)'
    <3>1. Held(r)' = Held(r)
      BY <2>3 DEF PublishFails, DeleteEvent, Held, streamVars
    <3>2. Due(r)' \subseteq Due(r)
      BY <2>3 DEF PublishFails, DeleteEvent, Due, streamVars, LiveTypeOK, IngestTypes
    <3> QED
      BY <2>0, <3>1, <3>2
  <2>4. ASSUME NEW s \in Streams, r # s,
               Connect(s) \/ Handler(s) \/ Receive(s) \/ Cleanup(s) \/ Forget(s) \/ StartFails(s)
        PROVE  Due(r)' \subseteq Held(r)'
    BY <2>4, <2>0, OtherRequest, SameRequest
  <2>5. ASSUME Connect(r) \/ Subscribe(r) \/ FindMarker(r) \/ Cleanup(r) \/ Forget(r) \/ StartFails(r)
        PROVE  Due(r)' \subseteq Held(r)'
    <3>1. phase'[r] \notin {"flush", "live"} \/ ~resumed'[r]
      BY <2>5 DEF Connect, Subscribe, FindMarker, Cleanup, Forget, StartFails, Goto, LiveTypeOK, StreamTypes
    <3>2. Due(r)' = {}
      BY <3>1 DEF Due
    <3> QED
      BY <3>2
  <2>6. ASSUME RunQuery(r) PROVE Due(r)' \subseteq Held(r)'
    <3>1. PICK q \in [1..Cardinality(Missed(r)) -> Missed(r)] :
            Enumerates(q, Missed(r)) /\ snapshot' = [snapshot EXCEPT ![r] = q]
      BY <2>6 DEF RunQuery
    <3>2. snapshot'[r] = q /\ ToSet(q) = Missed(r) /\ phase'[r] = "flush"
      BY <2>6, <3>1 DEF RunQuery, Enumerates, Goto, LiveTypeOK, StreamTypes
    <3>3. Due(r)' \subseteq Missed(r)
      BY <2>6 DEF RunQuery, Due, Missed, ingestVars
    <3>4. ToSet(snapshot[r])' = Missed(r)
      BY <3>2
    <3> QED
      BY <3>2, <3>3, <3>4 DEF Held
  <2>7. ASSUME GoLive(r) PROVE Due(r)' \subseteq Held(r)'
    <3>1. PICK h \in [1..Cardinality(Unsent(r)) -> Unsent(r)] :
            /\ Enumerates(h, Unsent(r))
            /\ sent' = [sent EXCEPT ![r] = snapshot[r] \o [i \in DOMAIN h |-> buffer[r][h[i]]]]
      BY <2>7 DEF GoLive
    <3> DEFINE q == [i \in DOMAIN h |-> buffer[r][h[i]]]
    <3>2. q \in Seq(Events) /\ ToSet(buffer[r]) \subseteq ToSet(snapshot[r]) \cup ToSet(q)
      BY <3>1, UnsentElements
    <3>3. snapshot[r] \in Seq(Events)
      BY DEF LiveTypeOK, StreamTypes
    <3>4. sent'[r] = snapshot[r] \o q /\ phase'[r] = "live" /\ phase[r] = "flush"
      BY <2>7, <3>1 DEF GoLive, Goto, LiveTypeOK, StreamTypes
    <3> HIDE DEF q
    <3>5. ToSet(snapshot[r]) \cup ToSet(q) \subseteq ToSet(snapshot[r] \o q)
      BY <3>2, <3>3, ConcatElements
    <3>6. ToSet(sent[r])' = ToSet(snapshot[r] \o q)
      BY <3>4
    <3>7. Held(r) \subseteq Held(r)'
      BY <2>7, <3>2, <3>4, <3>5, <3>6 DEF Held, GoLive
    <3>8. Due(r)' \subseteq Due(r)
      BY <2>7, <3>4 DEF GoLive, Due, ingestVars
    <3> QED
      BY <2>0, <3>7, <3>8
  <2>8. ASSUME Receive(r) PROVE Due(r)' \subseteq Held(r)'
    <3>1. /\ inbox[r] \in Seq(Events) /\ inbox[r] # <<>> /\ inbox'[r] = Tail(inbox[r])
          /\ sent[r] \in Seq(Events) /\ buffer[r] \in Seq(Events)
      BY <2>8 DEF Receive, LiveTypeOK, StreamTypes
    <3>2. Head(inbox[r]) \in Events /\ ToSet(inbox[r]) \subseteq {Head(inbox[r])} \cup ToSet(inbox[r])'
      BY <3>1, TailElements
    <3>3. CASE phase[r] = "live"
      <4>1. sent'[r] = Append(sent[r], Head(inbox[r]))
        BY <2>8, <3>3 DEF Receive, LiveTypeOK, StreamTypes
      <4>2. ToSet(sent[r])' = ToSet(sent[r]) \cup {Head(inbox[r])}
        BY <4>1, <3>1, <3>2, AppendElements
      <4>3. Held(r) \subseteq Held(r)'
        BY <2>8, <3>2, <3>3, <4>2 DEF Receive, Held
      <4>4. Due(r)' = Due(r)
        BY <2>8 DEF Receive, Due, ingestVars
      <4> QED
        BY <2>0, <4>3, <4>4
    <3>4. CASE phase[r] # "live"
      <4>1. buffer'[r] = Append(buffer[r], Head(inbox[r]))
        BY <2>8, <3>4 DEF Receive, LiveTypeOK, StreamTypes
      <4>2. ToSet(buffer[r])' = ToSet(buffer[r]) \cup {Head(inbox[r])}
        BY <4>1, <3>1, <3>2, AppendElements
      <4>3. Held(r) \subseteq Held(r)'
        BY <2>8, <3>2, <3>4, <4>2 DEF Receive, Held
      <4>4. Due(r)' = Due(r)
        BY <2>8 DEF Receive, Due, ingestVars
      <4> QED
        BY <2>0, <4>3, <4>4
    <3> QED
      BY <3>3, <3>4
  <2>9. CASE Take \/ EndOfStream \/ Break \/ UNCHANGED liveVars
    BY <2>9, <2>0, SameRequest DEF Take, EndOfStream, Break, liveVars, ingestVars, streamVars
  <2> QED
    BY <2>1, <2>2, <2>3, <2>4, <2>5, <2>6, <2>7, <2>8, <2>9 DEF LiveNext, Handler, Refuse
<1> QED
  BY <1>1, <1>2, LiveTypeCorrect, PTL DEF LiveSpec

\* Subscribing before the backfill leaves no gap: once the stream of a resumed
\* request is live, every published event later than its marker that is still
\* stored has been sent or is about to be received, whatever the order in which
\* events were committed, published, queried and received.
THEOREM NoGap == LiveSpec => []NoGapAfterMarker
<1>1. LiveTypeOK /\ NoGapInv => NoGapAfterMarker
  <2> SUFFICES ASSUME LiveTypeOK, NoGapInv, NEW s \in Streams, phase[s] = "live", resumed[s],
                      NEW e \in table, e > lastEventId[s], handler[e] = "published"
               PROVE  e \in OnStream(s)
    BY DEF NoGapAfterMarker
  <2>1. e \in Due(s)
    BY DEF Due
  <2>2. e \in Held(s)
    BY <2>1 DEF NoGapInv
  <2> QED
    BY <2>2 DEF Held, OnStream
<1> QED
  BY <1>1, LiveTypeCorrect, NoGapInvariant, PTL

-----------------------------------------------------------------------------
(* The backfill and the buffered messages.                                  *)

\* The phases in which each queue of a request is empty.
Shape(s) ==
  /\ phase[s] \in {"free", "subscribe", "closed", "failed"} => inbox[s] = <<>>
  /\ phase[s] \in {"free", "subscribe", "marker", "query"} => snapshot[s] = <<>>
  /\ phase[s] \in {"free", "subscribe", "marker", "query", "flush"} => sent[s] = <<>>
  /\ phase[s] \in {"free", "subscribe", "live"} => buffer[s] = <<>>

\* An event is published once, so no message is received twice.
MessagesOnce(s) ==
  /\ IsInjective(inbox[s]) /\ IsInjective(buffer[s])
  /\ ToSet(inbox[s]) \cap ToSet(buffer[s]) = {}
  /\ \A e \in ToSet(inbox[s]) \cup ToSet(buffer[s]) : handler[e] = "published"

FlushInv == \A s \in Streams : Ascending(snapshot[s]) /\ Shape(s) /\ MessagesOnce(s)

LEMMA EventsAreNumbers == \A q \in Seq(Events) : q \in Seq(Nat)
<1> SUFFICES ASSUME NEW q \in Seq(Events) PROVE q \in Seq(Nat)
  OBVIOUS
<1>1. Len(q) \in Nat /\ q \in [1..Len(q) -> Events] /\ Events \subseteq Nat
  BY LiveStreamAssumption
<1>2. q \in [1..Len(q) -> Nat]
  BY <1>1
<1> QED
  BY <1>1, <1>2

LEMMA EmptyOnce == IsInjective(<<>>) /\ Ascending(<<>>) /\ ToSet(<<>>) = {}
  BY DEF IsInjective, Ascending, ToSet

\* A request that a step leaves alone, whatever it publishes elsewhere.
LEMMA SameMessages ==
  ASSUME LiveTypeOK, NEW s \in Streams, Ascending(snapshot[s]), Shape(s), MessagesOnce(s),
         \A e \in Events : handler[e] = "published" => handler'[e] = "published",
         phase'[s] = phase[s], snapshot'[s] = snapshot[s], inbox'[s] = inbox[s],
         buffer'[s] = buffer[s], sent'[s] = sent[s]
  PROVE  Ascending(snapshot[s])' /\ Shape(s)' /\ MessagesOnce(s)'
<1>1. ToSet(inbox[s])' = ToSet(inbox[s]) /\ ToSet(buffer[s])' = ToSet(buffer[s])
  OBVIOUS
<1>2. IsInjective(inbox[s])' /\ IsInjective(buffer[s])' /\ Ascending(snapshot[s])'
  BY DEF MessagesOnce
<1>3. Shape(s)'
  BY DEF Shape
<1>4. ToSet(inbox[s]) \subseteq Events /\ ToSet(buffer[s]) \subseteq Events
  BY DEF ToSet, LiveTypeOK, StreamTypes
<1>5. MessagesOnce(s)'
  BY <1>1, <1>2, <1>4 DEF MessagesOnce
<1> QED
  BY <1>2, <1>3, <1>5

LEMMA FlushInductive == LiveTypeOK /\ FlushInv /\ [LiveNext]_liveVars => FlushInv'
<1> SUFFICES ASSUME LiveTypeOK, FlushInv, [LiveNext]_liveVars, NEW r \in Streams
             PROVE  Ascending(snapshot[r])' /\ Shape(r)' /\ MessagesOnce(r)'
  BY DEF FlushInv
<1> DEFINE Goal == Ascending(snapshot[r])' /\ Shape(r)' /\ MessagesOnce(r)'
<1>0. Ascending(snapshot[r]) /\ Shape(r) /\ MessagesOnce(r)
  BY DEF FlushInv
<1>a. /\ inbox[r] \in Seq(Events) /\ buffer[r] \in Seq(Events) /\ sent[r] \in Seq(Events)
      /\ snapshot[r] \in Seq(Events) /\ Events \subseteq Nat
  BY LiveStreamAssumption DEF LiveTypeOK, StreamTypes
<1>b. inbox[r] \in Seq(Nat) /\ buffer[r] \in Seq(Nat)
  BY <1>a, EventsAreNumbers
<1>c. ToSet(inbox[r]) \subseteq Events /\ ToSet(buffer[r]) \subseteq Events
  BY <1>a DEF ToSet
<1>1. ASSUME NEW e \in Events, Commit(e) \/ PublishFails(e) \/ DeleteEvent(e) PROVE Goal
  <2>1. \A f \in Events : handler[f] = "published" => handler'[f] = "published"
    BY <1>1 DEF Commit, PublishFails, DeleteEvent, LiveTypeOK, IngestTypes
  <2> QED
    BY <1>1, <1>0, <2>1, SameMessages DEF Commit, PublishFails, DeleteEvent, streamVars
<1>2. ASSUME NEW e \in Events, Publish(e) PROVE Goal
  <2>1. /\ \A f \in Events : handler[f] = "published" => handler'[f] = "published"
        /\ handler'[e] = "published" /\ handler[e] = "committed"
    BY <1>2 DEF Publish, LiveTypeOK, IngestTypes
  <2>2. CASE ~Subscribed(r)
    <3>1. inbox'[r] = inbox[r]
      BY <1>2, <2>2 DEF Publish
    <3> QED
      BY <1>2, <1>0, <2>1, <3>1, SameMessages DEF Publish
  <2>3. CASE Subscribed(r)
    <3>1. inbox'[r] = Append(inbox[r], e)
      BY <1>2, <2>3 DEF Publish
    <3>2. e \notin ToSet(inbox[r]) \cup ToSet(buffer[r])
      BY <1>0, <2>1 DEF MessagesOnce
    <3>3. ToSet(inbox[r])' = ToSet(inbox[r]) \cup {e}
      BY <1>a, <3>1, AppendElements
    <3>4. IsInjective(Append(inbox[r], e))
      BY <1>0, <1>a, <1>b, <3>2, AppendKeeps DEF MessagesOnce
    <3>5. MessagesOnce(r)'
      BY <1>2, <1>0, <1>c, <2>1, <3>1, <3>2, <3>3, <3>4 DEF Publish, MessagesOnce
    <3>6. Shape(r)' /\ Ascending(snapshot[r])'
      BY <1>2, <1>0, <2>3 DEF Publish, Shape, Subscribed
    <3> QED
      BY <3>5, <3>6
  <2> QED
    BY <2>2, <2>3
<1>3. ASSUME NEW s \in Streams, r # s,
             Connect(s) \/ Handler(s) \/ Receive(s) \/ Cleanup(s) \/ Forget(s) \/ StartFails(s)
      PROVE  Goal
  BY <1>3, <1>0, OtherRequest, SameMessages
<1>4. CASE Connect(r) \/ Subscribe(r) \/ FindMarker(r)
  <2>1. UNCHANGED <<snapshot, inbox, buffer, sent, handler>>
    BY <1>4 DEF Connect, Subscribe, FindMarker, ingestVars
  <2>2. Shape(r)'
    BY <1>4, <1>0, <2>1 DEF Shape, Connect, Subscribe, FindMarker, Goto, LiveTypeOK, StreamTypes
  <2> QED
    BY <1>0, <2>1, <2>2 DEF MessagesOnce
<1>5. CASE RunQuery(r)
  <2>1. PICK q \in [1..Cardinality(Missed(r)) -> Missed(r)] :
          Enumerates(q, Missed(r)) /\ snapshot' = [snapshot EXCEPT ![r] = q]
    BY <1>5 DEF RunQuery
  <2>2. snapshot'[r] = q
    BY <2>1 DEF LiveTypeOK, StreamTypes
  <2>3. Ascending(snapshot[r])'
    BY <2>1, <2>2 DEF Enumerates, Ascending
  <2>4. Shape(r)'
    BY <1>5, <1>0 DEF Shape, RunQuery, Goto, LiveTypeOK, StreamTypes
  <2>5. MessagesOnce(r)'
    BY <1>5, <1>0 DEF MessagesOnce, RunQuery, ingestVars
  <2> QED
    BY <2>3, <2>4, <2>5
<1>6. CASE GoLive(r)
  <2>1. buffer'[r] = <<>> /\ phase'[r] = "live" /\ UNCHANGED <<snapshot, inbox, handler>>
    BY <1>6 DEF GoLive, Goto, LiveTypeOK, StreamTypes, ingestVars
  <2>2. Shape(r)'
    BY <2>1 DEF Shape
  <2>3. MessagesOnce(r)'
    BY <1>0, <2>1, EmptyOnce DEF MessagesOnce
  <2> QED
    BY <1>0, <2>1, <2>2, <2>3
<1>7. CASE Receive(r)
  <2>1. /\ Subscribed(r) /\ inbox[r] # <<>> /\ inbox'[r] = Tail(inbox[r])
        /\ UNCHANGED <<phase, snapshot, handler>>
    BY <1>7 DEF Receive, LiveTypeOK, StreamTypes, ingestVars
  <2> DEFINE m == Head(inbox[r])
  <2>2. /\ m \in Events /\ ToSet(inbox[r]) = {m} \cup ToSet(inbox[r])'
        /\ IsInjective(inbox[r])' /\ m \notin ToSet(inbox[r])'
    BY <1>a, <1>b, <1>0, <2>1, TailElements, TailKeeps DEF MessagesOnce
  <2>3. CASE phase[r] = "live"
    <3>1. buffer'[r] = buffer[r]
      BY <1>7, <2>3 DEF Receive
    <3>2. Shape(r)'
      BY <1>0, <2>1, <2>3, <3>1 DEF Shape
    <3>3. MessagesOnce(r)'
      BY <1>0, <2>1, <2>2, <3>1 DEF MessagesOnce
    <3> QED
      BY <1>0, <2>1, <3>2, <3>3
  <2>4. CASE phase[r] # "live"
    <3>1. buffer'[r] = Append(buffer[r], m) /\ sent'[r] = sent[r]
      BY <1>7, <2>4 DEF Receive, LiveTypeOK, StreamTypes
    <3>2. Shape(r)'
      BY <1>0, <2>1, <2>4, <3>1 DEF Shape, Subscribed
    <3> HIDE DEF m
    <3>3. m \notin ToSet(buffer[r]) /\ handler[m] = "published"
      BY <1>0, <2>2 DEF MessagesOnce
    <3>4. ToSet(buffer[r])' = ToSet(buffer[r]) \cup {m} /\ IsInjective(buffer[r])'
      <4>1. ToSet(Append(buffer[r], m)) = ToSet(buffer[r]) \cup {m}
        BY <1>a, <2>2, AppendElements
      <4>2. IsInjective(Append(buffer[r], m))
        BY <1>a, <1>b, <1>0, <2>2, <3>3, AppendKeeps DEF MessagesOnce
      <4> QED
        BY <3>1, <4>1, <4>2
    <3>5. MessagesOnce(r)'
      BY <1>0, <2>1, <2>2, <3>3, <3>4 DEF MessagesOnce
    <3> QED
      BY <1>0, <2>1, <3>2, <3>5
  <2> QED
    BY <2>3, <2>4
<1>8. CASE Cleanup(r) \/ StartFails(r)
  <2>1. /\ inbox'[r] = <<>> /\ phase'[r] \in {"closed", "failed"}
        /\ UNCHANGED <<snapshot, buffer, sent, handler>>
    BY <1>8 DEF Cleanup, StartFails, Goto, LiveTypeOK, StreamTypes, ingestVars
  <2>2. Shape(r)'
    BY <2>1 DEF Shape
  <2>3. MessagesOnce(r)'
    BY <1>0, <2>1, EmptyOnce DEF MessagesOnce
  <2> QED
    BY <1>0, <2>1, <2>2, <2>3
<1>9. CASE Forget(r)
  <2>1. /\ snapshot'[r] = <<>> /\ buffer'[r] = <<>> /\ sent'[r] = <<>>
        /\ phase[r] = "closed" /\ UNCHANGED <<inbox, handler>>
    BY <1>9 DEF Forget, LiveTypeOK, StreamTypes, ingestVars
  <2>2. inbox[r] = <<>>
    BY <1>0, <2>1 DEF Shape
  <2>3. Shape(r)'
    BY <2>1, <2>2 DEF Shape
  <2>4. MessagesOnce(r)'
    BY <2>1, <2>2, EmptyOnce DEF MessagesOnce
  <2> QED
    BY <2>1, <2>3, <2>4, EmptyOnce
<1>10. CASE Take \/ EndOfStream \/ Break \/ UNCHANGED liveVars
  BY <1>10, <1>0, SameMessages DEF Take, EndOfStream, Break, liveVars, ingestVars, streamVars
<1> QED
  BY <1>1, <1>2, <1>3, <1>4, <1>5, <1>6, <1>7, <1>8, <1>9, <1>10
     DEF LiveNext, Handler, Refuse

LEMMA FlushInvariant == LiveSpec => []FlushInv
<1>1. LiveInit => FlushInv
  <2> SUFFICES ASSUME LiveInit, NEW s \in Streams
               PROVE  Ascending(snapshot[s]) /\ Shape(s) /\ MessagesOnce(s)
    BY DEF FlushInv
  <2>1. inbox[s] = <<>> /\ buffer[s] = <<>> /\ snapshot[s] = <<>> /\ sent[s] = <<>>
    BY DEF LiveInit
  <2> QED
    BY <2>1, EmptyOnce DEF Shape, MessagesOnce
<1> QED
  BY <1>1, FlushInductive, LiveTypeCorrect, PTL DEF LiveSpec

\* When a stream goes live it has sent no event twice, although the backfill and
\* the subscription overlap: the buffer is filtered by what the backfill sent,
\* and neither repeats an event.
THEOREM BackfillMeetsSubscription == LiveSpec => FlushedOnce
<1> DEFINE Once == \A s \in Streams :
                     phase[s] = "flush" /\ phase'[s] = "live" => IsInjective(sent'[s])
<1>1. LiveTypeOK /\ FlushInv /\ [LiveNext]_liveVars => [Once]_liveVars
  <2> SUFFICES ASSUME LiveTypeOK, FlushInv, LiveNext, NEW s \in Streams,
                      phase[s] = "flush", phase'[s] = "live"
               PROVE  IsInjective(sent'[s])
    OBVIOUS
  <2>1. GoLive(s)
    <3>1. phase'[s] # phase[s]
      OBVIOUS
    <3>2. ~\E e \in Events : Commit(e) \/ Publish(e) \/ PublishFails(e) \/ DeleteEvent(e)
      BY <3>1 DEF Commit, Publish, PublishFails, DeleteEvent, streamVars
    <3>3. ~Refuse /\ ~Take /\ ~EndOfStream /\ ~Break
      BY <3>1 DEF Refuse, Take, EndOfStream, Break, liveVars, streamVars
    <3>4. PICK r \in Streams : \/ Connect(r) \/ Handler(r) \/ Receive(r)
                               \/ Cleanup(r) \/ Forget(r) \/ StartFails(r)
      BY <3>2, <3>3 DEF LiveNext
    <3>5. r = s
      BY <3>1, <3>4, OtherRequest
    <3> QED
      BY <3>4, <3>5 DEF Connect, Handler, Subscribe, FindMarker, RunQuery, Receive, Cleanup, Forget,
                        StartFails, Goto, LiveTypeOK, StreamTypes
  <2>2. PICK h \in [1..Cardinality(Unsent(s)) -> Unsent(s)] :
          /\ Enumerates(h, Unsent(s))
          /\ sent' = [sent EXCEPT ![s] = snapshot[s] \o [i \in DOMAIN h |-> buffer[s][h[i]]]]
    BY <2>1 DEF GoLive
  <2> DEFINE q == [i \in DOMAIN h |-> buffer[s][h[i]]]
  <2>3. sent'[s] = snapshot[s] \o q
    BY <2>2 DEF LiveTypeOK, StreamTypes
  <2>4. q \in Seq(Events)
    BY <2>2, UnsentElements
  <2>5. IsInjective(q) /\ ToSet(q) \cap ToSet(snapshot[s]) = {}
    BY <2>2, FlushedMessages DEF FlushInv, MessagesOnce
  <2> HIDE DEF q
  <2>6. snapshot[s] \in Seq(Nat) /\ q \in Seq(Nat) /\ Ascending(snapshot[s])
    BY <2>4, EventsAreNumbers DEF LiveTypeOK, StreamTypes, FlushInv
  <2> QED
    BY <2>3, <2>5, <2>6, ConcatOnce
<1> QED
  BY <1>1, LiveTypeCorrect, FlushInvariant, PTL DEF LiveSpec, FlushedOnce

-----------------------------------------------------------------------------
(* Reading on where the last stream stopped.                                *)

\* Nothing has failed and no event has overtaken another.
Calm == faults = 0 /\ ~overlapped

\* Events are stored in their order, and each is published before the next.
InOrder ==
  /\ table = {e \in Events : handler[e] # "new"}
  /\ \A e \in Events : handler[e] # "silent"
  /\ \A c \in Events, e \in table : handler[c] = "committed" => e <= c

\* The last event the client has read, on this stream or on an earlier one.
Frontier == IF conn # None /\ lastSeen # None THEN lastSeen ELSE resumeFrom

\* The client has forwarded what it has read of the stream, and of what is
\* stored it has skipped nothing up to the frontier.
ClientInOrder ==
  /\ forwarded \subseteq table
  /\ resumeFrom # None => resumeFrom \in forwarded
  /\ forwarded # {} => Frontier # None
  /\ conn # None =>
       /\ lastEventId[conn] = resumeFrom
       /\ taken <= Len(sent[conn])
       /\ \A i \in 1..taken : sent[conn][i] \in forwarded
       /\ lastSeen = IF taken = 0 THEN None ELSE sent[conn][taken]
  /\ \A e \in table \ forwarded : (\E f \in forwarded : f < e) => e > Frontier

Stored(s) ==
  ToSet(sent[s]) \cup ToSet(inbox[s]) \cup ToSet(buffer[s]) \cup ToSet(snapshot[s]) \subseteq table

\* A marker is found, and nothing that is published after the subscription or
\* queried is before it.
AfterMarker(s) ==
  /\ lastEventId[s] # None => \A e \in ToSet(inbox[s]) \cup ToSet(buffer[s]) : lastEventId[s] <= e
  /\ lastEventId[s] # None => \A e \in ToSet(snapshot[s]) \cup ToSet(sent[s]) : lastEventId[s] <= e
  /\ phase[s] \in {"query", "flush", "live"} => (resumed[s] <=> lastEventId[s] # None)
  /\ phase[s] = "query" => lastEventId[s] # None

\* Messages come in the order of events; one that the backfill has passed by is
\* in the backfill, or is the marker.
ArrivesInOrder(s) ==
  /\ Ascending(inbox[s]) /\ Ascending(buffer[s])
  /\ \A b \in ToSet(buffer[s]), y \in ToSet(inbox[s]) : b <= y
  /\ \A q \in ToSet(snapshot[s]), y \in ToSet(buffer[s]) \cup ToSet(inbox[s]) :
       y \in ToSet(snapshot[s]) \/ q <= y \/ y = lastEventId[s]

\* y, which comes after the i-th event of the stream, is later than that event,
\* or is the marker, or is repeated.
Follows(s, i, y) ==
  sent[s][i] <= y \/ y = lastEventId[s] \/ \E k \in 1..(i - 1) : sent[s][k] = y

SentInOrder(s) ==
  /\ \A i, j \in DOMAIN sent[s] : i < j => Follows(s, i, sent[s][j])
  /\ \A i \in DOMAIN sent[s], y \in ToSet(inbox[s]) : Follows(s, i, y)

\* What is published after an event of the stream is on the stream.
NothingBetween(s) ==
  \A x \in Held(s), e \in Events : x < e /\ handler[e] = "published" => e \in Held(s)

StreamInOrder(s) ==
  Stored(s) /\ AfterMarker(s) /\ ArrivesInOrder(s) /\ SentInOrder(s) /\ NothingBetween(s)

CalmInv == Calm => InOrder /\ ClientInOrder /\ (conn # None => StreamInOrder(conn))

\* The numbers among the things a request holds.
LEMMA StreamNumbers ==
  ASSUME LiveTypeOK, NEW s \in Streams
  PROVE  /\ Events \subseteq Nat /\ None \notin Nat /\ table \subseteq Events
         /\ lastEventId[s] \in Events \cup {None}
         /\ inbox[s] \in Seq(Events) /\ inbox[s] \in Seq(Nat) /\ ToSet(inbox[s]) \subseteq Events
         /\ buffer[s] \in Seq(Events) /\ buffer[s] \in Seq(Nat) /\ ToSet(buffer[s]) \subseteq Events
         /\ snapshot[s] \in Seq(Events) /\ snapshot[s] \in Seq(Nat)
         /\ ToSet(snapshot[s]) \subseteq Events
         /\ sent[s] \in Seq(Events) /\ ToSet(sent[s]) \subseteq Events
         /\ Len(sent[s]) \in Nat /\ DOMAIN sent[s] = 1..Len(sent[s])
         /\ \A i \in DOMAIN sent[s] : sent[s][i] \in ToSet(sent[s])
<1>1. /\ inbox[s] \in Seq(Events) /\ buffer[s] \in Seq(Events) /\ snapshot[s] \in Seq(Events)
      /\ sent[s] \in Seq(Events) /\ lastEventId[s] \in Events \cup {None}
  BY DEF LiveTypeOK, StreamTypes
<1>2. Events \subseteq Nat /\ None \notin Nat /\ table \subseteq Events
  BY LiveStreamAssumption DEF LiveTypeOK, IngestTypes
<1>3. \A q \in Seq(Events) : ToSet(q) \subseteq Events /\ q \in Seq(Nat)
  BY EventsAreNumbers DEF ToSet
<1>4. Len(sent[s]) \in Nat /\ DOMAIN sent[s] = 1..Len(sent[s])
  BY <1>1
<1> QED
  BY <1>1, <1>2, <1>3, <1>4 DEF ToSet

\* A step that adds to the table at most, and leaves the request alone.
LEMMA SameStreamInOrder ==
  ASSUME NEW s \in Streams, StreamInOrder(s), table \subseteq table',
         \A e \in Events : handler'[e] = "published" => handler[e] = "published",
         phase'[s] = phase[s], resumed'[s] = resumed[s], lastEventId'[s] = lastEventId[s],
         inbox'[s] = inbox[s], sent'[s] = sent[s], buffer'[s] = buffer[s],
         snapshot'[s] = snapshot[s]
  PROVE  StreamInOrder(s)'
<1>1. Held(s)' = Held(s)
  BY DEF Held
<1>2. NothingBetween(s)'
  BY <1>1 DEF StreamInOrder, NothingBetween
<1>3. Stored(s)' /\ AfterMarker(s)' /\ ArrivesInOrder(s)'
  BY DEF StreamInOrder, Stored, AfterMarker, ArrivesInOrder
<1>4. SentInOrder(s)'
  BY DEF StreamInOrder, SentInOrder, Follows
<1> QED
  BY <1>2, <1>3, <1>4 DEF StreamInOrder

LEMMA PublishInOrder ==
  ASSUME LiveTypeOK, FlushInv, InOrder, NEW s \in Streams, StreamInOrder(s), Subscribed(s),
         lastEventId[s] \in table \cup {None}, NEW e \in Events, Publish(e)
  PROVE  StreamInOrder(s)'
<1>1. /\ inbox'[s] = Append(inbox[s], e) /\ handler[e] = "committed"
      /\ handler' = [handler EXCEPT ![e] = "published"]
      /\ UNCHANGED <<table, phase, lastEventId, resumed, snapshot, buffer, sent>>
  BY DEF Publish
<1>2. ToSet(inbox[s])' = ToSet(inbox[s]) \cup {e}
  BY <1>1, StreamNumbers, AppendElements
<1>3. e \in table /\ \A x \in table : x \in Nat /\ x <= e
  BY <1>1, StreamNumbers DEF InOrder
<1>4. e \notin ToSet(inbox[s]) \cup ToSet(buffer[s])
  BY <1>1 DEF FlushInv, MessagesOnce
<1>5. Stored(s)'
  BY <1>1, <1>2, <1>3 DEF StreamInOrder, Stored
<1>6. AfterMarker(s)'
  BY <1>1, <1>2, <1>3 DEF StreamInOrder, AfterMarker
<1>7. ArrivesInOrder(s)'
  <2>1. \A x \in ToSet(inbox[s]) : x < e
    BY <1>3, <1>4, StreamNumbers DEF StreamInOrder, Stored
  <2>2. Ascending(inbox[s])'
    BY <1>1, <2>1, StreamNumbers, AppendKeeps, e \in Nat DEF StreamInOrder, ArrivesInOrder
  <2> QED
    BY <1>1, <1>2, <1>3, <2>2 DEF StreamInOrder, ArrivesInOrder, Stored
<1>8. SentInOrder(s)'
  <2>1. \A i \in DOMAIN sent[s] : sent[s][i] <= e
    BY <1>3, StreamNumbers DEF StreamInOrder, Stored
  <2> QED
    BY <1>1, <1>2, <2>1 DEF StreamInOrder, SentInOrder, Follows
<1>9. NothingBetween(s)'
  <2>1. Held(s)' = Held(s) \cup {e}
    BY <1>1, <1>2 DEF Held
  <2> SUFFICES ASSUME NEW x \in Held(s)', NEW f \in Events, x < f, handler'[f] = "published", f # e
               PROVE  f \in Held(s)
    BY <2>1 DEF NothingBetween
  <2>2. handler[f] = "published"
    BY <1>1 DEF LiveTypeOK, IngestTypes
  <2>3. f \in table
    BY <2>2 DEF InOrder
  <2>4. x # e
    BY <1>3, <2>3
  <2> QED
    BY <2>1, <2>2, <2>4 DEF StreamInOrder, NothingBetween
<1> QED
  BY <1>5, <1>6, <1>7, <1>8, <1>9 DEF StreamInOrder

LEMMA QueryInOrder ==
  ASSUME LiveTypeOK, FlushInv, InOrder, NEW s \in Streams, StreamInOrder(s), RunQuery(s)
  PROVE  StreamInOrder(s)'
<1>1. PICK q \in [1..Cardinality(Missed(s)) -> Missed(s)] :
        Enumerates(q, Missed(s)) /\ snapshot' = [snapshot EXCEPT ![s] = q]
  BY DEF RunQuery
<1>2. /\ ToSet(snapshot[s])' = Missed(s)
      /\ phase[s] = "query" /\ phase'[s] = "flush" /\ resumed[s] /\ lastEventId[s] \in Events
      /\ UNCHANGED <<table, handler, lastEventId, resumed, inbox, buffer, sent>>
  <2>1. snapshot'[s] = q
    BY <1>1 DEF LiveTypeOK, StreamTypes
  <2>2. /\ phase[s] = "query" /\ phase'[s] = "flush"
        /\ UNCHANGED <<table, handler, lastEventId, resumed, inbox, buffer, sent>>
    BY DEF RunQuery, Goto, LiveTypeOK, StreamTypes, ingestVars
  <2> QED
    BY <1>1, <2>1, <2>2, StreamNumbers DEF Enumerates, StreamInOrder, AfterMarker
<1>3. sent[s] = <<>> /\ snapshot[s] = <<>>
  BY <1>2 DEF FlushInv, Shape
<1>4. Held(s) = ToSet(inbox[s]) \cup ToSet(buffer[s]) /\ Held(s)' = Held(s) \cup Missed(s)
  BY <1>2, <1>3, EmptyOnce DEF Held
<1>5. Stored(s)'
  BY <1>2 DEF StreamInOrder, Stored, Missed
<1>6. AfterMarker(s)'
  <2>1. \A e \in Missed(s) : lastEventId[s] <= e
    BY <1>2, StreamNumbers DEF Missed
  <2>2. ToSet(sent[s])' = {}
    BY <1>2, <1>3, EmptyOnce
  <2> QED
    BY <1>2, <2>1, <2>2 DEF StreamInOrder, AfterMarker
<1>7. ArrivesInOrder(s)'
  <2>1. ASSUME NEW y \in ToSet(buffer[s]) \cup ToSet(inbox[s])
        PROVE  y \in Missed(s) \/ y = lastEventId[s]
    BY <1>2, StreamNumbers DEF StreamInOrder, Stored, AfterMarker, Missed
  <2> QED
    BY <1>2, <2>1 DEF StreamInOrder, ArrivesInOrder
<1>8. SentInOrder(s)'
  BY <1>2, <1>3 DEF SentInOrder
<1>9. NothingBetween(s)'
  <2> SUFFICES ASSUME NEW x \in Held(s) \cup Missed(s), NEW e \in Events, x < e,
                      handler[e] = "published"
               PROVE  e \in Held(s) \cup Missed(s)
    BY <1>2, <1>4 DEF NothingBetween
  <2>1. e \in table
    BY DEF InOrder
  <2>2. CASE x \in Held(s)
    BY <2>2 DEF StreamInOrder, NothingBetween
  <2>3. CASE x \in Missed(s)
    BY <1>2, <2>1, <2>3, StreamNumbers DEF Missed
  <2> QED
    BY <2>2, <2>3
<1> QED
  BY <1>5, <1>6, <1>7, <1>8, <1>9 DEF StreamInOrder


\* The order of one ascending sequence before another.
LEMMA ConcatInOrder ==
  ASSUME NEW p \in Seq(Nat), NEW q \in Seq(Nat), Ascending(p), Ascending(q)
  PROVE  /\ \A i, j \in DOMAIN (p \o q) : i < j =>
              \/ (p \o q)[i] <= (p \o q)[j]
              \/ (p \o q)[i] \in ToSet(p) /\ (p \o q)[j] \in ToSet(q)
         /\ \A i \in DOMAIN (p \o q) :
              \/ (p \o q)[i] \in ToSet(q)
              \/ /\ (p \o q)[i] \in ToSet(p)
                 /\ \A y \in ToSet(p) : (p \o q)[i] <= y \/ \E k \in 1..(i - 1) : (p \o q)[k] = y
<1> DEFINE r == p \o q
<1>1. /\ DOMAIN r = 1..(Len(p) + Len(q)) /\ Len(p) \in Nat /\ Len(q) \in Nat
      /\ DOMAIN p = 1..Len(p) /\ DOMAIN q = 1..Len(q)
      /\ \A i \in DOMAIN r : r[i] = IF i <= Len(p) THEN p[i] ELSE q[i - Len(p)]
  OBVIOUS
<1>2. \A i \in DOMAIN p : i \in DOMAIN r /\ r[i] = p[i] /\ p[i] \in ToSet(p) /\ p[i] \in Nat
  BY <1>1 DEF ToSet
<1>3. \A i \in DOMAIN q : q[i] \in ToSet(q) /\ q[i] \in Nat
  BY DEF ToSet
<1>4. \A i \in DOMAIN r : \/ i \in DOMAIN p
                          \/ i > Len(p) /\ i - Len(p) \in DOMAIN q /\ r[i] = q[i - Len(p)]
  BY <1>1
<1> HIDE DEF r
<1>5. ASSUME NEW i \in DOMAIN r, NEW j \in DOMAIN r, i < j
      PROVE  r[i] <= r[j] \/ (r[i] \in ToSet(p) /\ r[j] \in ToSet(q))
  <2>1. CASE i \in DOMAIN p /\ j \in DOMAIN p
    <3>1. p[i] < p[j]
      BY <1>5, <2>1 DEF Ascending
    <3>2. r[i] = p[i] /\ r[j] = p[j] /\ p[i] \in Nat /\ p[j] \in Nat
      BY <1>2, <2>1
    <3> QED
      BY <3>1, <3>2
  <2>2. CASE i \in DOMAIN p /\ j \notin DOMAIN p
    BY <1>2, <1>3, <1>4, <2>2
  <2>3. CASE i \notin DOMAIN p
    <3>1. i - Len(p) \in DOMAIN q /\ r[i] = q[i - Len(p)] /\ i > Len(p)
      BY <1>4, <2>3
    <3>2. j - Len(p) \in DOMAIN q /\ r[j] = q[j - Len(p)]
      BY <1>1, <1>4, <1>5, <3>1
    <3>3. i - Len(p) < j - Len(p)
      BY <1>1, <1>5
    <3>4. q[i - Len(p)] < q[j - Len(p)]
      BY <3>1, <3>2, <3>3 DEF Ascending
    <3>5. q[i - Len(p)] \in Nat /\ q[j - Len(p)] \in Nat
      BY <1>3, <3>1, <3>2
    <3> QED
      BY <3>1, <3>2, <3>4, <3>5
  <2> QED
    BY <2>1, <2>2, <2>3
<1>6. ASSUME NEW i \in DOMAIN r, r[i] \notin ToSet(q)
      PROVE  /\ r[i] \in ToSet(p)
             /\ \A y \in ToSet(p) : r[i] <= y \/ \E k \in 1..(i - 1) : r[k] = y
  <2>1. i \in DOMAIN p
    BY <1>3, <1>4, <1>6
  <2> SUFFICES ASSUME NEW y \in ToSet(p), ~(r[i] <= y) PROVE \E k \in 1..(i - 1) : r[k] = y
    BY <1>2, <2>1
  <2>2. PICK k \in DOMAIN p : p[k] = y
    BY DEF ToSet
  <2>3. r[i] = p[i] /\ r[k] = y /\ p[i] \in Nat /\ y \in Nat
    BY <1>2, <2>1, <2>2
  <2>4. ~(i < k) /\ i # k
    <3>1. y < p[i]
      BY <2>3
    <3>2. i < k => p[i] < y
      BY <2>1, <2>2 DEF Ascending
    <3> QED
      BY <2>2, <2>3, <3>1, <3>2
  <2>5. k \in 1..(i - 1)
    BY <1>1, <2>1, <2>4
  <2> QED
    BY <2>3, <2>5
<1> QED
  BY <1>5, <1>6 DEF r

LEMMA FlushInOrder ==
  ASSUME LiveTypeOK, FlushInv, NEW s \in Streams, StreamInOrder(s), GoLive(s)
  PROVE  StreamInOrder(s)'
<1>1. PICK h \in [1..Cardinality(Unsent(s)) -> Unsent(s)] :
        /\ Enumerates(h, Unsent(s))
        /\ sent' = [sent EXCEPT ![s] = snapshot[s] \o [i \in DOMAIN h |-> buffer[s][h[i]]]]
  BY DEF GoLive
<1> DEFINE p == snapshot[s]
           q == [i \in DOMAIN h |-> buffer[s][h[i]]]
<1>2. /\ sent'[s] = p \o q /\ buffer'[s] = <<>>
      /\ phase[s] = "flush" /\ phase'[s] = "live"
      /\ UNCHANGED <<table, handler, lastEventId, resumed, snapshot, inbox>>
  BY <1>1 DEF GoLive, Goto, LiveTypeOK, StreamTypes, ingestVars
<1>3. q \in Seq(Events) /\ ToSet(buffer[s]) \subseteq ToSet(snapshot[s]) \cup ToSet(q)
  BY <1>1, UnsentElements
<1>4. ToSet(q) \subseteq ToSet(buffer[s]) \ ToSet(snapshot[s]) /\ Ascending(q)
  BY <1>1, FlushedMessages DEF StreamInOrder, ArrivesInOrder
<1> HIDE DEF q
<1>5. p \in Seq(Nat) /\ q \in Seq(Nat) /\ Ascending(p) /\ p \in Seq(Events)
  BY <1>3, EventsAreNumbers, StreamNumbers DEF FlushInv
<1>6. ToSet(sent[s])' = ToSet(snapshot[s]) \cup ToSet(q)
  BY <1>2, <1>3, <1>5, ConcatElements
<1>7. Held(s)' = Held(s)
  BY <1>2, <1>3, <1>4, <1>6 DEF Held
<1>8. Stored(s)'
  BY <1>2, <1>4, <1>6, EmptyOnce DEF StreamInOrder, Stored
<1>9. AfterMarker(s)'
  <2>1. ToSet(buffer[s])' = {}
    BY <1>2, EmptyOnce
  <2>2. /\ ToSet(inbox[s])' = ToSet(inbox[s]) /\ ToSet(snapshot[s])' = ToSet(snapshot[s])
        /\ lastEventId'[s] = lastEventId[s] /\ resumed'[s] = resumed[s]
    BY <1>2
  <2> QED
    BY <1>2, <1>4, <1>6, <2>1, <2>2 DEF StreamInOrder, AfterMarker
<1>10. ArrivesInOrder(s)'
  BY <1>2, EmptyOnce DEF StreamInOrder, ArrivesInOrder
<1>11. SentInOrder(s)'
  <2>1. \A x \in ToSet(snapshot[s]), y \in ToSet(q) : x <= y \/ y = lastEventId[s]
    BY <1>4 DEF StreamInOrder, ArrivesInOrder
  <2>2. \A x \in ToSet(snapshot[s]), y \in ToSet(inbox[s]) :
          y \in ToSet(snapshot[s]) \/ x <= y \/ y = lastEventId[s]
    BY DEF StreamInOrder, ArrivesInOrder
  <2>3. \A x \in ToSet(q), y \in ToSet(inbox[s]) : x <= y
    BY <1>4 DEF StreamInOrder, ArrivesInOrder
  <2> DEFINE r == p \o q
  <2>4. /\ \A i, j \in DOMAIN r : i < j => r[i] <= r[j] \/ (r[i] \in ToSet(p) /\ r[j] \in ToSet(q))
        /\ \A i \in DOMAIN r :
             \/ r[i] \in ToSet(q)
             \/ /\ r[i] \in ToSet(p)
                /\ \A y \in ToSet(p) : r[i] <= y \/ \E k \in 1..(i - 1) : r[k] = y
    BY <1>4, <1>5, ConcatInOrder
  <2>5. sent'[s] = r /\ lastEventId'[s] = lastEventId[s] /\ ToSet(inbox[s])' = ToSet(inbox[s])
    BY <1>2
  <2> HIDE DEF r
  <2>6. ASSUME NEW i \in DOMAIN r, NEW j \in DOMAIN r, i < j
        PROVE  r[i] <= r[j] \/ r[j] = lastEventId[s]
    BY <2>1, <2>4, <2>6
  <2>7. ASSUME NEW i \in DOMAIN r, NEW y \in ToSet(inbox[s])
        PROVE  r[i] <= y \/ y = lastEventId[s] \/ \E k \in 1..(i - 1) : r[k] = y
    <3>1. CASE r[i] \in ToSet(q)
      BY <2>3, <3>1
    <3>2. CASE r[i] \notin ToSet(q)
      BY <2>2, <2>4, <3>2
    <3> QED
      BY <3>1, <3>2
  <2> QED
    BY <2>5, <2>6, <2>7 DEF SentInOrder, Follows
<1>12. NothingBetween(s)'
  BY <1>2, <1>7 DEF StreamInOrder, NothingBetween
<1> QED
  BY <1>8, <1>9, <1>10, <1>11, <1>12 DEF StreamInOrder

LEMMA ReceiveInOrder ==
  ASSUME LiveTypeOK, FlushInv, NEW s \in Streams, StreamInOrder(s), Receive(s)
  PROVE  StreamInOrder(s)'
<1> DEFINE m == Head(inbox[s])
<1>1. /\ inbox[s] # <<>> /\ inbox'[s] = Tail(inbox[s])
      /\ UNCHANGED <<table, handler, phase, lastEventId, resumed, snapshot>>
  BY DEF Receive, LiveTypeOK, StreamTypes, ingestVars
<1>2. /\ m \in Events /\ m \in Nat
      /\ ToSet(inbox[s]) = {m} \cup ToSet(inbox[s])'
      /\ Ascending(inbox[s])' /\ \A y \in ToSet(inbox[s])' : m < y
  BY <1>1, StreamNumbers, TailElements, TailKeeps DEF StreamInOrder, ArrivesInOrder
<1>a. \A y \in ToSet(inbox[s]) \cup ToSet(buffer[s]) : y \in Nat
  BY StreamNumbers
<1>b. \A y \in ToSet(inbox[s])' : y \in Nat /\ m <= y
  <2> SUFFICES ASSUME NEW y \in ToSet(inbox[s])' PROVE y \in Nat /\ m <= y
    OBVIOUS
  <2>1. y \in Nat
    BY <1>2, <1>a
  <2>2. m < y
    BY <1>2
  <2> QED
    BY <1>2, <2>1, <2>2
<1>3. CASE phase[s] = "live"
  <2>1. sent'[s] = Append(sent[s], m) /\ buffer'[s] = buffer[s] /\ buffer[s] = <<>>
    BY <1>3 DEF Receive, LiveTypeOK, StreamTypes, FlushInv, Shape
  <2> HIDE DEF m
  <2>2. ToSet(sent[s])' = ToSet(sent[s]) \cup {m}
    BY <2>1, <1>2, StreamNumbers, AppendElements
  <2>3. Stored(s)'
    BY <1>1, <1>2, <2>1, <2>2 DEF StreamInOrder, Stored
  <2>4. AfterMarker(s)' /\ ArrivesInOrder(s)'
    <3>1. AfterMarker(s)'
      BY <1>1, <1>2, <2>1, <2>2 DEF StreamInOrder, AfterMarker
    <3>2. ArrivesInOrder(s)'
      BY <1>1, <1>2, <2>1 DEF StreamInOrder, ArrivesInOrder
    <3> QED
      BY <3>1, <3>2
  <2>5. SentInOrder(s)'
    <3>1. /\ DOMAIN sent'[s] = 1..(Len(sent[s]) + 1) /\ DOMAIN sent[s] = 1..Len(sent[s])
          /\ Len(sent[s]) \in Nat
          /\ sent'[s][Len(sent[s]) + 1] = m
          /\ \A i \in DOMAIN sent[s] : sent'[s][i] = sent[s][i]
      BY <2>1, <1>2, StreamNumbers
    <3>2. ASSUME NEW i \in DOMAIN sent[s], NEW y, Follows(s, i, y) PROVE Follows(s, i, y)'
      <4>1. \A k \in 1..(i - 1) : k \in DOMAIN sent[s]
        BY <3>1
      <4>2. sent'[s][i] = sent[s][i] /\ \A k \in 1..(i - 1) : sent'[s][k] = sent[s][k]
        BY <3>1, <4>1
      <4> QED
        BY <1>1, <3>2, <4>2 DEF Follows
    <3>3. \A i \in DOMAIN sent[s], y \in ToSet(inbox[s]) : Follows(s, i, y)'
      BY <3>2 DEF StreamInOrder, SentInOrder
    <3>4. ASSUME NEW i \in DOMAIN sent'[s], NEW j \in DOMAIN sent'[s], i < j
          PROVE  Follows(s, i, sent[s][j])'
      <4>1. i \in DOMAIN sent[s] /\ (j \in DOMAIN sent[s] \/ j = Len(sent[s]) + 1)
        BY <3>1, <3>4
      <4>2. CASE j \in DOMAIN sent[s]
        <5>1. Follows(s, i, sent[s][j])
          BY <3>4, <4>1, <4>2 DEF StreamInOrder, SentInOrder
        <5> QED
          BY <3>1, <3>2, <4>1, <4>2, <5>1
      <4>3. CASE j = Len(sent[s]) + 1
        BY <1>2, <3>1, <3>3, <4>1, <4>3
      <4> QED
        BY <4>1, <4>2, <4>3
    <3>5. ASSUME NEW i \in DOMAIN sent'[s], NEW y \in ToSet(inbox[s])' PROVE Follows(s, i, y)'
      <4>1. CASE i \in DOMAIN sent[s]
        BY <1>2, <3>3, <4>1
      <4>2. CASE i = Len(sent[s]) + 1
        BY <1>b, <3>1, <4>2 DEF Follows
      <4> QED
        BY <3>1, <4>1, <4>2
    <3> QED
      BY <3>4, <3>5 DEF SentInOrder
  <2>6. Held(s)' = Held(s)
    BY <1>1, <1>2, <1>3, <2>2 DEF Held
  <2>7. NothingBetween(s)'
    BY <1>1, <2>6 DEF StreamInOrder, NothingBetween
  <2> QED
    BY <2>3, <2>4, <2>5, <2>7 DEF StreamInOrder
<1>4. CASE phase[s] # "live"
  <2>1. sent'[s] = sent[s] /\ buffer'[s] = Append(buffer[s], m)
    BY <1>4 DEF Receive, LiveTypeOK, StreamTypes
  <2> HIDE DEF m
  <2>2. ToSet(buffer[s])' = ToSet(buffer[s]) \cup {m}
    BY <2>1, <1>2, StreamNumbers, AppendElements
  <2>3. Stored(s)' /\ AfterMarker(s)'
    <3>1. Stored(s)'
      BY <1>1, <1>2, <2>1, <2>2 DEF StreamInOrder, Stored
    <3>2. AfterMarker(s)'
      BY <1>1, <1>2, <2>1, <2>2 DEF StreamInOrder, AfterMarker
    <3> QED
      BY <3>1, <3>2
  <2>4. ArrivesInOrder(s)'
    <3>1. \A b \in ToSet(buffer[s]) : b < m
      <4>1. \A b \in ToSet(buffer[s]) : b <= m /\ b # m
        BY <1>2 DEF StreamInOrder, ArrivesInOrder, FlushInv, MessagesOnce
      <4> QED
        BY <1>2, <1>a, <4>1
    <3>2. Ascending(buffer[s])'
      BY <2>1, <3>1, <1>2, StreamNumbers, AppendKeeps DEF StreamInOrder, ArrivesInOrder
    <3>3. \A b \in ToSet(buffer[s])', y \in ToSet(inbox[s])' : b <= y
      BY <1>2, <1>b, <2>2 DEF StreamInOrder, ArrivesInOrder
    <3> QED
      BY <1>1, <1>2, <2>2, <3>2, <3>3 DEF StreamInOrder, ArrivesInOrder
  <2>5. SentInOrder(s)'
    BY <1>1, <1>2, <2>1 DEF StreamInOrder, SentInOrder, Follows
  <2>6. Held(s)' = Held(s)
    BY <1>1, <1>2, <1>4, <2>1, <2>2 DEF Held
  <2>7. NothingBetween(s)'
    BY <1>1, <2>6 DEF StreamInOrder, NothingBetween
  <2> QED
    BY <2>3, <2>4, <2>5, <2>7 DEF StreamInOrder
<1> QED
  BY <1>3, <1>4


\* What is stored, published and beyond the frontier is on the client's stream.
LEMMA BeyondIsHeld ==
  ASSUME LiveTypeOK, NoGapInv, InOrder, ClientInOrder, conn # None, StreamInOrder(conn),
         phase[conn] \in {"flush", "live"}, Frontier # None,
         phase[conn] = "flush" => taken = 0,
         NEW e \in table, handler[e] = "published", e > Frontier
  PROVE  e \in Held(conn)
<1>1. conn \in Streams /\ taken \in Nat
  BY DEF LiveTypeOK, ClientTypes
<1>2. e \in Nat /\ e \in Events
  BY <1>1, StreamNumbers
<1>3. CASE taken = 0
  <2>1. Frontier = lastEventId[conn] /\ resumed[conn]
    BY <1>3 DEF ClientInOrder, Frontier, StreamInOrder, AfterMarker
  <2>2. e \in Due(conn)
    BY <2>1 DEF Due
  <2> QED
    BY <1>1, <2>2 DEF NoGapInv
<1>4. CASE taken # 0
  <2>1. taken \in DOMAIN sent[conn] /\ lastSeen = sent[conn][taken] /\ phase[conn] = "live"
    BY <1>1, <1>4, StreamNumbers DEF ClientInOrder
  <2>2. lastSeen \in ToSet(sent[conn])
    BY <1>1, <2>1, StreamNumbers
  <2>3. lastSeen \in Nat /\ lastSeen # None /\ Frontier = lastSeen
    BY <1>1, <2>2, StreamNumbers DEF Frontier
  <2>4. lastSeen \in Held(conn) /\ lastSeen < e
    BY <1>2, <2>1, <2>2, <2>3 DEF Held
  <2> QED
    BY <1>2, <2>4 DEF StreamInOrder, NothingBetween
<1> QED
  BY <1>3, <1>4

LEMMA TakeInOrder ==
  ASSUME LiveTypeOK, NoGapInv, FlushInv, InOrder, ClientInOrder, conn # None, StreamInOrder(conn),
         Take
  PROVE  ClientInOrder'
<1> DEFINE c == conn
           x == sent[conn][taken + 1]
<1>1. /\ c \in Streams /\ taken \in Nat /\ taken + 1 \in DOMAIN sent[c] /\ taken < Len(sent[c])
      /\ taken' = taken + 1 /\ lastSeen' = x /\ forwarded' = forwarded \cup {x}
      /\ UNCHANGED <<table, handler, phase, lastEventId, sent, conn, resumeFrom>>
  BY StreamNumbers DEF Take, LiveTypeOK, ClientTypes, ingestVars, streamVars
<1>2. x \in ToSet(sent[c]) /\ x \in table /\ x \in Events /\ x \in Nat /\ x # None
  BY <1>1, StreamNumbers DEF StreamInOrder, Stored
<1>3. phase[c] = "live"
  <2>1. sent[c] # <<>>
    BY <1>1
  <2>2. phase[c] \in {"subscribe", "marker", "query", "flush", "live"}
    BY DEF LiveTypeOK, ClientTypes, Subscribed
  <2> QED
    BY <1>1, <2>1, <2>2 DEF FlushInv, Shape
<1>4. Frontier' = x
  BY <1>1, <1>2 DEF Frontier
<1> HIDE DEF x
<1>5. \A i \in 1..taken : sent[c][i] \in forwarded
  BY DEF ClientInOrder
<1>6. ASSUME NEW e \in table, e \notin forwarded', NEW f \in forwarded', f < e PROVE e > x
  <2>1. e \in Events /\ e \in Nat /\ e # x /\ e \notin forwarded
    BY <1>1, <1>6, StreamNumbers
  <2>2. CASE f = x
    BY <1>2, <1>6, <2>1, <2>2
  <2>3. CASE f \in forwarded
    <3>1. e > Frontier /\ Frontier # None
      BY <1>6, <2>1, <2>3 DEF ClientInOrder
    <3>2. CASE handler[e] = "committed"
      <4>1. x <= e
        BY <1>2, <2>1, <3>2 DEF InOrder
      <4> QED
        BY <1>2, <2>1, <4>1
    <3>3. CASE handler[e] = "published"
      <4>1. e \in Held(c)
        BY <1>3, <3>1, <3>3, BeyondIsHeld
      <4>2. CASE \E j \in DOMAIN sent[c] : j <= taken + 1 /\ sent[c][j] = e
        <5>1. PICK j \in DOMAIN sent[c] : j <= taken + 1 /\ sent[c][j] = e
          BY <4>2
        <5>2. j \in 1..taken \/ j = taken + 1
          BY <1>1, <5>1, StreamNumbers
        <5> QED
          BY <1>5, <2>1, <5>1, <5>2 DEF x
      <4>3. CASE ~\E j \in DOMAIN sent[c] : j <= taken + 1 /\ sent[c][j] = e
        <5>1. Follows(c, taken + 1, e)
          <6>1. CASE e \in ToSet(inbox[c])
            BY <1>1, <6>1 DEF StreamInOrder, SentInOrder
          <6>2. CASE e \in ToSet(sent[c])
            <7>1. PICK j \in DOMAIN sent[c] : sent[c][j] = e
              BY <6>2 DEF ToSet
            <7>2. taken + 1 < j
              BY <1>1, <4>3, <7>1, StreamNumbers
            <7> QED
              BY <1>1, <7>1, <7>2 DEF StreamInOrder, SentInOrder
          <6> QED
            BY <1>3, <4>1, <6>1, <6>2 DEF Held
        <5>2. ~\E k \in 1..taken : sent[c][k] = e
          BY <1>1, <4>3, StreamNumbers
        <5>3. e # lastEventId[c]
          BY <1>1, <2>1, StreamNumbers DEF ClientInOrder
        <5>4. x <= e
          BY <1>1, <5>1, <5>2, <5>3 DEF Follows, x
        <5> QED
          BY <1>2, <2>1, <5>4
      <4> QED
        BY <4>2, <4>3
    <3> QED
      BY <2>1, <3>2, <3>3 DEF InOrder, LiveTypeOK, IngestTypes
  <2> QED
    BY <1>1, <1>6, <2>2, <2>3
<1>7. \A i \in 1..taken' : sent'[conn'][i] \in forwarded'
  <2>1. \A i \in 1..(taken + 1) : i \in 1..taken \/ i = taken + 1
    BY <1>1
  <2> QED
    BY <1>1, <1>5, <2>1 DEF x
<1>8. taken' <= Len(sent'[conn']) /\ taken' # 0 /\ lastSeen' = sent'[conn'][taken']
  <2>1. Len(sent[c]) \in Nat
    BY <1>1, StreamNumbers
  <2> QED
    BY <1>1, <2>1 DEF x
<1>9. /\ forwarded' \subseteq table'
      /\ resumeFrom' # None => resumeFrom' \in forwarded'
      /\ lastEventId'[conn'] = resumeFrom'
      /\ Frontier' # None
  BY <1>1, <1>2, <1>4 DEF ClientInOrder
<1> QED
  BY <1>1, <1>4, <1>6, <1>7, <1>8, <1>9 DEF ClientInOrder

\* A step that the client does not notice, but that may store a last event.
LEMMA SameClientInOrder ==
  ASSUME LiveTypeOK, ClientInOrder, UNCHANGED clientVars, table \subseteq table',
         \A e \in table' \ table : e \in Nat /\ \A f \in table : f < e,
         conn # None =>
           /\ lastEventId'[conn] = lastEventId[conn]
           /\ taken <= Len(sent'[conn])
           /\ \A i \in 1..taken : sent'[conn][i] = sent[conn][i]
  PROVE  ClientInOrder'
<1>1. UNCHANGED <<conn, resumeFrom, lastSeen, taken, forwarded>> /\ taken \in Nat
  BY DEF clientVars, LiveTypeOK, ClientTypes
<1>2. Frontier' = Frontier
  BY <1>1 DEF Frontier
<1>3. Frontier # None => Frontier \in forwarded
  <2>1. CASE conn # None /\ lastSeen # None
    <3>1. taken \in 1..taken /\ lastSeen = sent[conn][taken]
      BY <1>1, <2>1 DEF ClientInOrder
    <3> QED
      BY <2>1, <3>1 DEF ClientInOrder, Frontier
  <2>2. CASE ~(conn # None /\ lastSeen # None)
    BY <2>2 DEF ClientInOrder, Frontier
  <2> QED
    BY <2>1, <2>2
<1>4. ASSUME NEW e \in table', e \notin forwarded, NEW f \in forwarded, f < e PROVE e > Frontier
  <2>1. CASE e \in table
    BY <1>4, <2>1 DEF ClientInOrder
  <2>2. CASE e \notin table
    <3>1. Frontier \in table
      BY <1>3, <1>4 DEF ClientInOrder
    <3>2. Frontier < e /\ e \in Nat
      BY <2>2, <3>1
    <3>3. Frontier \in Nat
      BY <3>1, LiveStreamAssumption DEF LiveTypeOK, IngestTypes
    <3> QED
      BY <3>2, <3>3
  <2> QED
    BY <2>1, <2>2
<1>5. conn' # None =>
       /\ lastEventId'[conn'] = resumeFrom'
       /\ taken' <= Len(sent'[conn'])
       /\ \A i \in 1..taken' : sent'[conn'][i] \in forwarded'
       /\ lastSeen' = IF taken' = 0 THEN None ELSE sent'[conn'][taken']
  <2> SUFFICES ASSUME conn # None
               PROVE  /\ lastEventId'[conn] = resumeFrom
                      /\ taken <= Len(sent'[conn])
                      /\ \A i \in 1..taken : sent'[conn][i] \in forwarded
                      /\ lastSeen = IF taken = 0 THEN None ELSE sent'[conn][taken]
    BY <1>1
  <2>1. taken # 0 => taken \in 1..taken
    BY <1>1
  <2> QED
    BY <2>1 DEF ClientInOrder
<1> QED
  BY <1>1, <1>2, <1>4, <1>5 DEF ClientInOrder

\* A request that has just been made holds nothing.
LEMMA NewStreamInOrder ==
  ASSUME NEW s \in Streams, phase'[s] = "subscribe", inbox'[s] = <<>>, buffer'[s] = <<>>,
         snapshot'[s] = <<>>, sent'[s] = <<>>
  PROVE  StreamInOrder(s)'
<1>1. Held(s)' = {}
  BY EmptyOnce DEF Held
<1>2. Stored(s)' /\ AfterMarker(s)' /\ ArrivesInOrder(s)' /\ SentInOrder(s)'
  BY EmptyOnce DEF Stored, AfterMarker, ArrivesInOrder, SentInOrder
<1> QED
  BY <1>1, <1>2 DEF StreamInOrder, NothingBetween

\* A step that leaves the history calm began so, and was no fault.
LEMMA CalmBefore ==
  ASSUME LiveTypeOK, [LiveNext]_liveVars, Calm'
  PROVE  Calm /\ ~\E kind : Fault(kind)
<1>1. faults \in Nat /\ faults' = 0 /\ ~overlapped'
  BY DEF LiveTypeOK, Calm
<1>2. ~\E kind : Fault(kind)
  BY <1>1 DEF Fault
<1>3. faults' = faults
  BY <1>2 DEF LiveNext, Commit, Publish, PublishFails, DeleteEvent, Connect, Handler, Subscribe,
              FindMarker, RunQuery, GoLive, Receive, Cleanup, Forget, StartFails, Refuse, Take,
              EndOfStream, Break, liveVars
<1>4. overlapped => overlapped'
  BY DEF LiveNext, Commit, Publish, PublishFails, DeleteEvent, Connect, Handler, Subscribe,
         FindMarker, RunQuery, GoLive, Receive, Cleanup, Forget, StartFails, Refuse, Take,
         EndOfStream, Break, liveVars, ingestVars, LiveTypeOK, IngestTypes
<1> QED
  BY <1>1, <1>2, <1>3, <1>4 DEF Calm

LEMMA CalmInductive ==
  LiveTypeOK /\ LiveTypeOK' /\ NoGapInv /\ FlushInv /\ CalmInv /\ [LiveNext]_liveVars => CalmInv'
<1> SUFFICES ASSUME LiveTypeOK, LiveTypeOK', NoGapInv, FlushInv, CalmInv, [LiveNext]_liveVars, Calm'
             PROVE  InOrder' /\ ClientInOrder' /\ (conn' # None => StreamInOrder(conn)')
  BY DEF CalmInv
<1> DEFINE Goal == InOrder' /\ ClientInOrder' /\ (conn' # None => StreamInOrder(conn)')
<1>0. Calm /\ ~\E kind : Fault(kind)
  BY CalmBefore
<1>a. InOrder /\ ClientInOrder /\ (conn # None => conn \in Streams /\ StreamInOrder(conn))
  BY <1>0 DEF CalmInv, LiveTypeOK, ClientTypes
<1>b. conn # None => phase[conn] \in {"subscribe", "marker", "query", "flush", "live"}
  BY DEF LiveTypeOK, ClientTypes, Subscribed
<1>c. table \subseteq Events /\ Events \subseteq Nat /\ None \notin Nat
  BY LiveStreamAssumption DEF LiveTypeOK, IngestTypes
<1>1. ASSUME NEW e \in Events, Commit(e) PROVE Goal
  <2>1. /\ handler[e] = "new" /\ handler' = [handler EXCEPT ![e] = "committed"]
        /\ table' = table \cup {e} /\ UNCHANGED <<streamVars, clientVars>>
    BY <1>1 DEF Commit
  <2>2. \A f \in Events : handler[f] # "committed" /\ (handler[f] # "new" => ~(f > e))
    BY <1>1 DEF Commit, Calm
  <2>3. e \notin table /\ \A f \in table : f < e
    BY <1>a, <1>c, <2>1, <2>2 DEF InOrder
  <2>4. InOrder'
    <3>1. \A f \in Events : handler'[f] = IF f = e THEN "committed" ELSE handler[f]
      BY <2>1 DEF LiveTypeOK, IngestTypes
    <3>2. table' = {f \in Events : handler'[f] # "new"}
      BY <1>a, <2>1, <3>1 DEF InOrder
    <3>3. \A f \in Events : handler'[f] # "silent"
      BY <1>a, <3>1 DEF InOrder
    <3>4. \A c \in Events, f \in table' : handler'[c] = "committed" => f <= c
      BY <1>c, <2>1, <2>2, <2>3, <3>1
    <3> QED
      BY <3>2, <3>3, <3>4 DEF InOrder
  <2>5. ClientInOrder'
    <3>1. UNCHANGED <<lastEventId, sent>>
      BY <2>1 DEF streamVars
    <3>2. table' \ table = {e} /\ table \subseteq table' /\ e \in Nat
      BY <1>c, <2>1, <2>3
    <3>3. conn # None => taken <= Len(sent[conn])
      BY <1>a DEF ClientInOrder
    <3> QED
      BY <1>a, <2>1, <2>3, <3>1, <3>2, <3>3, SameClientInOrder
  <2>6. ASSUME conn' # None PROVE StreamInOrder(conn)'
    <3>1. conn' = conn /\ conn \in Streams /\ StreamInOrder(conn)
      BY <1>a, <2>1, <2>6 DEF clientVars
    <3>2. \A f \in Events : handler'[f] = "published" => handler[f] = "published"
      BY <2>1 DEF LiveTypeOK, IngestTypes
    <3> QED
      BY <2>1, <3>1, <3>2, SameStreamInOrder DEF streamVars
  <2> QED
    BY <2>4, <2>5, <2>6
<1>2. ASSUME NEW e \in Events, Publish(e) PROVE Goal
  <2>1. /\ handler[e] = "committed" /\ handler' = [handler EXCEPT ![e] = "published"]
        /\ UNCHANGED <<table, phase, lastEventId, snapshot, buffer, sent, clientVars, conn>>
    BY <1>2 DEF Publish, clientVars
  <2>2. InOrder'
    BY <1>a, <2>1 DEF InOrder, LiveTypeOK, IngestTypes
  <2>3. ClientInOrder'
    <3>1. conn # None => taken <= Len(sent[conn])
      BY <1>a DEF ClientInOrder
    <3> QED
      BY <1>a, <2>1, <3>1, SameClientInOrder
  <2>4. ASSUME conn # None PROVE StreamInOrder(conn)'
    <3>1. conn \in Streams /\ StreamInOrder(conn)
      BY <1>a, <2>4
    <3>2. CASE Subscribed(conn)
      <4>1. lastEventId[conn] \in table \cup {None}
        BY <1>a, <2>4 DEF ClientInOrder
      <4> DEFINE s == conn
      <4>2. StreamInOrder(s)'
        BY <1>2, <1>a, <2>1, <3>1, <3>2, <4>1, PublishInOrder
      <4> QED
        BY <2>1, <4>2
    <3>3. CASE phase[conn] = "subscribe"
      <4>1. /\ inbox[conn] = <<>> /\ buffer[conn] = <<>> /\ snapshot[conn] = <<>> /\ sent[conn] = <<>>
            /\ inbox'[conn] = inbox[conn]
        BY <1>2, <3>1, <3>3 DEF FlushInv, Shape, Publish, Subscribed
      <4> QED
        BY <2>1, <3>1, <3>3, <4>1, NewStreamInOrder
    <3> QED
      BY <1>b, <2>4, <3>2, <3>3 DEF Subscribed
  <2> QED
    BY <2>1, <2>2, <2>3, <2>4
<1>3. ASSUME NEW s \in Streams, Connect(s) PROVE Goal
  <2>1. /\ conn = None /\ conn' = s /\ phase[s] = "free" /\ phase'[s] = "subscribe"
        /\ lastEventId'[s] = resumeFrom /\ lastSeen' = None /\ taken' = 0
        /\ UNCHANGED <<table, handler, snapshot, inbox, buffer, sent, resumeFrom, forwarded>>
    BY <1>3 DEF Connect, Goto, LiveTypeOK, StreamTypes, ingestVars
  <2>2. inbox[s] = <<>> /\ buffer[s] = <<>> /\ snapshot[s] = <<>> /\ sent[s] = <<>>
    BY <2>1 DEF FlushInv, Shape
  <2>3. InOrder'
    BY <1>a, <2>1 DEF InOrder
  <2>4. ClientInOrder'
    <3>1. Frontier' = Frontier
      BY <2>1 DEF Frontier
    <3>2. conn' # None =>
            /\ lastEventId'[conn'] = resumeFrom'
            /\ taken' <= Len(sent'[conn'])
            /\ \A i \in 1..taken' : sent'[conn'][i] \in forwarded'
            /\ lastSeen' = IF taken' = 0 THEN None ELSE sent'[conn'][taken']
      BY <2>1, <2>2
    <3>3. /\ forwarded' \subseteq table'
          /\ resumeFrom' # None => resumeFrom' \in forwarded'
          /\ forwarded' # {} => Frontier' # None
          /\ \A e \in table' \ forwarded' : (\E f \in forwarded' : f < e) => e > Frontier'
      BY <1>a, <2>1, <3>1 DEF ClientInOrder
    <3> QED
      BY <3>2, <3>3 DEF ClientInOrder
  <2>5. StreamInOrder(s)'
    BY <2>1, <2>2, NewStreamInOrder
  <2> QED
    BY <2>1, <2>3, <2>4, <2>5
<1>4. ASSUME NEW s \in Streams, Handler(s) \/ Receive(s) \/ Cleanup(s) \/ Forget(s) PROVE Goal
  <2>1. UNCHANGED <<table, handler, clientVars>> /\ conn' = conn
    BY <1>4 DEF Handler, Subscribe, FindMarker, RunQuery, GoLive, Receive, Cleanup, Forget,
                ingestVars, clientVars
  <2>2. InOrder'
    BY <1>a, <2>1 DEF InOrder
  <2>3. CASE conn = None
    BY <1>a, <2>1, <2>2, <2>3, SameClientInOrder
  <2>4. CASE conn # None /\ conn # s
    <3>1. StreamInOrder(conn)'
      <4> DEFINE r == conn
      <4>a. r \in Streams /\ r # s /\ StreamInOrder(r)
        BY <1>a, <2>4
      <4>b. /\ phase'[r] = phase[r] /\ resumed'[r] = resumed[r] /\ lastEventId'[r] = lastEventId[r]
            /\ inbox'[r] = inbox[r] /\ sent'[r] = sent[r] /\ buffer'[r] = buffer[r]
            /\ snapshot'[r] = snapshot[r]
        BY <1>4, <4>a, OtherRequest
      <4>1. StreamInOrder(r)'
        BY <2>1, <4>a, <4>b, SameStreamInOrder
      <4> QED
        BY <2>1, <4>1
    <3>2. ClientInOrder'
      <4>1. sent'[conn] = sent[conn] /\ lastEventId'[conn] = lastEventId[conn]
        BY <1>4, <1>a, <2>4, OtherRequest
      <4>2. taken <= Len(sent[conn])
        BY <1>a, <2>4 DEF ClientInOrder
      <4> QED
        BY <1>a, <2>1, <4>1, <4>2, SameClientInOrder
    <3> QED
      BY <2>1, <2>2, <3>1, <3>2
  <2>5. CASE conn = s
    <3>1. StreamInOrder(s) /\ taken \in Nat /\ taken <= Len(sent[s]) /\ conn # None
      BY <1>a, <2>5, LiveStreamAssumption DEF ClientInOrder, LiveTypeOK, ClientTypes
    <3>2. StreamInOrder(s)'
      <4>1. CASE Subscribe(s)
        <5>1. /\ phase[s] = "subscribe" /\ phase'[s] = "marker"
              /\ UNCHANGED <<resumed, lastEventId, inbox, sent, buffer, snapshot>>
          BY <4>1 DEF Subscribe, Goto, LiveTypeOK, StreamTypes
        <5>2. Held(s)' = Held(s)
          BY <5>1 DEF Held
        <5>3. Stored(s)' /\ ArrivesInOrder(s)' /\ AfterMarker(s)'
          BY <2>1, <3>1, <5>1 DEF StreamInOrder, Stored, ArrivesInOrder, AfterMarker
        <5>4. SentInOrder(s)' /\ NothingBetween(s)'
          BY <2>1, <3>1, <5>1, <5>2 DEF StreamInOrder, SentInOrder, Follows, NothingBetween
        <5> QED
          BY <5>3, <5>4 DEF StreamInOrder
      <4>2. CASE FindMarker(s)
        <5>1. /\ phase[s] = "marker" /\ resumed'[s] = (lastEventId[s] \in table)
              /\ phase'[s] = IF lastEventId[s] \in table THEN "query" ELSE "flush"
              /\ UNCHANGED <<lastEventId, inbox, sent, buffer, snapshot>>
          BY <4>2 DEF FindMarker, Goto, LiveTypeOK, StreamTypes
        <5>2. Held(s)' = Held(s)
          BY <5>1 DEF Held
        <5>3. Stored(s)' /\ ArrivesInOrder(s)'
          BY <2>1, <3>1, <5>1 DEF StreamInOrder, Stored, ArrivesInOrder
        <5>4. SentInOrder(s)' /\ NothingBetween(s)'
          BY <2>1, <3>1, <5>1, <5>2 DEF StreamInOrder, SentInOrder, Follows, NothingBetween
        <5>5. lastEventId[s] \in table <=> lastEventId[s] # None
          BY <1>a, <1>c, <2>5, <3>1 DEF ClientInOrder
        <5>6. AfterMarker(s)'
          BY <3>1, <5>1, <5>5 DEF StreamInOrder, AfterMarker
        <5> QED
          BY <5>3, <5>4, <5>6 DEF StreamInOrder
      <4>3. CASE RunQuery(s)
        BY <1>a, <3>1, <4>3, QueryInOrder
      <4>4. CASE GoLive(s)
        BY <3>1, <4>4, FlushInOrder
      <4>5. CASE Receive(s)
        BY <3>1, <4>5, ReceiveInOrder
      <4> QED
        BY <1>4, <1>b, <2>5, <3>1, <4>1, <4>2, <4>3, <4>4, <4>5 DEF Handler, Cleanup, Forget
    <3>3. /\ lastEventId'[s] = lastEventId[s] /\ taken <= Len(sent'[s])
          /\ \A i \in 1..taken : sent'[s][i] = sent[s][i]
      <4>1. CASE Subscribe(s) \/ FindMarker(s) \/ RunQuery(s)
        BY <3>1, <4>1 DEF Subscribe, FindMarker, RunQuery
      <4>2. CASE GoLive(s)
        <5>1. sent[s] = <<>> /\ lastEventId' = lastEventId
          BY <4>2 DEF GoLive, FlushInv, Shape
        <5>2. taken = 0
          BY <3>1, <5>1
        <5>3. Len(sent'[s]) \in Nat
          BY DEF LiveTypeOK, StreamTypes
        <5> QED
          BY <5>1, <5>2, <5>3
      <4>3. CASE Receive(s)
        <5>1. sent[s] \in Seq(Events) /\ inbox[s] \in Seq(Events) /\ inbox[s] # <<>>
          BY <4>3 DEF Receive, LiveTypeOK, StreamTypes
        <5>2. Head(inbox[s]) \in Events
          BY <5>1
        <5>3. sent'[s] = sent[s] \/ sent'[s] = Append(sent[s], Head(inbox[s]))
          BY <4>3 DEF Receive, LiveTypeOK, StreamTypes
        <5>4. lastEventId' = lastEventId
          BY <4>3 DEF Receive
        <5> QED
          BY <3>1, <5>1, <5>2, <5>3, <5>4
      <4> QED
        BY <1>4, <1>b, <2>5, <3>1, <4>1, <4>2, <4>3 DEF Handler, Cleanup, Forget
    <3>4. ClientInOrder'
      BY <1>a, <2>1, <2>5, <3>3, SameClientInOrder
    <3> QED
      BY <2>1, <2>2, <2>5, <3>2, <3>4
  <2> QED
    BY <2>3, <2>4, <2>5
<1>5. CASE Take
  <2>1. conn # None /\ UNCHANGED <<table, handler, streamVars, conn>>
    BY <1>5 DEF Take, ingestVars
  <2>2. ClientInOrder'
    BY <1>5, <1>a, <2>1, TakeInOrder
  <2>3. InOrder'
    BY <1>a, <2>1 DEF InOrder
  <2>4. StreamInOrder(conn)'
    <3> DEFINE r == conn
    <3>1. StreamInOrder(r)'
      BY <1>a, <2>1, SameStreamInOrder DEF streamVars
    <3> QED
      BY <2>1, <3>1
  <2> QED
    BY <2>2, <2>3, <2>4
<1>6. CASE EndOfStream
  <2>1. /\ conn # None /\ conn' = None /\ resumeFrom' = IF lastSeen = None THEN resumeFrom ELSE lastSeen
        /\ UNCHANGED <<table, handler, forwarded>>
    BY <1>6 DEF EndOfStream, ingestVars
  <2>2. resumeFrom' = Frontier /\ Frontier' = Frontier
    BY <2>1 DEF Frontier
  <2>3. Frontier # None => Frontier \in forwarded
    <3>1. taken # 0 => taken \in 1..taken
      BY DEF LiveTypeOK, ClientTypes
    <3> QED
      BY <1>a, <2>1, <3>1 DEF ClientInOrder, Frontier
  <2>4. ClientInOrder'
    BY <1>a, <2>1, <2>2, <2>3 DEF ClientInOrder
  <2>5. InOrder'
    BY <1>a, <2>1 DEF InOrder
  <2> QED
    BY <2>1, <2>4, <2>5
<1>7. CASE UNCHANGED liveVars
  <2>1. InOrder' /\ ClientInOrder'
    <3>1. UNCHANGED <<table, handler, conn, resumeFrom, lastSeen, taken, forwarded, lastEventId, sent>>
      BY <1>7 DEF liveVars, ingestVars, streamVars, clientVars
    <3>2. Frontier' = Frontier
      BY <3>1 DEF Frontier
    <3> QED
      BY <1>a, <3>1, <3>2 DEF InOrder, ClientInOrder
  <2>2. conn' = conn /\ (conn # None => StreamInOrder(conn)')
    <3>1. UNCHANGED <<table, handler, streamVars, conn>>
      BY <1>7 DEF liveVars, ingestVars, clientVars
    <3> DEFINE r == conn
    <3>2. conn # None => StreamInOrder(r)'
      BY <1>a, <3>1, SameStreamInOrder DEF streamVars
    <3> QED
      BY <3>1, <3>2
  <2> QED
    BY <2>1, <2>2
<1> QED
  BY <1>0, <1>1, <1>2, <1>3, <1>4, <1>5, <1>6, <1>7
     DEF LiveNext, Refuse, PublishFails, DeleteEvent, StartFails, Break

LEMMA CalmInvariant == LiveSpec => []CalmInv
<1>1. LiveInit => CalmInv
  <2> SUFFICES ASSUME LiveInit PROVE InOrder /\ ClientInOrder /\ conn = None
    BY DEF CalmInv
  <2>1. InOrder
    BY DEF LiveInit, InOrder
  <2>2. ClientInOrder
    BY DEF LiveInit, ClientInOrder
  <2> QED
    BY <2>1, <2>2 DEF LiveInit
<1> QED
  BY <1>1, CalmInductive, LiveTypeCorrect, NoGapInvariant, FlushInvariant, PTL DEF LiveSpec

\* While nothing fails and no event overtakes another, a client that has got one
\* event gets every later one, however often the stream ends, the client connects
\* again, the backfill repeats what was sent live and messages wait in between:
\* the marker it resumes from hides nothing that it has not forwarded.
THEOREM ResumptionLosesNothing == LiveSpec => []ResumesWhereItStopped
<1>1. LiveTypeOK /\ NoGapInv /\ FlushInv /\ CalmInv => ResumesWhereItStopped
  <2> SUFFICES ASSUME LiveTypeOK, NoGapInv, FlushInv, CalmInv, Calm,
                      NEW e \in Events, Expected(e), e \notin forwarded
               PROVE  Coming(e)
    BY DEF ResumesWhereItStopped, Calm
  <2>1. InOrder /\ ClientInOrder /\ (conn # None => conn \in Streams /\ StreamInOrder(conn))
    BY DEF CalmInv, LiveTypeOK, ClientTypes
  <2>2. /\ e \in table /\ handler[e] = "published" /\ e > Frontier /\ Frontier # None
        /\ e \in Nat /\ Events \subseteq Nat /\ Frontier \in Events
    <3>1. Frontier \in Events \cup {None}
      BY DEF Frontier, LiveTypeOK, ClientTypes
    <3> QED
      BY <2>1, <3>1, LiveStreamAssumption DEF Expected, ClientInOrder
  <2>3. CASE conn = None
    BY <2>2, <2>3 DEF Coming, Frontier
  <2>4. CASE conn # None /\ phase[conn] \in {"subscribe", "marker", "query"}
    <3>1. sent[conn] = <<>>
      BY <2>1, <2>4 DEF FlushInv, Shape
    <3>2. taken = 0 /\ lastSeen = None /\ lastEventId[conn] = resumeFrom
      BY <2>1, <2>4, <3>1 DEF ClientInOrder, LiveTypeOK, ClientTypes
    <3> QED
      BY <2>2, <2>4, <3>2 DEF Coming, Frontier
  <2>5. CASE conn # None /\ phase[conn] \in {"flush", "live"}
    <3>1. phase[conn] = "flush" => taken = 0
      <4> SUFFICES ASSUME phase[conn] = "flush" PROVE taken = 0
        OBVIOUS
      <4>1. sent[conn] = <<>>
        BY <2>1, <2>5 DEF FlushInv, Shape
      <4> QED
        BY <2>1, <2>5, <4>1 DEF ClientInOrder, LiveTypeOK, ClientTypes
    <3>2. e \in Held(conn)
      BY <2>1, <2>2, <2>5, <3>1, BeyondIsHeld
    <3>3. CASE e \in ToSet(sent[conn])
      <4>1. PICK i \in DOMAIN sent[conn] : sent[conn][i] = e
        BY <3>3 DEF ToSet
      <4>2. i \in Nat \ {0} /\ taken \in Nat /\ i \notin 1..taken
        BY <2>1, <2>5, <4>1, StreamNumbers DEF ClientInOrder, LiveTypeOK, ClientTypes
      <4> QED
        BY <2>5, <4>1, <4>2 DEF Coming
    <3>4. CASE e \in ToSet(inbox[conn])
      BY <2>5, <3>4 DEF Coming
    <3>5. CASE phase[conn] = "flush" /\ e \in ToSet(buffer[conn]) \cup ToSet(snapshot[conn])
      BY <2>5, <3>5 DEF Coming
    <3> QED
      BY <2>5, <3>2, <3>3, <3>4, <3>5 DEF Held
  <2> QED
    BY <2>3, <2>4, <2>5 DEF LiveTypeOK, ClientTypes, Subscribed
<1> QED
  BY <1>1, LiveTypeCorrect, NoGapInvariant, FlushInvariant, CalmInvariant, PTL

-----------------------------------------------------------------------------
(* The stream as a log.                                                     *)

LogInv == Calm => Log!NothingLeftOut

\* What the client gets for the first time comes after something it has, unless
\* it has nothing.
LEMMA NewComesAfter ==
  ASSUME LiveTypeOK, FlushInv, InOrder, ClientInOrder, conn # None, StreamInOrder(conn), Take,
         forwarded # {}, sent[conn][taken + 1] \notin forwarded
  PROVE  \E f \in forwarded : f < sent[conn][taken + 1]
<1> DEFINE s == conn
           x == sent[s][taken + 1]
<1>1. /\ s \in Streams /\ taken \in Nat /\ taken + 1 \in DOMAIN sent[s]
      /\ Len(sent[s]) \in Nat /\ DOMAIN sent[s] = 1..Len(sent[s])
  BY StreamNumbers DEF Take, LiveTypeOK, ClientTypes
<1>2. x \in ToSet(sent[s]) /\ x \in Nat /\ Events \subseteq Nat
  BY <1>1, StreamNumbers
<1> HIDE DEF x
<1>3. CASE taken # 0
  <2>1. 1 \in DOMAIN sent[s] /\ 1 < taken + 1 /\ sent[s][1] \in forwarded /\ sent[s][1] \in Nat
    BY <1>1, <1>3, StreamNumbers DEF ClientInOrder
  <2>2. Follows(s, 1, x)
    BY <1>1, <2>1 DEF StreamInOrder, SentInOrder, x
  <2>3. x # lastEventId[s]
    <3>1. x # None
      BY <1>1, <1>2, StreamNumbers
    <3> QED
      BY <3>1 DEF ClientInOrder, x
  <2>4. sent[s][1] <= x /\ sent[s][1] # x
    BY <2>1, <2>2, <2>3 DEF Follows, x
  <2> QED
    BY <1>2, <2>1, <2>4 DEF x
<1>4. CASE taken = 0
  <2>1. resumeFrom # None /\ resumeFrom \in forwarded /\ lastEventId[s] = resumeFrom
    BY <1>4 DEF ClientInOrder, Frontier
  <2>2. resumeFrom \in Nat
    BY <1>2, <2>1 DEF LiveTypeOK, ClientTypes
  <2>3. resumeFrom <= x
    BY <1>1, <1>2, <1>4, <2>1, <2>2 DEF StreamInOrder, AfterMarker, x
  <2> QED
    BY <1>2, <2>1, <2>2, <2>3 DEF x
<1> QED
  BY <1>3, <1>4

\* An event that the client gets for the first time is the next of the log.
LEMMA NewIsNext ==
  ASSUME LiveTypeOK, LiveTypeOK', FlushInv, InOrder, ClientInOrder, ClientInOrder', LogInv, Calm,
         conn # None, StreamInOrder(conn), Take, sent[conn][taken + 1] \notin forwarded
  PROVE  Log!ReadNext(sent[conn][taken + 1])
<1> DEFINE x == sent[conn][taken + 1]
<1>1. /\ conn' = conn /\ lastSeen' = x /\ forwarded' = forwarded \cup {x} /\ table' = table
  BY DEF Take, ingestVars
<1>2. x \in table /\ table \subseteq Nat /\ forwarded \subseteq table /\ x # None
  <2>1. forwarded' \subseteq table'
    BY DEF ClientInOrder
  <2>2. table \subseteq Nat /\ None \notin Nat
    BY LiveStreamAssumption DEF LiveTypeOK, IngestTypes
  <2> QED
    BY <1>1, <2>1, <2>2
<1>3. Frontier' = x
  BY <1>1, <1>2 DEF Frontier
<1>4. \A e \in table \ forwarded : e # x /\ (\E f \in forwarded : f < e) => e > x
  <2>1. \A e \in table' \ forwarded' : (\E f \in forwarded' : f < e) => e > Frontier'
    BY DEF ClientInOrder
  <2> HIDE DEF x
  <2> QED
    BY <1>1, <1>3, <2>1
<1>5. \A f \in forwarded : f < x
  <2> SUFFICES ASSUME NEW f \in forwarded, ~(f < x) PROVE FALSE
    OBVIOUS
  <2>1. PICK g \in forwarded : g < x
    BY NewComesAfter
  <2>2. x # f
    OBVIOUS
  <2>3. x < f
    <3> HIDE DEF x
    <3>1. f \in Nat /\ x \in Nat
      BY <1>2
    <3> QED
      BY <2>2, <3>1
  <2> QED
    BY <1>2, <2>1, <2>3 DEF LogInv, Log!NothingLeftOut
<1>6. \A f \in forwarded, g \in table : f < g /\ g < x => g \in forwarded
  <2> HIDE DEF x
  <2> QED
    BY <1>2, <1>4
<1> QED
  BY <1>1, <1>2, <1>5, <1>6 DEF Log!ReadNext

\* Reading the next event, or storing a last one, leaves nothing out.
LEMMA LogStepLeavesNothingOut ==
  ASSUME Log!NothingLeftOut, table \subseteq Nat, forwarded \subseteq table,
         NEW e \in Nat, Log!AppendToLog(e) \/ Log!ReadNext(e)
  PROVE  Log!NothingLeftOut'
<1>1. CASE Log!AppendToLog(e)
  BY <1>1 DEF Log!AppendToLog, Log!NothingLeftOut
<1>2. CASE Log!ReadNext(e)
  BY <1>2 DEF Log!ReadNext, Log!NothingLeftOut
<1> QED
  BY <1>1, <1>2

\* As long as nothing fails and nothing overtakes, each step is one of the log.
LEMMA StepFollowsLog ==
  ASSUME LiveTypeOK, LiveTypeOK', FlushInv, CalmInv, CalmInv', LogInv, [LiveNext]_liveVars, Calm'
  PROVE  [Log!LogNext]_<<table, forwarded>>
<1>1. Calm /\ ~\E kind : Fault(kind)
  BY CalmBefore
<1>2. /\ InOrder /\ ClientInOrder /\ ClientInOrder' /\ InOrder'
      /\ conn # None => StreamInOrder(conn)
  BY <1>1 DEF CalmInv
<1>3. ASSUME NEW e \in Events, Commit(e) PROVE Log!AppendToLog(e)
  <2>1. table' = table \cup {e} /\ forwarded' = forwarded /\ handler[e] = "new"
    BY <1>3 DEF Commit, clientVars
  <2>2. \A f \in Events : handler[f] # "new" => ~(f > e)
    BY <1>3 DEF Commit, Calm
  <2>3. \A f \in table : f < e
    BY <1>2, <2>1, <2>2, LiveStreamAssumption DEF InOrder
  <2> QED
    BY <2>1, <2>3 DEF Log!AppendToLog
<1>4. CASE Take
  <2>1. conn # None /\ forwarded' = forwarded \cup {sent[conn][taken + 1]} /\ table' = table
    BY <1>4 DEF Take, ingestVars
  <2>2. CASE sent[conn][taken + 1] \in forwarded
    BY <2>1, <2>2
  <2>3. CASE sent[conn][taken + 1] \notin forwarded
    <3>1. sent[conn][taken + 1] \in Events
      BY <1>2, <2>1 DEF ClientInOrder, LiveTypeOK, IngestTypes
    <3>2. Log!ReadNext(sent[conn][taken + 1])
      BY <1>1, <1>2, <1>4, <2>1, <2>3, NewIsNext
    <3> QED
      BY <3>1, <3>2 DEF Log!LogNext
  <2> QED
    BY <2>2, <2>3
<1>5. CASE ~Take /\ ~\E e \in Events : Commit(e)
  BY <1>1, <1>5 DEF LiveNext, Publish, PublishFails, DeleteEvent, Connect, Handler, Subscribe,
     FindMarker, RunQuery, GoLive, Receive, Cleanup, Forget, StartFails, Refuse, EndOfStream,
     Break, liveVars, ingestVars, clientVars
<1> QED
  BY <1>3, <1>4, <1>5 DEF Log!LogNext

\* While nothing has failed and no event has overtaken another, the handlers, the
\* requests and the client together are a log that is read in order: every event
\* that is new to the client is the next one after those it has, wherever it
\* connected, and what it has not got yet is on its way.
THEOREM StreamIsALog == LiveSpec => FollowsTheLog
<1>1. LiveInit => LogInv
  BY DEF LiveInit, LogInv, Log!NothingLeftOut
<1>2. LiveTypeOK /\ LiveTypeOK' /\ FlushInv /\ CalmInv /\ CalmInv' /\ LogInv /\ [LiveNext]_liveVars
        => LogInv'
  <2> SUFFICES ASSUME LiveTypeOK, LiveTypeOK', FlushInv, CalmInv, CalmInv', LogInv,
                      [LiveNext]_liveVars, Calm'
               PROVE  Log!NothingLeftOut'
    BY DEF LogInv
  <2>1. Calm
    BY CalmBefore
  <2>2. Log!NothingLeftOut /\ table \subseteq Nat /\ forwarded \subseteq table
    BY <2>1, LiveStreamAssumption DEF LogInv, CalmInv, ClientInOrder, LiveTypeOK, IngestTypes
  <2>3. [Log!LogNext]_<<table, forwarded>>
    BY StepFollowsLog
  <2>4. CASE UNCHANGED <<table, forwarded>>
    BY <2>2, <2>4 DEF Log!NothingLeftOut
  <2>5. ASSUME NEW e \in Events, Log!AppendToLog(e) \/ Log!ReadNext(e) PROVE Log!NothingLeftOut'
    BY <2>2, <2>5, LiveStreamAssumption, LogStepLeavesNothingOut
  <2> QED
    BY <2>3, <2>4, <2>5 DEF Log!LogNext
<1>3. LiveTypeOK /\ LiveTypeOK' /\ FlushInv /\ CalmInv /\ CalmInv' /\ LogInv /\ ResumesWhereItStopped'
        /\ [LiveNext]_liveVars
        => [faults' = 0 /\ ~overlapped' =>
              [Log!LogNext]_<<table, forwarded>> /\ ResumesWhereItStopped']_liveVars
  BY StepFollowsLog DEF Calm
<1> QED
  BY <1>1, <1>2, <1>3, LiveTypeCorrect, FlushInvariant, CalmInvariant, ResumptionLosesNothing, PTL
     DEF LiveSpec, FollowsTheLog

=============================================================================
