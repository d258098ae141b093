--------------------------- MODULE DashboardProofs ---------------------------
(***************************************************************************)
(* Proofs about Dashboard, for any number of events, any page length and   *)
(* bounds of the scan, any window and bucket of the overview, any tabs and *)
(* providers, whatever the budget.                                         *)
(***************************************************************************)
EXTENDS Dashboard, FiniteSetTheorems, SequenceTheorems, TLAPS

-----------------------------------------------------------------------------
(* Finite sets of numbers.                                                  *)

LEMMA BelowIsWellFounded ==
  \E R : IsWellFoundedOn(R, Nat) /\ \A x, y \in Nat : x < y => <<x, y>> \in R
<1>1. \A x, y \in Nat : x < y => <<x, y>> \in OpToRel(<, Nat)
  BY Zenon DEF OpToRel
<1> QED
  BY <1>1, NatLessThanWellFounded, Zenon

\* A set of numbers that is not empty has a least one.
LEMMA LeastExists ==
  ASSUME NEW T \in SUBSET Nat, T # {}
  PROVE  \E x \in T : \A y \in T : x <= y
<1>1. PICK R : IsWellFoundedOn(R, Nat) /\ \A x, y \in Nat : x < y => <<x, y>> \in R
  BY BelowIsWellFounded
<1>2. T \subseteq Nat /\ IsWellFoundedOn(R, Nat)
  BY <1>1
<1>3. \E x \in T : \A y \in T : ~ (<<y, x>> \in R)
  BY <1>2, WFMin, Zenon
<1>4. PICK x \in T : \A y \in T : ~ (<<y, x>> \in R)
  BY <1>3
<1>5. ASSUME NEW y \in T PROVE ~(y < x)
  BY <1>1, <1>4
<1> QED
  BY <1>5

LEMMA MinOfNumbers ==
  ASSUME NEW T \in SUBSET Nat, T # {}
  PROVE  Min(T) \in T /\ \A y \in T : Min(T) <= y
BY LeastExists DEF Min

LEMMA EventSets ==
  /\ Events \subseteq Nat \ {0} /\ MaxEvent \in Nat
  /\ \A S \in SUBSET Events : IsFiniteSet(S) /\ Cardinality(S) \in Nat
<1>1. MaxEvent \in Nat /\ Events \subseteq Nat \ {0} /\ IsFiniteSet(Events)
  BY RecordsAssumption, FS_Interval DEF Events
<1>2. \A S \in SUBSET Events : IsFiniteSet(S)
  BY <1>1, FS_Subset
<1> QED
  BY <1>1, <1>2, FS_CardinalityType

LEMMA GreatestExists ==
  ASSUME NEW S \in SUBSET Events, S # {}
  PROVE  \E x \in S : \A y \in S : y <= x
<1> DEFINE T == {MaxEvent - e : e \in S}
<1>1. \A e \in S : e \in Nat /\ MaxEvent - e \in Nat
  BY RecordsAssumption DEF Events
<1>2. T \in SUBSET Nat /\ T # {}
  BY <1>1
<1> HIDE DEF T
<1>3. PICK t \in T : \A u \in T : t <= u
  BY <1>2, LeastExists
<1>4. PICK x \in S : t = MaxEvent - x
  BY <1>3 DEF T
<1>5. ASSUME NEW y \in S PROVE y <= x
  <2>1. MaxEvent - x <= MaxEvent - y
    BY <1>3, <1>4 DEF T
  <2> QED
    BY <1>1, <2>1, EventSets
<1> QED
  BY <1>5

After(S, e) == {f \in S : f > e}

\* The newest n of a set: what is left out is older than what is kept, and n are
\* kept if anything is left out.
LEMMA NewestKept ==
  ASSUME NEW S \in SUBSET Events, NEW n \in Nat
  PROVE  /\ Newest(S, n) \subseteq S
         /\ \A e \in S \ Newest(S, n) : /\ Cardinality(Newest(S, n)) >= n
                                        /\ \A x \in Newest(S, n) : e < x
         /\ Cardinality(S) <= n => Newest(S, n) = S
<1>1. Newest(S, n) = {e \in S : Cardinality(After(S, e)) < n}
  BY DEF Newest, After
<1>a. \A f : \A e \in S : f \in After(S, e) <=> f \in S /\ f > e
  BY DEF After
<1>b. \A e \in S : After(S, e) \in SUBSET Events
  BY DEF After
<1>2. \A e \in S : IsFiniteSet(After(S, e)) /\ Cardinality(After(S, e)) \in Nat
  BY <1>b, EventSets
<1>3. S \subseteq Nat /\ IsFiniteSet(S) /\ Cardinality(S) \in Nat
  BY EventSets
<1>4. ASSUME NEW e \in S \ Newest(S, n), NEW x \in Newest(S, n) PROVE e < x
  <2>1. Cardinality(After(S, e)) >= n /\ Cardinality(After(S, x)) < n
    BY <1>1, <1>2
  <2>2. ASSUME x <= e PROVE FALSE
    <3>0. e \in S /\ x \in S /\ e \in Nat /\ x \in Nat
      BY <1>1, <1>3
    <3>1. After(S, e) \subseteq After(S, x)
      <4> SUFFICES ASSUME NEW f \in S, f > e PROVE f > x
        BY <1>a, <3>0
      <4>1. f \in Nat
        BY <1>3
      <4> QED
        BY <2>2, <3>0, <4>1
    <3>2. Cardinality(After(S, e)) <= Cardinality(After(S, x))
      BY <1>2, <3>0, <3>1, FS_Subset
    <3> QED
      BY <1>2, <2>1, <3>0, <3>2
  <2>3. e \in Nat /\ x \in Nat
    BY <1>1, <1>3
  <2> QED
    BY <2>2, <2>3
<1>5. ASSUME NEW e \in S \ Newest(S, n) PROVE Cardinality(Newest(S, n)) >= n
  <2> DEFINE Left == S \ Newest(S, n)
  <2>1. PICK x \in Left : \A y \in Left : y <= x
    <3>1. Left \in SUBSET Events /\ Left # {}
      OBVIOUS
    <3> QED
      BY <3>1, GreatestExists
  <2>2. After(S, x) \subseteq Newest(S, n)
    <3> SUFFICES ASSUME NEW f \in S, f > x, f \notin Newest(S, n) PROVE FALSE
      BY <1>a
    <3>1. f <= x
      BY <2>1
    <3> QED
      BY <1>3, <3>1, <1>a
  <2>3. IsFiniteSet(Newest(S, n)) /\ Cardinality(Newest(S, n)) \in Nat
    BY <1>1, EventSets
  <2>4. Cardinality(After(S, x)) <= Cardinality(Newest(S, n))
    BY <2>2, <2>3, FS_Subset
  <2>5. Cardinality(After(S, x)) >= n
    BY <1>1, <1>2
  <2> QED
    BY <1>2, <2>3, <2>4, <2>5
<1>6. ASSUME Cardinality(S) <= n, NEW e \in S PROVE e \in Newest(S, n)
  <2>1. After(S, e) \subseteq S \ {e}
    BY <1>3, <1>a
  <2>2. IsFiniteSet(S \ {e}) /\ Cardinality(S \ {e}) = Cardinality(S) - 1
    BY <1>3, FS_RemoveElement
  <2>3. Cardinality(After(S, e)) <= Cardinality(S \ {e})
    BY <2>1, <2>2, FS_Subset
  <2> QED
    BY <1>1, <1>2, <1>3, <1>6, <2>2, <2>3
<1> QED
  BY <1>1, <1>4, <1>5, <1>6

-----------------------------------------------------------------------------
(* The reader: what a fetch returns.                                        *)

Statuses == {"none", "open", "failed", "delivered", "skipped", "gone"}

TableTypes ==
  /\ event \in [Events -> {"none", "stored", "gone"}]
  /\ delivery \in [Deliveries -> Statuses]
  /\ \A d \in Deliveries : delivery[d] # "none" => event[d[1]] # "none"

SearchTypes ==
  /\ TableTypes
  /\ client \in Clients /\ query \in Queries
  /\ phase \in {"idle", "compile", "preview", "fetch", "shown", "done"}
  /\ cursor \in Nat /\ (cursor # 0 => cursor \in Events)
  /\ matches \in SUBSET Events /\ scanned \in Nat
  /\ page \in SUBSET Events /\ seen \in SUBSET Events
  /\ steady \in SUBSET Events /\ disturbed \in BOOLEAN

LEMMA Parameters ==
  /\ Limit \in Nat \ {0} /\ ScanCap \in Nat \ {0} /\ ScanBatch \in Nat \ {0}
  /\ Matching \in SUBSET Events
  /\ \A q \in Queries : q.failed \in BOOLEAN /\ q.payload \in BOOLEAN
BY SearchAssumption DEF Queries

\* The rows of the query from the cursor on.
Rows == {e \in Events : Meets(query, e) /\ (cursor # 0 => Present(cursor) /\ e <= cursor)}

LEMMA InRows ==
  \A e : e \in Rows <=> /\ e \in Events /\ Meets(query, e)
                        /\ (cursor # 0 => Present(cursor) /\ e <= cursor)
BY DEF Rows

\* A page holds rows of the query, and if there is a cursor they are older than it.
LEMMA FetchOlder ==
  ASSUME SearchTypes, NEW take \in Nat, NEW e \in Fetch(take)
  PROVE  e \in Events /\ Meets(query, e) /\ (cursor # 0 => e < cursor)
<1>1. Fetch(take) = Newest(Rows, take + Skip) \ Newest(Rows, Skip)
  BY DEF Fetch, Rows
<1>2. Rows \in SUBSET Events /\ Skip \in Nat /\ cursor \in Nat /\ Events \subseteq Nat \ {0}
  BY EventSets DEF Rows, Skip, SearchTypes
<1>3. e \in Rows /\ e \notin Newest(Rows, Skip)
  <2>1. e \in Newest(Rows, take + Skip) /\ e \notin Newest(Rows, Skip)
    BY <1>1
  <2>2. take + Skip \in Nat
    BY <1>2
  <2>3. Newest(Rows, take + Skip) \subseteq Rows
    BY <1>2, <2>2, NewestKept
  <2> QED
    BY <2>1, <2>3
<1>4. ASSUME cursor # 0 PROVE e # cursor
  <2> SUFFICES ASSUME e = cursor PROVE FALSE
    OBVIOUS
  <2>1. Skip = 1
    BY <1>4 DEF Skip
  <2>2. {f \in Rows : f > e} = {}
    <3> SUFFICES ASSUME NEW f \in Rows, f > e PROVE FALSE
      OBVIOUS
    <3> QED
      BY <1>2, <1>4, InRows
  <2>3. Cardinality({f \in Rows : f > e}) = 0
    BY <2>2, FS_EmptySet
  <2> QED
    BY <1>3, <2>1, <2>3 DEF Newest
<1> QED
  BY <1>2, <1>3, <1>4 DEF Rows

\* As long as the row of the cursor is one of the query, a row of the query below
\* the cursor that is not on the page is older than all of the page, and the page
\* is full.
LEMMA FetchNewest ==
  ASSUME SearchTypes, NEW take \in Nat, cursor # 0 => Meets(query, cursor),
         NEW e \in Events, Meets(query, e), cursor # 0 => e < cursor, e \notin Fetch(take)
  PROVE  Cardinality(Fetch(take)) >= take /\ \A x \in Fetch(take) : e < x
<1> DEFINE A == Newest(Rows, take + Skip)
           B == Newest(Rows, Skip)
<1>1. Fetch(take) = A \ B
  BY DEF Fetch, Rows
<1>2. Rows \in SUBSET Events /\ Skip \in {0, 1} /\ cursor \in Nat /\ Events \subseteq Nat \ {0}
  BY EventSets DEF Rows, Skip, SearchTypes
<1>3. e \in Rows
  <2>1. e \in Nat /\ (cursor # 0 => Present(cursor) /\ e <= cursor)
    BY <1>2 DEF Meets
  <2> QED
    BY <2>1, InRows
<1>4. A \subseteq Rows /\ B \subseteq Rows
  <2>1. take + Skip \in Nat /\ Skip \in Nat
    BY <1>2
  <2> QED
    BY <1>2, <2>1, NewestKept
<1>5. B \subseteq {cursor} /\ (cursor = 0 => B = {})
  <2> SUFFICES ASSUME NEW x \in B PROVE x = cursor /\ cursor # 0
    OBVIOUS
  <2>1. x \in Rows /\ Cardinality(After(Rows, x)) < Skip
    BY <1>4 DEF Newest, After
  <2>2. IsFiniteSet(After(Rows, x)) /\ Cardinality(After(Rows, x)) \in Nat
    BY <1>2, EventSets DEF After
  <2>3. Skip = 1 /\ cursor # 0 /\ Cardinality(After(Rows, x)) = 0
    BY <1>2, <2>1, <2>2 DEF Skip
  <2>4. After(Rows, x) = {}
    BY <2>2, <2>3, FS_EmptySet
  <2>5. cursor \in Rows
    BY <1>2, <2>3 DEF Rows, Meets, SearchTypes
  <2>6. x \in Nat /\ x <= cursor /\ ~(cursor > x)
    BY <1>2, <2>1, <2>3, <2>4, <2>5 DEF After, Rows
  <2> QED
    BY <1>2, <2>3, <2>6
<1>6. e \notin B
  BY <1>2, <1>5
<1>7. e \in Rows \ A /\ take + Skip \in Nat
  BY <1>1, <1>2, <1>3, <1>6
<1>8. Cardinality(A) >= take + Skip /\ \A x \in A : e < x
  BY <1>2, <1>7, NewestKept
<1>9. Cardinality(A \ B) >= take
  <2>1. IsFiniteSet(A) /\ Cardinality(A) \in Nat
    BY <1>2, <1>4, EventSets
  <2>2. CASE cursor = 0
    BY <1>2, <1>5, <1>8, <2>1, <2>2 DEF Skip
  <2>3. CASE cursor # 0
    <3>1. IsFiniteSet(A \ {cursor}) /\ Cardinality(A \ {cursor}) >= Cardinality(A) - 1
      BY <2>1, FS_RemoveElement
    <3>2. Skip = 1 /\ A \ {cursor} \subseteq A \ B /\ IsFiniteSet(A \ B)
      BY <1>5, <2>1, <2>3, FS_Subset DEF Skip
    <3>3. Cardinality(A \ {cursor}) <= Cardinality(A \ B)
      BY <3>2, FS_Subset
    <3>4. Cardinality(A \ {cursor}) \in Nat /\ Cardinality(A \ B) \in Nat
      BY <3>1, <3>2, FS_CardinalityType
    <3> QED
      BY <1>8, <2>1, <3>1, <3>2, <3>3, <3>4
  <2> QED
    BY <2>2, <2>3
<1> QED
  BY <1>1, <1>8, <1>9

-----------------------------------------------------------------------------
(* The invariant of the reader.                                             *)

\* The cursor is below everything shown and held, and what is held is below what
\* was shown on earlier pages.
Descends ==
  /\ PagesDescend
  /\ phase \in {"compile", "preview", "fetch"} => page = {}
  /\ phase \notin {"idle", "done"} =>
       \A e \in seen \cup page : cursor # 0 /\ cursor <= e
  /\ \A e \in matches : cursor # 0 /\ cursor <= e /\ \A f \in seen : e < f
  /\ phase # "fetch" \/ ~query.payload => matches = {} /\ scanned = 0
  /\ Cardinality(matches) <= Limit /\ scanned < ScanCap

\* For every phase: where a steady hit is to be found.
Accounted ==
  client # "rest" /\ ~disturbed =>
    /\ phase # "idle" => steady \subseteq Hits(query)
    /\ phase # "idle" /\ cursor # 0 => Meets(query, cursor)
    /\ phase \in {"compile", "preview"} => cursor = 0
    /\ phase \in {"fetch", "shown"} /\ cursor # 0 =>
         \A e \in steady : e < cursor \/ e \in seen \cup page \cup matches
    /\ phase = "done" => steady \subseteq seen \cup page

SearchInv == SearchTypes /\ Descends /\ Accounted

\* What has been inserted does not come back once it is gone.
Grows ==
  /\ TableTypes' /\ clock' = clock
  /\ \A e \in Events :
       /\ event[e] # "none" => event'[e] # "none"
       /\ event[e] = "gone" => event'[e] = "gone"
       /\ event'[e] = "stored" => event[e] = "stored" \/ e <= clock
  /\ \A d \in Deliveries :
       /\ delivery[d] # "none" => delivery'[d] # "none"
       /\ delivery[d] = "gone" => delivery'[d] = "gone"

\* A row that is inserted belongs to an event that has been received.
WasReceived(d) == delivery[d] # "none" \/ d[1] <= clock \/ event[d[1]] = "stored"

LEMMA WriteStep ==
  ASSUME TableTypes, NEW D \in SUBSET Deliveries, NEW s \in Statuses \ {"none"}, Write(D, s),
         \A d \in D : event'[d[1]] # "none" /\ (delivery[d] = "gone" => s = "gone"),
         event' \in [Events -> {"none", "stored", "gone"}],
         \A e \in Events :
           /\ event[e] # "none" => event'[e] # "none"
           /\ event[e] = "gone" => event'[e] = "gone"
           /\ event'[e] = "stored" => event[e] = "stored" \/ e <= clock
  PROVE  Grows
<1>1. \A d \in Deliveries : d[1] \in Events
  BY DEF Deliveries
<1>2. /\ delivery' \in [Deliveries -> Statuses] /\ clock' = clock
      /\ \A d \in Deliveries : delivery'[d] = IF d \in D THEN s ELSE delivery[d]
  BY DEF Write, TableTypes
<1> QED
  BY <1>1, <1>2 DEF Grows, TableTypes

\* A change of the tables writes one status to a set of deliveries.
LEMMA RecordStep ==
  ASSUME TableTypes, RecordChange
  PROVE  /\ Grows
         /\ \E D \in SUBSET Deliveries, s \in Statuses \ {"none"} :
              Write(D, s) /\ \A d \in D : WasReceived(d)
<1> DEFINE Goal == /\ Grows
                   /\ \E D \in SUBSET Deliveries, s \in Statuses \ {"none"} :
                        Write(D, s) /\ \A d \in D : WasReceived(d)
<1>1. ASSUME NEW e \in Events, Arrive(e) PROVE Goal
  <2>1. PICK D \in SUBSET ({e} \X Slots) : Write(D, "open")
    BY <1>1 DEF Arrive
  <2>2. event[e] = "none" /\ e <= clock /\ event' = [event EXCEPT ![e] = "stored"]
    BY <1>1 DEF Arrive
  <2>3. D \in SUBSET Deliveries /\ (\A d \in D : d[1] = e) /\ "open" \in Statuses \ {"none"}
    BY <2>1 DEF Deliveries, Statuses
  <2>4. /\ event' \in [Events -> {"none", "stored", "gone"}]
        /\ \A f \in Events :
             /\ event[f] # "none" => event'[f] # "none"
             /\ event[f] = "gone" => event'[f] = "gone"
             /\ event'[f] = "stored" => event[f] = "stored" \/ f <= clock
    BY <2>2 DEF TableTypes
  <2>5. \A d \in D : delivery[d] = "none" /\ event'[d[1]] = "stored"
    <3>1. event'[e] = "stored"
      BY <2>2 DEF TableTypes
    <3> QED
      BY <2>2, <2>3, <3>1 DEF TableTypes
  <2>6. Grows
    BY <2>1, <2>3, <2>4, <2>5, WriteStep
  <2> QED
    BY <2>1, <2>2, <2>3, <2>6 DEF WasReceived
<1>2. CASE Replay
  <2>1. PICK D \in SUBSET {d \in Deliveries : Present(d[1]) /\ delivery[d] = "none"} :
          Write(D, "open") /\ UNCHANGED event
    BY <1>2 DEF Replay
  <2>2. D \in SUBSET Deliveries /\ "open" \in Statuses \ {"none"}
    BY <2>1 DEF Statuses
  <2>3. \A d \in D : delivery[d] = "none" /\ event'[d[1]] = "stored"
    BY <2>1 DEF Present
  <2>4. Grows
    BY <2>1, <2>2, <2>3, WriteStep DEF TableTypes
  <2> QED
    BY <2>1, <2>2, <2>4 DEF WasReceived, Present
<1>3. ASSUME NEW d \in Deliveries, Settle(d) PROVE Goal
  <2>1. PICK s \in Successors[delivery[d]] : Write({d}, s) /\ UNCHANGED event
    BY <1>3 DEF Settle
  <2>2. delivery[d] \in Statuses /\ Successors[delivery[d]] # {}
    BY <2>1 DEF TableTypes
  <2>3. delivery[d] \in {"open", "failed"} /\ s \in Statuses \ {"none"}
    BY <2>1, <2>2 DEF Successors, Statuses
  <2>4. Grows
    BY <2>1, <2>3, WriteStep DEF TableTypes
  <2> QED
    BY <2>1, <2>3, <2>4 DEF WasReceived
<1>4. CASE DeleteEvents
  <2>1. PICK E \in SUBSET {e \in Events : Present(e)} :
          /\ event' = [e \in Events |-> IF e \in E THEN "gone" ELSE event[e]]
          /\ Write({d \in Deliveries : d[1] \in E /\ Recorded(d)}, "gone")
    BY <1>4 DEF DeleteEvents
  <2>2. "gone" \in Statuses \ {"none"} /\ \A e \in E : event[e] = "stored"
    BY <2>1 DEF Statuses, Present
  <2> DEFINE D == {d \in Deliveries : d[1] \in E /\ Recorded(d)}
  <2>3. /\ event' \in [Events -> {"none", "stored", "gone"}]
        /\ \A f \in Events : event'[f] = IF f \in E THEN "gone" ELSE event[f]
    BY <2>1 DEF TableTypes
  <2>4. \A d \in D : event'[d[1]] # "none"
    BY <2>1, <2>3
  <2>5. Grows
    BY <2>1, <2>2, <2>3, <2>4, WriteStep
  <2> QED
    BY <2>1, <2>2, <2>5 DEF WasReceived, Recorded
<1>5. ASSUME NEW x \in Destinations, DeleteDestination(x) PROVE Goal
  <2>1. Write({d \in Deliveries : Recorded(d) /\ To[d[2]] = x}, "gone") /\ UNCHANGED event
    BY <1>5 DEF DeleteDestination
  <2>2. "gone" \in Statuses \ {"none"}
    BY DEF Statuses
  <2> DEFINE D == {d \in Deliveries : Recorded(d) /\ To[d[2]] = x}
  <2>3. \A d \in D : event'[d[1]] # "none"
    BY <2>1 DEF TableTypes, Recorded
  <2>4. event' \in [Events -> {"none", "stored", "gone"}] /\ D \in SUBSET Deliveries /\ event' = event
    BY <2>1 DEF TableTypes
  <2> HIDE DEF D
  <2>5. Grows
    BY <2>1, <2>2, <2>3, <2>4, WriteStep DEF D
  <2> QED
    BY <2>1, <2>2, <2>5 DEF WasReceived, Recorded
<1> QED
  BY <1>1, <1>2, <1>3, <1>4, <1>5 DEF RecordChange

LEMMA TablesStart ==
  ASSUME RecordsInit
  PROVE  /\ TableTypes
         /\ \A e \in Events : event[e] = "stored" => e <= clock
         /\ \A d \in Deliveries : delivery[d] # "none" => event[d[1]] = "stored"
<1>1. PICK h \in Histories : event = h.event /\ delivery = h.delivery
  BY DEF RecordsInit
<1>2. /\ h.event \in [Events -> {"none", "stored"}]
      /\ h.delivery \in [Deliveries -> {"none", "failed", "delivered", "skipped"}]
      /\ \A d \in Deliveries : h.delivery[d] # "none" => h.event[d[1]] = "stored"
      /\ \A e \in Events : h.event[e] = "stored" => e <= Earlier
  BY HistoriesAssumption
<1> QED
  BY <1>1, <1>2 DEF RecordsInit, TableTypes, Statuses

LEMMA ReaderInit == RecordsInit /\ SearchInit => SearchInv
<1> SUFFICES ASSUME RecordsInit, SearchInit PROVE SearchInv
  OBVIOUS
<1>1. TableTypes
  BY TablesStart
<1>2. SearchTypes
  BY <1>1 DEF SearchInit, SearchTypes, Clients, Queries
<1>3. Descends
  BY FS_EmptySet, Parameters DEF SearchInit, Descends, PagesDescend
<1>4. Accounted
  BY DEF SearchInit, Accounted
<1> QED
  BY <1>2, <1>3, <1>4 DEF SearchInv

\* The history follows the table: a hit that is steady is one still.
LEMMA ReaderChange ==
  ASSUME SearchInv, RecordChange, Followed
  PROVE  SearchInv'
<1>2. TableTypes'
  BY RecordStep DEF Grows, SearchInv, SearchTypes
<1>3. SearchTypes'
  BY <1>2 DEF Followed, SearchInv, SearchTypes, readVars, scanVars
<1>4. Descends'
  BY DEF Followed, SearchInv, Descends, PagesDescend, readVars, scanVars
<1>5. Accounted'
  <2> SUFFICES ASSUME client # "rest", ~disturbed'
               PROVE  Accounted'
    BY DEF Accounted, Followed, readVars
  <2>1. ~disturbed /\ (cursor # 0 => Meets(query, cursor)') /\ cursor' = cursor
    BY DEF Followed, SearchInv, SearchTypes
  <2>2. steady' \subseteq steady /\ steady' \subseteq Hits(query)'
    BY DEF Followed, Hits, SearchInv, SearchTypes, readVars
  <2>3. UNCHANGED <<client, query, phase, cursor, matches, page, seen>>
    BY DEF Followed, readVars, scanVars
  <2>4. Accounted
    BY DEF SearchInv
  <2> QED
    BY <2>1, <2>2, <2>3, <2>4 DEF Accounted
<1> QED
  BY <1>3, <1>4, <1>5 DEF SearchInv

\* The reader starts over, has a prompt compiled, goes on or leaves.
LEMMA ReaderMoves ==
  ASSUME SearchInv, UNCHANGED <<event, delivery>>,
         \/ \E c \in Clients, failed \in BOOLEAN : StartSearch(c, failed)
         \/ Compile \/ CompileFails \/ RunPreview \/ Older \/ Leave
  PROVE  SearchInv'
<1> USE DEF SearchInv, readVars, scanVars, historyVars
<1>0. /\ \A q : Hits(q)' \in SUBSET Events /\ Hits(q) \in SUBSET Events
      /\ \A q : Hits(q)' = Hits(q) /\ \A e : Meets(q, e)' <=> Meets(q, e)
  BY DEF Hits, Hit, Meets, Present
<1>1. ASSUME NEW c \in Clients, NEW failed \in BOOLEAN, StartSearch(c, failed)
      PROVE  SearchInv'
  <2>1. SearchTypes'
    BY <1>0, <1>1 DEF StartSearch, SearchTypes, TableTypes, Queries
  <2>2. Descends'
    BY <1>1, FS_EmptySet, Parameters DEF StartSearch, Descends, PagesDescend
  <2>3. Accounted'
    BY <1>0, <1>1 DEF StartSearch, Accounted
  <2> QED
    BY <2>1, <2>2, <2>3
<1>2. CASE Compile
  <2>1. SearchTypes'
    BY <1>0, <1>2 DEF Compile, SearchTypes, TableTypes
  <2>2. Descends'
    BY <1>2 DEF Compile, Descends, PagesDescend
  <2>3. Accounted'
    BY <1>0, <1>2 DEF Compile, Accounted
  <2> QED
    BY <2>1, <2>2, <2>3
<1>3. CASE CompileFails
  <2>1. SearchTypes'
    BY <1>3 DEF CompileFails, SearchTypes, TableTypes
  <2>2. Descends'
    BY <1>3 DEF CompileFails, Descends, PagesDescend
  <2>3. Accounted'
    BY <1>3 DEF CompileFails, Accounted
  <2> QED
    BY <2>1, <2>2, <2>3
<1>4. CASE RunPreview
  <2>1. SearchTypes'
    BY <1>0, <1>4 DEF RunPreview, SearchTypes, TableTypes
  <2>2. Descends'
    BY <1>4 DEF RunPreview, Descends, PagesDescend
  <2>3. Accounted'
    BY <1>0, <1>4 DEF RunPreview, Accounted
  <2> QED
    BY <2>1, <2>2, <2>3
<1>5. CASE Older
  <2>1. SearchTypes'
    BY <1>5 DEF Older, SearchTypes, TableTypes
  <2>2. Descends'
    BY <1>5 DEF Older, Descends, PagesDescend
  <2>3. Accounted'
    BY <1>0, <1>5 DEF Older, Accounted
  <2> QED
    BY <2>1, <2>2, <2>3
<1>6. CASE Leave
  <2>1. SearchTypes'
    BY <1>6 DEF Leave, SearchTypes, TableTypes
  <2>2. Descends'
    BY <1>6 DEF Leave, Descends, PagesDescend
  <2>3. Accounted'
    BY <1>6 DEF Leave, Accounted
  <2> QED
    BY <2>1, <2>2, <2>3
<1> QED
  BY <1>1, <1>2, <1>3, <1>4, <1>5, <1>6

\* A page that is shown: its rows are older than those of the pages before it, the
\* next one starts below them, and every steady hit is on one of the pages or
\* still to come.
LEMMA PageShown ==
  ASSUME SearchInv, phase = "fetch", UNCHANGED <<event, delivery, readVars, seen, steady>>,
         NEW rows \in SUBSET Events, NEW next \in {0} \cup Events, Show(rows, next),
         \A e \in rows, f \in seen : e < f,
         next # 0 => \A e \in seen \cup rows : next <= e,
         client # "rest" /\ ~disturbed /\ (next # 0 => Meets(query, next)) =>
           \A e \in steady : e \in seen \cup rows \/ (next # 0 /\ e < next)
  PROVE  SearchInv'
<1> USE DEF SearchInv, readVars
<1>0. /\ Hits(query)' = Hits(query)
      /\ \A e : Meets(query, e)' <=> Meets(query, e)
  BY DEF Hits, Hit, Meets, Present
<1>1. SearchTypes'
  BY EventSets DEF Show, SearchTypes, TableTypes
<1>2. Descends'
  BY FS_EmptySet, Parameters DEF Show, Descends, PagesDescend
<1>3. Accounted'
  <2> SUFFICES ASSUME client # "rest", ~disturbed' PROVE Accounted'
    BY DEF Accounted
  <2>1. ~disturbed /\ (next # 0 => Meets(query, next)) /\ Accounted
    BY DEF Show, SearchTypes
  <2>2. \A e \in steady : e \in seen \cup rows \/ (next # 0 /\ e < next)
    BY <2>1
  <2>3. Accounted
    OBVIOUS
  <2> QED
    BY <1>0, <2>1, <2>2, <2>3 DEF Show, Accounted
<1> QED
  BY <1>1, <1>2, <1>3

\* What is below the cursor is below everything shown and held.
LEMMA BelowCursor ==
  ASSUME SearchInv, phase = "fetch", NEW take \in Nat, NEW e \in Fetch(take)
  PROVE  /\ e \in Events /\ Meets(query, e) /\ (cursor # 0 => e < cursor)
         /\ \A f \in seen \cup matches : e < f
<1>1. e \in Events /\ Meets(query, e) /\ (cursor # 0 => e < cursor)
  BY FetchOlder DEF SearchInv
<1>2. \A f \in seen \cup matches : cursor # 0 /\ cursor <= f /\ f \in Nat
  BY EventSets DEF SearchInv, SearchTypes, Descends
<1>3. e \in Nat /\ cursor \in Nat
  BY <1>1, EventSets DEF SearchInv, SearchTypes
<1> QED
  BY <1>1, <1>2, <1>3

\* A steady hit that has not been shown or held is a row the fetch looks for.
LEMMA SteadyIsSought ==
  ASSUME SearchInv, phase = "fetch", client # "rest", ~disturbed, NEW take \in Nat,
         NEW e \in steady, e \notin seen \cup matches
  PROVE  /\ e \in Events /\ Hit(query, e)
         /\ \/ e \in Fetch(take)
            \/ /\ e \notin Fetch(take) /\ Cardinality(Fetch(take)) >= take
               /\ \A x \in Fetch(take) : e < x
         /\ \A x \in matches : e < x
<1>1. e \in Events /\ Hit(query, e)
  BY DEF SearchInv, Accounted, Hits
<1>2. page = {} /\ (cursor # 0 => Meets(query, cursor)) /\ (cursor # 0 => e < cursor)
  BY DEF SearchInv, Accounted, Descends
<1>3. Meets(query, e)
  BY <1>1 DEF Hit
<1>4. e \notin Fetch(take) =>
        Cardinality(Fetch(take)) >= take /\ \A x \in Fetch(take) : e < x
  BY <1>1, <1>2, <1>3, FetchNewest DEF SearchInv
<1>5. ASSUME NEW x \in matches PROVE e < x
  <2>1. cursor # 0 /\ cursor <= x /\ x \in Nat /\ e \in Nat /\ cursor \in Nat
    BY <1>1, EventSets DEF SearchInv, SearchTypes, Descends
  <2> QED
    BY <1>2, <2>1
<1> QED
  BY <1>1, <1>4, <1>5

LEMMA ReaderFetches ==
  ASSUME SearchInv, UNCHANGED <<event, delivery>>, FetchPage
  PROVE  SearchInv'
<1> DEFINE n == IF client = "list" THEN Limit ELSE Limit + 1
           rows == Fetch(n)
           more == Cardinality(rows) >= n
           kept == Newest(rows, Limit)
           next == IF more THEN Min(kept) ELSE 0
<1>1. /\ phase = "fetch" /\ ~query.payload /\ Show(kept, next)
      /\ UNCHANGED <<event, delivery, readVars, seen, steady>>
  BY DEF FetchPage
<1>2. n \in Nat /\ n >= 1 /\ n <= Limit + 1 /\ Limit \in Nat /\ Limit >= 1
  BY Parameters
<1>3. /\ \A e \in rows : e \in Events
      /\ \A e \in rows, f \in seen \cup matches : e < f
  BY <1>1, <1>2, BelowCursor
<1>4. rows \in SUBSET Events /\ IsFiniteSet(rows) /\ Cardinality(rows) \in Nat
  BY <1>3, EventSets
<1>5. /\ kept \in SUBSET Events /\ kept \subseteq rows
      /\ \A e \in rows \ kept : \A x \in kept : e < x
      /\ Cardinality(rows) <= Limit => kept = rows
  BY <1>2, <1>4, NewestKept
<1>6. more => kept # {}
  <2> SUFFICES ASSUME more, kept = {} PROVE FALSE
    OBVIOUS
  <2>1. Cardinality(kept) = 0 /\ rows # {}
    BY <1>2, <1>4, FS_EmptySet
  <2>2. PICK e \in rows : TRUE
    BY <2>1
  <2>3. Cardinality(kept) >= Limit
    BY <1>2, <1>4, <2>2, NewestKept
  <2> QED
    BY <1>2, <2>1, <2>3
<1>7. more => next \in kept /\ next \in Nat /\ next # 0 /\ \A e \in kept : next <= e
  <2>1. kept \in SUBSET Nat /\ 0 \notin kept
    BY <1>5, EventSets
  <2> QED
    BY <1>6, <2>1, MinOfNumbers
<1>8. ~more => next = 0 /\ kept = rows
  BY <1>2, <1>4, <1>5
<1>9. next # 0 => \A e \in seen \cup kept : next <= e
  <2> SUFFICES ASSUME next # 0, NEW e \in seen \cup kept PROVE next <= e
    OBVIOUS
  <2>1. more /\ next \in kept
    BY <1>7, <1>8
  <2>2. e \in Nat
    BY <1>5, EventSets DEF SearchInv, SearchTypes
  <2>3. CASE e \in seen
    BY <1>3, <1>5, <1>7, <2>1, <2>2, <2>3
  <2> QED
    BY <1>7, <2>1, <2>3
<1>10. ASSUME client # "rest", ~disturbed, NEW e \in steady, e \notin seen \cup kept
       PROVE  next # 0 /\ e < next
  <2>1. matches = {} /\ e \notin seen \cup matches
    BY <1>1, <1>10 DEF SearchInv, Descends
  <2>2. \/ e \in rows
        \/ Cardinality(rows) >= n /\ \A x \in rows : e < x
    BY <1>1, <1>2, <1>10, <2>1, SteadyIsSought
  <2>3. CASE e \in rows
    BY <1>5, <1>7, <1>8, <1>10, <2>3
  <2>4. CASE Cardinality(rows) >= n /\ \A x \in rows : e < x
    BY <1>5, <1>7, <2>4
  <2> QED
    BY <2>2, <2>3, <2>4
<1> QED
  BY <1>1, <1>3, <1>5, <1>7, <1>8, <1>9, <1>10, PageShown

LEMMA ReaderScans ==
  ASSUME SearchInv, UNCHANGED <<event, delivery>>, Scan
  PROVE  SearchInv'
<1> DEFINE take   == Min({ScanBatch, ScanCap - scanned})
           batch  == Fetch(take)
           needed == Limit + 1 - Cardinality(matches)
           hits   == Newest(batch \cap Matching, needed)
           read   == IF Cardinality(hits) = needed THEN {e \in batch : e >= Min(hits)} ELSE batch
           found  == matches \cup hits
           count  == scanned + Cardinality(read)
           last   == IF read = {} THEN cursor ELSE Min(read)
           short  == Cardinality(batch) < take
           full   == Cardinality(found) > Limit
           kept   == Newest(found, Limit)
           next   == IF full THEN Min(kept) ELSE IF short THEN 0 ELSE last
<1>1. /\ phase = "fetch" /\ query.payload
      /\ UNCHANGED <<event, delivery, readVars, seen, steady>>
      /\ IF full \/ short \/ count >= ScanCap
         THEN Show(kept, next)
         ELSE /\ matches' = found /\ scanned' = count /\ cursor' = last
              /\ UNCHANGED <<phase, page, disturbed>>
  BY DEF Scan, Resume
<1>2. take \in Nat /\ take >= 1
  <2>1. {ScanBatch, ScanCap - scanned} \in SUBSET (Nat \ {0})
    BY Parameters DEF SearchInv, SearchTypes, Descends
  <2>2. take \in {ScanBatch, ScanCap - scanned}
    BY <2>1, MinOfNumbers
  <2> QED
    BY <2>1, <2>2
<1> HIDE DEF take, batch, needed, hits, read, found, count, last, short, full, kept, next
<1>3. /\ \A e \in batch : e \in Events /\ Meets(query, e)
      /\ \A e \in batch, f \in seen \cup matches : e < f
  BY <1>1, <1>2, BelowCursor DEF batch
<1>4. batch \in SUBSET Events /\ IsFiniteSet(batch) /\ Cardinality(batch) \in Nat
  BY <1>3, EventSets
<1>5. /\ matches \in SUBSET Events /\ IsFiniteSet(matches) /\ Cardinality(matches) \in Nat
      /\ Cardinality(matches) <= Limit /\ Limit \in Nat /\ Limit >= 1
      /\ \A e \in matches, f \in seen : e < f
  BY Parameters, EventSets DEF SearchInv, SearchTypes, Descends
<1>6. needed \in Nat /\ needed >= 1
  BY <1>5 DEF needed
<1>7. /\ hits \in SUBSET Events /\ IsFiniteSet(hits) /\ Cardinality(hits) \in Nat
      /\ hits \subseteq batch \cap Matching
      /\ \A e \in (batch \cap Matching) \ hits :
           Cardinality(hits) >= needed /\ \A x \in hits : e < x
  <2>1. batch \cap Matching \in SUBSET Events
    BY <1>4
  <2>2. hits \subseteq batch \cap Matching
    BY <1>6, <2>1, NewestKept DEF hits
  <2>3. \A e \in (batch \cap Matching) \ hits :
           Cardinality(hits) >= needed /\ \A x \in hits : e < x
    BY <1>6, <2>1, NewestKept DEF hits
  <2> QED
    BY <2>1, <2>2, <2>3, EventSets
<1>8. /\ found \in SUBSET Events /\ IsFiniteSet(found) /\ Cardinality(found) \in Nat
      /\ Cardinality(found) = Cardinality(matches) + Cardinality(hits)
      /\ \A e \in found, f \in seen : e < f
  <2>1. matches \cap hits = {}
    <3> SUFFICES ASSUME NEW e \in matches, e \in hits PROVE FALSE
      OBVIOUS
    <3>1. e < e /\ e \in Nat
      BY <1>3, <1>7, EventSets
    <3> QED
      BY <3>1
  <2>2. Cardinality(matches \cup hits) =
          Cardinality(matches) + Cardinality(hits) - Cardinality(matches \cap hits)
    BY <1>5, <1>7, FS_Union
  <2>3. Cardinality(matches \cap hits) = 0
    BY <2>1, FS_EmptySet
  <2>4. found \in SUBSET Events /\ IsFiniteSet(found) /\ Cardinality(found) \in Nat
    BY <1>5, <1>7, EventSets DEF found
  <2>5. Cardinality(found) = Cardinality(matches) + Cardinality(hits)
    BY <1>5, <1>7, <2>2, <2>3 DEF found
  <2> QED
    BY <1>3, <1>5, <1>7, <2>4, <2>5 DEF found
<1>9. /\ kept \in SUBSET Events /\ kept \subseteq found
      /\ \A e \in found \ kept : \A x \in kept : e < x
      /\ ~full => kept = found
  <2>1. kept \subseteq found /\ \A e \in found \ kept : \A x \in kept : e < x
    BY <1>5, <1>8, NewestKept DEF kept
  <2>2. Cardinality(found) <= Limit => kept = found
    BY <1>5, <1>8, NewestKept DEF kept
  <2> QED
    BY <1>5, <1>8, <2>1, <2>2 DEF full
<1>10. full => kept # {} /\ next \in kept /\ next \in Nat \ {0} /\ \A e \in kept : next <= e
  <2> SUFFICES ASSUME full PROVE kept # {} /\ next \in kept /\ next \in Nat \ {0}
                                   /\ \A e \in kept : next <= e
    OBVIOUS
  <2>1. kept # {}
    <3> SUFFICES ASSUME kept = {} PROVE FALSE
      OBVIOUS
    <3>1. Cardinality(kept) = 0 /\ found # {}
      BY <1>5, <1>8, FS_EmptySet DEF full
    <3>2. PICK e \in found : TRUE
      BY <3>1
    <3>3. Cardinality(kept) >= Limit
      BY <1>5, <1>8, <3>2, NewestKept DEF kept
    <3> QED
      BY <1>5, <3>1, <3>3
  <2>2. kept \in SUBSET Nat /\ 0 \notin kept
    BY <1>9, EventSets
  <2> QED
    BY <2>1, <2>2, MinOfNumbers DEF next
\* Without a full page everything that was read is held.
<1>11. ~full => Cardinality(hits) < needed /\ hits = batch \cap Matching /\ read = batch
  <2> SUFFICES ASSUME ~full
               PROVE  Cardinality(hits) < needed /\ hits = batch \cap Matching /\ read = batch
    OBVIOUS
  <2>1. Cardinality(hits) < needed
    BY <1>5, <1>7, <1>8 DEF full, needed
  <2>2. hits = batch \cap Matching
    BY <1>6, <1>7, <2>1
  <2>3. read = batch
    BY <1>6, <1>7, <2>1 DEF read
  <2> QED
    BY <2>1, <2>2, <2>3
<1>12. ~full /\ ~short =>
         /\ last \in batch /\ last \in Nat \ {0} /\ \A e \in batch : last <= e
         /\ \A e \in matches : last < e
  <2> SUFFICES ASSUME ~full, ~short
               PROVE  /\ last \in batch /\ last \in Nat \ {0} /\ \A e \in batch : last <= e
                      /\ \A e \in matches : last < e
    OBVIOUS
  <2>1. read = batch /\ batch # {}
    BY <1>2, <1>4, <1>11, FS_EmptySet DEF short
  <2>2. batch \in SUBSET Nat /\ 0 \notin batch
    BY <1>4, EventSets
  <2>3. last = Min(batch)
    BY <2>1 DEF last
  <2>4. last \in batch /\ \A e \in batch : last <= e
    BY <2>1, <2>2, <2>3, MinOfNumbers
  <2> QED
    BY <1>3, <2>2, <2>4
\* A steady hit is held, or below what is to be resumed after.
<1>13. ASSUME client # "rest", ~disturbed, NEW e \in steady, e \notin seen \cup matches
       PROVE  /\ e \in Events /\ Hit(query, e)
              /\ \A x \in matches : e < x
              /\ \/ e \in hits
                 \/ e \in batch /\ e \notin hits /\ Cardinality(hits) >= needed /\ \A x \in hits : e < x
                 \/ ~short /\ \A x \in batch : e < x
  <2>1. /\ e \in Events /\ Hit(query, e) /\ \A x \in matches : e < x
        /\ \/ e \in batch
           \/ Cardinality(batch) >= take /\ \A x \in batch : e < x
    BY <1>1, <1>2, <1>13, SteadyIsSought DEF batch
  <2>2. e \in Matching
    BY <1>1, <2>1 DEF Hit
  <2>3. CASE e \in batch
    BY <1>7, <2>1, <2>2, <2>3
  <2>4. CASE Cardinality(batch) >= take /\ \A x \in batch : e < x
    BY <1>2, <1>4, <2>1, <2>4 DEF short
  <2> QED
    BY <2>1, <2>3, <2>4
<1>14. CASE full \/ short \/ count >= ScanCap
  <2>1. Show(kept, next)
    BY <1>1, <1>14
  <2>2. next \in {0} \cup Events
    BY <1>4, <1>9, <1>10, <1>12 DEF next
  <2>3. ASSUME next # 0, NEW e \in seen \cup kept PROVE next <= e
    <3>1. e \in Nat /\ next \in Nat
      BY <1>9, <2>2, EventSets DEF SearchInv, SearchTypes
    <3>2. CASE full
      <4>1. next \in kept /\ next \in found
        BY <1>9, <1>10, <3>2
      <4>2. CASE e \in seen
        BY <1>8, <3>1, <4>1, <4>2
      <4> QED
        BY <1>10, <3>2, <4>2
    <3>3. CASE ~full
      <4>1. ~short /\ next = last
        BY <2>3, <3>3 DEF next
      <4>2. next \in batch /\ (\A x \in batch : next <= x) /\ (\A x \in matches : next < x)
        BY <1>12, <3>3, <4>1
      <4>3. e \in seen \/ e \in matches \/ e \in batch
        BY <1>7, <1>9 DEF found
      <4> QED
        BY <1>3, <3>1, <4>2, <4>3
    <3> QED
      BY <3>2, <3>3
  <2>4. ASSUME client # "rest", ~disturbed, NEW e \in steady, e \notin seen \cup kept
        PROVE  next # 0 /\ e < next
    <3>1. CASE full
      <4>1. next # 0 /\ next \in kept /\ next \in matches \cup hits
        BY <1>9, <1>10, <3>1 DEF found
      <4>2. CASE e \in found
        BY <1>9, <2>4, <4>1, <4>2
      <4>3. CASE e \notin found
        BY <1>7, <1>13, <2>4, <4>1, <4>3 DEF found
      <4> QED
        BY <4>2, <4>3
    <3>2. CASE ~full
      <4>1. kept = matches \cup hits /\ e \notin matches
        BY <1>9, <2>4, <3>2 DEF found
      <4>2. ~short /\ \A x \in batch : e < x
        BY <1>6, <1>7, <1>11, <1>13, <2>4, <3>2, <4>1
      <4> QED
        BY <1>12, <3>2, <4>2 DEF next
    <3> QED
      BY <3>1, <3>2
  <2> QED
    BY <1>1, <1>8, <1>9, <2>1, <2>2, <2>3, <2>4, PageShown
<1>15. CASE ~(full \/ short \/ count >= ScanCap)
  <2>1. /\ matches' = found /\ scanned' = count /\ cursor' = last
        /\ UNCHANGED <<phase, page, disturbed, event, delivery, client, query, seen, steady>>
    BY <1>1, <1>15 DEF readVars
  <2>2. /\ last \in batch /\ last \in Events /\ last \in Nat \ {0} /\ \A e \in batch : last <= e
        /\ \A e \in matches : last < e
    BY <1>4, <1>12, <1>15
  <2>3. read = batch /\ count \in Nat /\ count < ScanCap
    BY <1>4, <1>11, <1>15, Parameters DEF SearchInv, SearchTypes, count
  <2>4. SearchTypes'
    BY <1>8, <2>1, <2>2, <2>3 DEF SearchInv, SearchTypes, TableTypes
  <2>5. \A e \in seen \cup page \cup found : last <= e
    <3> SUFFICES ASSUME NEW e \in seen \cup page \cup found PROVE last <= e
      OBVIOUS
    <3>1. page = {} /\ e \in Nat
      BY <1>1, <1>8, EventSets DEF SearchInv, SearchTypes, Descends
    <3>2. e \in seen \/ e \in matches \/ e \in batch
      BY <1>7, <3>1 DEF found
    <3> QED
      BY <1>3, <2>2, <3>1, <3>2
  <2>6. Descends'
    BY <1>1, <1>5, <1>8, <1>15, <2>1, <2>2, <2>3, <2>5 DEF SearchInv, Descends, PagesDescend, full, found
  <2>7. Accounted'
    <3> SUFFICES ASSUME client # "rest", ~disturbed PROVE Accounted'
      BY <2>1 DEF Accounted
    <3>1. ASSUME NEW e \in steady PROVE e < last \/ e \in seen \cup page \cup found
      <4> SUFFICES ASSUME e \notin seen \cup found PROVE e < last
        OBVIOUS
      <4>1. \A x \in batch : e < x
        BY <1>6, <1>7, <1>11, <1>13, <1>15, <3>1 DEF found
      <4> QED
        BY <2>2, <4>1
    <3>2. Meets(query, last)
      BY <1>3, <2>2
    <3> QED
      BY <1>1, <2>1, <2>2, <3>1, <3>2 DEF SearchInv, Accounted, Hits, Hit, Meets, Present
  <2> QED
    BY <2>4, <2>6, <2>7 DEF SearchInv
<1> QED
  BY <1>14, <1>15

LEMMA ReaderStays ==
  ASSUME SearchInv, UNCHANGED <<event, delivery, searchVars>>
  PROVE  SearchInv'
<1> USE DEF searchVars, readVars, scanVars, historyVars
<1>1. SearchTypes'
  BY DEF SearchInv, SearchTypes, TableTypes
<1>2. Descends'
  BY DEF SearchInv, Descends, PagesDescend
<1>3. Accounted'
  BY DEF SearchInv, Accounted, Hits, Hit, Meets, Present
<1> QED
  BY <1>1, <1>2, <1>3 DEF SearchInv

LEMMA ReaderInvariant == DashboardSpec => []SearchInv
<1>1. DashboardInit => SearchInv
  BY ReaderInit DEF DashboardInit
<1>2. SearchInv /\ [DashboardNext]_dashboardVars => SearchInv'
  <2> SUFFICES ASSUME SearchInv, [DashboardNext]_dashboardVars PROVE SearchInv'
    OBVIOUS
  <2>1. CASE Change
    BY <2>1, ReaderChange DEF Change
  <2>2. CASE Pass
    BY <2>2, ReaderStays DEF Pass, Tick, tables
  <2>3. CASE Read
    <3>1. UNCHANGED <<event, delivery>>
      BY <2>3 DEF Read, recordVars, tables
    <3>2. \/ \E c \in Clients, failed \in BOOLEAN : StartSearch(c, failed)
          \/ Compile \/ CompileFails \/ RunPreview \/ Older \/ Leave
          \/ FetchPage \/ Scan
      BY <2>3 DEF Read, SearchSteps
    <3>3. CASE FetchPage
      BY <3>1, <3>3, ReaderFetches
    <3>4. CASE Scan
      BY <3>1, <3>4, ReaderScans
    <3>5. CASE ~FetchPage /\ ~Scan
      BY <3>1, <3>2, <3>5, ReaderMoves
    <3> QED
      BY <3>3, <3>4, <3>5
  <2>4. CASE Overview
    BY <2>4, ReaderStays DEF Overview, recordVars, tables
  <2>5. CASE Work
    BY <2>5, ReaderStays DEF Work, recordVars, tables
  <2>6. CASE UNCHANGED dashboardVars
    BY <2>6, ReaderStays DEF dashboardVars, recordVars, tables
  <2> QED
    BY <2>1, <2>2, <2>3, <2>4, <2>5, <2>6 DEF DashboardNext
<1> QED
  BY <1>1, <1>2, PTL DEF DashboardSpec

\* Whatever arrives, settles or is deleted between two pages of a search or a list,
\* for pages and scans of any length: a page holds only rows that are older than
\* all those before. A reader that has come to the end has seen every event that
\* was a hit all the while, wherever the scan stopped and whatever was committed
\* meanwhile, unless a row it was to resume after is no longer one of the query.
THEOREM SearchShowsEachHitOnce == DashboardSpec => []EachHitOnce
<1>1. SearchInv => PagesDescend
  BY DEF SearchInv, Descends
<1>2. SearchInv => NothingIsSkipped
  BY DEF SearchInv, Accounted, NothingIsSkipped
<1> QED
  BY <1>1, <1>2, ReaderInvariant, PTL DEF EachHitOnce

-----------------------------------------------------------------------------
(* The figures of the overview.                                             *)

\* An event that is there has been received, and so have those of the deliveries,
\* which have been touched since.
TableInv ==
  /\ TableTypes /\ touched \in [Deliveries -> Nat] /\ clock \in Nat
  /\ \A e \in Events : event[e] = "stored" => e <= clock
  /\ \A d \in Deliveries : delivery[d] # "none" => d[1] <= clock /\ d[1] <= touched[d]

MetricTypes ==
  /\ asOf \in Nat /\ pending \in SUBSET QueryNames
  /\ figure \in [Figures -> Nat] /\ drift \in Nat

\* The figures that count something.
Counting == Figures \ {"p95", "listed"}

\* What each of them counts; the failing destinations, if the list is not cut off.
Counted ==
  [events |-> Received, delivered |-> Delivered, failed |-> Failed,
   throughput |-> {e \in Received : Kept(e)},
   deliveredChart |-> Charted(Delivered), failedChart |-> Charted(Failed),
   busyBuckets |-> Buckets(Charted(Delivered)), latencyBuckets |-> Buckets(Charted(Delivered)),
   failing |-> Failing, mailedEvents |-> Received,
   mailedDelivered |-> InWindow({"delivered", "skipped"}), mailedFailed |-> Failed]

\* The query a figure comes with.
Source ==
  [events |-> "received", delivered |-> "settled", failed |-> "settled", p95 |-> "percentile",
   throughput |-> "throughput", deliveredChart |-> "success", failedChart |-> "success",
   busyBuckets |-> "success", latencyBuckets |-> "latency",
   listed |-> "failing", failing |-> "failing",
   mailedEvents |-> "digest", mailedDelivered |-> "digest", mailedFailed |-> "digest"]

Value(f) == IF f = "p95" THEN IF Delivered = {} THEN 0 ELSE 1 ELSE Cardinality(Counted[f])

\* What a figure is going to be if the tables stay as they are.
Expected(f) == IF Source[f] \in pending THEN Value(f) ELSE figure[f]

\* The list was not cut off when it was read, if it has been read.
Whole(f) == f = "failing" /\ "failing" \notin pending => figure["listed"] < TopN

\* What the first counts is a part of what the second counts.
Parts ==
  {<<"throughput", "events">>, <<"deliveredChart", "delivered">>, <<"failedChart", "failed">>,
   <<"busyBuckets", "latencyBuckets">>, <<"latencyBuckets", "busyBuckets">>,
   <<"events", "mailedEvents">>, <<"mailedEvents", "events">>,
   <<"failed", "mailedFailed">>, <<"mailedFailed", "failed">>,
   <<"delivered", "mailedDelivered">>, <<"failed", "failing">>}

\* The first is no more than the second, but for the drift.
Bounded ==
  Parts \cup {<<"events", "throughput">>, <<"delivered", "deliveredChart">>,
              <<"failed", "failedChart">>}

Agreement ==
  /\ \A b \in Bounded : Whole(b[2]) => Expected(b[1]) <= Expected(b[2]) + drift
  /\ drift = 0 => (Expected("p95") > 0 <=> Expected("delivered") > 0)

OverviewInv == TableInv /\ MetricTypes /\ Agreement

LEMMA DeliverySets ==
  /\ IsFiniteSet(Deliveries) /\ \A d \in Deliveries : d[1] \in Events /\ d[1] \in Nat /\ d[2] \in Slots
  /\ \A D \in SUBSET Deliveries : IsFiniteSet(D) /\ Cardinality(D) \in Nat
<1>1. IsFiniteSet(Events) /\ IsFiniteSet(Slots)
  BY RecordsAssumption, FS_Interval DEF Events
<1>2. IsFiniteSet(Deliveries)
  BY <1>1, FS_Product DEF Deliveries
<1>3. \A d \in Deliveries : d[1] \in Events /\ d[2] \in Slots
  BY DEF Deliveries
<1>4. \A D \in SUBSET Deliveries : IsFiniteSet(D)
  BY <1>2, FS_Subset
<1> QED
  BY <1>2, <1>3, <1>4, EventSets, FS_CardinalityType

\* There are no more buckets than deliveries in them.
LEMMA BucketCount ==
  ASSUME NEW D \in SUBSET Deliveries
  PROVE  /\ IsFiniteSet(Buckets(D)) /\ Cardinality(Buckets(D)) \in Nat
         /\ Cardinality(Buckets(D)) <= Cardinality(D)
<1> DEFINE f == [d \in D |-> BucketOf(d[1])]
<1>1. f \in Surjection(D, Buckets(D))
  BY DEF Buckets, Surjection
<1>2. IsFiniteSet(D)
  BY DeliverySets
<1> QED
  BY <1>1, <1>2, FS_Surjection, FS_CardinalityType

EventFigures    == {"events", "throughput", "mailedEvents"}
BucketFigures   == {"busyBuckets", "latencyBuckets"}
DeliveryFigures == Counting \ (EventFigures \cup BucketFigures)

LEMMA CountedSets ==
  /\ \A f \in EventFigures : Counted[f] \in SUBSET Events
  /\ \A f \in DeliveryFigures : Counted[f] \in SUBSET Deliveries
  /\ \A f \in BucketFigures : Counted[f] = Buckets(Charted(Delivered))
  /\ Charted(Delivered) \in SUBSET Deliveries
  /\ \A f \in Counting : IsFiniteSet(Counted[f]) /\ Cardinality(Counted[f]) \in Nat
  /\ \A f \in Figures : Source[f] \in QueryNames /\ (f # "listed" => Value(f) \in Nat)
<1>1. \A f \in EventFigures : Counted[f] \in SUBSET Events
  BY DEF EventFigures, Counted, Received
<1>2. /\ Delivered \in SUBSET Deliveries /\ Failed \in SUBSET Deliveries
      /\ Failing \in SUBSET Deliveries /\ InWindow({"delivered", "skipped"}) \in SUBSET Deliveries
      /\ Charted(Delivered) \in SUBSET Deliveries /\ Charted(Failed) \in SUBSET Deliveries
  BY DEF Delivered, Failed, Failing, InWindow, Charted
<1>3. \A f \in DeliveryFigures : Counted[f] \in SUBSET Deliveries
  BY <1>2 DEF DeliveryFigures, EventFigures, BucketFigures, Counting, Figures, Counted
<1>4. \A f \in BucketFigures : Counted[f] = Buckets(Charted(Delivered))
  BY DEF BucketFigures, Counted
<1>5. \A f \in Counting : IsFiniteSet(Counted[f]) /\ Cardinality(Counted[f]) \in Nat
  BY <1>1, <1>2, <1>3, <1>4, EventSets, DeliverySets, BucketCount DEF DeliveryFigures
<1>6. \A f \in Figures : Source[f] \in QueryNames
  BY DEF Figures, Source, QueryNames
<1>7. \A f \in Figures : f # "listed" => Value(f) \in Nat
  BY <1>5 DEF Value, Counting
<1> QED
  BY <1>1, <1>2, <1>3, <1>4, <1>5, <1>6, <1>7

\* The same of the next state.
LEMMA CountedSetsNext ==
  (/\ \A f \in EventFigures : Counted[f] \in SUBSET Events
   /\ \A f \in DeliveryFigures : Counted[f] \in SUBSET Deliveries
   /\ \A f \in BucketFigures : Counted[f] = Buckets(Charted(Delivered))
   /\ Charted(Delivered) \in SUBSET Deliveries
   /\ \A f \in Counting : IsFiniteSet(Counted[f]) /\ Cardinality(Counted[f]) \in Nat
   /\ \A f \in Figures : Source[f] \in QueryNames /\ (f # "listed" => Value(f) \in Nat))'
BY CountedSets, PTL

\* Of two sets that change within M only, and one of which contains the other, the
\* counts move apart by the size of M at most.
LEMMA CountsMoveTogether ==
  ASSUME NEW A, NEW A2, NEW B, NEW B2, NEW M,
         IsFiniteSet(A), IsFiniteSet(A2), IsFiniteSet(B), IsFiniteSet(B2), IsFiniteSet(M),
         A \ M = A2 \ M, B \ M = B2 \ M
  PROVE  /\ Cardinality(A2) <= Cardinality(A) + Cardinality(M)
         /\ (A \subseteq B /\ A2 \subseteq B2) \/ (B \subseteq A /\ B2 \subseteq A2) =>
              Cardinality(A2) + Cardinality(B) <= Cardinality(A) + Cardinality(B2) + Cardinality(M)
<1>1. ASSUME NEW S, IsFiniteSet(S)
      PROVE  /\ Cardinality(S) \in Nat /\ Cardinality(S \ M) \in Nat /\ Cardinality(S \cap M) \in Nat
             /\ IsFiniteSet(S \cap M)
             /\ Cardinality(S) = Cardinality(S \ M) + Cardinality(S \cap M)
             /\ Cardinality(S \cap M) <= Cardinality(M) /\ Cardinality(M) \in Nat
  <2>1. IsFiniteSet(S \ M) /\ Cardinality(S \ M) = Cardinality(S) - Cardinality(S \cap M)
    BY <1>1, FS_Difference
  <2>2. S \cap M \in SUBSET M
    OBVIOUS
  <2>3. IsFiniteSet(S \cap M) /\ Cardinality(S \cap M) <= Cardinality(M)
    BY <2>2, FS_Subset
  <2>4. Cardinality(S) \in Nat /\ Cardinality(S \ M) \in Nat /\ Cardinality(S \cap M) \in Nat
        /\ Cardinality(M) \in Nat
    BY <1>1, <2>1, <2>3, FS_CardinalityType
  <2> QED
    BY <2>1, <2>3, <2>4
<1>2. ASSUME NEW S, NEW T, IsFiniteSet(S), IsFiniteSet(T), S \subseteq T
      PROVE  Cardinality(S \cap M) <= Cardinality(T \cap M)
  <2>1. S \cap M \in SUBSET (T \cap M)
    BY <1>2
  <2> QED
    BY <1>1, <1>2, <2>1, FS_Subset
<1>3. /\ Cardinality(A) = Cardinality(A \ M) + Cardinality(A \cap M)
      /\ Cardinality(A2) = Cardinality(A \ M) + Cardinality(A2 \cap M)
      /\ Cardinality(B) = Cardinality(B \ M) + Cardinality(B \cap M)
      /\ Cardinality(B2) = Cardinality(B \ M) + Cardinality(B2 \cap M)
  BY <1>1
<1>4. /\ Cardinality(A \ M) \in Nat /\ Cardinality(B \ M) \in Nat /\ Cardinality(M) \in Nat
      /\ Cardinality(A \cap M) \in Nat /\ Cardinality(A2 \cap M) \in Nat
      /\ Cardinality(B \cap M) \in Nat /\ Cardinality(B2 \cap M) \in Nat
      /\ Cardinality(A \cap M) <= Cardinality(M) /\ Cardinality(A2 \cap M) <= Cardinality(M)
      /\ Cardinality(B \cap M) <= Cardinality(M) /\ Cardinality(B2 \cap M) <= Cardinality(M)
  BY <1>1
<1>5. CASE A \subseteq B /\ A2 \subseteq B2
  <2>1. Cardinality(A2 \cap M) <= Cardinality(B2 \cap M)
    BY <1>2, <1>5
  <2> QED
    BY <1>3, <1>4, <2>1
<1>6. CASE B \subseteq A /\ B2 \subseteq A2
  <2>1. Cardinality(B \cap M) <= Cardinality(A \cap M)
    BY <1>2, <1>6
  <2> QED
    BY <1>3, <1>4, <2>1
<1> QED
  BY <1>3, <1>4, <1>5, <1>6

LEMMA BoundedFigures ==
  ASSUME NEW b \in Bounded
  PROVE  /\ b[1] \in Counting /\ b[2] \in Counting /\ b[1] # "failing"
         /\ <<b[1], b[2]>> \in Parts \/ <<b[2], b[1]>> \in Parts
         /\ \/ b[1] \in EventFigures /\ b[2] \in EventFigures
            \/ b[1] \in DeliveryFigures /\ b[2] \in DeliveryFigures
            \/ b[1] \in BucketFigures /\ b[2] \in BucketFigures
BY DEF Bounded, Parts, Figures, Counting, EventFigures, DeliveryFigures, BucketFigures

LEMMA PartsInclude ==
  ASSUME TableInv, MetricTypes, NEW p \in Parts
  PROVE  Counted[p[1]] \subseteq Counted[p[2]]
<1>1. \A S : Charted(S) \subseteq S
  BY DEF Charted
<1>2. Failed \subseteq Failing
  <2> SUFFICES ASSUME NEW d \in Failed PROVE d \in Failing
    OBVIOUS
  <2>1. d \in Deliveries /\ delivery[d] = "failed" /\ d[1] >= windowStart
    BY DEF Failed, InWindow
  <2>2. d[1] \in Nat /\ touched[d] \in Nat /\ d[1] <= touched[d] /\ windowStart \in Int
    BY <2>1, DeliverySets, MetricsAssumption DEF TableInv, windowStart, MetricTypes
  <2> QED
    BY <2>1, <2>2 DEF Failing
<1>3. Delivered \subseteq InWindow({"delivered", "skipped"})
  BY DEF Delivered, InWindow
<1> QED
  BY <1>1, <1>2, <1>3 DEF Parts, Counted

LEMMA PartsIncludeNext ==
  (TableInv /\ MetricTypes => \A p \in Parts : Counted[p[1]] \subseteq Counted[p[2]])'
<1>1. TableInv /\ MetricTypes => \A p \in Parts : Counted[p[1]] \subseteq Counted[p[2]]
  BY PartsInclude
<1> QED
  BY <1>1, PTL

LEMMA AgreementFollows ==
  ASSUME Agreement, \A f \in Figures \ {"listed", "failing"} : Expected(f)' = Expected(f),
         Whole("failing")' => Whole("failing") /\ Expected("failing")' = Expected("failing"),
         drift' = drift
  PROVE  Agreement'
<1>1. ASSUME NEW b \in Bounded, Whole(b[2])'
      PROVE  Expected(b[1])' <= Expected(b[2])' + drift'
  <2>1. /\ b[1] \in Figures \ {"listed", "failing"}
        /\ b[2] \in Figures \ {"listed"}
    BY BoundedFigures DEF Counting
  <2>2. Whole(b[2])
    BY <1>1, <2>1 DEF Whole
  <2>3. Expected(b[2])' = Expected(b[2]) /\ Expected(b[1])' = Expected(b[1])
    BY <1>1, <2>1
  <2> QED
    BY <2>2, <2>3 DEF Agreement
<1>2. {"delivered", "p95"} \subseteq Figures \ {"listed", "failing"}
  BY DEF Figures
<1>3. (drift = 0 => (Expected("p95") > 0 <=> Expected("delivered") > 0))'
  BY <1>2 DEF Agreement
<1> QED
  BY <1>1, <1>3 DEF Agreement

LEMMA SameTable ==
  ASSUME UNCHANGED <<event, delivery, touched, asOf>>
  PROVE  \A f : Value(f)' = Value(f)
<1>1. windowStart' = windowStart /\ LastBucket' = LastBucket
  BY DEF windowStart, LastBucket
<1>2. Received' = Received /\ Failing' = Failing /\ (\A S : InWindow(S)' = InWindow(S))
  BY <1>1 DEF Received, Present, InWindow, Failing
<1>3. Delivered' = Delivered /\ Failed' = Failed
  BY <1>2 DEF Delivered, Failed
<1>4. (\A t : Kept(t)' <=> Kept(t)) /\ \A S : Charted(S)' = Charted(S)
  BY <1>1 DEF Kept, Charted
<1>5. Counted' = Counted
  BY <1>2, <1>3, <1>4 DEF Counted
<1> QED
  BY <1>3, <1>5 DEF Value

LEMMA OverviewStays ==
  ASSUME OverviewInv, UNCHANGED <<event, delivery, touched, metricVars>>, clock' \in {clock, clock + 1}
  PROVE  OverviewInv'
<1> USE DEF OverviewInv, metricVars
<1>1. TableInv'
  <2>1. clock' \in Nat /\ clock <= clock' /\ clock \in Nat
    BY DEF TableInv
  <2>2. (\A e \in Events : e \in Nat) /\ \A d \in Deliveries : d[1] \in Nat
    BY EventSets, DeliverySets
  <2>3. \A e \in Events : event'[e] = "stored" => e <= clock'
    BY <2>1, <2>2 DEF TableInv
  <2>4. \A d \in Deliveries : delivery'[d] # "none" => d[1] <= clock' /\ d[1] <= touched'[d]
    BY <2>1, <2>2 DEF TableInv
  <2> QED
    BY <2>1, <2>3, <2>4 DEF TableInv, TableTypes
<1>2. MetricTypes'
  BY DEF MetricTypes
<1>3. \A f : Expected(f)' = Expected(f) /\ (Whole(f)' <=> Whole(f))
  BY SameTable DEF Expected, Whole
<1>4. Agreement'
  BY <1>3, AgreementFollows
<1> QED
  BY <1>1, <1>2, <1>4

\* If the list of the failing destinations is not cut off it has them all.
LEMMA ListIsWhole ==
  /\ ListedRows \in Nat /\ Cardinality(FailingTo(Top)) \in Nat
  /\ ListedRows < TopN => FailingTo(Top) = Failing
<1>1. Failing \in SUBSET Deliveries /\ FailingTo(Top) \in SUBSET Deliveries
  BY DEF Failing, FailingTo
<1>2. Names \in SUBSET Destinations
  BY <1>1, DeliverySets, RecordsAssumption DEF Names
<1>3. IsFiniteSet(Names) /\ Cardinality(Names) \in Nat
  BY <1>2, RecordsAssumption, FS_Subset, FS_CardinalityType
<1>4. ListedRows \in Nat
  BY <1>3, MetricsAssumption DEF ListedRows
<1>5. ASSUME ListedRows < TopN PROVE FailingTo(Top) = Failing
  <2>1. ListedRows = Cardinality(Names)
    BY <1>3, <1>5, MetricsAssumption DEF ListedRows
  <2> DEFINE Best(X) == /\ Cardinality(X) = ListedRows
                        /\ \A x \in X, y \in Names \ X :
                             Cardinality(FailingTo({x})) >= Cardinality(FailingTo({y}))
  <2>2. Names \in SUBSET Names /\ Best(Names)
    BY <2>1
  <2>3. Top = CHOOSE X \in SUBSET Names : Best(X)
    BY DEF Top
  <2> HIDE DEF Best
  <2>4. Top \in SUBSET Names /\ Best(Top)
    BY <2>2, <2>3
  <2>5. Cardinality(Top) = Cardinality(Names)
    BY <2>1, <2>4 DEF Best
  <2>6. Top = Names
    BY <1>3, <2>4, <2>5, FS_Subset
  <2> QED
    BY <2>6 DEF FailingTo, Names
<1> QED
  BY <1>1, <1>4, <1>5, DeliverySets

\* The answer of a query is what its figures were going to be.
LEMMA AnswersAreExpected ==
  ASSUME NEW q \in QueryNames, NEW f \in Figures
  PROVE  /\ f \in DOMAIN Answer(q) <=> Source[f] = q
         /\ Source[f] = q => Answer(q)[f] \in Nat
         /\ Source[f] = q /\ f \notin {"listed", "failing"} => Answer(q)[f] = Value(f)
<1> DEFINE a == Answer(q)
<1>0. \A g \in Figures : g # "listed" => Value(g) \in Nat
  BY CountedSets
<1>2. CASE q = "received"
  <2>1. DOMAIN a = {"events"}
    BY <1>2 DEF Answer
  <2>2. a["events"] = Value("events")
    BY <1>2 DEF Answer, Value, Counted
  <2> QED
    BY <1>0, <1>2, <2>1, <2>2 DEF Figures, Source
<1>3. CASE q = "settled"
  <2>1. DOMAIN a = {"delivered", "failed"}
    BY <1>3 DEF Answer
  <2>2. a["delivered"] = Value("delivered") /\ a["failed"] = Value("failed")
    BY <1>3 DEF Answer, Value, Counted
  <2> QED
    BY <1>0, <1>3, <2>1, <2>2 DEF Figures, Source
<1>4. CASE q = "percentile"
  <2>1. DOMAIN a = {"p95"}
    BY <1>4 DEF Answer
  <2>2. a["p95"] = Value("p95")
    BY <1>4 DEF Answer, Value, Counted
  <2> QED
    BY <1>0, <1>4, <2>1, <2>2 DEF Figures, Source
<1>5. CASE q = "throughput"
  <2>1. DOMAIN a = {"throughput"}
    BY <1>5 DEF Answer
  <2>2. a["throughput"] = Value("throughput")
    BY <1>5 DEF Answer, Value, Counted
  <2> QED
    BY <1>0, <1>5, <2>1, <2>2 DEF Figures, Source
<1>6. CASE q = "success"
  <2>1. DOMAIN a = {"deliveredChart", "failedChart", "busyBuckets"}
    BY <1>6 DEF Answer
  <2>2. /\ a["deliveredChart"] = Value("deliveredChart") /\ a["failedChart"] = Value("failedChart")
        /\ a["busyBuckets"] = Value("busyBuckets")
    BY <1>6 DEF Answer, Value, Counted
  <2> QED
    BY <1>0, <1>6, <2>1, <2>2 DEF Figures, Source
<1>7. CASE q = "latency"
  <2>1. DOMAIN a = {"latencyBuckets"}
    BY <1>7 DEF Answer
  <2>2. a["latencyBuckets"] = Value("latencyBuckets")
    BY <1>7 DEF Answer, Value, Counted
  <2> QED
    BY <1>0, <1>7, <2>1, <2>2 DEF Figures, Source
<1>8. CASE q = "failing"
  <2>1. DOMAIN a = {"listed", "failing"}
    BY <1>8 DEF Answer
  <2>2. a["listed"] \in Nat /\ a["failing"] \in Nat
    BY <1>8, ListIsWhole DEF Answer
  <2> QED
    BY <1>8, <2>1, <2>2 DEF Figures, Source
<1>9. CASE q = "digest"
  <2>1. DOMAIN a = {"mailedEvents", "mailedDelivered", "mailedFailed"}
    BY <1>9 DEF Answer, Digested
  <2>2. /\ a["mailedEvents"] = Value("mailedEvents")
        /\ a["mailedDelivered"] = Value("mailedDelivered")
        /\ a["mailedFailed"] = Value("mailedFailed")
    BY <1>9 DEF Answer, Value, Counted, Digested
  <2> QED
    BY <1>0, <1>9, <2>1, <2>2 DEF Figures, Source
<1> QED
  BY <1>2, <1>3, <1>4, <1>5, <1>6, <1>7, <1>8, <1>9 DEF QueryNames

LEMMA OverviewQueries ==
  ASSUME OverviewInv, UNCHANGED recordVars, NEW q \in QueryNames, Query(q)
  PROVE  OverviewInv'
<1> USE DEF OverviewInv, recordVars, tables
<1>1. /\ q \in pending /\ pending' = pending \ {q} /\ UNCHANGED <<asOf, drift>>
      /\ figure' = [f \in Figures |-> IF f \in DOMAIN Answer(q) THEN Answer(q)[f] ELSE figure[f]]
  BY DEF Query
<1>2. TableInv'
  BY DEF TableInv, TableTypes
<1>3. \A f \in Figures : /\ Source[f] # q => figure'[f] = figure[f]
                         /\ Source[f] = q => figure'[f] = Answer(q)[f] /\ figure'[f] \in Nat
                         /\ Source[f] = q /\ f \notin {"listed", "failing"} => figure'[f] = Value(f)
  BY <1>1, AnswersAreExpected
<1>4. MetricTypes'
  BY <1>1, <1>3 DEF MetricTypes
<1>5. \A f : Value(f)' = Value(f)
  BY <1>1, SameTable
<1>6. \A f \in Figures \ {"listed", "failing"} : Expected(f)' = Expected(f)
  BY <1>1, <1>3, <1>5 DEF Expected
<1>7. /\ {"listed", "failing"} \subseteq Figures
      /\ Source["listed"] = "failing" /\ Source["failing"] = "failing"
  BY DEF Figures, Source
<1>8. ASSUME Whole("failing")' PROVE Whole("failing") /\ Expected("failing")' = Expected("failing")
  <2>1. CASE q = "failing"
    <3>1. "failing" \notin pending' /\ figure'["listed"] < TopN
      BY <1>1, <1>8, <2>1 DEF Whole
    <3>2. figure'["listed"] = ListedRows /\ figure'["failing"] = Cardinality(FailingTo(Top))
      BY <1>3, <1>7, <2>1 DEF Answer
    <3>3. figure'["failing"] = Value("failing")
      BY <3>1, <3>2, ListIsWhole DEF Value, Counted
    <3> QED
      BY <1>1, <1>7, <2>1, <3>1, <3>3 DEF Whole, Expected
  <2>2. CASE q # "failing"
    BY <1>1, <1>3, <1>5, <1>7, <1>8, <2>2 DEF Whole, Expected
  <2> QED
    BY <2>1, <2>2
<1>9. Agreement'
  BY <1>1, <1>6, <1>8, AgreementFollows
<1> QED
  BY <1>2, <1>4, <1>9

\* When the page is opened every event has been received, and lies in one of the
\* buckets if it lies in the window.
LEMMA BucketsGrow ==
  ASSUME NEW s \in Int, NEW t \in Int, s <= t
  PROVE  BucketOf(s) \in Int /\ BucketOf(t) \in Int /\ BucketOf(s) <= BucketOf(t)
BY MetricsAssumption DEF BucketOf

LEMMA OverviewLoads ==
  ASSUME OverviewInv, UNCHANGED recordVars, Load
  PROVE  OverviewInv'
<1> USE DEF OverviewInv, recordVars, tables
<1>1. TableInv' /\ MetricTypes' /\ asOf' = clock /\ pending' = QueryNames /\ drift' = 0
  BY DEF TableInv, TableTypes, Load, MetricTypes, Figures
<1>2. windowStart' \in Int /\ asOf' \in Int /\ LastBucket' = BucketOf(asOf')
  <2>1. clock \in Nat
    BY DEF TableInv
  <2> QED
    BY <1>1, <2>1, MetricsAssumption DEF windowStart, LastBucket
<1>3. ASSUME NEW t \in Nat, t >= windowStart', t <= clock PROVE Kept(t)'
  <2>1. BucketOf(windowStart') \in Int /\ BucketOf(t) \in Int /\ BucketOf(asOf') \in Int
        /\ BucketOf(windowStart') <= BucketOf(t) /\ BucketOf(t) <= BucketOf(asOf')
    BY <1>1, <1>2, <1>3, BucketsGrow
  <2> QED
    BY <1>2, <2>1 DEF Kept
<1>4. \A e \in Received' : Kept(e)'
  <2> SUFFICES ASSUME NEW e \in Received' PROVE Kept(e)'
    OBVIOUS
  <2>1. e \in Events /\ event[e] = "stored" /\ e >= windowStart'
    BY DEF Received, Present
  <2>2. e \in Nat /\ e <= clock
    BY <2>1, EventSets DEF TableInv
  <2> QED
    BY <1>3, <2>1, <2>2
<1>5. ASSUME NEW s, s # "none", NEW d \in (InWindow({s}))' PROVE Kept(d[1])'
  <2>1. d \in Deliveries /\ delivery[d] # "none" /\ d[1] >= windowStart'
    BY <1>5 DEF InWindow
  <2>2. d[1] \in Nat /\ d[1] <= clock
    BY <2>1, DeliverySets DEF TableInv
  <2> QED
    BY <1>3, <2>1, <2>2
<1>6. Charted(Delivered)' = Delivered' /\ Charted(Failed)' = Failed'
  <2>1. (\A d \in Delivered' : Kept(d[1])') /\ \A d \in Failed' : Kept(d[1])'
    BY <1>5 DEF Delivered, Failed
  <2> QED
    BY <2>1 DEF Charted
<1>7. \A p \in Parts : Counted'[p[1]] \subseteq Counted'[p[2]]
  BY <1>1, PartsIncludeNext
<1>8. \A f \in Figures \ {"listed"} : Expected(f)' = Value(f)' /\ Value(f)' \in Nat
  BY <1>1, CountedSetsNext DEF Expected
<1>9. ASSUME NEW b \in Bounded PROVE Expected(b[1])' <= Expected(b[2])' + drift'
  <2>1. b[1] \in Counting /\ b[2] \in Counting
    BY BoundedFigures
  <2>2. Counted'[b[1]] \subseteq Counted'[b[2]]
    BY <1>4, <1>6, <1>7 DEF Bounded, Counted
  <2>3. IsFiniteSet(Counted'[b[2]]) /\ Counted'[b[1]] \in SUBSET Counted'[b[2]]
    BY <2>1, <2>2, CountedSetsNext
  <2>4. Cardinality(Counted'[b[1]]) <= Cardinality(Counted'[b[2]])
    BY <2>3, FS_Subset
  <2>5. /\ Value(b[1])' = Cardinality(Counted'[b[1]]) /\ Value(b[2])' = Cardinality(Counted'[b[2]])
        /\ b[1] \in Figures \ {"listed"} /\ b[2] \in Figures \ {"listed"}
    BY <2>1 DEF Value, Counting
  <2> QED
    BY <1>1, <1>8, <2>4, <2>5
<1>10. (Expected("p95") > 0 <=> Expected("delivered") > 0)'
  <2>1. "delivered" \in DeliveryFigures /\ "delivered" \in Figures \ {"listed"}
        /\ "p95" \in Figures \ {"listed"}
    BY DEF DeliveryFigures, Counting, Figures, EventFigures, BucketFigures
  <2>2. Delivered' \in SUBSET Deliveries
    BY <2>1, CountedSetsNext DEF Counted
  <2>3. Cardinality(Delivered') \in Nat /\ (Cardinality(Delivered') = 0 <=> Delivered' = {})
    BY <2>2, DeliverySets, FS_EmptySet
  <2>4. Counted'["delivered"] = Delivered'
    BY DEF Counted
  <2>5. /\ Value("delivered")' = Cardinality(Delivered')
        /\ Value("p95")' = IF Delivered' = {} THEN 0 ELSE 1
    BY <2>4 DEF Value
  <2>6. Expected("p95")' = Value("p95")' /\ Expected("delivered")' = Value("delivered")'
    BY <1>8, <2>1
  <2> QED
    BY <2>3, <2>5, <2>6
<1>11. Agreement'
  BY <1>9, <1>10 DEF Agreement
<1> QED
  BY <1>1, <1>11

\* The rows that a change of the tables leaves alone.
MovedEvents     == {e \in Events : event'[e] # event[e]}
MovedDeliveries == {d \in Deliveries : <<delivery'[d], touched'[d]>> # <<delivery[d], touched[d]>>}

\* Whatever a figure counts changes within the rows that moved.
LEMMA FiguresMove ==
  ASSUME asOf' = asOf
  PROVE  /\ IsFiniteSet(MovedEvents) /\ IsFiniteSet(MovedDeliveries)
         /\ Cardinality(MovedEvents) \in Nat /\ Cardinality(MovedDeliveries) \in Nat
         /\ Moved = Cardinality(MovedEvents) + Cardinality(MovedDeliveries)
         /\ \A f \in EventFigures : Counted[f] \ MovedEvents = Counted'[f] \ MovedEvents
         /\ \A f \in DeliveryFigures : Counted[f] \ MovedDeliveries = Counted'[f] \ MovedDeliveries
         /\ Charted(Delivered) \ MovedDeliveries = Charted(Delivered)' \ MovedDeliveries
<1>1. MovedEvents \in SUBSET Events /\ MovedDeliveries \in SUBSET Deliveries
  BY DEF MovedEvents, MovedDeliveries
<1>2. windowStart' = windowStart /\ LastBucket' = LastBucket
  BY DEF windowStart, LastBucket
<1>3. \A t : Kept(t)' <=> Kept(t)
  BY <1>2 DEF Kept
<1>4. \A e \in Events \ MovedEvents : event'[e] = event[e]
  BY DEF MovedEvents
<1>5. \A d \in Deliveries \ MovedDeliveries : delivery'[d] = delivery[d] /\ touched'[d] = touched[d]
  BY DEF MovedDeliveries
<1>6. Received \ MovedEvents = Received' \ MovedEvents
  BY <1>2, <1>4 DEF Received, Present
<1>7. /\ \A S : InWindow(S) \ MovedDeliveries = InWindow(S)' \ MovedDeliveries
      /\ Failing \ MovedDeliveries = Failing' \ MovedDeliveries
  BY <1>2, <1>5 DEF InWindow, Failing
<1>8. /\ Delivered \ MovedDeliveries = Delivered' \ MovedDeliveries
      /\ Failed \ MovedDeliveries = Failed' \ MovedDeliveries
  BY <1>7 DEF Delivered, Failed
<1>9. /\ Charted(Delivered) \ MovedDeliveries = Charted(Delivered)' \ MovedDeliveries
      /\ Charted(Failed) \ MovedDeliveries = Charted(Failed)' \ MovedDeliveries
  BY <1>3, <1>8 DEF Charted
<1>10. {e \in Received : Kept(e)} \ MovedEvents = {e \in Received' : Kept(e)'} \ MovedEvents
  BY <1>3, <1>6
<1>11. \A f \in EventFigures : Counted[f] \ MovedEvents = Counted'[f] \ MovedEvents
  BY <1>6, <1>10 DEF EventFigures, Counted
<1>12. InWindow({"delivered", "skipped"}) \ MovedDeliveries
         = InWindow({"delivered", "skipped"})' \ MovedDeliveries
  BY <1>7
<1>13. \A f \in DeliveryFigures : Counted[f] \ MovedDeliveries = Counted'[f] \ MovedDeliveries
  BY <1>7, <1>8, <1>9, <1>12
     DEF DeliveryFigures, EventFigures, BucketFigures, Counting, Figures, Counted
<1>14. Moved = Cardinality(MovedEvents) + Cardinality(MovedDeliveries)
  BY DEF Moved, MovedEvents, MovedDeliveries
<1> QED
  BY <1>1, <1>9, <1>11, <1>13, <1>14, EventSets, DeliverySets

\* There are new buckets only where there are new deliveries.
LEMMA BucketsMove ==
  ASSUME NEW D \in SUBSET Deliveries, NEW D2 \in SUBSET Deliveries, NEW M \in SUBSET Deliveries,
         D \ M = D2 \ M
  PROVE  Cardinality(Buckets(D2)) <= Cardinality(Buckets(D)) + Cardinality(M)
<1>1. D2 \cap M \in SUBSET Deliveries /\ D2 \cap M \in SUBSET M
  OBVIOUS
<1>2. Buckets(D2) \subseteq Buckets(D) \cup Buckets(D2 \cap M)
  BY DEF Buckets
<1>3. /\ IsFiniteSet(Buckets(D)) /\ IsFiniteSet(Buckets(D2 \cap M))
      /\ Cardinality(Buckets(D)) \in Nat /\ Cardinality(Buckets(D2 \cap M)) \in Nat
      /\ Cardinality(Buckets(D2 \cap M)) <= Cardinality(D2 \cap M)
      /\ Cardinality(Buckets(D2)) \in Nat
  BY <1>1, BucketCount
<1>4. Cardinality(D2 \cap M) <= Cardinality(M) /\ Cardinality(M) \in Nat /\ Cardinality(D2 \cap M) \in Nat
  BY <1>1, DeliverySets, FS_Subset
<1>5. /\ IsFiniteSet(Buckets(D) \cup Buckets(D2 \cap M))
      /\ Cardinality(Buckets(D) \cup Buckets(D2 \cap M)) =
           Cardinality(Buckets(D)) + Cardinality(Buckets(D2 \cap M))
             - Cardinality(Buckets(D) \cap Buckets(D2 \cap M))
  BY <1>3, FS_Union
<1>6. Cardinality(Buckets(D) \cap Buckets(D2 \cap M)) \in Nat
  BY <1>3, FS_Intersection, FS_CardinalityType
<1>7. Cardinality(Buckets(D2)) <= Cardinality(Buckets(D) \cup Buckets(D2 \cap M))
  BY <1>2, <1>5, FS_Subset
<1> QED
  BY <1>3, <1>4, <1>5, <1>6, <1>7

\* Two figures that are parts of each other move apart by the rows that moved at most.
LEMMA PairsMove ==
  ASSUME OverviewInv, TableInv', MetricTypes', asOf' = asOf, NEW b \in Bounded
  PROVE  LET A == Counted[b[1]]
             B == Counted[b[2]]
         IN /\ Moved \in Nat
            /\ Cardinality(A') <= Cardinality(A) + Moved /\ Cardinality(B) <= Cardinality(B') + Moved
            /\ Cardinality(A') + Cardinality(B) <= Cardinality(A) + Cardinality(B') + Moved
<1> USE DEF OverviewInv
<1> DEFINE A == Counted[b[1]]
           B == Counted[b[2]]
<1>1. (A \subseteq B /\ A' \subseteq B') \/ (B \subseteq A /\ B' \subseteq A')
  <2>1. <<b[1], b[2]>> \in Parts \/ <<b[2], b[1]>> \in Parts
    BY BoundedFigures
  <2>2. \A p \in Parts : Counted[p[1]] \subseteq Counted[p[2]] /\ Counted'[p[1]] \subseteq Counted'[p[2]]
    BY PartsInclude, PartsIncludeNext
  <2> QED
    BY <2>1, <2>2
<1>2. /\ IsFiniteSet(A) /\ IsFiniteSet(B) /\ IsFiniteSet(A') /\ IsFiniteSet(B')
      /\ Cardinality(A) \in Nat /\ Cardinality(B) \in Nat /\ Cardinality(A') \in Nat /\ Cardinality(B') \in Nat
  BY BoundedFigures, CountedSets, CountedSetsNext
<1>3. /\ Moved = Cardinality(MovedEvents) + Cardinality(MovedDeliveries)
      /\ Cardinality(MovedEvents) \in Nat /\ Cardinality(MovedDeliveries) \in Nat
  BY FiguresMove
<1>4. ASSUME NEW M, IsFiniteSet(M), A \ M = A' \ M, B \ M = B' \ M
      PROVE  /\ Cardinality(A') <= Cardinality(A) + Cardinality(M)
             /\ Cardinality(B) <= Cardinality(B') + Cardinality(M)
             /\ Cardinality(A') + Cardinality(B) <= Cardinality(A) + Cardinality(B') + Cardinality(M)
  <2> HIDE DEF A, B
  <2>1. /\ Cardinality(A') <= Cardinality(A) + Cardinality(M)
        /\ Cardinality(A') + Cardinality(B) <= Cardinality(A) + Cardinality(B') + Cardinality(M)
    BY <1>1, <1>2, <1>4, CountsMoveTogether
  <2>2. Cardinality(B) <= Cardinality(B') + Cardinality(M)
    BY <1>2, <1>4, CountsMoveTogether
  <2> QED
    BY <2>1, <2>2
<1>5. CASE b[1] \in EventFigures /\ b[2] \in EventFigures
  <2>1. IsFiniteSet(MovedEvents) /\ A \ MovedEvents = A' \ MovedEvents /\ B \ MovedEvents = B' \ MovedEvents
    BY <1>5, FiguresMove
  <2> HIDE DEF A, B
  <2>2. /\ Cardinality(A') <= Cardinality(A) + Cardinality(MovedEvents)
        /\ Cardinality(B) <= Cardinality(B') + Cardinality(MovedEvents)
        /\ Cardinality(A') + Cardinality(B) <= Cardinality(A) + Cardinality(B') + Cardinality(MovedEvents)
    BY <1>4, <2>1
  <2>3. /\ Cardinality(A') <= Cardinality(A) + Moved /\ Cardinality(B) <= Cardinality(B') + Moved
        /\ Cardinality(A') + Cardinality(B) <= Cardinality(A) + Cardinality(B') + Moved /\ Moved \in Nat
    BY <1>2, <1>3, <2>2
  <2> QED
    BY <2>3 DEF A, B
<1>6. CASE b[1] \in DeliveryFigures /\ b[2] \in DeliveryFigures
  <2> DEFINE M == MovedDeliveries
  <2>1. IsFiniteSet(M) /\ A \ M = A' \ M /\ B \ M = B' \ M
    BY <1>6, FiguresMove
  <2> HIDE DEF A, B
  <2>2. /\ Cardinality(A') <= Cardinality(A) + Cardinality(M)
        /\ Cardinality(B) <= Cardinality(B') + Cardinality(M)
        /\ Cardinality(A') + Cardinality(B) <= Cardinality(A) + Cardinality(B') + Cardinality(M)
    BY <1>4, <2>1
  <2>3. /\ Cardinality(A') <= Cardinality(A) + Moved /\ Cardinality(B) <= Cardinality(B') + Moved
        /\ Cardinality(A') + Cardinality(B) <= Cardinality(A) + Cardinality(B') + Moved /\ Moved \in Nat
    BY <1>2, <1>3, <2>2
  <2> QED
    BY <2>3 DEF A, B
<1>7. CASE b[1] \in BucketFigures /\ b[2] \in BucketFigures
  <2> DEFINE D == Charted(Delivered)
  <2>1. A = Buckets(D) /\ B = A /\ A' = Buckets(D') /\ B' = A'
    BY <1>7, CountedSets, CountedSetsNext DEF Buckets, BucketOf
  <2>2. D \in SUBSET Deliveries /\ D' \in SUBSET Deliveries /\ MovedDeliveries \in SUBSET Deliveries
        /\ D \ MovedDeliveries = D' \ MovedDeliveries
    BY CountedSets, CountedSetsNext, FiguresMove DEF MovedDeliveries
  <2> HIDE DEF A, B, D
  <2>3. /\ Cardinality(A') <= Cardinality(A) + Cardinality(MovedDeliveries)
        /\ Cardinality(A) <= Cardinality(A') + Cardinality(MovedDeliveries)
    BY <2>1, <2>2, BucketsMove
  <2>4. /\ Cardinality(A') <= Cardinality(A) + Moved /\ Cardinality(B) <= Cardinality(B') + Moved
        /\ Cardinality(A') + Cardinality(B) <= Cardinality(A) + Cardinality(B') + Moved /\ Moved \in Nat
    BY <1>2, <1>3, <2>1, <2>3
  <2> QED
    BY <2>4 DEF A, B
<1> QED
  BY <1>5, <1>6, <1>7, BoundedFigures

LEMMA OverviewChanges ==
  ASSUME OverviewInv, RecordChange, Drifted
  PROVE  OverviewInv'
<1> USE DEF OverviewInv
<1>1. PICK D \in SUBSET Deliveries, s \in Statuses \ {"none"} :
        Write(D, s) /\ \A d \in D : WasReceived(d)
  BY RecordStep DEF TableInv
<1>2. TableInv'
  <2>1. Grows /\ clock \in Nat
    BY RecordStep DEF TableInv
  <2>2. \A e \in Events : event'[e] = "stored" => e <= clock'
    BY <2>1 DEF TableInv, Grows
  <2>3. touched' \in [Deliveries -> Nat]
    BY <1>1, <2>1 DEF Write, TableInv
  <2>4. ASSUME NEW d \in Deliveries, delivery'[d] # "none"
        PROVE  d[1] <= clock' /\ d[1] <= touched'[d]
    <3>1. d[1] \in Events /\ d[1] \in Nat
      BY DeliverySets
    <3>2. CASE d \in D
      BY <1>1, <3>1, <3>2 DEF Write, WasReceived, TableInv
    <3>3. CASE d \notin D
      BY <1>1, <2>4, <3>1, <3>3 DEF Write, TableInv
    <3> QED
      BY <3>2, <3>3
  <2> QED
    BY <2>1, <2>2, <2>3, <2>4 DEF TableInv, Grows
<1>3. /\ UNCHANGED <<asOf, pending, figure>>
      /\ pending = {} => drift' = drift
      /\ pending # {} => drift' = drift + Moved
  BY DEF Drifted
<1>4. Moved \in Nat
  BY <1>3, FiguresMove
<1>5. MetricTypes' /\ drift \in Nat
  BY <1>3, <1>4 DEF MetricTypes
<1>6. CASE pending = {}
  <2>1. \A f : Expected(f)' = Expected(f) /\ (Whole(f)' <=> Whole(f))
    BY <1>3, <1>6 DEF Expected, Whole
  <2> QED
    BY <1>2, <1>3, <1>5, <1>6, <2>1, AgreementFollows
<1>7. CASE pending # {}
  <2>1. ASSUME NEW b \in Bounded, Whole(b[2])'
        PROVE  Expected(b[1])' <= Expected(b[2])' + drift'
    <3> DEFINE A == Counted[b[1]]
               B == Counted[b[2]]
    <3>1. b[1] \in Counting /\ b[2] \in Counting /\ b[1] \in Figures /\ b[2] \in Figures
      BY BoundedFigures DEF Counting
    <3>2. /\ Cardinality(A') <= Cardinality(A) + Moved /\ Cardinality(B) <= Cardinality(B') + Moved
          /\ Cardinality(A') + Cardinality(B) <= Cardinality(A) + Cardinality(B') + Moved
      BY <1>2, <1>3, <1>5, PairsMove
    <3>3. /\ Value(b[1]) = Cardinality(A) /\ Value(b[1])' = Cardinality(A')
          /\ Value(b[2]) = Cardinality(B) /\ Value(b[2])' = Cardinality(B')
      BY <3>1 DEF Value, Counting
    <3>4. /\ Value(b[1]) \in Nat /\ Value(b[1])' \in Nat /\ figure[b[1]] \in Nat
          /\ Value(b[2]) \in Nat /\ Value(b[2])' \in Nat /\ figure[b[2]] \in Nat
      BY <1>5, <3>1, CountedSets, CountedSetsNext DEF Counting, MetricTypes
    <3> HIDE DEF A, B
    <3>5. Expected(b[1]) <= Expected(b[2]) + drift
      BY <1>3, <2>1 DEF Agreement, Whole
    <3> QED
      BY <1>3, <1>4, <1>5, <1>7, <3>2, <3>3, <3>4, <3>5 DEF Expected
  <2>2. ASSUME drift' = 0 PROVE (Expected("p95") > 0 <=> Expected("delivered") > 0)'
    <3>1. drift = 0 /\ Moved = 0
      BY <1>3, <1>4, <1>5, <1>7, <2>2
    <3>2. MovedDeliveries = {}
      BY <1>3, <3>1, FiguresMove, FS_EmptySet
    <3>3. "delivered" \in DeliveryFigures /\ {"delivered", "p95"} \subseteq Figures
      BY DEF DeliveryFigures, Counting, Figures, EventFigures, BucketFigures
    <3>4. Delivered' = Delivered
      <4>1. Counted["delivered"] = Delivered /\ Counted'["delivered"] = Delivered'
        BY DEF Counted
      <4>2. Counted["delivered"] \ {} = Counted'["delivered"] \ {}
        BY <1>3, <3>2, <3>3, FiguresMove
      <4> QED
        BY <4>1, <4>2
    <3>5. Value("delivered")' = Value("delivered") /\ Value("p95")' = Value("p95")
      BY <3>4 DEF Value, Counted
    <3> QED
      BY <1>3, <3>1, <3>5 DEF Agreement, Expected
  <2> QED
    BY <1>2, <1>5, <2>1, <2>2 DEF Agreement
<1> QED
  BY <1>6, <1>7

LEMMA OverviewInvariant == DashboardSpec => []OverviewInv
<1>1. DashboardInit => OverviewInv
  <2> SUFFICES ASSUME RecordsInit, MetricsInit PROVE OverviewInv
    BY DEF DashboardInit
  <2>1. /\ TableTypes /\ \A e \in Events : event[e] = "stored" => e <= clock
        /\ \A d \in Deliveries : delivery[d] # "none" => event[d[1]] = "stored"
    BY TablesStart
  <2>2. TableInv
    <3>1. clock \in Nat /\ touched = [d \in Deliveries |-> IF delivery[d] = "none" THEN 0 ELSE d[1]]
      BY RecordsAssumption DEF RecordsInit
    <3>2. \A d \in Deliveries : d[1] \in Events /\ d[1] \in Nat
      BY DeliverySets
    <3>3. touched \in [Deliveries -> Nat]
      BY <3>1, <3>2
    <3>4. \A d \in Deliveries : delivery[d] # "none" => d[1] <= clock /\ d[1] <= touched[d]
      BY <2>1, <3>1, <3>2
    <3> QED
      BY <2>1, <3>1, <3>3, <3>4 DEF TableInv
  <2>3. MetricTypes /\ pending = {} /\ drift = 0 /\ \A f \in Figures : figure[f] = 0
    BY DEF MetricsInit, MetricTypes
  <2>4. \A f \in Figures : Expected(f) = 0
    BY <2>3 DEF Expected
  <2>5. Agreement
    <3>1. {"delivered", "p95"} \subseteq Figures
      BY DEF Figures
    <3>2. \A b \in Bounded : Expected(b[1]) = 0 /\ Expected(b[2]) = 0
      BY <2>4, BoundedFigures DEF Counting
    <3>3. Expected("delivered") = 0 /\ Expected("p95") = 0
      BY <2>4, <3>1
    <3> QED
      BY <2>3, <3>2, <3>3 DEF Agreement
  <2> QED
    BY <2>2, <2>3, <2>5 DEF OverviewInv
<1>2. OverviewInv /\ [DashboardNext]_dashboardVars => OverviewInv'
  <2> SUFFICES ASSUME OverviewInv, [DashboardNext]_dashboardVars PROVE OverviewInv'
    OBVIOUS
  <2>1. CASE Change
    BY <2>1, OverviewChanges DEF Change
  <2>2. CASE Pass
    BY <2>2, OverviewStays DEF Pass, Tick, tables
  <2>3. CASE Read
    BY <2>3, OverviewStays DEF Read, recordVars, tables
  <2>4. CASE Overview
    <3>1. UNCHANGED recordVars /\ (Load \/ \E q \in QueryNames : Query(q))
      BY <2>4 DEF Overview
    <3> QED
      BY <3>1, OverviewLoads, OverviewQueries
  <2>5. CASE Work
    BY <2>5, OverviewStays DEF Work, recordVars, tables
  <2>6. CASE UNCHANGED dashboardVars
    BY <2>6, OverviewStays DEF dashboardVars, recordVars, tables
  <2> QED
    BY <2>1, <2>2, <2>3, <2>4, <2>5, <2>6 DEF DashboardNext
<1> QED
  BY <1>1, <1>2, PTL DEF DashboardSpec

\* The figures of one page, which come from queries of their own, differ by no more
\* than the number of rows changed while it was loading, for any number of deliveries
\* of an event, any length of the window and of the buckets, however the two are
\* aligned, and any limit of the list of failing destinations.
THEOREM FiguresDriftTogether == DashboardSpec => []FiguresAgree
<1>1. OverviewInv => FiguresAgree
  <2> SUFFICES ASSUME OverviewInv, pending = {} PROVE FiguresAgree
    BY DEF FiguresAgree
  <2>1. \A f \in Figures : Expected(f) = figure[f] /\ figure[f] \in Nat
    BY DEF Expected, OverviewInv, MetricTypes
  <2>2. \A b \in Bounded : Whole(b[2]) => figure[b[1]] <= figure[b[2]] + drift
    BY <2>1, BoundedFigures DEF OverviewInv, Agreement, Counting
  <2>3. drift = 0 => (figure["p95"] > 0 <=> figure["delivered"] > 0)
    <3>1. {"delivered", "p95"} \subseteq Figures
      BY DEF Figures
    <3> QED
      BY <2>1, <3>1 DEF OverviewInv, Agreement
  <2>4. \A f, g \in Figures \ {"failing"} :
          <<f, g>> \in Bounded /\ <<g, f>> \in Bounded => Near(figure[f], figure[g])
    <3> SUFFICES ASSUME NEW f \in Figures \ {"failing"}, NEW g \in Figures \ {"failing"},
                        <<f, g>> \in Bounded, <<g, f>> \in Bounded
                 PROVE  Near(figure[f], figure[g])
      OBVIOUS
    <3>1. figure[f] <= figure[g] + drift /\ figure[g] <= figure[f] + drift
      BY <2>2 DEF Whole
    <3>2. figure[f] \in Nat /\ figure[g] \in Nat /\ drift \in Nat
      BY <2>1 DEF OverviewInv, MetricTypes
    <3> QED
      BY <3>1, <3>2 DEF Near
  <2>5. /\ Near(figure["events"], figure["throughput"])
        /\ Near(figure["delivered"], figure["deliveredChart"])
        /\ Near(figure["failed"], figure["failedChart"])
        /\ Near(figure["busyBuckets"], figure["latencyBuckets"])
        /\ Near(figure["events"], figure["mailedEvents"])
        /\ Near(figure["failed"], figure["mailedFailed"])
    BY <2>4 DEF Bounded, Parts, Figures
  <2>6. /\ figure["delivered"] <= figure["mailedDelivered"] + drift
        /\ figure["listed"] < TopN => figure["failed"] <= figure["failing"] + drift
    <3>1. <<"delivered", "mailedDelivered">> \in Bounded /\ <<"failed", "failing">> \in Bounded
      BY DEF Bounded, Parts
    <3> QED
      BY <2>2, <3>1 DEF Whole
  <2> QED
    BY <2>3, <2>5, <2>6 DEF FiguresAgree
<1> QED
  BY <1>1, OverviewInvariant, PTL

-----------------------------------------------------------------------------
(* The answers.                                                             *)

Steps == KeySteps \cup {"idle", "client", "key", "call", "create"}

\* A tab that has paid for an answer, or is about to, knows the question.
OpTypes(o) ==
  /\ o \in [Tabs -> [step : Steps, provider : Providers \cup {Null},
                     question : Questions \cup {<<0, 0>>}]]
  /\ \A t \in Tabs : o[t].step \in {"client", "key", "call", "create"} =>
       o[t].question \in Questions

\* What it is about has been there.
Known(q) ==
  IF q \in Deliveries THEN delivery[q] # "none" ELSE event[q[1]] # "none" /\ event[q[2]] # "none"

AnswersInv ==
  /\ TableTypes
  /\ OpTypes(op)
  /\ answers \in [Questions -> Tabs \cup {Null}]
  /\ shown \in [Tabs -> [question : Questions \cup {<<0, 0>>}, by : Tabs \cup {Null}]]
  /\ active \in Providers \cup {Null} /\ keys \in Seq(Providers)
  /\ \A t \in Tabs : LET q == shown[t].question
                     IN shown[t] # Nothing =>
                          /\ q \in Questions /\ shown[t].by \in Tabs /\ Known(q)
                          /\ Exists(q) => answers[q] = shown[t].by

LEMMA QuestionKinds ==
  /\ \A q \in Questions : q \in Deliveries \/ (q[1] \in Events /\ q[2] \in Events)
  /\ Deliveries \subseteq Questions
  /\ \A e, f \in Events : e # f => Canonical(e, f) \in Questions
<1>1. \A q \in Questions : q \in Deliveries \/ (q[1] \in Events /\ q[2] \in Events)
  BY DEF Questions, EventPairs
<1>2. ASSUME NEW e \in Events, NEW f \in Events, e # f PROVE Canonical(e, f) \in Questions
  <2>1. e \in Nat /\ f \in Nat /\ (e < f \/ f < e)
    BY <1>2, EventSets
  <2> QED
    BY <2>1 DEF Questions, EventPairs, Canonical
<1> QED
  BY <1>1, <1>2 DEF Questions

\* What is there has been there before, and nothing comes back.
LEMMA KnownStays ==
  ASSUME TableTypes, Grows, NEW q \in Questions, Known(q)
  PROVE  Known(q)' /\ (Exists(q)' => Exists(q))
<1>1. CASE q \in Deliveries
  BY <1>1 DEF Known, Exists, Recorded, Grows
<1>2. CASE q \notin Deliveries
  <2>1. q[1] \in Events /\ q[2] \in Events
    BY <1>2, QuestionKinds
  <2> QED
    BY <1>2, <2>1 DEF Known, Exists, Present, Grows, TableTypes
<1> QED
  BY <1>1, <1>2

LEMMA ThereIsKnown == \A q : Exists(q) => Known(q)
BY DEF Exists, Known, Recorded, Present

LEMMA SameTables ==
  ASSUME UNCHANGED <<event, delivery>>
  PROVE  \A q : (Exists(q)' <=> Exists(q)) /\ (Known(q)' <=> Known(q)) /\ (TableTypes' <=> TableTypes)
BY DEF Exists, Known, Recorded, Present, TableTypes

\* What is left of the keys without one of them.
LEMMA KeyRemoved ==
  ASSUME NEW s \in Seq(Providers), NEW p \in Providers
  PROVE  /\ RemoveFirst(s, p) \in Seq(Providers)
         /\ IsInjective(s) => /\ IsInjective(RemoveFirst(s, p))
                              /\ ToSet(RemoveFirst(s, p)) = ToSet(s) \ {p}
<1>1. Len(s) \in Nat /\ DOMAIN s = 1..Len(s) /\ \A i \in 1..Len(s) : s[i] \in Providers
  BY LenProperties
<1>2. CASE ~ \E i \in 1..Len(s) : s[i] = p
  BY <1>1, <1>2 DEF RemoveFirst, ToSet
<1>3. CASE \E i \in 1..Len(s) : s[i] = p
  <2> DEFINE I == {i \in 1..Len(s) : s[i] = p}
             k == Min(I)
             a == SubSeq(s, 1, k - 1)
             b == SubSeq(s, k + 1, Len(s))
             r == a \o b
  <2>1. I \in SUBSET Nat /\ I # {} /\ k \in I
    <3>1. I \in SUBSET Nat /\ I # {}
      BY <1>1, <1>3
    <3> QED
      BY <3>1, MinOfNumbers
  <2>2. RemoveFirst(s, p) = r
    BY <1>3, <2>1 DEF RemoveFirst, RemoveAt, SelectInSeq
  <2>3. k \in 1..Len(s) /\ s[k] = p
    BY <2>1
  <2> HIDE DEF k
  <2>4. /\ a \in Seq(Providers) /\ Len(a) = k - 1 /\ \A i \in 1..(k - 1) : a[i] = s[i]
        /\ b \in Seq(Providers) /\ Len(b) = Len(s) - k /\ \A i \in 1..(Len(s) - k) : b[i] = s[k + i]
    <3>1. \A i \in 1..(k - 1) : s[i] \in Providers
      BY <1>1, <2>3
    <3>2. \A i \in (k + 1)..Len(s) : s[i] \in Providers
      BY <1>1, <2>3
    <3>3. k - 1 \in Int /\ k + 1 \in Int /\ Len(s) \in Int /\ k \in Int
      BY <1>1, <2>3
    <3>4. a \in Seq(Providers) /\ Len(a) = (IF 1 <= k - 1 THEN k - 1 - 1 + 1 ELSE 0)
          /\ \A i \in 1..(k - 1 - 1 + 1) : a[i] = s[1 + i - 1]
      BY <3>1, <3>3, SubSeqProperties
    <3>5. b \in Seq(Providers) /\ Len(b) = (IF k + 1 <= Len(s) THEN Len(s) - (k + 1) + 1 ELSE 0)
          /\ \A i \in 1..(Len(s) - (k + 1) + 1) : b[i] = s[(k + 1) + i - 1]
      BY <3>2, <3>3, SubSeqProperties
    <3> HIDE DEF a, b
    <3>6. \A i \in 1..(k - 1) : a[i] = s[i]
      <4> SUFFICES ASSUME NEW i \in 1..(k - 1) PROVE a[i] = s[i]
        OBVIOUS
      <4>1. 1 + i - 1 = i /\ i \in 1..(k - 1 - 1 + 1)
        BY <3>3
      <4> QED
        BY <3>4, <4>1
    <3>7. \A i \in 1..(Len(s) - k) : b[i] = s[k + i]
      <4> SUFFICES ASSUME NEW i \in 1..(Len(s) - k) PROVE b[i] = s[k + i]
        OBVIOUS
      <4>1. (k + 1) + i - 1 = k + i /\ i \in 1..(Len(s) - (k + 1) + 1)
        BY <3>3
      <4> QED
        BY <3>5, <4>1
    <3>8. Len(a) = k - 1
      BY <2>3, <3>3, <3>4
    <3>9. Len(b) = Len(s) - k
      BY <2>3, <3>3, <3>5
    <3> QED
      BY <3>4, <3>5, <3>6, <3>7, <3>8, <3>9
  <2> HIDE DEF a, b
  <2>5. /\ r \in Seq(Providers) /\ Len(r) = Len(s) - 1
        /\ \A i \in 1..(Len(s) - 1) : r[i] = IF i < k THEN s[i] ELSE s[i + 1]
    <3>1. r \in Seq(Providers) /\ Len(r) = Len(a) + Len(b)
          /\ \A i \in 1..(Len(a) + Len(b)) : r[i] = IF i <= Len(a) THEN a[i] ELSE b[i - Len(a)]
      BY <2>4, ConcatProperties
    <3> HIDE DEF r
    <3>2. Len(a) + Len(b) = Len(s) - 1
      BY <1>1, <2>3, <2>4
    <3>3. ASSUME NEW i \in 1..(Len(s) - 1)
          PROVE  r[i] = IF i < k THEN s[i] ELSE s[i + 1]
      <4>1. CASE i < k
        <5>1. i \in 1..(k - 1) /\ i <= Len(a) /\ i \in 1..(Len(a) + Len(b))
          BY <1>1, <2>3, <2>4, <3>2, <4>1
        <5>2. r[i] = a[i]
          BY <3>1, <5>1
        <5> QED
          BY <2>4, <4>1, <5>1, <5>2
      <4>2. CASE ~(i < k)
        <5>1. r[i] = b[i - (k - 1)] /\ i - (k - 1) \in 1..(Len(s) - k)
          BY <1>1, <2>3, <2>4, <3>1, <3>2, <4>2
        <5>2. k + (i - (k - 1)) = i + 1
          BY <1>1, <2>3
        <5> QED
          BY <2>4, <4>2, <5>1, <5>2
      <4> QED
        BY <4>1, <4>2
    <3> QED
      BY <3>1, <3>2, <3>3
  <2> HIDE DEF r
  <2>6. DOMAIN r = 1..(Len(s) - 1)
    BY <1>1, <2>5, LenProperties
  <2>7. ASSUME IsInjective(s) PROVE IsInjective(r)
    <3> SUFFICES ASSUME NEW i \in 1..(Len(s) - 1), NEW j \in 1..(Len(s) - 1), r[i] = r[j]
                 PROVE  i = j
      BY <2>6 DEF IsInjective
    <3> DEFINE f(n) == IF n < k THEN n ELSE n + 1
    <3>1. r[i] = s[f(i)] /\ r[j] = s[f(j)] /\ f(i) \in 1..Len(s) /\ f(j) \in 1..Len(s)
      BY <1>1, <2>3, <2>5
    <3>2. f(i) = f(j)
      BY <1>1, <2>7, <3>1 DEF IsInjective
    <3> QED
      BY <1>1, <2>3, <3>2
  <2>8. ASSUME IsInjective(s), NEW x PROVE x \in ToSet(r) <=> x \in ToSet(s) \ {p}
    <3>1. ASSUME x \in ToSet(r) PROVE x \in ToSet(s) \ {p}
      <4>1. PICK i \in 1..(Len(s) - 1) : r[i] = x
        BY <2>6, <3>1 DEF ToSet
      <4> DEFINE j == IF i < k THEN i ELSE i + 1
      <4>2. x = s[j] /\ j \in 1..Len(s) /\ j # k
        BY <1>1, <2>3, <2>5, <4>1
      <4>3. s[j] # s[k]
        BY <1>1, <2>3, <2>8, <4>2 DEF IsInjective
      <4> QED
        BY <1>1, <2>3, <4>2, <4>3 DEF ToSet
    <3>2. ASSUME x \in ToSet(s) \ {p} PROVE x \in ToSet(r)
      <4>1. PICK j \in 1..Len(s) : s[j] = x /\ x # p
        BY <1>1, <3>2 DEF ToSet
      <4> DEFINE i == IF j < k THEN j ELSE j - 1
      <4>2. j # k
        BY <2>3, <4>1
      <4>3. i \in 1..(Len(s) - 1) /\ r[i] = s[j]
        BY <1>1, <2>3, <2>5, <4>2
      <4> QED
        BY <2>6, <4>1, <4>3 DEF ToSet
    <3> QED
      BY <3>1, <3>2
  <2> QED
    BY <2>2, <2>5, <2>7, <2>8
<1> QED
  BY <1>2, <1>3

LEMMA AssistStarts ==
  ASSUME RecordsInit, AssistInit
  PROVE  AnswersInv /\ IsInjective(keys) /\ active \in IF keys = <<>> THEN {Null} ELSE ToSet(keys)
<1>1. TableTypes
  BY TablesStart
<1>2. /\ IsInjective(keys) /\ active \in IF keys = <<>> THEN {Null} ELSE ToSet(keys)
      /\ keys \in BoundedSeq(Providers, Cardinality(Providers))
  BY DEF AssistInit
<1>3. keys \in Seq(Providers)
  BY <1>2 DEF BoundedSeq, SeqOf
<1>4. active \in Providers \cup {Null}
  BY <1>2, <1>3, LenProperties DEF ToSet
<1>5. /\ op \in [Tabs -> [step : Steps, provider : Providers \cup {Null},
                          question : Questions \cup {<<0, 0>>}]]
      /\ \A t \in Tabs : op[t].step = "idle"
  BY DEF AssistInit, Idle, Steps
<1>6. /\ answers \in [Questions -> Tabs \cup {Null}]
      /\ shown \in [Tabs -> [question : Questions \cup {<<0, 0>>}, by : Tabs \cup {Null}]]
      /\ \A t \in Tabs : shown[t] = Nothing
  BY DEF AssistInit, Nothing
<1> QED
  BY <1>1, <1>2, <1>3, <1>4, <1>5, <1>6 DEF AnswersInv, OpTypes

OpRecords == [step : Steps, provider : Providers \cup {Null}, question : Questions \cup {<<0, 0>>}]

LEMMA StepAndProvider ==
  ASSUME NEW r \in OpRecords, NEW s, NEW p
  PROVE  [r EXCEPT !.step = s, !.provider = p]
           = [step |-> s, provider |-> p, question |-> r.question]
<1> DEFINE v == [r EXCEPT !.step = s, !.provider = p]
           w == [step |-> s, provider |-> p, question |-> r.question]
           Q == Questions \cup {<<0, 0>>}
<1>1. /\ v.step = w.step /\ v.provider = w.provider /\ v.question = w.question
      /\ v \in [step : {s}, provider : {p}, question : Q]
      /\ w \in [step : {s}, provider : {p}, question : Q]
  BY DEF OpRecords
<1> HIDE DEF v, w
<1>2. v = w
  BY <1>1
<1> QED
  BY <1>2 DEF v, w

LEMMA StepAndQuestion ==
  ASSUME NEW r \in OpRecords, NEW s, NEW q
  PROVE  [r EXCEPT !.step = s, !.question = q]
           = [step |-> s, provider |-> r.provider, question |-> q]
<1> DEFINE v == [r EXCEPT !.step = s, !.question = q]
           w == [step |-> s, provider |-> r.provider, question |-> q]
           P == Providers \cup {Null}
<1>1. /\ v.step = w.step /\ v.provider = w.provider /\ v.question = w.question
      /\ v \in [step : {s}, provider : P, question : {q}]
      /\ w \in [step : {s}, provider : P, question : {q}]
  BY DEF OpRecords
<1> HIDE DEF v, w
<1>2. v = w
  BY <1>1
<1> QED
  BY <1>2 DEF v, w

\* A tab goes from one step of its action to the next, or is done.
LEMMA TabGoes ==
  ASSUME OpTypes(op), NEW t \in Tabs, NEW s \in Steps, NEW p \in Providers \cup {Null},
         Go(t, s, p),
         s \in {"client", "key", "call", "create"} =>
           op[t].step \in {"client", "key", "call", "create"}
  PROVE  /\ OpTypes(op')
         /\ op'[t] = [step |-> s, provider |-> p, question |-> op[t].question]
         /\ \A u \in Tabs \ {t} : op'[u] = op[u]
<1>1. op[t] \in [step : Steps, provider : Providers \cup {Null}, question : Questions \cup {<<0, 0>>}]
  BY DEF OpTypes
<1>2. [op[t] EXCEPT !.step = s, !.provider = p]
        = [step |-> s, provider |-> p, question |-> op[t].question]
  <2>1. op[t] \in OpRecords
    BY <1>1 DEF OpRecords
  <2> QED
    BY <2>1, StepAndProvider
<1>3. /\ DOMAIN op' = Tabs
      /\ op'[t] = [op[t] EXCEPT !.step = s, !.provider = p]
      /\ \A u \in Tabs \ {t} : op'[u] = op[u]
  BY DEF Go, OpTypes
<1>4. op' = [u \in Tabs |-> IF u = t THEN [step |-> s, provider |-> p, question |-> op[t].question]
                                     ELSE op[u]]
  BY <1>2, <1>3 DEF Go, OpTypes
<1> QED
  BY <1>1, <1>2, <1>3, <1>4 DEF OpTypes

LEMMA TabEnds ==
  ASSUME OpTypes(op), NEW t \in Tabs, End(t)
  PROVE  OpTypes(op') /\ op'[t] = Idle /\ \A u \in Tabs \ {t} : op'[u] = op[u]
BY DEF End, OpTypes, Idle, Steps

\* A step that neither stores nor shows an answer.
LEMMA AnswersStay ==
  ASSUME AnswersInv, UNCHANGED <<event, delivery, answers, shown>>,
         OpTypes(op'),
         active' \in Providers \cup {Null}, keys' \in Seq(Providers)
  PROVE  AnswersInv'
<1>1. TableTypes' /\ \A q : (Exists(q)' <=> Exists(q)) /\ (Known(q)' <=> Known(q))
  BY SameTables DEF AnswersInv
<1> QED
  BY <1>1 DEF AnswersInv, OpTypes

LEMMA KeyStepsAnswers ==
  ASSUME AnswersInv, UNCHANGED <<event, delivery>>, NEW t \in Tabs,
         \/ \E p \in Providers : SaveKey(t, p) \/ Activate(t, p) \/ DeleteKey(t, p)
         \/ ReadActive(t) \/ SetActive(t) \/ CheckActive(t) \/ FindRemaining(t)
         \/ FindClient(t) \/ FindKey(t) \/ Call(t) \/ CallFails(t) \/ Abandon(t)
  PROVE  AnswersInv'
<1> USE DEF keyVars, answerVars
<1>0. /\ op[t].provider \in Providers \cup {Null} /\ active \in Providers \cup {Null}
      /\ keys \in Seq(Providers) /\ OpTypes(op)
  BY DEF AnswersInv, OpTypes
<1>a. {"read", "set", "check", "remaining", "key", "call", "create"} \subseteq Steps
  BY DEF Steps, KeySteps
<1>1. ASSUME NEW p \in Providers, SaveKey(t, p) \/ Activate(t, p) \/ DeleteKey(t, p)
      PROVE  AnswersInv'
  <2>1. RemoveFirst(keys, p) \in Seq(Providers) /\ <<p>> \o RemoveFirst(keys, p) \in Seq(Providers)
    <3>1. RemoveFirst(keys, p) \in Seq(Providers)
      BY <1>0, KeyRemoved
    <3>2. <<p>> \in Seq(Providers)
      OBVIOUS
    <3> QED
      BY <3>1, <3>2, ConcatProperties
  <2>2. Go(t, "read", p) \/ Go(t, "set", p) \/ Go(t, "check", p)
    BY <1>1 DEF SaveKey, Activate, DeleteKey
  <2>3. OpTypes(op')
    BY <1>0, <1>a, <2>2, TabGoes
  <2>4. UNCHANGED <<event, delivery, answers, shown, active>> /\ keys' \in Seq(Providers)
    BY <1>0, <1>1, <2>1 DEF SaveKey, Activate, DeleteKey
  <2> QED
    BY <1>0, <2>3, <2>4, AnswersStay
<1>2. ASSUME ReadActive(t) \/ SetActive(t) \/ CheckActive(t) \/ FindRemaining(t)
             \/ FindClient(t) \/ FindKey(t) \/ Call(t) \/ CallFails(t) \/ Abandon(t)
      PROVE  AnswersInv'
  <2>1. keys # <<>> => Head(keys) \in Providers
    BY <1>0, HeadTailProperties
  <2>2. UNCHANGED <<event, delivery, answers, shown, keys>> /\ active' \in Providers \cup {Null}
    BY <1>0, <1>2 DEF ReadActive, SetActive, CheckActive, FindRemaining, FindClient, FindKey,
                      Call, CallFails, Abandon
  <2>3. \/ End(t)
        \/ Go(t, "set", op[t].provider) \/ Go(t, "remaining", op[t].provider)
        \/ Go(t, "set", IF keys = <<>> THEN Null ELSE Head(keys))
        \/ op[t].step = "client" /\ Go(t, "key", active)
        \/ op[t].step = "key" /\ Go(t, "call", Null)
        \/ op[t].step = "call" /\ Go(t, "create", Null)
    BY <1>2 DEF ReadActive, SetActive, CheckActive, FindRemaining, FindClient, FindKey,
                Call, CallFails, Abandon
  <2>4. (IF keys = <<>> THEN Null ELSE Head(keys)) \in Providers \cup {Null}
    BY <2>1
  <2>5. OpTypes(op')
    BY <1>0, <1>a, <2>3, <2>4, TabGoes, TabEnds
  <2> QED
    BY <1>0, <2>2, <2>5, AnswersStay
<1> QED
  BY <1>1, <1>2

LEMMA AskAnswers ==
  ASSUME AnswersInv, UNCHANGED <<event, delivery>>, NEW t \in Tabs, NEW q \in Questions,
         Ask(t, q)
  PROVE  AnswersInv'
<1> USE DEF keyVars, answerVars
<1>1. Exists(q) /\ op[t] = Idle /\ UNCHANGED <<keys, active, answers>>
  BY DEF Ask
<1>2. TableTypes' /\ \A x : (Exists(x)' <=> Exists(x)) /\ (Known(x)' <=> Known(x))
  BY SameTables DEF AnswersInv
<1>3. Known(q)
  BY <1>1, ThereIsKnown
<1>4. CASE Cached(q)
  <2>1. shown' = [shown EXCEPT ![t] = [question |-> q, by |-> answers[q]]] /\ UNCHANGED op
    BY <1>4 DEF Ask
  <2>2. answers[q] \in Tabs
    BY <1>1, <1>4 DEF Cached, AnswersInv, OpTypes
  <2>3. shown' \in [Tabs -> [question : Questions \cup {<<0, 0>>}, by : Tabs \cup {Null}]]
    BY <1>1, <2>1, <2>2 DEF AnswersInv, OpTypes
  <2>4. shown'[t] = [question |-> q, by |-> answers[q]] /\ \A u \in Tabs \ {t} : shown'[u] = shown[u]
    BY <2>1 DEF AnswersInv, OpTypes
  <2>5. ASSUME NEW u \in Tabs, shown'[u] # Nothing
        PROVE  LET x == shown'[u].question
               IN /\ x \in Questions /\ shown'[u].by \in Tabs /\ Known(x)
                  /\ Exists(x) => answers[x] = shown'[u].by
    <3>1. CASE u = t
      <4>1. shown'[u].question = q /\ shown'[u].by = answers[q]
        BY <2>4, <3>1
      <4> QED
        BY <1>1, <1>3, <2>2, <4>1
    <3>2. CASE u # t
      <4>1. shown'[u] = shown[u]
        BY <2>4, <3>2
      <4> QED
        BY <2>5, <4>1 DEF AnswersInv
    <3> QED
      BY <3>1, <3>2
  <2> QED
    BY <1>1, <1>2, <2>1, <2>3, <2>5 DEF AnswersInv, OpTypes
<1>5. CASE ~Cached(q)
  <2>1. op' = [op EXCEPT ![t] = [@ EXCEPT !.step = "client", !.question = q]] /\ UNCHANGED shown
    BY <1>5 DEF Ask
  <2>2. op[t] \in [step : Steps, provider : Providers \cup {Null}, question : Questions \cup {<<0, 0>>}]
    BY DEF AnswersInv, OpTypes
  <2>3. [op[t] EXCEPT !.step = "client", !.question = q]
          = [step |-> "client", provider |-> op[t].provider, question |-> q]
    <3>1. op[t] \in OpRecords
      BY <2>2 DEF OpRecords
    <3> QED
      BY <3>1, StepAndQuestion
  <2>4. op' = [u \in Tabs |-> IF u = t THEN [step |-> "client", provider |-> op[t].provider,
                                             question |-> q]
                                       ELSE op[u]]
    BY <2>1, <2>3 DEF AnswersInv, OpTypes
  <2>5. OpTypes(op')
    BY <1>1, <2>2, <2>4 DEF AnswersInv, OpTypes, Steps
  <2>6. active \in Providers \cup {Null} /\ keys \in Seq(Providers)
    BY DEF AnswersInv, OpTypes
  <2> QED
    BY <1>1, <2>1, <2>5, <2>6, AnswersStay
<1> QED
  BY <1>4, <1>5

\* The answer is stored only if none is: whoever shows an answer to the question
\* about what is there shows the one that is stored.
LEMMA CreateAnswers ==
  ASSUME AnswersInv, UNCHANGED <<event, delivery>>, NEW t \in Tabs, Create(t)
  PROVE  AnswersInv'
<1> DEFINE q == op[t].question
<1> USE DEF keyVars, answerVars
<1>1. q \in Questions /\ UNCHANGED <<keys, active>> /\ End(t)
  BY DEF Create, AnswersInv, OpTypes
<1>2. OpTypes(op') /\ active \in Providers \cup {Null} /\ keys \in Seq(Providers)
  BY <1>1, TabEnds DEF AnswersInv, OpTypes
<1>3. CASE ~Insertable(q)
  BY <1>1, <1>2, <1>3, AnswersStay DEF Create
<1>4. CASE Insertable(q)
  <2>1. /\ answers' = [answers EXCEPT ![q] = t]
        /\ shown' = [shown EXCEPT ![t] = [question |-> q, by |-> t]]
        /\ Exists(q) /\ answers[q] = Null /\ Known(q)
    BY <1>4, ThereIsKnown DEF Create, Insertable
  <2> HIDE DEF q
  <2>2. /\ answers' \in [Questions -> Tabs \cup {Null}]
        /\ shown' \in [Tabs -> [question : Questions \cup {<<0, 0>>}, by : Tabs \cup {Null}]]
    BY <1>1, <2>1 DEF AnswersInv, OpTypes
  <2>3. /\ shown'[t] = [question |-> q, by |-> t] /\ \A u \in Tabs \ {t} : shown'[u] = shown[u]
        /\ answers'[q] = t /\ \A x \in Questions \ {q} : answers'[x] = answers[x]
    BY <1>1, <2>1 DEF AnswersInv, OpTypes
  <2>4. TableTypes' /\ \A x : (Exists(x)' <=> Exists(x)) /\ (Known(x)' <=> Known(x))
    BY SameTables DEF AnswersInv
  <2>5. ASSUME NEW u \in Tabs, shown'[u] # Nothing
        PROVE  LET x == shown'[u].question
               IN /\ x \in Questions /\ shown'[u].by \in Tabs /\ Known(x)
                  /\ Exists(x) => answers'[x] = shown'[u].by
    <3>1. CASE u = t
      BY <1>1, <2>1, <2>3, <3>1
    <3>2. CASE u # t
      <4> DEFINE x == shown[u].question
      <4>1. /\ shown'[u] = shown[u] /\ x \in Questions /\ shown[u].by \in Tabs /\ Known(x)
            /\ Exists(x) => answers[x] = shown[u].by
        BY <2>3, <2>5, <3>2 DEF AnswersInv, OpTypes
      <4>2. Exists(x) => x # q
        BY <2>1, <4>1, AssistAssumption
      <4> QED
        BY <2>3, <4>1, <4>2
    <3> QED
      BY <3>1, <3>2
  <2> QED
    BY <1>1, <1>2, <2>2, <2>4, <2>5 DEF AnswersInv, OpTypes
<1> QED
  BY <1>3, <1>4

\* What is gone does not come back, and its answers go with it.
LEMMA CascadeAnswers ==
  ASSUME AnswersInv, RecordChange, Cascaded
  PROVE  AnswersInv'
<1> USE DEF keyVars
<1>1. TableTypes /\ Grows
  BY RecordStep DEF AnswersInv
<1>2. TableTypes'
  BY <1>1 DEF Grows
<1>3. /\ UNCHANGED <<keys, active, op, shown>>
      /\ answers' = [q \in Questions |-> IF Exists(q)' THEN answers[q] ELSE Null]
  BY DEF Cascaded
<1>4. answers' \in [Questions -> Tabs \cup {Null}]
  BY <1>3 DEF AnswersInv, OpTypes
<1>5. ASSUME NEW t \in Tabs, shown[t] # Nothing, NEW x, x = shown[t].question
      PROVE  /\ x \in Questions /\ shown[t].by \in Tabs /\ Known(x)'
             /\ Exists(x)' => answers'[x] = shown[t].by
  <2>1. /\ x \in Questions /\ shown[t].by \in Tabs /\ Known(x)
        /\ Exists(x) => answers[x] = shown[t].by
    BY <1>5 DEF AnswersInv, OpTypes
  <2>2. Known(x)' /\ (Exists(x)' => Exists(x))
    BY <1>1, <2>1, KnownStays
  <2>3. Exists(x)' => answers'[x] = answers[x]
    BY <1>3, <2>1
  <2> QED
    BY <2>1, <2>2, <2>3
<1> QED
  BY <1>2, <1>3, <1>4, <1>5 DEF AnswersInv, OpTypes

LEMMA AskedQuestions ==
  ASSUME NEW t \in Tabs, StartAssist(t)
  PROVE  \/ \E p \in Providers : SaveKey(t, p) \/ Activate(t, p) \/ DeleteKey(t, p)
         \/ \E q \in Questions : Ask(t, q)
BY QuestionKinds DEF StartAssist

LEMMA AnswersInvariant == DashboardSpec => []AnswersInv
<1>1. DashboardInit => AnswersInv
  BY AssistStarts DEF DashboardInit
<1>2. AnswersInv /\ [DashboardNext]_dashboardVars => AnswersInv'
  <2> SUFFICES ASSUME AnswersInv, [DashboardNext]_dashboardVars PROVE AnswersInv'
    OBVIOUS
  <2>1. CASE Change
    BY <2>1, CascadeAnswers DEF Change
  <2>2. CASE Work
    <3>1. UNCHANGED <<event, delivery>> /\ \E t \in Tabs : StartAssist(t) \/ AssistStep(t)
      BY <2>2 DEF Work, recordVars, tables
    <3>2. PICK t \in Tabs : StartAssist(t) \/ AssistStep(t)
      BY <3>1
    <3>3. CASE \E q \in Questions : Ask(t, q)
      BY <3>1, <3>3, AskAnswers
    <3>4. CASE Create(t)
      BY <3>1, <3>4, CreateAnswers
    <3>5. StartAssist(t) => \/ \E p \in Providers : SaveKey(t, p) \/ Activate(t, p) \/ DeleteKey(t, p)
                            \/ \E q \in Questions : Ask(t, q)
      BY AskedQuestions
    <3> QED
      BY <3>1, <3>2, <3>3, <3>4, <3>5, KeyStepsAnswers DEF AssistStep
  <2>3. ASSUME UNCHANGED <<event, delivery, assistVars>> PROVE AnswersInv'
    <3>1. OpTypes(op') /\ active \in Providers \cup {Null} /\ keys \in Seq(Providers)
      BY <2>3 DEF assistVars, keyVars, AnswersInv
    <3> QED
      BY <2>3, <3>1, AnswersStay DEF assistVars, keyVars, answerVars
  <2>4. Pass \/ Read \/ Overview \/ UNCHANGED dashboardVars => UNCHANGED <<event, delivery, assistVars>>
    BY DEF Pass, Tick, Read, Overview, dashboardVars, recordVars, tables
  <2> QED
    BY <2>1, <2>2, <2>3, <2>4 DEF DashboardNext
<1> QED
  BY <1>1, <1>2, PTL DEF DashboardSpec

\* An answer on display is the one that is stored, as long as what it was asked about
\* is there, however many tabs asked and paid for it at the same time.
THEOREM DisplayedIsStored == DashboardSpec => []AnswerIsStored
<1>1. AnswersInv => AnswerIsStored
  BY DEF AnswersInv, AnswerIsStored
<1> QED
  BY <1>1, AnswersInvariant, PTL

-----------------------------------------------------------------------------
(* The keys.                                                                *)

Usable == IF keys = <<>> THEN active = Null ELSE active \in ToSet(keys)

\* What a key action under way has still to put right.
OnTheWay(t) ==
  LET p == op[t].provider
  IN /\ op[t].step = "read" => p \in ToSet(keys) /\ active \in ToSet(keys) \cup {Null}
     /\ op[t].step = "set" => IF keys = <<>> THEN p = Null ELSE p \in ToSet(keys)
     /\ op[t].step = "check" =>
          /\ p \in Providers \ ToSet(keys)
          /\ active \in ToSet(keys) \cup {p} \/ (active = Null /\ keys = <<>>)

KeysInv ==
  /\ AnswersInv /\ IsInjective(keys)
  /\ ~raced =>
       /\ \A t, u \in Tabs : op[t].step \in KeySteps /\ op[u].step \in KeySteps => t = u
       /\ \A t \in Tabs : OnTheWay(t)
       /\ (\A t \in Tabs : op[t].step \notin KeySteps) => Usable

\* A step of a tab that is not about keys.
LEMMA KeysStay ==
  ASSUME KeysInv, AnswersInv', UNCHANGED <<keys, active>>, raced' = raced,
         \A u \in Tabs : op'[u].step \in KeySteps \/ op[u].step \in KeySteps => op'[u] = op[u]
  PROVE  KeysInv'
<1> USE DEF KeysInv
<1>1. IsInjective(keys)' /\ (Usable' <=> Usable)
  BY DEF Usable
<1>2. \A u \in Tabs : /\ op'[u].step \in KeySteps <=> op[u].step \in KeySteps
                      /\ OnTheWay(u) => OnTheWay(u)'
  BY DEF OnTheWay, KeySteps
<1> QED
  BY <1>1, <1>2

LEMMA KeyFacts ==
  ASSUME KeysInv
  PROVE  /\ keys \in Seq(Providers) /\ OpTypes(op) /\ IsInjective(keys)
         /\ active \in Providers \cup {Null} /\ Null \notin Providers
         /\ ToSet(keys) \in SUBSET Providers
         /\ keys = <<>> <=> ToSet(keys) = {}
         /\ keys # <<>> => Head(keys) \in ToSet(keys)
<1>1. keys \in Seq(Providers) /\ OpTypes(op) /\ IsInjective(keys) /\ active \in Providers \cup {Null}
  BY DEF KeysInv, AnswersInv
<1>2. Len(keys) \in Nat /\ DOMAIN keys = 1..Len(keys) /\ \A i \in 1..Len(keys) : keys[i] \in Providers
  BY <1>1, LenProperties
<1>3. keys # <<>> => Len(keys) \in Nat \ {0}
  BY <1>1, EmptySeq
<1>4. keys # <<>> => keys[1] \in ToSet(keys) /\ Head(keys) = keys[1]
  BY <1>1, <1>2, <1>3 DEF ToSet
<1>5. keys = <<>> => ToSet(keys) = {}
  BY DEF ToSet
<1> QED
  BY <1>1, <1>2, <1>4, <1>5, AssistAssumption DEF ToSet

\* A key is stored, made the active one or deleted.
LEMMA KeyActionStarts ==
  ASSUME KeysInv, AnswersInv', NEW t \in Tabs, NEW p \in Providers,
         SaveKey(t, p) \/ Activate(t, p) \/ DeleteKey(t, p)
  PROVE  KeysInv'
<1> DEFINE left == RemoveFirst(keys, p)
<1>1. /\ keys \in Seq(Providers) /\ OpTypes(op) /\ IsInjective(keys)
      /\ active \in Providers \cup {Null} /\ Null \notin Providers
      /\ ToSet(keys) \in SUBSET Providers /\ (keys = <<>> <=> ToSet(keys) = {})
  BY KeyFacts
<1>2. left \in Seq(Providers) /\ IsInjective(left) /\ ToSet(left) = ToSet(keys) \ {p}
  BY <1>1, KeyRemoved
<1>3. StartsKeyAction(t) /\ active' = active
  BY DEF SaveKey, Activate, DeleteKey, keyVars
<1>4. ~raced' => /\ ~raced /\ Usable
                 /\ \A u \in Tabs : op[u].step \notin KeySteps
  BY <1>3 DEF StartsKeyAction, KeysInv
<1>5. ASSUME NEW s \in KeySteps, Go(t, s, p)
      PROVE  /\ op'[t].step = s /\ op'[t].provider = p
             /\ \A u \in Tabs \ {t} : op'[u] = op[u]
  <2>1. s \in Steps
    BY DEF Steps
  <2>2. s \notin {"client", "key", "call", "create"}
    BY DEF KeySteps
  <2>3. /\ op'[t] = [step |-> s, provider |-> p, question |-> op[t].question]
        /\ \A u \in Tabs \ {t} : op'[u] = op[u]
    BY <1>1, <1>5, <2>1, <2>2, TabGoes
  <2> QED
    BY <2>3
\* It is the only one of its kind.
<1>6. ASSUME NEW s \in KeySteps, Go(t, s, p), ~raced', IsInjective(keys'), OnTheWay(t)'
      PROVE  KeysInv'
  <2>1. \A u \in Tabs : op'[u].step \in KeySteps <=> u = t
    BY <1>4, <1>5, <1>6
  <2>2. \A u \in Tabs \ {t} : OnTheWay(u)'
    BY <2>1 DEF OnTheWay, KeySteps
  <2> QED
    BY <1>6, <2>1, <2>2 DEF KeysInv
<1>7. CASE SaveKey(t, p)
  <2> DEFINE k == <<p>> \o left
  <2>1. keys' = k /\ Go(t, "read", p)
    BY <1>7 DEF SaveKey
  <2>2. /\ Len(left) \in Nat /\ DOMAIN left = 1..Len(left)
        /\ k \in Seq(Providers) /\ DOMAIN k = 1..(Len(left) + 1)
        /\ k[1] = p /\ \A i \in 2..(Len(left) + 1) : k[i] = left[i - 1]
    <3>1. <<p>> \in Seq(Providers) /\ Len(<<p>>) = 1 /\ <<p>>[1] = p
      OBVIOUS
    <3>2. Len(left) \in Nat /\ DOMAIN left = 1..Len(left)
      BY <1>2, LenProperties
    <3> HIDE DEF left
    <3>3. /\ k \in Seq(Providers) /\ Len(k) = 1 + Len(left)
          /\ \A i \in 1..(1 + Len(left)) : k[i] = IF i <= 1 THEN <<p>>[i] ELSE left[i - 1]
      BY <1>2, <3>1, ConcatProperties
    <3> HIDE DEF k
    <3>4. DOMAIN k = 1..(Len(left) + 1)
      BY <3>2, <3>3, LenProperties
    <3> QED
      BY <3>1, <3>2, <3>3, <3>4
  <2> HIDE DEF k
  <2>a. \A i \in 1..Len(left) : left[i] # p
    <3>1. p \notin ToSet(left)
      BY <1>2
    <3> HIDE DEF left
    <3> QED
      BY <2>2, <3>1 DEF ToSet
  <2>3. IsInjective(k)
    <3> SUFFICES ASSUME NEW i \in 1..(Len(left) + 1), NEW j \in 1..(Len(left) + 1), k[i] = k[j]
                 PROVE  i = j
      BY <2>2 DEF IsInjective
    <3> HIDE DEF left
    <3>1. CASE i = 1 \/ j = 1
      BY <2>2, <2>a, <3>1
    <3>2. CASE i # 1 /\ j # 1
      <4>1. i - 1 \in 1..Len(left) /\ j - 1 \in 1..Len(left) /\ left[i - 1] = left[j - 1]
        BY <2>2, <3>2
      <4>2. i - 1 = j - 1
        BY <1>2, <2>2, <4>1 DEF IsInjective
      <4> QED
        BY <2>2, <4>2
    <3> QED
      BY <3>1, <3>2
  <2>4. ToSet(k) = ToSet(keys) \cup {p}
    <3> HIDE DEF left
    <3>1. \A i \in 1..Len(left) : i + 1 \in 2..(Len(left) + 1) /\ k[i + 1] = left[i]
      BY <2>2
    <3>2. ToSet(k) = ToSet(left) \cup {p}
      <4>1. \A x \in ToSet(k) : x \in ToSet(left) \cup {p}
        <5> SUFFICES ASSUME NEW i \in 1..(Len(left) + 1) PROVE k[i] \in ToSet(left) \cup {p}
          BY <2>2 DEF ToSet
        <5> QED
          BY <2>2 DEF ToSet
      <4>2. \A x \in ToSet(left) : x \in ToSet(k)
        BY <2>2, <3>1 DEF ToSet
      <4>3. p \in ToSet(k)
        BY <2>2 DEF ToSet
      <4> QED
        BY <4>1, <4>2, <4>3
    <3> QED
      BY <1>2, <3>2
  <2>5. CASE raced'
    BY <2>1, <2>3, <2>5 DEF KeysInv
  <2>6. CASE ~raced'
    <3>1. OnTheWay(t)'
      BY <1>1, <1>3, <1>4, <1>5, <2>1, <2>4, <2>6 DEF OnTheWay, KeySteps, Usable
    <3> QED
      BY <1>6, <2>1, <2>3, <2>6, <3>1 DEF KeySteps
  <2> QED
    BY <2>5, <2>6
<1>8. CASE Activate(t, p)
  <2>1. keys' = keys /\ Go(t, "set", p) /\ p \in ToSet(keys)
    BY <1>8 DEF Activate, keyVars
  <2>2. CASE raced'
    BY <1>1, <2>1, <2>2 DEF KeysInv
  <2>3. CASE ~raced'
    <3>1. OnTheWay(t)'
      BY <1>1, <1>5, <2>1 DEF OnTheWay, KeySteps
    <3> QED
      BY <1>1, <1>6, <2>1, <2>3, <3>1 DEF KeySteps
  <2> QED
    BY <2>2, <2>3
<1>9. CASE DeleteKey(t, p)
  <2>1. keys' = left /\ Go(t, "check", p)
    BY <1>9 DEF DeleteKey
  <2>2. CASE raced'
    BY <1>2, <2>1, <2>2 DEF KeysInv
  <2>3. CASE ~raced'
    <3>1. op'[t].step = "check" /\ op'[t].provider = p
      BY <1>5, <2>1 DEF KeySteps
    <3>2. ToSet(keys') = ToSet(keys) \ {p}
      BY <1>2, <2>1
    <3>3. active \in ToSet(keys') \cup {p} \/ (active = Null /\ keys' = <<>>)
      <4>1. Usable
        BY <1>4, <2>3
      <4>2. CASE keys = <<>>
        <5>1. left = <<>>
          BY <4>2 DEF RemoveFirst
        <5> QED
          BY <2>1, <4>1, <4>2, <5>1 DEF Usable
      <4>3. CASE keys # <<>>
        BY <3>2, <4>1, <4>3 DEF Usable
      <4> QED
        BY <4>2, <4>3
    <3>4. OnTheWay(t)'
      BY <1>3, <3>1, <3>2, <3>3 DEF OnTheWay
    <3> QED
      BY <1>2, <1>6, <2>1, <2>3, <3>4 DEF KeySteps
  <2> QED
    BY <2>2, <2>3
<1> QED
  BY <1>7, <1>8, <1>9

\* A key action goes on or ends.
LEMMA KeyActionGoes ==
  ASSUME KeysInv, AnswersInv', NEW t \in Tabs,
         ReadActive(t) \/ SetActive(t) \/ CheckActive(t) \/ FindRemaining(t)
  PROVE  KeysInv'
<1> DEFINE p == op[t].provider
<1>1. /\ keys \in Seq(Providers) /\ OpTypes(op) /\ IsInjective(keys)
      /\ active \in Providers \cup {Null} /\ Null \notin Providers
      /\ ToSet(keys) \in SUBSET Providers /\ (keys = <<>> <=> ToSet(keys) = {})
      /\ keys # <<>> => Head(keys) \in ToSet(keys)
  BY KeyFacts
<1>2. /\ keys' = keys /\ raced' = raced /\ op[t].step \in KeySteps
      /\ p \in Providers \cup {Null}
  BY <1>1 DEF ReadActive, SetActive, CheckActive, FindRemaining, keyVars, KeySteps, OpTypes
<1>3. ~raced => OnTheWay(t) /\ \A u \in Tabs \ {t} : op[u].step \notin KeySteps
  BY <1>2 DEF KeysInv
<1>4. ASSUME End(t), ~raced => Usable' PROVE KeysInv'
  <2>1. op'[t] = Idle /\ \A u \in Tabs \ {t} : op'[u] = op[u]
    BY <1>1, <1>4, TabEnds
  <2>2. ~raced => \A u \in Tabs : op'[u].step \notin KeySteps
    BY <1>3, <2>1 DEF Idle, KeySteps
  <2>3. ~raced => \A u \in Tabs : OnTheWay(u)'
    BY <2>2 DEF OnTheWay, KeySteps
  <2> QED
    BY <1>1, <1>2, <1>4, <2>2, <2>3 DEF KeysInv
<1>5. ASSUME NEW s \in KeySteps, NEW x \in Providers \cup {Null}, Go(t, s, x), active' = active,
             ~raced =>
               /\ s = "set" => IF keys = <<>> THEN x = Null ELSE x \in ToSet(keys)
               /\ s \notin {"read", "check"}
      PROVE  KeysInv'
  <2>1. s \in Steps /\ s \notin {"client", "key", "call", "create"}
    BY DEF Steps, KeySteps
  <2>2. /\ op'[t] = [step |-> s, provider |-> x, question |-> op[t].question]
        /\ \A u \in Tabs \ {t} : op'[u] = op[u]
    BY <1>1, <1>5, <2>1, TabGoes
  <2>3. ~raced => OnTheWay(t)'
    BY <1>2, <1>5, <2>2 DEF OnTheWay
  <2>4. ~raced => \A u \in Tabs \ {t} : op'[u].step \notin KeySteps /\ OnTheWay(u)'
    BY <1>3, <2>2 DEF OnTheWay, KeySteps
  <2>5. op'[t].step \in KeySteps
    BY <2>2
  <2> QED
    BY <1>1, <1>2, <2>3, <2>4, <2>5 DEF KeysInv
<1>6. CASE ReadActive(t)
  <2>1. op[t].step = "read" /\ active' = active
    BY <1>6 DEF ReadActive, keyVars
  <2>2. CASE active = Null
    <3>1. Go(t, "set", p)
      BY <1>6, <2>2 DEF ReadActive
    <3>2. ~raced => IF keys = <<>> THEN p = Null ELSE p \in ToSet(keys)
      BY <1>1, <1>3, <2>1 DEF OnTheWay
    <3> QED
      BY <1>2, <1>5, <2>1, <3>1, <3>2 DEF KeySteps
  <2>3. CASE active # Null
    <3>1. End(t)
      BY <1>6, <2>3 DEF ReadActive
    <3>2. ~raced => Usable'
      BY <1>1, <1>2, <1>3, <2>1, <2>3 DEF OnTheWay, Usable
    <3> QED
      BY <1>4, <3>1, <3>2
  <2> QED
    BY <2>2, <2>3
<1>7. CASE SetActive(t)
  <2>1. op[t].step = "set" /\ active' = p /\ End(t)
    BY <1>7 DEF SetActive
  <2>2. ~raced => Usable'
    BY <1>2, <1>3, <2>1 DEF OnTheWay, Usable
  <2> QED
    BY <1>4, <2>1, <2>2
<1>8. CASE CheckActive(t)
  <2>1. op[t].step = "check" /\ active' = active
    BY <1>8 DEF CheckActive, keyVars
  <2>2. CASE active = p
    <3>1. Go(t, "remaining", p)
      BY <1>8, <2>2 DEF CheckActive, Repoints
    <3> QED
      BY <1>2, <1>5, <2>1, <3>1 DEF KeySteps
  <2>3. CASE active # p
    <3>1. End(t)
      BY <1>8, <2>3 DEF CheckActive, Repoints
    <3>2. ~raced => Usable'
      BY <1>1, <1>2, <1>3, <2>1, <2>3 DEF OnTheWay, Usable
    <3> QED
      BY <1>4, <3>1, <3>2
  <2> QED
    BY <2>2, <2>3
<1>9. CASE FindRemaining(t)
  <2> DEFINE x == IF keys = <<>> THEN Null ELSE Head(keys)
  <2>1. Go(t, "set", x) /\ active' = active
    BY <1>9 DEF FindRemaining, keyVars
  <2>2. x \in Providers \cup {Null} /\ IF keys = <<>> THEN x = Null ELSE x \in ToSet(keys)
    BY <1>1
  <2> HIDE DEF x
  <2> QED
    BY <1>5, <2>1, <2>2 DEF KeySteps
<1> QED
  BY <1>6, <1>7, <1>8, <1>9

\* A question is asked, or its answer is on the way.
LEMMA QuestionsLeaveKeys ==
  ASSUME KeysInv, AnswersInv', NEW t \in Tabs,
         \/ \E q \in Questions : Ask(t, q)
         \/ FindClient(t) \/ FindKey(t) \/ Call(t) \/ CallFails(t) \/ Create(t)
  PROVE  KeysInv'
<1>1. OpTypes(op) /\ active \in Providers \cup {Null} /\ OpTypes(op')
  BY KeyFacts DEF AnswersInv
<1>2. /\ UNCHANGED <<keys, active>> /\ raced' = raced
      /\ op[t].step \notin KeySteps
  <2>1. CASE \E q \in Questions : Ask(t, q)
    <3>1. PICK q \in Questions : Ask(t, q)
      BY <2>1
    <3>2. op[t] = Idle /\ UNCHANGED <<keys, active>> /\ raced' = raced
      BY <3>1 DEF Ask, keyVars
    <3> QED
      BY <3>2 DEF Idle, KeySteps
  <2>2. CASE FindClient(t) \/ FindKey(t) \/ Call(t) \/ CallFails(t) \/ Create(t)
    BY <2>2 DEF FindClient, FindKey, Call, CallFails, Create, keyVars, KeySteps
  <2> QED
    BY <2>1, <2>2
<1>3. (\A u \in Tabs \ {t} : op'[u] = op[u]) /\ op'[t].step \notin KeySteps
  <2>1. CASE \E q \in Questions : Ask(t, q)
    <3>1. PICK q \in Questions : Ask(t, q)
      BY <2>1
    <3>2. op' = op \/ op' = [op EXCEPT ![t] = [@ EXCEPT !.step = "client", !.question = q]]
      BY <3>1 DEF Ask
    <3>3. CASE op' = op
      BY <1>2, <3>3
    <3>4. CASE op' = [op EXCEPT ![t] = [@ EXCEPT !.step = "client", !.question = q]]
      <4>1. op'[t] = [op[t] EXCEPT !.step = "client", !.question = q]
            /\ \A u \in Tabs \ {t} : op'[u] = op[u]
        BY <1>1, <3>4 DEF OpTypes
      <4>2. op'[t].step = "client"
        BY <1>1, <4>1 DEF OpTypes
      <4> QED
        BY <4>1, <4>2 DEF KeySteps
    <3> QED
      BY <3>2, <3>3, <3>4
  <2>2. CASE End(t)
    BY <1>1, <2>2, TabEnds DEF Idle, KeySteps
  <2>3. ASSUME NEW s \in {"key", "call", "create"}, NEW p \in Providers \cup {Null},
               op[t].step \in {"client", "key", "call"}, Go(t, s, p)
        PROVE  (\A u \in Tabs \ {t} : op'[u] = op[u]) /\ op'[t].step \notin KeySteps
    <3>1. s \in Steps /\ s \notin KeySteps
      BY DEF Steps, KeySteps
    <3>2. /\ op'[t] = [step |-> s, provider |-> p, question |-> op[t].question]
          /\ \A u \in Tabs \ {t} : op'[u] = op[u]
      BY <1>1, <2>3, <3>1, TabGoes
    <3> QED
      BY <3>1, <3>2
  <2>4. \/ \E q \in Questions : Ask(t, q)
        \/ End(t)
        \/ op[t].step = "client" /\ Go(t, "key", active)
        \/ op[t].step = "key" /\ Go(t, "call", Null)
        \/ op[t].step = "call" /\ Go(t, "create", Null)
    BY DEF FindClient, FindKey, Call, CallFails, Create
  <2> QED
    BY <1>1, <2>1, <2>2, <2>3, <2>4
<1> QED
  BY <1>2, <1>3, KeysStay

LEMMA AbandonLeavesKeys ==
  ASSUME KeysInv, AnswersInv', NEW t \in Tabs, Abandon(t)
  PROVE  KeysInv'
<1>1. OpTypes(op) /\ UNCHANGED <<keys, active>> /\ End(t)
      /\ (raced' <=> raced \/ op[t].step \in KeySteps)
  BY KeyFacts DEF Abandon, keyVars
<1>2. op'[t] = Idle /\ \A u \in Tabs \ {t} : op'[u] = op[u]
  BY <1>1, TabEnds
<1>3. op'[t].step \notin KeySteps
  BY <1>2 DEF Idle, KeySteps
<1>4. CASE raced'
  BY <1>1, <1>4 DEF KeysInv
<1>5. CASE ~raced'
  <2>1. op[t].step \notin KeySteps /\ ~raced
    BY <1>1, <1>5
  <2>2. \A u \in Tabs : op'[u].step \in KeySteps \/ op[u].step \in KeySteps => op'[u] = op[u]
    BY <1>2, <1>3, <2>1
  <2>3. \A u \in Tabs : /\ op'[u].step \in KeySteps <=> op[u].step \in KeySteps
                        /\ OnTheWay(u) => OnTheWay(u)'
    BY <1>1, <2>2 DEF OnTheWay, KeySteps
  <2>4. Usable' <=> Usable
    BY <1>1 DEF Usable
  <2> QED
    BY <1>1, <2>1, <2>2, <2>3, <2>4 DEF KeysInv
<1> QED
  BY <1>4, <1>5

\* Once the key actions are done there is an active provider exactly if there is a
\* key, and it is one with a key, for any number of tabs and providers, unless two
\* of the actions overlapped or one was cut off.
THEOREM KeysRemainUsable == DashboardSpec => []KeysStayUsable
<1>1. DashboardInit => KeysInv
  <2> SUFFICES ASSUME DashboardInit PROVE KeysInv
    OBVIOUS
  <2>1. /\ AnswersInv /\ IsInjective(keys)
        /\ active \in IF keys = <<>> THEN {Null} ELSE ToSet(keys)
    BY AssistStarts DEF DashboardInit
  <2>2. \A t \in Tabs : op[t].step \notin KeySteps
    BY DEF DashboardInit, AssistInit, Idle, KeySteps
  <2>3. Usable
    BY <2>1 DEF Usable
  <2>4. \A t \in Tabs : OnTheWay(t)
    BY <2>2 DEF OnTheWay, KeySteps
  <2> QED
    BY <2>1, <2>2, <2>3, <2>4 DEF KeysInv
<1>2. KeysInv /\ AnswersInv' /\ [DashboardNext]_dashboardVars => KeysInv'
  <2> SUFFICES ASSUME KeysInv, AnswersInv', [DashboardNext]_dashboardVars PROVE KeysInv'
    OBVIOUS
  <2>1. CASE Work
    <3>1. PICK t \in Tabs : StartAssist(t) \/ AssistStep(t)
      BY <2>1 DEF Work
    <3>2. CASE \E p \in Providers : SaveKey(t, p) \/ Activate(t, p) \/ DeleteKey(t, p)
      BY <3>2, KeyActionStarts
    <3>3. CASE ReadActive(t) \/ SetActive(t) \/ CheckActive(t) \/ FindRemaining(t)
      BY <3>3, KeyActionGoes
    <3>4. CASE \/ \E q \in Questions : Ask(t, q)
               \/ FindClient(t) \/ FindKey(t) \/ Call(t) \/ CallFails(t) \/ Create(t)
      BY <3>4, QuestionsLeaveKeys
    <3>5. CASE Abandon(t)
      BY <3>5, AbandonLeavesKeys
    <3> QED
      BY <3>1, <3>2, <3>3, <3>4, <3>5, AskedQuestions DEF AssistStep
  <2>2. ASSUME UNCHANGED <<keys, active, op, raced>> PROVE KeysInv'
    BY <2>2, KeysStay
  <2>3. ~Work => UNCHANGED <<keys, active, op, raced>>
    BY DEF DashboardNext, Change, Cascaded, Pass, Read, Overview, dashboardVars, assistVars, keyVars
  <2> QED
    BY <2>1, <2>2, <2>3
<1>3. DashboardSpec => []KeysInv
  BY <1>1, <1>2, AnswersInvariant, PTL DEF DashboardSpec
<1>4. KeysInv => KeysStayUsable
  BY DEF KeysInv, KeysStayUsable, Usable
<1> QED
  BY <1>3, <1>4, PTL
=============================================================================
