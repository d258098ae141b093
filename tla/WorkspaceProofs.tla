--------------------------- MODULE WorkspaceProofs ---------------------------
(***************************************************************************)
(* Proofs about Workspace: rows keep agreeing about their owner, a late    *)
(* write reaches rows of the writer's account only, and concurrent creates *)
(* overrun a quota by less than their number, for any number of accounts,  *)
(* requests and rows.                                                      *)
(***************************************************************************)
EXTENDS Workspace, FiniteSetTheorems, TLAPS

Sources      == [id : Nat, owner : Users, style : Styles \cup {Null}, secret : BOOLEAN]
Destinations == [id : Nat, owner : Users]
Routes       == [id : Nat, source : Nat, destination : Nat,
                 enabled : BOOLEAN, filter : BOOLEAN, code : BOOLEAN]
Tokens       == [id : Nat, owner : Users, revoked : BOOLEAN]

CreateJobs == [op : {"create"}, user : Users, table : {"source", "destination", "token"},
               style : Styles \cup {Null}]
UpdateJobs == [op : {"updateSource"}, user : Users, id : Nat, style : Styles \cup {Null},
               writesSecret : BOOLEAN, secret : BOOLEAN]
RouteJobs  == [op : {"createRoute"}, user : Users, source : Nat, destination : Nat,
               enabled : BOOLEAN, filtered : BOOLEAN]
AttachJobs == [op : {"attach"}, user : Users, id : Nat]
EditJobs   == [op : {"edit"}, user : Users, id : Nat,
               field : {"enabled", "filter", "code"}, value : BOOLEAN]
DeleteJobs == [op : {"deleteRoute"}, user : Users, id : Nat]
Jobs == CreateJobs \cup UpdateJobs \cup RouteJobs \cup AttachJobs \cup EditJobs \cup DeleteJobs

Tables ==
  /\ nextId \in Nat /\ users \subseteq Users
  /\ sources \subseteq Sources /\ destinations \subseteq Destinations
  /\ routes \subseteq Routes /\ tokens \subseteq Tokens

Keyed(rows) ==
  /\ \A x \in rows : x.id < nextId
  /\ \A x, y \in rows : x.id = y.id => x = y

\* A row that is there under the id belongs to the user.
OwnedBy(rows, id, u) == id < nextId /\ \A x \in rows : x.id = id => x.owner = u

RouteOwnedBy(id, u) ==
  id < nextId /\ \A r \in routes, s \in sources : r.id = id /\ s.id = r.source => s.owner = u

\* What a request was told when it looked, as far as it still holds when it writes.
Holding(j) ==
  /\ j \in UpdateJobs => OwnedBy(sources, j.id, j.user)
  /\ j \in RouteJobs => /\ OwnedBy(sources, j.source, j.user)
                        /\ OwnedBy(destinations, j.destination, j.user)
  /\ j \in AttachJobs \cup EditJobs \cup DeleteJobs => RouteOwnedBy(j.id, j.user)

WorkInv ==
  /\ Tables
  /\ Keyed(sources) /\ Keyed(destinations) /\ Keyed(routes)
  /\ OwnersAgree
  /\ job \in [Callers -> Jobs \cup {Null}]
  /\ \A c \in Callers : job[c] # Null => Holding(job[c])

-----------------------------------------------------------------------------
\* The kind of a job is told by its op.
LEMMA JobKinds ==
  ASSUME NEW j \in Jobs
  PROVE  /\ j.op = "create" => j \in CreateJobs
         /\ j.op = "updateSource" => j \in UpdateJobs
         /\ j.op = "createRoute" => j \in RouteJobs
         /\ j.op = "attach" => j \in AttachJobs
         /\ j.op = "edit" => j \in EditJobs
         /\ j.op = "deleteRoute" => j \in DeleteJobs
  BY DEF Jobs, CreateJobs, UpdateJobs, RouteJobs, AttachJobs, EditJobs, DeleteJobs

LEMMA InitWork == WorkInit => WorkInv
<1> SUFFICES ASSUME WorkInit PROVE WorkInv
  OBVIOUS
<1>1. Tables
  BY DEF WorkInit, Tables
<1>2. Keyed(sources) /\ Keyed(destinations) /\ Keyed(routes)
  BY DEF WorkInit, Keyed
<1>3. OwnersAgree
  BY DEF WorkInit, OwnersAgree
<1>4. job \in [Callers -> Jobs \cup {Null}] /\ \A c \in Callers : job[c] = Null
  BY DEF WorkInit
<1> QED
  BY <1>1, <1>2, <1>3, <1>4 DEF WorkInv

-----------------------------------------------------------------------------
(* The steps that only note a job.                                          *)

\* A request that looked up what it is going to write holds what it was told.
LEMMA BeginStep ==
  ASSUME WorkInv, NEW c \in Callers, NEW j, UNCHANGED tables,
         job' = [job EXCEPT ![c] = j], j \in Jobs, Holding(j)
  PROVE  WorkInv'
<1>1. Tables' /\ Keyed(sources)' /\ Keyed(destinations)' /\ Keyed(routes)' /\ OwnersAgree'
  BY DEF WorkInv, tables, Tables, Keyed, OwnersAgree, Pair
<1>2. job' \in [Callers -> Jobs \cup {Null}]
  BY DEF WorkInv
<1>3. ASSUME NEW e \in Callers, job'[e] # Null PROVE Holding(job[e])'
  <2>1. Holding(job'[e])
    <3>1. CASE e = c
      BY <3>1 DEF WorkInv
    <3>2. CASE e # c
      BY <1>3, <3>2 DEF WorkInv
    <3> QED
      BY <3>1, <3>2
  <2> QED
    BY <2>1 DEF Holding, OwnedBy, RouteOwnedBy, tables
<1> QED
  BY <1>1, <1>2, <1>3 DEF WorkInv

LEMMA BeginKeeps ==
  ASSUME WorkInv, NEW c \in Callers, NEW u \in Users, Begin(c, u)
  PROVE  WorkInv'
<1>1. ASSUME NEW t \in {"source", "destination", "token"}, NEW style \in Styles \cup {Null},
             StartCreate(c, u, t, style)
      PROVE  WorkInv'
  <2> DEFINE j == [op |-> "create", user |-> u, table |-> t, style |-> style]
  <2>1. j \in CreateJobs
    BY DEF CreateJobs
  <2>2. j \in Jobs /\ Holding(j)
    BY <2>1 DEF Jobs, Holding, CreateJobs, UpdateJobs, RouteJobs, AttachJobs, EditJobs, DeleteJobs
  <2> QED
    BY <1>1, <2>2, BeginStep DEF StartCreate, Check
<1>2. ASSUME NEW s \in sources, NEW style \in Styles \cup {None}, NEW secret \in BOOLEAN,
             StartUpdateSource(c, u, s, style, secret)
      PROVE  WorkInv'
  <2> DEFINE j == [op |-> "updateSource", user |-> u, id |-> s.id,
                   style |-> IF style = None THEN Null ELSE style,
                   writesSecret |-> style = None \/ secret, secret |-> style # None]
  <2>1. s \in Sources /\ s.owner = u
    BY <1>2 DEF WorkInv, Tables, StartUpdateSource, SourcesOf
  <2>2. (IF style = None THEN Null ELSE style) \in Styles \cup {Null}
    OBVIOUS
  <2>3. s.id \in Nat
    BY <2>1 DEF Sources
  <2>4. j \in UpdateJobs
    BY <2>2, <2>3 DEF UpdateJobs
  <2>5. OwnedBy(sources, s.id, u)
    BY <2>1 DEF WorkInv, Keyed, OwnedBy
  <2>6. j \in Jobs /\ Holding(j)
    BY <2>4, <2>5 DEF Jobs, Holding, UpdateJobs, RouteJobs, AttachJobs, EditJobs, DeleteJobs
  <2> HIDE DEF j
  <2>7. job' = [job EXCEPT ![c] = j] /\ UNCHANGED tables
    BY <1>2 DEF StartUpdateSource, Check, j
  <2> QED
    BY <2>6, <2>7, BeginStep
<1>3. ASSUME NEW s \in sources, NEW d \in destinations, NEW filtered \in BOOLEAN,
             s \in SourcesOf(u), d \in DestinationsOf(u),
             Check(c, [op |-> "createRoute", user |-> u, source |-> s.id, destination |-> d.id,
                       enabled |-> TRUE, filtered |-> filtered])
      PROVE  WorkInv'
  <2> DEFINE j == [op |-> "createRoute", user |-> u, source |-> s.id, destination |-> d.id,
                   enabled |-> TRUE, filtered |-> filtered]
  <2>1. s \in Sources /\ s.owner = u /\ d \in Destinations /\ d.owner = u
    BY <1>3 DEF WorkInv, Tables, SourcesOf, DestinationsOf
  <2>2. s.id \in Nat /\ d.id \in Nat
    BY <2>1 DEF Sources, Destinations
  <2>3. j \in RouteJobs
    BY <2>2 DEF RouteJobs
  <2>4. OwnedBy(sources, s.id, u) /\ OwnedBy(destinations, d.id, u)
    BY <2>1 DEF WorkInv, Keyed, OwnedBy
  <2>5. j \in Jobs /\ Holding(j)
    BY <2>3, <2>4 DEF Jobs, Holding, UpdateJobs, RouteJobs, AttachJobs, EditJobs, DeleteJobs
  <2> HIDE DEF j
  <2>6. job' = [job EXCEPT ![c] = j] /\ UNCHANGED tables
    BY <1>3 DEF Check, j
  <2> QED
    BY <2>5, <2>6, BeginStep
<1>4. \A r \in routes : r \in RoutesOf(u) => r.id \in Nat /\ RouteOwnedBy(r.id, u)
  <2> SUFFICES ASSUME NEW r \in routes, r \in RoutesOf(u)
               PROVE  r.id \in Nat /\ RouteOwnedBy(r.id, u)
    OBVIOUS
  <2>1. r.id \in Nat /\ r.id < nextId
    BY DEF WorkInv, Tables, Routes, Keyed
  <2>2. PICK t \in sources : t.owner = u /\ t.id = r.source
    BY DEF RoutesOf, SourcesOf
  <2>3. ASSUME NEW q \in routes, NEW s \in sources, q.id = r.id, s.id = q.source PROVE s.owner = u
    <3>1. q = r
      BY <2>3 DEF WorkInv, Keyed
    <3>2. s = t
      BY <2>2, <2>3, <3>1 DEF WorkInv, Keyed
    <3> QED
      BY <2>2, <3>2
  <2> QED
    BY <2>1, <2>3 DEF RouteOwnedBy
<1>5. ASSUME NEW r \in routes, r \in RoutesOf(u), NEW field \in {"enabled", "filter", "code"},
             NEW value \in BOOLEAN,
             Check(c, [op |-> "edit", user |-> u, id |-> r.id, field |-> field, value |-> value])
      PROVE  WorkInv'
  <2> DEFINE j == [op |-> "edit", user |-> u, id |-> r.id, field |-> field, value |-> value]
  <2>1. r.id \in Nat /\ RouteOwnedBy(r.id, u)
    BY <1>4, <1>5
  <2>2. j \in EditJobs
    BY <2>1 DEF EditJobs
  <2>3. j \in Jobs /\ Holding(j)
    BY <2>1, <2>2 DEF Jobs, Holding, UpdateJobs, RouteJobs, AttachJobs, EditJobs, DeleteJobs
  <2> HIDE DEF j
  <2>4. job' = [job EXCEPT ![c] = j] /\ UNCHANGED tables
    BY <1>5 DEF Check, j
  <2> QED
    BY <2>3, <2>4, BeginStep
<1>6. ASSUME NEW r \in routes, StartDeleteRoute(c, u, r) PROVE WorkInv'
  <2> DEFINE j == [op |-> "deleteRoute", user |-> u, id |-> r.id]
  <2>1. r.id \in Nat /\ RouteOwnedBy(r.id, u)
    BY <1>4, <1>6 DEF StartDeleteRoute
  <2>2. j \in DeleteJobs
    BY <2>1 DEF DeleteJobs
  <2>3. j \in Jobs /\ Holding(j)
    BY <2>1, <2>2 DEF Jobs, Holding, UpdateJobs, RouteJobs, AttachJobs, EditJobs, DeleteJobs
  <2> HIDE DEF j
  <2>4. job' = [job EXCEPT ![c] = j] /\ UNCHANGED tables
    BY <1>6 DEF StartDeleteRoute, Check, j
  <2> QED
    BY <2>3, <2>4, BeginStep
<1>7. ASSUME NEW s \in sources, NEW d \in destinations, StartToggle(c, u, s, d) PROVE WorkInv'
  <2> DEFINE old == {r \in routes : Pair(r) = <<s.id, d.id>>}
  <2>1. s \in SourcesOf(u) /\ d \in DestinationsOf(u)
    BY <1>7 DEF StartToggle
  <2>2. CASE old = {}
    <3>1. Check(c, [op |-> "createRoute", user |-> u, source |-> s.id, destination |-> d.id,
                    enabled |-> TRUE, filtered |-> FALSE])
      BY <1>7, <2>2 DEF StartToggle
    <3> QED
      BY <1>3, <2>1, <3>1
  <2>3. CASE old # {}
    <3>1. PICK r \in old : Check(c, [op |-> "edit", user |-> u, id |-> r.id,
                                     field |-> "enabled", value |-> ~r.enabled])
      BY <1>7, <2>3 DEF StartToggle
    <3>2. r \in routes /\ r.source = s.id
      BY DEF Pair
    <3>3. r \in RoutesOf(u)
      BY <2>1, <3>2 DEF RoutesOf
    <3>4. PICK n : n = ~r.enabled
      OBVIOUS
    <3>5. n \in BOOLEAN
      BY <3>4
    <3>6. Check(c, [op |-> "edit", user |-> u, id |-> r.id, field |-> "enabled", value |-> n])
      BY <3>1, <3>4
    <3> QED
      BY <1>5, <3>2, <3>3, <3>5, <3>6
  <2> QED
    BY <2>2, <2>3
<1>8. ASSUME NEW s \in sources, NEW d \in destinations, NEW filtered \in BOOLEAN,
             StartCreateRoute(c, u, s, d, filtered)
      PROVE  WorkInv'
  BY <1>3, <1>8 DEF StartCreateRoute
<1>9. ASSUME NEW r \in routes, NEW field \in {"enabled", "filter", "code"}, NEW value \in BOOLEAN,
             StartEdit(c, u, r, field, value)
      PROVE  WorkInv'
  BY <1>5, <1>9 DEF StartEdit
<1>10. CASE StartsSource(c, u)
  BY <1>1, <1>2, <1>10 DEF StartsSource
<1>11. CASE StartsDestination(c, u) \/ StartsToken(c, u)
  BY <1>1, <1>11 DEF StartsDestination, StartsToken
<1>12. CASE StartsRoute(c, u)
  BY <1>6, <1>7, <1>8, <1>9, <1>12 DEF StartsRoute
<1> QED
  BY <1>10, <1>11, <1>12 DEF Begin

-----------------------------------------------------------------------------
(* The steps that write.                                                    *)

\* What a write may do to the rows that were there: keep their ids and owners.
Shape ==
  /\ nextId' >= nextId
  /\ \A s \in sources' : s.id < nextId => \E t \in sources : t.id = s.id /\ t.owner = s.owner
  /\ \A d \in destinations' :
       d.id < nextId => \E t \in destinations : t.id = d.id /\ t.owner = d.owner
  /\ \A r \in routes' : r.id < nextId => \E q \in routes : q.id = r.id /\ q.source = r.source

LEMMA HoldingKept ==
  ASSUME WorkInv, Tables', Shape, NEW j \in Jobs, Holding(j)
  PROVE  Holding(j)'
<1>0. nextId \in Nat /\ nextId' \in Nat /\ nextId' >= nextId
  BY DEF WorkInv, Tables, Shape
<1>1. ASSUME j \in UpdateJobs PROVE OwnedBy(sources, j.id, j.user)'
  <2>1. j.id \in Nat /\ OwnedBy(sources, j.id, j.user)
    BY <1>1 DEF Holding, UpdateJobs
  <2> QED
    BY <1>0, <2>1 DEF OwnedBy, Shape
<1>2. ASSUME j \in RouteJobs
      PROVE  OwnedBy(sources, j.source, j.user)' /\ OwnedBy(destinations, j.destination, j.user)'
  <2>1. /\ j.source \in Nat /\ OwnedBy(sources, j.source, j.user)
        /\ j.destination \in Nat /\ OwnedBy(destinations, j.destination, j.user)
    BY <1>2 DEF Holding, RouteJobs
  <2> QED
    BY <1>0, <2>1 DEF OwnedBy, Shape
<1>3. ASSUME j \in AttachJobs \cup EditJobs \cup DeleteJobs PROVE RouteOwnedBy(j.id, j.user)'
  <2>1. j.id \in Nat /\ RouteOwnedBy(j.id, j.user)
    BY <1>3 DEF Holding, AttachJobs, EditJobs, DeleteJobs
  <2>2. j.id < nextId'
    BY <1>0, <2>1 DEF RouteOwnedBy
  <2>3. ASSUME NEW r \in routes', NEW s \in sources', r.id = j.id, s.id = r.source
        PROVE  s.owner = j.user
    <3>1. PICK q \in routes : q.id = r.id /\ q.source = r.source
      BY <2>1, <2>3 DEF RouteOwnedBy, Shape
    <3>2. PICK t \in sources : t.id = q.source
      BY DEF WorkInv, OwnersAgree
    <3>3. s.id < nextId
      BY <2>3, <3>1, <3>2 DEF WorkInv, Keyed
    <3>4. PICK x \in sources : x.id = s.id /\ x.owner = s.owner
      BY <3>3 DEF Shape
    <3> QED
      BY <2>1, <2>3, <3>1, <3>4 DEF RouteOwnedBy
  <2> QED
    BY <2>2, <2>3 DEF RouteOwnedBy
<1> QED
  BY <1>1, <1>2, <1>3 DEF Holding

LEMMA WriteStep ==
  ASSUME WorkInv, Tables', Shape, Keyed(sources)', Keyed(destinations)', Keyed(routes)',
         OwnersAgree', job' \in [Callers -> Jobs \cup {Null}],
         \A e \in Callers : job'[e] = job[e] \/ job'[e] = Null
  PROVE  WorkInv'
<1>1. ASSUME NEW e \in Callers, job'[e] # Null PROVE Holding(job[e])'
  <2>1. job'[e] = job[e] /\ job[e] \in Jobs /\ Holding(job[e])
    BY <1>1 DEF WorkInv
  <2>2. PICK j \in Jobs : j = job[e] /\ j = job'[e] /\ Holding(j)
    BY <2>1
  <2>3. Holding(j)'
    BY <2>2, HoldingKept
  <2> QED
    BY <2>2, <2>3
<1> QED
  BY <1>1 DEF WorkInv

LEMMA CreateKeeps ==
  ASSUME WorkInv, NEW c \in Callers, Create(c)
  PROVE  WorkInv'
<1> DEFINE j == job[c]
<1>1. j \in CreateJobs
  BY JobKinds DEF WorkInv, Create, Statement
<1>2. job' \in [Callers -> Jobs \cup {Null}] /\ \A e \in Callers : job'[e] = job[e] \/ job'[e] = Null
  BY DEF WorkInv, Create, End
<1>3. CASE j.user \notin users
  <2>1. UNCHANGED tables
    BY <1>3 DEF Create
  <2>2. Tables' /\ Shape /\ Keyed(sources)' /\ Keyed(destinations)' /\ Keyed(routes)' /\ OwnersAgree'
    BY <2>1 DEF WorkInv, tables, Tables, Shape, Keyed, OwnersAgree, Pair
  <2> QED
    BY <1>2, <2>2, WriteStep
<1>4. CASE j.user \in users
  <2> DEFINE s == [id |-> nextId, owner |-> j.user, style |-> j.style, secret |-> j.style # Null]
             d == [id |-> nextId, owner |-> j.user]
             k == [id |-> nextId, owner |-> j.user, revoked |-> FALSE]
  <2>1. /\ nextId' = nextId + 1 /\ nextId \in Nat
        /\ sources' = sources \/ sources' = sources \cup {s}
        /\ destinations' = destinations \/ destinations' = destinations \cup {d}
        /\ tokens' = tokens \/ tokens' = tokens \cup {k}
        /\ users' = users /\ routes' = routes
    BY <1>4 DEF Create, Fresh, WorkInv, Tables
  <2>2. j.user \in Users /\ j.style \in Styles \cup {Null}
    BY <1>1 DEF CreateJobs
  <2>3. s \in Sources /\ d \in Destinations /\ k \in Tokens
    BY <2>1, <2>2 DEF Sources, Destinations, Tokens
  <2>4. /\ s.id = nextId /\ s.owner \in users
        /\ d.id = nextId /\ d.owner \in users /\ k.owner \in users
    BY <1>4
  <2> HIDE DEF s, d, k
  <2>5. Tables'
    BY <2>1, <2>3 DEF WorkInv, Tables
  <2>6. /\ \A x \in sources : x.id \in Nat /\ x.id < nextId
        /\ \A x \in destinations : x.id \in Nat /\ x.id < nextId
        /\ \A x \in routes : x.id \in Nat /\ x.id < nextId
    BY DEF WorkInv, Tables, Keyed, Sources, Destinations, Routes
  <2>7. Keyed(sources)'
    BY <2>1, <2>4, <2>6 DEF WorkInv, Keyed
  <2>8. Keyed(destinations)'
    BY <2>1, <2>4, <2>6 DEF WorkInv, Keyed
  <2>9. Keyed(routes)' /\ Shape
    BY <2>1, <2>4, <2>6 DEF WorkInv, Keyed, Shape
  <2>10. OwnersAgree'
    <3>1. \A x \in (sources \cup destinations \cup tokens)' : x.owner \in users'
      BY <2>1, <2>4 DEF WorkInv, OwnersAgree
    <3>2. sources \subseteq sources' /\ destinations \subseteq destinations'
      BY <2>1
    <3> QED
      BY <2>1, <3>1, <3>2 DEF WorkInv, OwnersAgree, Pair
  <2> QED
    BY <1>2, <2>5, <2>7, <2>8, <2>9, <2>10, WriteStep
<1> QED
  BY <1>3, <1>4

LEMMA UpdateSourceKeeps ==
  ASSUME WorkInv, NEW c \in Callers, UpdateSource(c)
  PROVE  WorkInv'
<1> DEFINE j == job[c]
           Updated(s) == IF s.id = j.id
                         THEN [s EXCEPT !.style = j.style, !.secret = IF j.writesSecret THEN j.secret ELSE @]
                         ELSE s
<1>1. j \in UpdateJobs
  BY JobKinds DEF WorkInv, UpdateSource, Statement
<1>2. job' \in [Callers -> Jobs \cup {Null}] /\ \A e \in Callers : job'[e] = job[e] \/ job'[e] = Null
  BY DEF WorkInv, UpdateSource, End
<1>3. /\ sources' = {Updated(s) : s \in sources}
      /\ UNCHANGED <<users, destinations, routes, tokens, nextId>>
  BY DEF UpdateSource
<1>4. ASSUME NEW s \in Sources
      PROVE  Updated(s) \in Sources /\ Updated(s).id = s.id /\ Updated(s).owner = s.owner
  BY <1>1, <1>4 DEF Sources, UpdateJobs
<1> HIDE DEF Updated
<1>5. sources \subseteq Sources
  BY DEF WorkInv, Tables
<1>6. sources' \subseteq Sources
  BY <1>3, <1>4, <1>5
<1>7. \A x \in sources' : \E s \in sources : x = Updated(s) /\ x.id = s.id /\ x.owner = s.owner
  BY <1>3, <1>4, <1>5
<1>8. \A s \in sources : \E x \in sources' : x.id = s.id /\ x.owner = s.owner
  BY <1>3, <1>4, <1>5
<1>9. Tables'
  BY <1>3, <1>6 DEF WorkInv, Tables
<1>10. Keyed(sources)'
  <2>1. \A x \in sources' : x.id < nextId'
    BY <1>3, <1>7 DEF WorkInv, Keyed
  <2>2. ASSUME NEW x \in sources', NEW y \in sources', x.id = y.id PROVE x = y
    BY <1>7, <2>2 DEF WorkInv, Keyed
  <2> QED
    BY <2>1, <2>2 DEF Keyed
<1>11. Keyed(destinations)' /\ Keyed(routes)'
  BY <1>3 DEF WorkInv, Keyed
<1>12. Shape
  BY <1>3, <1>7 DEF Shape, WorkInv, Tables
<1>13. OwnersAgree'
  <2>1. \A x \in (sources \cup destinations \cup tokens)' : x.owner \in users'
    BY <1>3, <1>7 DEF WorkInv, OwnersAgree
  <2>2. ASSUME NEW r \in routes'
        PROVE  \E s \in sources', d \in destinations' :
                 r.source = s.id /\ r.destination = d.id /\ s.owner = d.owner
    <3>1. PICK s \in sources, d \in destinations :
            r.source = s.id /\ r.destination = d.id /\ s.owner = d.owner
      BY <1>3 DEF WorkInv, OwnersAgree
    <3>2. PICK x \in sources' : x.id = s.id /\ x.owner = s.owner
      BY <1>8
    <3> QED
      BY <1>3, <3>1, <3>2
  <2> QED
    BY <1>3, <2>1, <2>2 DEF WorkInv, OwnersAgree, Pair
<1> QED
  BY <1>2, <1>9, <1>10, <1>11, <1>12, <1>13, WriteStep

\* The rows before and after createRoute's insert.
LEMMA RouteInserted ==
  ASSUME WorkInv, NEW j \in RouteJobs, Holding(j), Insertable(j), Fresh, NEW new \in Routes,
         new.id = nextId, new.source = j.source, new.destination = j.destination,
         routes' = routes \cup {new}, UNCHANGED <<users, sources, destinations, tokens>>
  PROVE  /\ Tables' /\ Shape /\ OwnersAgree'
         /\ Keyed(sources)' /\ Keyed(destinations)' /\ Keyed(routes)'
         /\ \A r \in routes', s \in sources' : r.id = nextId /\ s.id = r.source => s.owner = j.user
<1>1. nextId \in Nat /\ nextId' = nextId + 1
  BY DEF WorkInv, Tables, Fresh
<1>2. Tables'
  BY <1>1 DEF WorkInv, Tables
<1>3. /\ \A x \in sources : x.id \in Nat /\ x.id < nextId
      /\ \A x \in destinations : x.id \in Nat /\ x.id < nextId
      /\ \A x \in routes : x.id \in Nat /\ x.id < nextId
  BY DEF WorkInv, Tables, Keyed, Sources, Destinations, Routes
<1>4. Shape
  BY <1>1, <1>3 DEF Shape
<1>5. Keyed(sources)' /\ Keyed(destinations)' /\ Keyed(routes)'
  BY <1>1, <1>3 DEF WorkInv, Keyed
<1>6. PICK s \in sources, d \in destinations :
        s.id = j.source /\ d.id = j.destination /\ s.owner = j.user /\ d.owner = j.user
  BY DEF Insertable, IdsOf, Holding, OwnedBy
<1>7. OwnersAgree'
  <2>1. \A x \in (sources \cup destinations \cup tokens)' : x.owner \in users'
    BY DEF WorkInv, OwnersAgree
  <2>2. \A r \in routes' : \E x \in sources', y \in destinations' :
          r.source = x.id /\ r.destination = y.id /\ x.owner = y.owner
    BY <1>6 DEF WorkInv, OwnersAgree
  <2>3. \A r, q \in routes' : Pair(r) = Pair(q) => r = q
    BY DEF WorkInv, OwnersAgree, Insertable, Pair
  <2> QED
    BY <2>1, <2>2, <2>3 DEF OwnersAgree, Pair
<1>8. ASSUME NEW r \in routes', NEW x \in sources', r.id = nextId, x.id = r.source
      PROVE  x.owner = j.user
  <2>1. r = new
    BY <1>1, <1>3, <1>8
  <2> QED
    BY <1>8, <2>1 DEF Holding, OwnedBy
<1> QED
  BY <1>2, <1>4, <1>5, <1>7, <1>8

LEMMA CreateRouteKeeps ==
  ASSUME WorkInv, NEW c \in Callers, CreateRoute(c)
  PROVE  WorkInv'
<1> DEFINE j == job[c]
<1>1. j \in RouteJobs /\ Holding(j)
  BY JobKinds DEF WorkInv, CreateRoute, Statement
<1>2. CASE ~Insertable(j)
  <2>1. UNCHANGED tables /\ job' = [job EXCEPT ![c] = Null]
    BY <1>2 DEF CreateRoute, tables
  <2>2. Tables' /\ Shape /\ Keyed(sources)' /\ Keyed(destinations)' /\ Keyed(routes)' /\ OwnersAgree'
    BY <2>1 DEF WorkInv, tables, Tables, Shape, Keyed, OwnersAgree, Pair
  <2>3. job' \in [Callers -> Jobs \cup {Null}] /\ \A e \in Callers : job'[e] = job[e] \/ job'[e] = Null
    BY <2>1 DEF WorkInv
  <2> QED
    BY <2>2, <2>3, WriteStep
<1>3. CASE Insertable(j)
  <2> DEFINE new == [id |-> nextId, source |-> j.source, destination |-> j.destination,
                     enabled |-> j.enabled, filter |-> FALSE, code |-> FALSE]
             next == [op |-> "attach", user |-> j.user, id |-> nextId]
  <2>1. /\ Fresh /\ routes' = routes \cup {new}
        /\ UNCHANGED <<users, sources, destinations, tokens>>
        /\ job' = [job EXCEPT ![c] = IF j.filtered THEN next ELSE Null]
    BY <1>3 DEF CreateRoute
  <2>2. nextId \in Nat
    BY DEF WorkInv, Tables
  <2>3. new \in Routes /\ next \in AttachJobs
    BY <1>1, <2>2 DEF RouteJobs, Routes, AttachJobs
  <2>4. new.id = nextId /\ new.source = j.source /\ new.destination = j.destination
    OBVIOUS
  <2>5. next.id = nextId /\ next.user = j.user
    OBVIOUS
  <2> HIDE DEF new, next
  <2>6. /\ Tables' /\ Shape /\ OwnersAgree'
        /\ Keyed(sources)' /\ Keyed(destinations)' /\ Keyed(routes)'
        /\ \A r \in routes', s \in sources' : r.id = nextId /\ s.id = r.source => s.owner = j.user
    <3>1. PICK k \in RouteJobs : k = j
      BY <1>1
    <3> QED
      BY <1>1, <1>3, <2>1, <2>3, <2>4, <3>1, RouteInserted
  <2>7. job' \in [Callers -> Jobs \cup {Null}]
    BY <2>1, <2>3 DEF WorkInv, Jobs
  <2>8. ASSUME NEW e \in Callers, job'[e] # Null PROVE Holding(job[e])'
    <3>1. CASE job'[e] = job[e]
      <4>1. job[e] \in Jobs /\ Holding(job[e])
        BY <2>8, <3>1 DEF WorkInv
      <4>2. PICK k \in Jobs : k = job[e] /\ k = job'[e] /\ Holding(k)
        BY <3>1, <4>1
      <4>3. Holding(k)'
        BY <2>6, <4>2, HoldingKept
      <4> QED
        BY <4>2, <4>3
    <3>2. CASE job'[e] # job[e]
      <4>1. job'[e] = next
        BY <2>1, <2>8, <3>2 DEF WorkInv
      <4>2. nextId < nextId'
        BY <2>1, <2>2 DEF Fresh
      <4>3. RouteOwnedBy(job[e].id, job[e].user)'
        BY <2>5, <2>6, <4>1, <4>2 DEF RouteOwnedBy
      <4>4. job'[e] \notin UpdateJobs /\ job'[e] \notin RouteJobs
        BY <2>3, <4>1 DEF AttachJobs, UpdateJobs, RouteJobs
      <4> QED
        BY <4>3, <4>4 DEF Holding
    <3> QED
      BY <3>1, <3>2
  <2> QED
    BY <2>6, <2>7, <2>8 DEF WorkInv
<1> QED
  BY <1>2, <1>3

LEMMA AttachKeeps ==
  ASSUME WorkInv, NEW c \in Callers, Attach(c)
  PROVE  WorkInv'
<1> DEFINE j == job[c]
           found == {r \in RoutesOf(j.user) : r.id = j.id}
           next == [op |-> "edit", user |-> j.user, id |-> j.id, field |-> "filter", value |-> TRUE]
<1>1. j \in AttachJobs /\ Holding(j)
  BY JobKinds DEF WorkInv, Attach, Statement
<1>2. next \in EditJobs
  BY <1>1 DEF AttachJobs, EditJobs
<1>3. RouteOwnedBy(j.id, j.user)
  BY <1>1 DEF Holding
<1>4. next \in Jobs /\ Holding(next)
  BY <1>2, <1>3 DEF Jobs, Holding, EditJobs, UpdateJobs, RouteJobs
<1>5. UNCHANGED tables /\ job' = [job EXCEPT ![c] = IF found = {} THEN Null ELSE next]
  BY DEF Attach
<1> HIDE DEF next
<1>6. CASE found # {}
  BY <1>4, <1>5, <1>6, BeginStep
<1>7. CASE found = {}
  <2>1. Tables' /\ Shape /\ Keyed(sources)' /\ Keyed(destinations)' /\ Keyed(routes)' /\ OwnersAgree'
    BY <1>5 DEF WorkInv, tables, Tables, Shape, Keyed, OwnersAgree, Pair
  <2>2. job' \in [Callers -> Jobs \cup {Null}] /\ \A e \in Callers : job'[e] = job[e] \/ job'[e] = Null
    BY <1>5, <1>7 DEF WorkInv
  <2> QED
    BY <2>1, <2>2, WriteStep
<1> QED
  BY <1>6, <1>7

LEMMA EditKeeps ==
  ASSUME WorkInv, NEW c \in Callers, Edit(c)
  PROVE  WorkInv'
<1> DEFINE j == job[c]
           Edited(r) == IF r.id = j.id THEN [r EXCEPT ![j.field] = j.value] ELSE r
<1>1. j \in EditJobs
  BY JobKinds DEF WorkInv, Edit, Statement
<1>2. job' \in [Callers -> Jobs \cup {Null}] /\ \A e \in Callers : job'[e] = job[e] \/ job'[e] = Null
  BY DEF WorkInv, Edit, End
<1>3. /\ routes' = {Edited(r) : r \in routes}
      /\ UNCHANGED <<users, sources, destinations, tokens, nextId>>
  BY DEF Edit
<1>4. ASSUME NEW r \in Routes
      PROVE  /\ Edited(r) \in Routes /\ Edited(r).id = r.id
             /\ Edited(r).source = r.source /\ Edited(r).destination = r.destination
  <2>1. j.field \in {"enabled", "filter", "code"} /\ j.value \in BOOLEAN
    BY <1>1 DEF EditJobs
  <2> QED
    BY <2>1, <1>4 DEF Routes
<1> HIDE DEF Edited
<1>5. routes \subseteq Routes
  BY DEF WorkInv, Tables
<1>6. routes' \subseteq Routes
  BY <1>3, <1>4, <1>5
<1>7. \A x \in routes' : \E r \in routes :
        x = Edited(r) /\ x.id = r.id /\ x.source = r.source /\ x.destination = r.destination
  BY <1>3, <1>4, <1>5
<1>8. Tables'
  BY <1>3, <1>6 DEF WorkInv, Tables
<1>9. Keyed(routes)'
  <2>1. \A x \in routes' : x.id < nextId'
    BY <1>3, <1>7 DEF WorkInv, Keyed
  <2>2. ASSUME NEW x \in routes', NEW y \in routes', x.id = y.id PROVE x = y
    BY <1>7, <2>2 DEF WorkInv, Keyed
  <2> QED
    BY <2>1, <2>2 DEF Keyed
<1>10. Keyed(sources)' /\ Keyed(destinations)'
  BY <1>3 DEF WorkInv, Keyed
<1>11. Shape
  BY <1>3, <1>7 DEF Shape, WorkInv, Tables
<1>12. OwnersAgree'
  <2>1. \A x \in (sources \cup destinations \cup tokens)' : x.owner \in users'
    BY <1>3 DEF WorkInv, OwnersAgree
  <2>2. \A r \in routes' : \E s \in sources', d \in destinations' :
          r.source = s.id /\ r.destination = d.id /\ s.owner = d.owner
    BY <1>3, <1>7 DEF WorkInv, OwnersAgree
  <2>3. \A r, q \in routes' : Pair(r) = Pair(q) => r = q
    BY <1>7 DEF WorkInv, OwnersAgree, Pair
  <2> QED
    BY <2>1, <2>2, <2>3 DEF OwnersAgree, Pair
<1> QED
  BY <1>2, <1>8, <1>9, <1>10, <1>11, <1>12, WriteStep

\* A write that only takes rows away, and whose routes keep their ends.
LEMMA TakenAway ==
  ASSUME WorkInv, users' \subseteq users, sources' \subseteq sources,
         destinations' \subseteq destinations, routes' \subseteq routes,
         tokens' \subseteq Tokens, nextId' = nextId,
         \A e \in Callers : job'[e] = job[e] \/ job'[e] = Null,
         job' \in [Callers -> Jobs \cup {Null}],
         \A x \in sources' \cup destinations' \cup tokens' : x.owner \in users',
         \A r \in routes' : r.source \in IdsOf(sources') /\ r.destination \in IdsOf(destinations')
  PROVE  WorkInv'
<1>1. Tables'
  BY DEF WorkInv, Tables
<1>2. Keyed(sources)' /\ Keyed(destinations)' /\ Keyed(routes)'
  BY DEF WorkInv, Keyed
<1>3. Shape
  BY DEF Shape, WorkInv, Tables
<1>4. OwnersAgree'
  <2>1. ASSUME NEW r \in routes'
        PROVE  \E s \in sources', d \in destinations' :
                 r.source = s.id /\ r.destination = d.id /\ s.owner = d.owner
    <3>1. PICK s \in sources', d \in destinations' : r.source = s.id /\ r.destination = d.id
      BY DEF IdsOf
    <3>2. PICK t \in sources, x \in destinations :
            r.source = t.id /\ r.destination = x.id /\ t.owner = x.owner
      BY DEF WorkInv, OwnersAgree
    <3>3. s = t /\ d = x
      BY <3>1, <3>2 DEF WorkInv, Keyed
    <3> QED
      BY <3>1, <3>2, <3>3
  <2>2. \A r, q \in routes' : Pair(r) = Pair(q) => r = q
    BY DEF WorkInv, OwnersAgree
  <2> QED
    BY <2>1, <2>2 DEF OwnersAgree, Pair
<1> QED
  BY <1>1, <1>2, <1>3, <1>4, WriteStep

\* The ends of the routes there are.
LEMMA EndsExist ==
  ASSUME WorkInv
  PROVE  /\ \A r \in routes : r.source \in IdsOf(sources) /\ r.destination \in IdsOf(destinations)
         /\ \A x \in sources \cup destinations \cup tokens : x.owner \in users
         /\ tokens \subseteq Tokens
  BY DEF WorkInv, OwnersAgree, IdsOf, Tables

LEMMA DeleteRouteKeeps ==
  ASSUME WorkInv, NEW c \in Callers, DeleteRoute(c)
  PROVE  WorkInv'
<1>1. job' \in [Callers -> Jobs \cup {Null}] /\ \A e \in Callers : job'[e] = job[e] \/ job'[e] = Null
  BY DEF WorkInv, DeleteRoute, End
<1>2. /\ routes' \subseteq routes
      /\ UNCHANGED <<users, sources, destinations, tokens, nextId>>
  BY DEF DeleteRoute
<1>3. \A x \in sources' \cup destinations' \cup tokens' : x.owner \in users'
  BY <1>2, EndsExist
<1>4. \A r \in routes' : r.source \in IdsOf(sources') /\ r.destination \in IdsOf(destinations')
  BY <1>2, EndsExist
<1>5. tokens' \subseteq Tokens
  BY <1>2, EndsExist
<1> QED
  BY <1>1, <1>2, <1>3, <1>4, <1>5, TakenAway

LEMMA DropKeeps ==
  ASSUME WorkInv, NEW us, NEW ss, NEW ds, Drop(us, ss, ds)
  PROVE  WorkInv'
<1>1. job' \in [Callers -> Jobs \cup {Null}] /\ \A e \in Callers : job'[e] = job[e] \/ job'[e] = Null
  BY DEF WorkInv, Drop
<1>2. /\ users' \subseteq users /\ sources' \subseteq sources /\ destinations' \subseteq destinations
      /\ routes' \subseteq routes /\ tokens' \subseteq tokens /\ nextId' = nextId
  BY DEF Drop
<1>3. \A x \in sources' \cup destinations' \cup tokens' : x.owner \in users'
  BY EndsExist DEF Drop
<1>4. \A r \in routes' : r.source \in IdsOf(sources') /\ r.destination \in IdsOf(destinations')
  BY DEF Drop
<1>5. tokens' \subseteq Tokens
  BY <1>2, EndsExist
<1> QED
  BY <1>1, <1>2, <1>3, <1>4, <1>5, TakenAway

LEMMA RevokeKeeps ==
  ASSUME WorkInv, NEW k \in tokens, RevokeToken(k)
  PROVE  WorkInv'
<1>1. job' \in [Callers -> Jobs \cup {Null}] /\ \A e \in Callers : job'[e] = job[e] \/ job'[e] = Null
  BY DEF WorkInv, RevokeToken
<1>2. UNCHANGED <<users, sources, destinations, routes, nextId>>
  BY DEF RevokeToken
<1>3. k \in Tokens /\ k.owner \in users
  BY EndsExist
<1>4. PICK x : x = [k EXCEPT !.revoked = TRUE]
  OBVIOUS
<1>5. x \in Tokens /\ x.owner = k.owner
  BY <1>3, <1>4 DEF Tokens
<1>6. tokens' = (tokens \ {k}) \cup {x}
  BY <1>4 DEF RevokeToken
<1>7. tokens' \subseteq Tokens
  BY <1>5, <1>6, EndsExist
<1>8. \A y \in sources' \cup destinations' \cup tokens' : y.owner \in users'
  BY <1>2, <1>3, <1>5, <1>6, EndsExist
<1>9. \A r \in routes' : r.source \in IdsOf(sources') /\ r.destination \in IdsOf(destinations')
  BY <1>2, EndsExist
<1> QED
  BY <1>1, <1>2, <1>7, <1>8, <1>9, TakenAway

LEMMA IdleKeeps ==
  ASSUME WorkInv, UNCHANGED tables, job' \in [Callers -> Jobs \cup {Null}],
         \A e \in Callers : job'[e] = job[e] \/ job'[e] = Null
  PROVE  WorkInv'
<1>1. UNCHANGED <<users, sources, destinations, routes, tokens, nextId>>
  BY DEF tables
<1>2. \A x \in sources' \cup destinations' \cup tokens' : x.owner \in users'
  BY <1>1, EndsExist
<1>3. \A r \in routes' : r.source \in IdsOf(sources') /\ r.destination \in IdsOf(destinations')
  BY <1>1, EndsExist
<1>4. tokens' \subseteq Tokens
  BY <1>1, EndsExist
<1> QED
  BY <1>1, <1>2, <1>3, <1>4, TakenAway

LEMMA WorkStep == WorkInv /\ [WorkNext]_workVars => WorkInv'
<1> SUFFICES ASSUME WorkInv, [WorkNext]_workVars PROVE WorkInv'
  OBVIOUS
<1>1. ASSUME NEW c \in Callers, NEW u \in Users, Begin(c, u) PROVE WorkInv'
  BY <1>1, BeginKeeps
<1>2. ASSUME NEW c \in Callers, Finish(c) PROVE WorkInv'
  BY <1>2, CreateKeeps, UpdateSourceKeeps, CreateRouteKeeps, AttachKeeps, EditKeeps, DeleteRouteKeeps
     DEF Finish
<1>3. ASSUME NEW c \in Callers, CutOff(c) PROVE WorkInv'
  <2>1. UNCHANGED tables /\ job' = [job EXCEPT ![c] = Null]
    BY <1>3 DEF CutOff, End
  <2> QED
    BY <2>1, IdleKeeps DEF WorkInv
<1>4. ASSUME NEW s \in sources, DeleteSource(s) PROVE WorkInv'
  BY <1>4, DropKeeps DEF DeleteSource
<1>5. ASSUME NEW d \in destinations, DeleteDestination(d) PROVE WorkInv'
  BY <1>5, DropKeeps DEF DeleteDestination
<1>6. ASSUME NEW u \in users, DeleteAccount(u) PROVE WorkInv'
  BY <1>6, DropKeeps DEF DeleteAccount
<1>7. ASSUME NEW k \in tokens, RevokeToken(k) PROVE WorkInv'
  BY <1>7, RevokeKeeps
<1>8. ASSUME UNCHANGED workVars PROVE WorkInv'
  BY <1>8, IdleKeeps DEF workVars, WorkInv
<1> QED
  BY <1>1, <1>2, <1>3, <1>4, <1>5, <1>6, <1>7, <1>8 DEF WorkNext

\* The invariant of the configuration holds in every behaviour.
THEOREM WorkInvariant == WorkSpec => []WorkInv
<1>1. WorkInit => WorkInv
  BY InitWork
<1>2. WorkInv /\ [WorkNext]_workVars => WorkInv'
  BY WorkStep
<1> QED
  BY <1>1, <1>2, PTL DEF WorkSpec

\* Whatever is deleted between a request's check and its write, every row keeps
\* an owner that exists and a route joins two rows of one account, once.
THEOREM RowsAgreeAboutOwners == WorkSpec => []OwnersAgree
<1>1. WorkInv => OwnersAgree
  BY DEF WorkInv
<1> QED
  BY <1>1, WorkInvariant, PTL

-----------------------------------------------------------------------------
(* A late write reaches rows of its own account only.                       *)

RouteRows(u) == {r \in routes : \E s \in SourcesOf(u) : s.id = r.source}
TokenRows(u) == {k \in tokens : k.owner = u}

LEMMA CreateIsOwn ==
  ASSUME WorkInv, NEW c \in Callers, Create(c), NEW u \in Users \ {job[c].user}
  PROVE  Rows(u)' = Rows(u)
<1> DEFINE j == job[c]
<1>1. CASE j.user \notin users
  <2>1. UNCHANGED tables
    BY <1>1 DEF Create
  <2> QED
    BY <2>1 DEF Rows, SourcesOf, DestinationsOf, tables
<1>2. CASE j.user \in users
  <2> DEFINE s == [id |-> nextId, owner |-> j.user, style |-> j.style, secret |-> j.style # Null]
             d == [id |-> nextId, owner |-> j.user]
             k == [id |-> nextId, owner |-> j.user, revoked |-> FALSE]
  <2>1. /\ sources' = sources \/ sources' = sources \cup {s}
        /\ destinations' = destinations \/ destinations' = destinations \cup {d}
        /\ tokens' = tokens \/ tokens' = tokens \cup {k}
        /\ routes' = routes
    BY <1>2 DEF Create
  <2>2. s.owner # u /\ d.owner # u /\ k.owner # u
    OBVIOUS
  <2> HIDE DEF s, d, k
  <2>3. SourcesOf(u)' = SourcesOf(u)
    BY <2>1, <2>2 DEF SourcesOf
  <2>4. DestinationsOf(u)' = DestinationsOf(u)
    BY <2>1, <2>2 DEF DestinationsOf
  <2>5. TokenRows(u)' = TokenRows(u)
    BY <2>1, <2>2 DEF TokenRows
  <2>6. RouteRows(u)' = RouteRows(u)
    BY <2>1, <2>3 DEF RouteRows
  <2> QED
    BY <2>3, <2>4, <2>5, <2>6 DEF Rows, TokenRows, RouteRows
<1> QED
  BY <1>1, <1>2

LEMMA UpdateSourceIsOwn ==
  ASSUME WorkInv, NEW c \in Callers, UpdateSource(c), NEW u \in Users \ {job[c].user}
  PROVE  Rows(u)' = Rows(u)
<1> DEFINE j == job[c]
           Updated(s) == IF s.id = j.id
                         THEN [s EXCEPT !.style = j.style, !.secret = IF j.writesSecret THEN j.secret ELSE @]
                         ELSE s
<1>1. j \in UpdateJobs /\ OwnedBy(sources, j.id, j.user)
  BY JobKinds DEF WorkInv, UpdateSource, Statement, Holding
<1>2. sources' = {Updated(s) : s \in sources} /\ UNCHANGED <<destinations, routes, tokens>>
  BY DEF UpdateSource
<1>3. ASSUME NEW s \in sources PROVE Updated(s).owner = s.owner
  BY <1>1, <1>3 DEF Sources, UpdateJobs, WorkInv, Tables
<1>4. ASSUME NEW s \in sources, s.owner = u PROVE Updated(s) = s
  BY <1>1, <1>4 DEF OwnedBy
<1> HIDE DEF Updated
<1>5. SourcesOf(u)' = SourcesOf(u)
  BY <1>2, <1>3, <1>4 DEF SourcesOf
<1>6. RouteRows(u)' = RouteRows(u)
  BY <1>2, <1>5 DEF RouteRows
<1> QED
  BY <1>2, <1>5, <1>6 DEF Rows, DestinationsOf, RouteRows

LEMMA CreateRouteIsOwn ==
  ASSUME WorkInv, NEW c \in Callers, CreateRoute(c), NEW u \in Users \ {job[c].user}
  PROVE  Rows(u)' = Rows(u)
<1> DEFINE j == job[c]
           new == [id |-> nextId, source |-> j.source, destination |-> j.destination,
                   enabled |-> j.enabled, filter |-> FALSE, code |-> FALSE]
<1>1. j \in RouteJobs /\ OwnedBy(sources, j.source, j.user)
  BY JobKinds DEF WorkInv, CreateRoute, Statement, Holding
<1>2. /\ routes' = routes \/ routes' = routes \cup {new}
      /\ UNCHANGED <<sources, destinations, tokens>>
  BY DEF CreateRoute
<1>3. new.source = j.source
  OBVIOUS
<1> HIDE DEF new
<1>4. SourcesOf(u)' = SourcesOf(u)
  BY <1>2 DEF SourcesOf
<1>5. \A s \in SourcesOf(u) : s.id # new.source
  BY <1>1, <1>3 DEF SourcesOf, OwnedBy
<1>6. RouteRows(u)' = RouteRows(u)
  BY <1>2, <1>4, <1>5 DEF RouteRows
<1> QED
  BY <1>2, <1>4, <1>6 DEF Rows, DestinationsOf, RouteRows

LEMMA EditIsOwn ==
  ASSUME WorkInv, NEW c \in Callers, Edit(c), NEW u \in Users \ {job[c].user}
  PROVE  Rows(u)' = Rows(u)
<1> DEFINE j == job[c]
           Edited(r) == IF r.id = j.id THEN [r EXCEPT ![j.field] = j.value] ELSE r
<1>1. j \in EditJobs /\ RouteOwnedBy(j.id, j.user)
  BY JobKinds DEF WorkInv, Edit, Statement, Holding
<1>2. routes' = {Edited(r) : r \in routes} /\ UNCHANGED <<sources, destinations, tokens>>
  BY DEF Edit
<1>3. ASSUME NEW r \in routes PROVE Edited(r).source = r.source
  <2>1. j.field \in {"enabled", "filter", "code"} /\ r \in Routes
    BY <1>1, <1>3 DEF EditJobs, WorkInv, Tables
  <2> QED
    BY <2>1 DEF Routes
<1>4. ASSUME NEW r \in RouteRows(u) PROVE Edited(r) = r
  BY <1>1, <1>4 DEF RouteOwnedBy, RouteRows, SourcesOf
<1> HIDE DEF Edited
<1>5. SourcesOf(u)' = SourcesOf(u)
  BY <1>2 DEF SourcesOf
<1>6. RouteRows(u)' = RouteRows(u)
  <2>1. ASSUME NEW x \in RouteRows(u)' PROVE x \in RouteRows(u)
    <3>1. PICK r \in routes : x = Edited(r) /\ \E s \in SourcesOf(u) : s.id = x.source
      BY <1>2, <1>5, <2>1 DEF RouteRows
    <3>2. r \in RouteRows(u)
      BY <1>3, <3>1 DEF RouteRows
    <3> QED
      BY <1>4, <3>1, <3>2
  <2>2. ASSUME NEW x \in RouteRows(u) PROVE x \in RouteRows(u)'
    <3>1. x = Edited(x) /\ x \in routes /\ \E s \in SourcesOf(u) : s.id = x.source
      BY <1>4, <2>2 DEF RouteRows
    <3>2. x \in routes'
      BY <1>2, <3>1
    <3> QED
      BY <1>5, <3>1, <3>2 DEF RouteRows
  <2> QED
    BY <2>1, <2>2
<1> QED
  BY <1>2, <1>5, <1>6 DEF Rows, DestinationsOf, RouteRows

LEMMA DeleteRouteIsOwn ==
  ASSUME WorkInv, NEW c \in Callers, DeleteRoute(c), NEW u \in Users \ {job[c].user}
  PROVE  Rows(u)' = Rows(u)
<1>1. job[c] \in DeleteJobs /\ RouteOwnedBy(job[c].id, job[c].user)
  BY JobKinds DEF WorkInv, DeleteRoute, Statement, Holding
<1>2. routes' = {r \in routes : r.id # job[c].id} /\ UNCHANGED <<sources, destinations, tokens>>
  BY DEF DeleteRoute
<1>3. SourcesOf(u)' = SourcesOf(u)
  BY <1>2 DEF SourcesOf
<1>4. \A r \in RouteRows(u) : r.id # job[c].id
  BY <1>1 DEF RouteOwnedBy, RouteRows, SourcesOf
<1>5. RouteRows(u)' = RouteRows(u)
  BY <1>2, <1>3, <1>4 DEF RouteRows
<1> QED
  BY <1>2, <1>3, <1>5 DEF Rows, DestinationsOf, RouteRows

LEMMA OwnStep ==
  ASSUME WorkInv, [WorkNext]_workVars, NEW c \in Callers, job[c] # Null, job'[c] # job[c],
         NEW u \in Users \ {job[c].user}
  PROVE  Rows(u)' = Rows(u)
<1>1. ~UNCHANGED job
  OBVIOUS
<1>2. \A e \in Callers : \A x : job' = [job EXCEPT ![e] = x] => e = c
  BY DEF WorkInv
<1>3. ASSUME NEW e \in Callers, NEW v \in Users, Begin(e, v) PROVE FALSE
  <2>1. job[e] = Null /\ \E x : job' = [job EXCEPT ![e] = x]
    BY <1>3 DEF Begin, StartsSource, StartsDestination, StartsToken, StartsRoute, StartCreate, StartUpdateSource, StartToggle, StartCreateRoute,
       StartDeleteRoute, StartEdit, Check
  <2> QED
    BY <1>2, <2>1
<1>4. ASSUME NEW e \in Callers, Finish(e) \/ CutOff(e) PROVE e = c
  <2>1. \E x : job' = [job EXCEPT ![e] = x]
    BY <1>4 DEF Finish, CutOff, Create, UpdateSource, CreateRoute, Attach, Edit, DeleteRoute, End
  <2> QED
    BY <1>2, <2>1
<1>5. CASE Finish(c)
  <2>1. CASE Attach(c)
    BY <2>1 DEF Attach, tables, Rows, SourcesOf, DestinationsOf
  <2> QED
    BY <1>5, <2>1, CreateIsOwn, UpdateSourceIsOwn, CreateRouteIsOwn, EditIsOwn, DeleteRouteIsOwn
       DEF Finish
<1>6. CASE CutOff(c)
  BY <1>6 DEF CutOff, tables, Rows, SourcesOf, DestinationsOf
<1>7. ~\E s \in sources : DeleteSource(s)
  BY <1>1 DEF DeleteSource, Drop
<1>8. ~\E d \in destinations : DeleteDestination(d)
  BY <1>1 DEF DeleteDestination, Drop
<1>9. ~\E v \in users : DeleteAccount(v)
  BY <1>1 DEF DeleteAccount, Drop
<1>10. ~\E k \in tokens : RevokeToken(k)
  BY <1>1 DEF RevokeToken
<1>11. ~UNCHANGED workVars
  BY <1>1 DEF workVars
<1> QED
  BY <1>3, <1>4, <1>5, <1>6, <1>7, <1>8, <1>9, <1>10, <1>11 DEF WorkNext

\* The write of a request, however late it comes and whatever was deleted and
\* created meanwhile, changes rows of the account it was checked for only.
THEOREM WritesStayHome == WorkSpec => OnlyOwnRows
<1> DEFINE Own == \A c \in Callers : job[c] # Null /\ job'[c] # job[c] =>
                    \A u \in Users \ {job[c].user} : Rows(u)' = Rows(u)
<1>1. WorkInv /\ [WorkNext]_workVars => [Own]_workVars
  BY OwnStep
<1>2. WorkSpec => [][Own]_workVars
  BY <1>1, WorkInvariant, PTL DEF WorkSpec
<1> QED
  BY <1>2 DEF OnlyOwnRows

-----------------------------------------------------------------------------
(* The quota. A request that passed the check and has not yet written counts *)
(* as the row it will make: checks are made against the rows alone, so what  *)
(* requests can overrun is what all but the last of them may be about to add.*)

Kinds == {"source", "destination", "token"}

\* The rows the quota of table t counts, and the requests about to add one.
Counted(u, t) ==
  IF t = "source" THEN SourcesOf(u) ELSE IF t = "destination" THEN DestinationsOf(u)
  ELSE {k \in tokens : k.owner = u /\ ~k.revoked}

Creating(u, t) ==
  {c \in Callers : job[c] # Null /\ job[c].op = "create" /\ job[c].user = u /\ job[c].table = t}

QuotaInv ==
  \A u \in Users, t \in Kinds :
    /\ IsFiniteSet(Counted(u, t))
    /\ Cardinality(Counted(u, t)) + Cardinality(Creating(u, t)) < Limit[t] + Cardinality(Callers)

LEMMA CountIsOfCounted ==
  ASSUME NEW u, NEW t \in Kinds
  PROVE  Count(u, t) = Cardinality(Counted(u, t))
<1>1. CASE t = "source"
  BY <1>1 DEF Count, Counted
<1>2. CASE t = "destination"
  BY <1>2 DEF Count, Counted
<1>3. CASE t = "token"
  BY <1>3 DEF Count, Counted
<1> QED
  BY <1>1, <1>2, <1>3 DEF Kinds

LEMMA CreatingIsFinite ==
  ASSUME NEW u, NEW t
  PROVE  /\ IsFiniteSet(Creating(u, t)) /\ Cardinality(Creating(u, t)) \in Nat
         /\ Cardinality(Creating(u, t)) <= Cardinality(Callers) /\ Cardinality(Callers) \in Nat
<1>1. Creating(u, t) \subseteq Callers /\ IsFiniteSet(Callers)
  BY WorkspaceAssumption DEF Creating
<1> QED
  BY <1>1, FS_Subset, FS_CardinalityType

\* A step that adds no row and starts no creation keeps the quota's bound.
LEMMA NothingAdded ==
  ASSUME QuotaInv, NEW u \in Users, NEW t \in Kinds,
         IsFiniteSet(Counted(u, t)'), Cardinality(Counted(u, t)') <= Cardinality(Counted(u, t)),
         Creating(u, t)' \subseteq Creating(u, t)
  PROVE  Cardinality(Counted(u, t)') + Cardinality(Creating(u, t)') < Limit[t] + Cardinality(Callers)
<1>1. IsFiniteSet(Creating(u, t)) /\ Cardinality(Creating(u, t)) \in Nat /\ Cardinality(Callers) \in Nat
  BY CreatingIsFinite
<1>2. Cardinality(Creating(u, t)') <= Cardinality(Creating(u, t)) /\ Cardinality(Creating(u, t)') \in Nat
  BY <1>1, FS_Subset, FS_CardinalityType
<1>3. Cardinality(Counted(u, t)') \in Nat /\ Cardinality(Counted(u, t)) \in Nat /\ Limit[t] \in Nat
  BY FS_CardinalityType, WorkspaceAssumption DEF QuotaInv, Kinds
<1>4. Cardinality(Counted(u, t)) + Cardinality(Creating(u, t)) < Limit[t] + Cardinality(Callers)
  BY DEF QuotaInv
<1> QED
  BY <1>1, <1>2, <1>3, <1>4

LEMMA SubsetAddsNothing ==
  ASSUME QuotaInv, NEW u \in Users, NEW t \in Kinds, NEW S, S \subseteq Counted(u, t)
  PROVE  IsFiniteSet(S) /\ Cardinality(S) <= Cardinality(Counted(u, t))
  BY FS_Subset DEF QuotaInv

\* A request that starts notes a creation only after it saw the quota hold.
Notes(c, u) ==
  /\ UNCHANGED tables /\ job[c] = Null
  /\ \E j : /\ job' = [job EXCEPT ![c] = j]
            /\ j.op = "create" => j.user = u /\ WithinQuota(u, j.table)

LEMMA NotesOther ==
  ASSUME NEW c, NEW u, NEW j, Check(c, j), j.op # "create"
  PROVE  Notes(c, u)
  BY DEF Notes, Check

LEMMA BeginSeesQuota ==
  ASSUME NEW c \in Callers, NEW u \in Users, Begin(c, u)
  PROVE  Notes(c, u)
<1>1. ASSUME NEW t, NEW style, StartCreate(c, u, t, style)
      PROVE  Notes(c, u)
  <2> DEFINE j == [op |-> "create", user |-> u, table |-> t, style |-> style]
  <2>1. WithinQuota(u, t) /\ Check(c, j)
    BY <1>1 DEF StartCreate
  <2>2. j.user = u /\ j.table = t
    OBVIOUS
  <2> HIDE DEF j
  <2> QED
    BY <2>1, <2>2 DEF Check, Notes
<1>2. ASSUME NEW s, NEW style, NEW secret, StartUpdateSource(c, u, s, style, secret)
      PROVE  Notes(c, u)
  <2>1. \E j : Check(c, j) /\ j.op # "create"
    <3> DEFINE j == [op |-> "updateSource", user |-> u, id |-> s.id,
                     style |-> IF style = None THEN Null ELSE style,
                     writesSecret |-> style = None \/ secret, secret |-> style # None]
    <3>1. j.op # "create"
      OBVIOUS
    <3>2. Check(c, j)
      BY <1>2 DEF StartUpdateSource
    <3> HIDE DEF j
    <3> QED
      BY <3>1, <3>2
  <2> QED
    BY <2>1, NotesOther
<1>3. ASSUME NEW a, NEW b, NEW e, NEW f
      PROVE  Check(c, [op |-> "createRoute", user |-> u, source |-> a, destination |-> b,
                       enabled |-> e, filtered |-> f]) => Notes(c, u)
  BY NotesOther
<1>4. ASSUME NEW i, NEW f, NEW v
      PROVE  Check(c, [op |-> "edit", user |-> u, id |-> i, field |-> f, value |-> v]) => Notes(c, u)
  BY NotesOther
<1>5. ASSUME NEW i PROVE Check(c, [op |-> "deleteRoute", user |-> u, id |-> i]) => Notes(c, u)
  BY NotesOther
<1> HIDE DEF Notes
<1>6. ASSUME NEW s, NEW d, StartToggle(c, u, s, d) PROVE Notes(c, u)
  BY <1>6, <1>3, <1>4 DEF StartToggle
<1>7. ASSUME NEW s, NEW d, NEW filtered, StartCreateRoute(c, u, s, d, filtered) PROVE Notes(c, u)
  BY <1>7, <1>3 DEF StartCreateRoute
<1>8. ASSUME NEW r, NEW field, NEW value, StartEdit(c, u, r, field, value) PROVE Notes(c, u)
  BY <1>8, <1>4 DEF StartEdit
<1>9. ASSUME NEW r, StartDeleteRoute(c, u, r) PROVE Notes(c, u)
  BY <1>9, <1>5 DEF StartDeleteRoute
<1> QED
  BY <1>1, <1>2, <1>6, <1>7, <1>8, <1>9
  DEF Begin, StartsSource, StartsDestination, StartsToken, StartsRoute

LEMMA BeginKeepsQuota ==
  ASSUME WorkInv, QuotaInv, NEW c \in Callers, NEW b \in Users, Begin(c, b)
  PROVE  QuotaInv'
<1>n. Notes(c, b)
  BY BeginSeesQuota
<1>1. PICK j : /\ job' = [job EXCEPT ![c] = j]
               /\ j.op = "create" => j.user = b /\ WithinQuota(b, j.table)
  BY <1>n DEF Notes
<1>2. job[c] = Null /\ job \in [Callers -> Jobs \cup {Null}]
  BY <1>n DEF Notes, WorkInv
<1> SUFFICES ASSUME NEW u \in Users, NEW t \in Kinds
             PROVE  /\ IsFiniteSet(Counted(u, t)')
                    /\ Cardinality(Counted(u, t)') + Cardinality(Creating(u, t)')
                         < Limit[t] + Cardinality(Callers)
  BY DEF QuotaInv
<1>3. Counted(u, t)' = Counted(u, t)
  BY <1>n DEF Notes, tables, Counted, SourcesOf, DestinationsOf
<1>4. IsFiniteSet(Counted(u, t)) /\ Cardinality(Counted(u, t)) \in Nat /\ Limit[t] \in Nat
  BY FS_CardinalityType, WorkspaceAssumption DEF QuotaInv, Kinds
<1>5. CASE j.op = "create" /\ j.user = u /\ j.table = t
  <2>1. Cardinality(Counted(u, t)) < Limit[t]
    BY <1>1, <1>5, CountIsOfCounted DEF WithinQuota
  <2>2. Creating(u, t)' \subseteq Callers /\ IsFiniteSet(Callers)
    BY WorkspaceAssumption DEF Creating
  <2>3. /\ Cardinality(Creating(u, t)') <= Cardinality(Callers)
        /\ Cardinality(Creating(u, t)') \in Nat /\ Cardinality(Callers) \in Nat
    BY <2>2, FS_Subset, FS_CardinalityType
  <2> QED
    BY <1>3, <1>4, <2>1, <2>3
<1>6. CASE ~(j.op = "create" /\ j.user = u /\ j.table = t)
  <2>1. Creating(u, t)' \subseteq Creating(u, t)
    BY <1>1, <1>2, <1>6 DEF Creating
  <2> QED
    BY <1>3, <1>4, <2>1, NothingAdded
<1> QED
  BY <1>5, <1>6

\* The row of a creation takes the place its request held in the count.
LEMMA CreateKeepsQuota ==
  ASSUME WorkInv, QuotaInv, NEW c \in Callers, Create(c)
  PROVE  QuotaInv'
<1> DEFINE j == job[c]
<1>1. /\ job[c] # Null /\ job[c].op = "create" /\ job' = [job EXCEPT ![c] = Null]
      /\ job \in [Callers -> Jobs \cup {Null}]
  BY DEF Create, Statement, End, WorkInv
<1>2. job[c] \in CreateJobs
  BY <1>1, JobKinds
<1> SUFFICES ASSUME NEW u \in Users, NEW t \in Kinds
             PROVE  /\ IsFiniteSet(Counted(u, t)')
                    /\ Cardinality(Counted(u, t)') + Cardinality(Creating(u, t)')
                         < Limit[t] + Cardinality(Callers)
  BY DEF QuotaInv
<1>3. Creating(u, t)' \subseteq Creating(u, t)
  BY <1>1 DEF Creating
<1>4. CASE Counted(u, t)' = Counted(u, t)
  BY <1>3, <1>4, NothingAdded, SubsetAddsNothing
<1>5. CASE j.user = u /\ j.table = t /\ \E row : Counted(u, t)' = Counted(u, t) \cup {row}
  <2>1. PICK row : Counted(u, t)' = Counted(u, t) \cup {row}
    BY <1>5
  <2>2. IsFiniteSet(Counted(u, t)) /\ IsFiniteSet(Creating(u, t)) /\ c \in Creating(u, t)
    <3>1. IsFiniteSet(Counted(u, t)) /\ IsFiniteSet(Creating(u, t))
      BY CreatingIsFinite DEF QuotaInv
    <3>2. c \in Creating(u, t)
      BY <1>1, <1>5 DEF Creating
    <3> QED
      BY <3>1, <3>2
  <2>3. /\ IsFiniteSet(Counted(u, t)') /\ Cardinality(Counted(u, t)') <= Cardinality(Counted(u, t)) + 1
        /\ Cardinality(Counted(u, t)') \in Nat /\ Cardinality(Counted(u, t)) \in Nat
    <3> DEFINE S == Counted(u, t)
    <3>1. IsFiniteSet(S)
      BY <2>2
    <3> HIDE DEF S
    <3>2. /\ IsFiniteSet(S \cup {row}) /\ Cardinality(S) \in Nat
          /\ Cardinality(S \cup {row}) = IF row \in S THEN Cardinality(S) ELSE Cardinality(S) + 1
      BY <3>1, FS_AddElement, FS_CardinalityType
    <3> QED
      BY <2>1, <3>2 DEF S
  <2>4. Creating(u, t)' = Creating(u, t) \ {c}
    BY <1>1 DEF Creating
  <2>5. /\ Cardinality(Creating(u, t)') = Cardinality(Creating(u, t)) - 1
        /\ Cardinality(Creating(u, t)) \in Nat
    BY <2>2, <2>4, FS_RemoveElement, FS_CardinalityType
  <2>6. Cardinality(Counted(u, t)) + Cardinality(Creating(u, t)) < Limit[t] + Cardinality(Callers)
    BY DEF QuotaInv
  <2>7. Limit[t] \in Nat /\ Cardinality(Callers) \in Nat
    BY WorkspaceAssumption, CreatingIsFinite DEF Kinds
  <2> QED
    BY <2>3, <2>5, <2>6, <2>7
<1>6. \/ Counted(u, t)' = Counted(u, t)
      \/ j.user = u /\ j.table = t /\ \E row : Counted(u, t)' = Counted(u, t) \cup {row}
  <2>1. CASE UNCHANGED tables
    BY <2>1 DEF tables, Counted, SourcesOf, DestinationsOf
  <2>2. CASE j.table = "source" /\ UNCHANGED <<destinations, tokens>>
             /\ sources' = sources \cup {[id |-> nextId, owner |-> j.user, style |-> j.style,
                                          secret |-> j.style # Null]}
    <3> DEFINE row == [id |-> nextId, owner |-> j.user, style |-> j.style, secret |-> j.style # Null]
    <3>0. row.owner = j.user
      OBVIOUS
    <3>1. CASE t = "source"
      <4>1. sources' = sources \cup {row}
        BY <2>2
      <4> HIDE DEF row
      <4> QED
        BY <2>2, <3>0, <3>1, <4>1 DEF Counted, SourcesOf
    <3>2. CASE t # "source"
      BY <2>2, <3>2 DEF Counted, DestinationsOf
    <3> QED
      BY <3>1, <3>2
  <2>3. CASE j.table = "destination" /\ UNCHANGED <<sources, tokens>>
             /\ destinations' = destinations \cup {[id |-> nextId, owner |-> j.user]}
    <3> DEFINE row == [id |-> nextId, owner |-> j.user]
    <3>0. row.owner = j.user
      OBVIOUS
    <3>1. CASE t = "destination"
      <4>1. destinations' = destinations \cup {row}
        BY <2>3
      <4> HIDE DEF row
      <4> QED
        BY <2>3, <3>0, <3>1, <4>1 DEF Counted, DestinationsOf
    <3>2. CASE t # "destination"
      BY <2>3, <3>2 DEF Counted, SourcesOf
    <3> QED
      BY <3>1, <3>2
  <2>4. CASE j.table = "token" /\ UNCHANGED <<sources, destinations>>
             /\ tokens' = tokens \cup {[id |-> nextId, owner |-> j.user, revoked |-> FALSE]}
    <3> DEFINE row == [id |-> nextId, owner |-> j.user, revoked |-> FALSE]
    <3>0. row.owner = j.user /\ ~row.revoked
      OBVIOUS
    <3>1. CASE t = "token"
      <4>1. tokens' = tokens \cup {row}
        BY <2>4
      <4> HIDE DEF row
      <4> QED
        BY <2>4, <3>0, <3>1, <4>1 DEF Counted
    <3>2. CASE t # "token"
      BY <2>4, <3>2 DEF Counted, SourcesOf, DestinationsOf, Kinds
    <3> QED
      BY <3>1, <3>2
  <2> QED
    BY <1>2, <2>1, <2>2, <2>3, <2>4 DEF Create, CreateJobs
<1> QED
  BY <1>4, <1>5, <1>6

\* A step that takes counted rows away, if any, and notes no creation.
LEMMA FewerKeepQuota ==
  ASSUME QuotaInv,
         \A u \in Users, t \in Kinds : /\ Counted(u, t)' \subseteq Counted(u, t)
                                       /\ Creating(u, t)' \subseteq Creating(u, t)
  PROVE  QuotaInv'
<1> SUFFICES ASSUME NEW u \in Users, NEW t \in Kinds
             PROVE  /\ IsFiniteSet(Counted(u, t)')
                    /\ Cardinality(Counted(u, t)') + Cardinality(Creating(u, t)')
                         < Limit[t] + Cardinality(Callers)
  BY DEF QuotaInv
<1>1. IsFiniteSet(Counted(u, t)') /\ Cardinality(Counted(u, t)') <= Cardinality(Counted(u, t))
  BY SubsetAddsNothing
<1> QED
  BY <1>1, NothingAdded

\* The job that replaces another is no creation.
LEMMA JobOverOrOther ==
  ASSUME WorkInv, NEW c \in Callers, NEW j, job' = [job EXCEPT ![c] = j],
         j = Null \/ j.op # "create", NEW u, NEW t
  PROVE  Creating(u, t)' \subseteq Creating(u, t)
  BY DEF Creating, WorkInv

\* An update rewrites rows in place: the owner's rows are no more than before.
LEMMA UpdateKeepsQuota ==
  ASSUME WorkInv, QuotaInv, NEW c \in Callers, UpdateSource(c)
  PROVE  QuotaInv'
<1>j. \A u, t : Creating(u, t)' \subseteq Creating(u, t)
  BY JobOverOrOther DEF UpdateSource, End
<1> SUFFICES ASSUME NEW u \in Users, NEW t \in Kinds
             PROVE  /\ IsFiniteSet(Counted(u, t)')
                    /\ Cardinality(Counted(u, t)') + Cardinality(Creating(u, t)')
                         < Limit[t] + Cardinality(Callers)
  BY DEF QuotaInv
<1>1. CASE t # "source"
  <2>1. Counted(u, t)' = Counted(u, t)
    BY <1>1 DEF UpdateSource, Counted, DestinationsOf
  <2>2. IsFiniteSet(Counted(u, t)') /\ Cardinality(Counted(u, t)') <= Cardinality(Counted(u, t))
    BY <2>1, SubsetAddsNothing
  <2> QED
    BY <2>2, <1>j, NothingAdded
<1>2. CASE t = "source"
  <2> DEFINE S == SourcesOf(u)
             new == [s \in S |-> IF s.id = job[c].id
                                 THEN [s EXCEPT !.style = job[c].style,
                                                !.secret = IF job[c].writesSecret THEN job[c].secret ELSE @]
                                 ELSE s]
             T == {new[s] : s \in S}
  <2>1. Counted(u, t) = S
    BY <1>2 DEF Counted
  <2>2. Counted(u, t)' \subseteq T
    <3>1. SUFFICES ASSUME NEW x \in sources', x.owner = u PROVE x \in T
      BY <1>2 DEF Counted, SourcesOf
    <3>2. PICK s \in sources :
            x = IF s.id = job[c].id
                THEN [s EXCEPT !.style = job[c].style,
                               !.secret = IF job[c].writesSecret THEN job[c].secret ELSE @]
                ELSE s
      BY DEF UpdateSource
    <3>3. s \in Sources
      BY DEF WorkInv, Tables
    <3>4. s.owner = u
      BY <3>1, <3>2, <3>3 DEF Sources
    <3>5. s \in S
      BY <3>4 DEF SourcesOf
    <3> QED
      BY <3>2, <3>5
  <2>3. IsFiniteSet(S) /\ Cardinality(S) \in Nat
    BY <2>1, FS_CardinalityType DEF QuotaInv
  <2> HIDE DEF S
  <2>4. new \in Surjection(S, T)
    BY DEF Surjection
  <2> HIDE DEF new
  <2>5. IsFiniteSet(T) /\ Cardinality(T) <= Cardinality(S)
    BY <2>3, <2>4, FS_Surjection
  <2> HIDE DEF T
  <2>6. IsFiniteSet(Counted(u, t)') /\ Cardinality(Counted(u, t)') <= Cardinality(T)
        /\ Cardinality(Counted(u, t)') \in Nat /\ Cardinality(T) \in Nat
    BY <2>2, <2>5, FS_Subset, FS_CardinalityType
  <2>7. Cardinality(Counted(u, t)') <= Cardinality(Counted(u, t))
    BY <2>1, <2>3, <2>5, <2>6
  <2> QED
    BY <2>6, <2>7, <1>j, NothingAdded
<1> QED
  BY <1>1, <1>2

LEMMA QuotaInvInit == WorkInit => QuotaInv
<1> SUFFICES ASSUME WorkInit, NEW u \in Users, NEW t \in Kinds
             PROVE  /\ IsFiniteSet(Counted(u, t))
                    /\ Cardinality(Counted(u, t)) + Cardinality(Creating(u, t))
                         < Limit[t] + Cardinality(Callers)
  BY DEF QuotaInv
<1>1. Counted(u, t) = {} /\ Creating(u, t) = {}
  BY DEF WorkInit, Counted, Creating, SourcesOf, DestinationsOf
<1>2. IsFiniteSet({}) /\ Cardinality({}) = 0
  BY FS_EmptySet
<1>3. Cardinality(Callers) \in Nat /\ Cardinality(Callers) # 0 /\ Limit[t] \in Nat
  BY FS_EmptySet, FS_CardinalityType, WorkspaceAssumption DEF Kinds
<1> QED
  BY <1>1, <1>2, <1>3

LEMMA QuotaInvStep == WorkInv /\ QuotaInv /\ [WorkNext]_workVars => QuotaInv'
<1> SUFFICES ASSUME WorkInv, QuotaInv, [WorkNext]_workVars PROVE QuotaInv'
  OBVIOUS
<1>1. ASSUME NEW c \in Callers, NEW u \in Users, Begin(c, u) PROVE QuotaInv'
  BY <1>1, BeginKeepsQuota
<1>2. ASSUME NEW c \in Callers, Create(c) PROVE QuotaInv'
  BY <1>2, CreateKeepsQuota
<1>3. ASSUME NEW c \in Callers, UpdateSource(c) PROVE QuotaInv'
  BY <1>3, UpdateKeepsQuota
<1>4. ASSUME NEW c \in Callers, CreateRoute(c) \/ Attach(c) \/ Edit(c) \/ DeleteRoute(c) \/ CutOff(c)
      PROVE  QuotaInv'
  <2>1. \E j : job' = [job EXCEPT ![c] = j] /\ (j = Null \/ j.op # "create")
    <3>1. CASE Edit(c) \/ DeleteRoute(c) \/ CutOff(c)
      BY <3>1 DEF Edit, DeleteRoute, CutOff, End
    <3>2. CASE CreateRoute(c)
      BY <3>2 DEF CreateRoute
    <3>3. CASE Attach(c)
      <4> DEFINE found == {r \in RoutesOf(job[c].user) : r.id = job[c].id}
                 edit == [op |-> "edit", user |-> job[c].user, id |-> job[c].id,
                          field |-> "filter", value |-> TRUE]
      <4>1. job' = [job EXCEPT ![c] = IF found = {} THEN Null ELSE edit]
        BY <3>3 DEF Attach
      <4>2. edit.op # "create"
        OBVIOUS
      <4> HIDE DEF edit, found
      <4> QED
        BY <4>1, <4>2
    <3> QED
      BY <1>4, <3>1, <3>2, <3>3
  <2>2. \A u, t : Creating(u, t)' \subseteq Creating(u, t)
    BY <2>1, JobOverOrOther
  <2>3. UNCHANGED <<sources, destinations, tokens>>
    BY <1>4 DEF CreateRoute, Attach, Edit, DeleteRoute, CutOff, tables
  <2>4. \A u, t : Counted(u, t)' \subseteq Counted(u, t)
    BY <2>3 DEF Counted, SourcesOf, DestinationsOf
  <2> QED
    BY <2>2, <2>4, FewerKeepQuota
<1>5. ASSUME NEW us, NEW ss, NEW ds, Drop(us, ss, ds) PROVE QuotaInv'
  <2>1. UNCHANGED job /\ sources' \subseteq sources /\ destinations' \subseteq destinations
        /\ tokens' \subseteq tokens
    BY <1>5 DEF Drop
  <2>2. \A u, t : Counted(u, t)' \subseteq Counted(u, t) /\ Creating(u, t)' \subseteq Creating(u, t)
    BY <2>1 DEF Counted, SourcesOf, DestinationsOf, Creating
  <2> QED
    BY <2>2, FewerKeepQuota
<1>6. ASSUME NEW k \in tokens, RevokeToken(k) PROVE QuotaInv'
  <2>1. \A x \in tokens' : ~x.revoked => x \in tokens
    <3>1. k \in Tokens
      BY DEF WorkInv, Tables
    <3>2. [k EXCEPT !.revoked = TRUE].revoked
      BY <3>1 DEF Tokens
    <3> QED
      BY <1>6, <3>2 DEF RevokeToken
  <2>2. UNCHANGED <<job, sources, destinations>>
    BY <1>6 DEF RevokeToken
  <2>3. \A u, t : Counted(u, t)' \subseteq Counted(u, t) /\ Creating(u, t)' \subseteq Creating(u, t)
    BY <2>1, <2>2 DEF Counted, SourcesOf, DestinationsOf, Creating
  <2> QED
    BY <2>3, FewerKeepQuota
<1>7. CASE UNCHANGED workVars
  <2>1. \A u, t : Counted(u, t)' \subseteq Counted(u, t) /\ Creating(u, t)' \subseteq Creating(u, t)
    BY <1>7 DEF workVars, tables, Counted, SourcesOf, DestinationsOf, Creating
  <2> QED
    BY <2>1, FewerKeepQuota
<1> QED
  BY <1>1, <1>2, <1>3, <1>4, <1>5, <1>6, <1>7
  DEF WorkNext, Finish, DeleteSource, DeleteDestination, DeleteAccount

\* assertWithinQuota (quota.ts) counts and the insertion follows in another statement:
\* however many requests check together, an account exceeds a quota by less than
\* there are of them.
THEOREM QuotaOverrunIsBounded == WorkSpec => []QuotaNearlyHolds
<1>1. WorkInit => QuotaInv
  BY QuotaInvInit
<1>2. WorkInv /\ QuotaInv /\ [WorkNext]_workVars => QuotaInv'
  BY QuotaInvStep
<1>3. QuotaInv => QuotaNearlyHolds
  <2> SUFFICES ASSUME QuotaInv, NEW u \in Users, NEW t \in Kinds
               PROVE  Count(u, t) <= Limit[t] + Cardinality(Callers) - 1
    BY DEF QuotaNearlyHolds, Kinds
  <2>1. Count(u, t) = Cardinality(Counted(u, t)) /\ Cardinality(Counted(u, t)) \in Nat
    BY CountIsOfCounted, FS_CardinalityType DEF QuotaInv
  <2>2. Cardinality(Counted(u, t)) + Cardinality(Creating(u, t)) < Limit[t] + Cardinality(Callers)
    BY DEF QuotaInv
  <2>3. Cardinality(Creating(u, t)) \in Nat /\ Cardinality(Callers) \in Nat /\ Limit[t] \in Nat
    BY CreatingIsFinite, WorkspaceAssumption DEF Kinds
  <2> QED
    BY <2>1, <2>2, <2>3
<1> QED
  BY <1>1, <1>2, <1>3, WorkInvariant, PTL DEF WorkSpec
=============================================================================
