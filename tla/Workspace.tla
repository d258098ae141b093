------------------------------- MODULE Workspace -------------------------------
(***************************************************************************)
(* The configuration an account owns: sources, destinations, routes        *)
(* between them and API tokens, edited at once from the dashboard (server  *)
(* actions), the REST API and the MCP tools. A request checks ownership,   *)
(* quota and duplicates by reading, and writes in a later statement; the   *)
(* database rechecks only foreign keys, the unique pair of a route and     *)
(* that a row to update still exists. The reads of a request are one step. *)
(***************************************************************************)
EXTENDS Integers, FiniteSets

CONSTANTS
  Users, Callers,
  Limit,          \* quotaLimit, per table
  Styles,         \* verification styles
  MaxRows,        \* bound: rows ever inserted
  Null, None      \* no value; the style "none" of a form

ASSUME WorkspaceAssumption ==
  /\ \A t \in {"source", "destination", "route", "token"} : Limit[t] \in Nat
  /\ MaxRows \in Nat
  /\ Null \notin Styles /\ None \notin Styles
  /\ Callers # {} /\ IsFiniteSet(Callers)

VARIABLES
  users,          \* accounts that exist
  sources,        \* rows [id, owner, style, secret]: secret says there is one
  destinations,   \* rows [id, owner]
  routes,         \* rows [id, source, destination, enabled, filter, code]
  tokens,         \* rows [id, owner, revoked]
  nextId,         \* ids are never used twice
  job             \* of each caller, the checked write it is about to make, or Null

tables == <<users, sources, destinations, routes, tokens, nextId>>
workVars == <<tables, job>>

WorkInit ==
  /\ users = Users /\ sources = {} /\ destinations = {} /\ routes = {} /\ tokens = {}
  /\ nextId = 1
  /\ job = [c \in Callers |-> Null]

-----------------------------------------------------------------------------
(* Reads.                                                                   *)

SourcesOf(u)      == {s \in sources : s.owner = u}
DestinationsOf(u) == {d \in destinations : d.owner = u}

\* Mutant of RoutesOf: any route is found.
RoutesOfAnyone(u) == routes

\* Ownership of a route is that of its source.
RoutesOf(u)       == {r \in routes : \E s \in SourcesOf(u) : s.id = r.source}

\* countFor: live tokens only.
Count(u, t) ==
  CASE t = "source"      -> Cardinality(SourcesOf(u))
    [] t = "destination" -> Cardinality(DestinationsOf(u))
    [] t = "route"       -> Cardinality(RoutesOf(u))
    [] t = "token"       -> Cardinality({k \in tokens : k.owner = u /\ ~k.revoked})

\* Mutant of WithinQuota: the comparison lets one more through.
WithinQuotaByOne(u, t) == Count(u, t) <= Limit[t]

\* assertWithinQuota.
WithinQuota(u, t) == Count(u, t) < Limit[t]

-----------------------------------------------------------------------------
(* Writes.                                                                  *)

End(c) == job' = [job EXCEPT ![c] = Null]

\* The request that passed its checks will make the write j.
Check(c, j) ==
  /\ job[c] = Null
  /\ job' = [job EXCEPT ![c] = j]
  /\ UNCHANGED tables

\* The statement the caller's job makes, if the job is for op; afterwards the
\* request is over. A statement that the database refuses changes nothing.
Statement(c, op) == job[c] # Null /\ job[c].op = op

\* A new id.
Fresh == nextId < MaxRows + 1 /\ nextId' = nextId + 1

\* createSource, createDestination, createTokenForUser. A source is created with
\* no style, or with a style and its secret.
StartCreate(c, u, t, style) ==
  /\ WithinQuota(u, t)
  /\ t # "source" => style = Null
  /\ Check(c, [op |-> "create", user |-> u, table |-> t, style |-> style])

Create(c) ==
  LET j == job[c]
  IN /\ Statement(c, "create") /\ End(c)
     /\ \/ j.user \notin users /\ UNCHANGED tables          \* foreign key
        \/ /\ j.user \in users /\ Fresh
           /\ sources' = IF j.table = "source" THEN sources \cup
                           {[id |-> nextId, owner |-> j.user, style |-> j.style, secret |-> j.style # Null]}
                         ELSE sources
           /\ destinations' = IF j.table = "destination"
                              THEN destinations \cup {[id |-> nextId, owner |-> j.user]} ELSE destinations
           /\ tokens' = IF j.table = "token"
                        THEN tokens \cup {[id |-> nextId, owner |-> j.user, revoked |-> FALSE]} ELSE tokens
           /\ UNCHANGED <<users, routes>>

\* updateSource. The columns to write are chosen from the row read: a style alone
\* is accepted when that row has a secret, and then the secret is not written.
StartUpdateSource(c, u, s, style, secret) ==
  /\ s \in SourcesOf(u)
  /\ style = None \/ secret \/ s.secret
  /\ Check(c, [op |-> "updateSource", user |-> u, id |-> s.id,
               style |-> IF style = None THEN Null ELSE style,
               writesSecret |-> style = None \/ secret, secret |-> style # None])

UpdateSource(c) ==
  LET j == job[c]
  IN /\ Statement(c, "updateSource") /\ End(c)
     /\ sources' = {IF s.id = j.id
                    THEN [s EXCEPT !.style = j.style, !.secret = IF j.writesSecret THEN j.secret ELSE @]
                    ELSE s : s \in sources}
     /\ UNCHANGED <<users, destinations, routes, tokens, nextId>>

Pair(r) == <<r.source, r.destination>>
IdsOf(rows) == {r.id : r \in rows}

\* createRoute (enabled, its default), also as the MCP tool's create_route, which may
\* carry a filter.
StartCreateRoute(c, u, s, d, filtered) ==
  /\ s \in SourcesOf(u) /\ d \in DestinationsOf(u)
  /\ WithinQuota(u, "route")
  /\ \A r \in routes : Pair(r) # <<s.id, d.id>>
  /\ Check(c, [op |-> "createRoute", user |-> u, source |-> s.id, destination |-> d.id,
               enabled |-> TRUE, filtered |-> filtered])

\* toggleRoute: create the route, or write the negation of the flag read. There is
\* no quota on this path.
StartToggle(c, u, s, d) ==
  /\ s \in SourcesOf(u) /\ d \in DestinationsOf(u)
  /\ LET old == {r \in routes : Pair(r) = <<s.id, d.id>>}
     IN IF old = {}
        THEN Check(c, [op |-> "createRoute", user |-> u, source |-> s.id, destination |-> d.id,
                       enabled |-> TRUE, filtered |-> FALSE])
        ELSE \E r \in old : Check(c, [op |-> "edit", user |-> u, id |-> r.id,
                                      field |-> "enabled", value |-> ~r.enabled])

\* Mutant of Insertable: the pair is not unique.
InsertableTwice(j) == j.source \in IdsOf(sources) /\ j.destination \in IdsOf(destinations)

\* Foreign keys and the unique pair.
Insertable(j) ==
  /\ j.source \in IdsOf(sources) /\ j.destination \in IdsOf(destinations)
  /\ \A r \in routes : Pair(r) # <<j.source, j.destination>>

\* A filtered route is created enabled and without its filter: setRouteFilter
\* follows, on the new row's id.
CreateRoute(c) ==
  LET j == job[c]
  IN /\ Statement(c, "createRoute")
     /\ \/ /\ ~Insertable(j) /\ job' = [job EXCEPT ![c] = Null] /\ UNCHANGED <<routes, nextId>>
        \/ /\ Insertable(j) /\ Fresh
           /\ routes' = routes \cup {[id |-> nextId, source |-> j.source, destination |-> j.destination,
                                      enabled |-> j.enabled, filter |-> FALSE, code |-> FALSE]}
           /\ job' = [job EXCEPT ![c] = IF j.filtered THEN [op |-> "attach", user |-> j.user, id |-> nextId]
                                        ELSE Null]
     /\ UNCHANGED <<users, sources, destinations, tokens>>

\* setRouteFilter's own look-up, of the route create_route has just made.
Attach(c) ==
  LET j == job[c]
      found == {r \in RoutesOf(j.user) : r.id = j.id}
  IN /\ Statement(c, "attach") /\ UNCHANGED tables
     /\ job' = [job EXCEPT ![c] = IF found = {} THEN Null
                                  ELSE [op |-> "edit", user |-> j.user, id |-> j.id,
                                        field |-> "filter", value |-> TRUE]]

\* updateRoute, setRouteFilter, clearRouteFilter, saveTransformation, deleteTransformation:
\* the route is the caller's when looked up; the statement names its id only.
StartEdit(c, u, r, field, value) ==
  /\ r \in RoutesOf(u)
  /\ Check(c, [op |-> "edit", user |-> u, id |-> r.id, field |-> field, value |-> value])

Edit(c) ==
  LET j == job[c]
  IN /\ Statement(c, "edit") /\ End(c)
     /\ routes' = {IF r.id = j.id THEN [r EXCEPT ![j.field] = j.value] ELSE r : r \in routes}
     /\ UNCHANGED <<users, sources, destinations, tokens, nextId>>

StartDeleteRoute(c, u, r) ==
  r \in RoutesOf(u) /\ Check(c, [op |-> "deleteRoute", user |-> u, id |-> r.id])

DeleteRoute(c) ==
  /\ Statement(c, "deleteRoute") /\ End(c)
  /\ routes' = {r \in routes : r.id # job[c].id}
  /\ UNCHANGED <<users, sources, destinations, tokens, nextId>>

-----------------------------------------------------------------------------
(* Single statements, with the schema's cascades.                           *)

Drop(us, ss, ds) ==
  /\ users' = users \ us
  /\ sources' = {s \in sources : s \notin ss /\ s.owner \notin us}
  /\ destinations' = {d \in destinations : d \notin ds /\ d.owner \notin us}
  /\ routes' = {r \in routes : r.source \in IdsOf(sources') /\ r.destination \in IdsOf(destinations')}
  /\ tokens' = {k \in tokens : k.owner \notin us}
  /\ UNCHANGED <<nextId, job>>

DeleteSource(s)      == Drop({}, {s}, {})
DeleteDestination(d) == Drop({}, {}, {d})
DeleteAccount(u)     == u \in users /\ Drop({u}, {}, {})

RevokeToken(k) ==
  /\ ~k.revoked
  /\ tokens' = (tokens \ {k}) \cup {[k EXCEPT !.revoked = TRUE]}
  /\ UNCHANGED <<users, sources, destinations, routes, nextId, job>>

\* The process dies between the check and the write.
CutOff(c) ==
  /\ job[c] # Null /\ End(c)
  /\ UNCHANGED tables

-----------------------------------------------------------------------------
(* What forms, REST routes and tools start. *)

StartsSource(c, u) ==
  \/ \E style \in Styles \cup {Null} : StartCreate(c, u, "source", style)
  \/ \E s \in sources, style \in Styles \cup {None}, secret \in BOOLEAN :
       StartUpdateSource(c, u, s, style, secret)

StartsDestination(c, u) == StartCreate(c, u, "destination", Null)

StartsToken(c, u) == StartCreate(c, u, "token", Null)

StartsRoute(c, u) ==
  \/ \E s \in sources, d \in destinations :
       StartToggle(c, u, s, d) \/ \E filtered \in BOOLEAN : StartCreateRoute(c, u, s, d, filtered)
  \/ \E r \in routes : \/ StartDeleteRoute(c, u, r)
                       \/ \E field \in {"enabled", "filter", "code"}, value \in BOOLEAN :
                            StartEdit(c, u, r, field, value)

\* A session may outlive its account, and a request its rows.
Begin(c, u) ==
  StartsSource(c, u) \/ StartsDestination(c, u) \/ StartsToken(c, u) \/ StartsRoute(c, u)

Finish(c) == \/ Create(c) \/ UpdateSource(c) \/ CreateRoute(c) \/ Attach(c)
             \/ Edit(c) \/ DeleteRoute(c)

WorkNext ==
  \/ \E c \in Callers : (\E u \in Users : Begin(c, u)) \/ Finish(c) \/ CutOff(c)
  \/ \E s \in sources : DeleteSource(s)
  \/ \E d \in destinations : DeleteDestination(d)
  \/ \E u \in users : DeleteAccount(u)
  \/ \E k \in tokens : RevokeToken(k)

WorkSpec == WorkInit /\ [][WorkNext]_workVars

-----------------------------------------------------------------------------
(* Properties.                                                              *)

\* Whatever is deleted between a request's check and its write: every row has an
\* owner that exists, and a route joins two rows of one account, once.
OwnersAgree ==
  /\ \A x \in sources \cup destinations \cup tokens : x.owner \in users
  /\ \A r \in routes : \E s \in sources, d \in destinations :
       r.source = s.id /\ r.destination = d.id /\ s.owner = d.owner
  /\ \A r, q \in routes : Pair(r) = Pair(q) => r = q

Rows(u) == <<SourcesOf(u), DestinationsOf(u), {r \in routes : \E s \in SourcesOf(u) : s.id = r.source},
             {k \in tokens : k.owner = u}>>

\* The write of a request, however late, changes rows of its own account only.
OnlyOwnRows ==
  [][\A c \in Callers : job[c] # Null /\ job'[c] # job[c] =>
       \A u \in Users \ {job[c].user} : Rows(u)' = Rows(u)]_workVars

\* Requests that check the quota at the same time may overrun it, by one less than
\* there are of them. (Routes made by toggleRoute are not counted against it.)
QuotaNearlyHolds ==
  \A u \in Users, t \in {"source", "destination", "token"} :
    Count(u, t) <= Limit[t] + Cardinality(Callers) - 1

-----------------------------------------------------------------------------
(* What the comments say and the code does not do.                          *)

\* The ingest route takes a style without a secret for a row older than the check
\* in createSource: no row of today's code has one; but two updates of a source
\* may each remove one half.
StyleHasSecret == \A s \in sources : s.style # Null => s.secret

\* quota.ts: at most `limit` rows per account; but requests may count together.
QuotaHolds == \A u \in Users, t \in {"source", "destination", "token"} : Count(u, t) <= Limit[t]
=============================================================================
