------------------------------- MODULE Search -------------------------------
(***************************************************************************)
(* Paging through events, newest first: the events page with its filter    *)
(* bar, the search it shares with the REST API and the lists of the REST   *)
(* API and of MCP. One reader at a time; every round trip to the database  *)
(* is a step, and the table changes between them.                          *)
(***************************************************************************)
EXTENDS Records, FiniteSetsExt

CONSTANTS
  Matching,    \* events whose body the payload rule holds of
  Limit,       \* of a page
  ScanCap, ScanBatch

ASSUME SearchAssumption ==
  Matching \subseteq Events /\ {Limit, ScanCap, ScanBatch} \subseteq Nat \ {0}

VARIABLES
  client,      \* "filter" bar, search "page", "rest" search, "list"
  phase,       \* "idle", "compile", "preview", "fetch", "shown", "done"
  query,
  cursor,      \* the row the next fetch resumes after, 0 for none
  matches, scanned,   \* of the scan under way
  page,        \* the rows on display
  seen,        \* the rows of the pages before it
  steady,      \* history: the hits that have been hits since the reader began
  disturbed    \* history: a row to resume after was deleted or left the query

readVars   == <<client, query>>
scanVars   == <<matches, scanned>>
historyVars == <<steady, disturbed>>
searchVars == <<readVars, phase, cursor, scanVars, page, seen, historyVars>>

Clients == {"filter", "page", "rest", "list"}

\* What a prompt may be compiled to.
Queries == [failed : BOOLEAN, payload : BOOLEAN]

Compiled(c) == c \in {"page", "rest"}

SearchInit ==
  /\ client = "filter" /\ query = [failed |-> FALSE, payload |-> FALSE] /\ phase = "idle"
  /\ cursor = 0 /\ matches = {} /\ scanned = 0 /\ page = {} /\ seen = {}
  /\ steady = {} /\ disturbed = FALSE

-----------------------------------------------------------------------------
(* The query.                                                               *)

\* buildEventWhere: some delivery has the status.
Meets(q, e) == Present(e) /\ (q.failed => \E s \in Slots : delivery[<<e, s>>] = "failed")

Hit(q, e) == Meets(q, e) /\ (q.payload => e \in Matching)

Hits(q) == {e \in Events : Hit(q, e)}

\* ORDER BY receivedAt DESC, id DESC LIMIT n.
Newest(S, n) == {e \in S : Cardinality({f \in S : f > e}) < n}

\* skip: 1, a row of the result, whether or not it is the cursor's.
Skip == IF cursor = 0 THEN 0 ELSE 1

\* findMany: the rows from the cursor's on; none if that row is gone.
Fetch(take) ==
  LET rows == {e \in Events : Meets(query, e) /\ (cursor # 0 => Present(cursor) /\ e <= cursor)}
  IN Newest(rows, take + Skip) \ Newest(rows, Skip)

-----------------------------------------------------------------------------
(* The reader.                                                              *)

\* The filter bar and the lists have no payload rule; a prompt is compiled.
StartSearch(c, failed) ==
  /\ phase \in {"idle", "done"} /\ (Compiled(c) => ~failed)
  /\ client' = c
  /\ query' = [failed |-> failed, payload |-> FALSE]
  /\ phase' = IF Compiled(c) THEN "compile" ELSE "fetch"
  /\ cursor' = 0 /\ matches' = {} /\ scanned' = 0 /\ page' = {} /\ seen' = {}
  /\ steady' = Hits(query') /\ disturbed' = FALSE

\* compileSearchQuery: any query the model may answer with. On the page it is
\* previewed before it runs.
Compile ==
  /\ phase = "compile"
  /\ phase' = IF client = "page" THEN "preview" ELSE "fetch"
  /\ query' \in Queries
  /\ steady' = Hits(query')
  /\ UNCHANGED <<client, cursor, scanVars, page, seen, disturbed>>

\* No key, or an answer that is no query: the reader is told so.
CompileFails ==
  /\ phase = "compile" /\ phase' = "idle"
  /\ UNCHANGED <<readVars, cursor, scanVars, page, seen, historyVars>>

\* onRun: the page is opened with the query in its address.
RunPreview ==
  /\ phase = "preview" /\ phase' = "fetch" /\ steady' = Hits(query)
  /\ UNCHANGED <<readVars, cursor, scanVars, page, seen, disturbed>>

\* A page with the cursor of the next one, if there is one. The row of the cursor
\* may be gone: a scan holds its matches from one round trip to the next.
Show(rows, next) ==
  /\ page' = rows /\ cursor' = next
  /\ phase' = IF next = 0 THEN "done" ELSE "shown"
  /\ matches' = {} /\ scanned' = 0
  /\ disturbed' = (disturbed \/ (next # 0 /\ ~Meets(query, next)))

\* Without a payload rule: one row more than the page holds is read to see
\* whether there are older ones. The lists take a full page as the sign.
FetchPage ==
  /\ phase = "fetch" /\ ~query.payload
  /\ LET rows == Fetch(IF client = "list" THEN Limit ELSE Limit + 1)
         more == Cardinality(rows) >= IF client = "list" THEN Limit ELSE Limit + 1
         kept == Newest(rows, Limit)
     IN Show(kept, IF more THEN Min(kept) ELSE 0)
  /\ UNCHANGED <<readVars, seen, steady>>

\* Mutant of Resume: the scan resumes after the last row it looked at.
ResumeAfterScanned(kept, last) == last

\* When the page is full the next one starts after the last match it returned.
Resume(kept, last) == Min(kept)

\* With a payload rule: one batch of the scan, left as soon as one match more
\* than the page holds is found.
Scan ==
  /\ phase = "fetch" /\ query.payload
  /\ LET take   == Min({ScanBatch, ScanCap - scanned})
         batch  == Fetch(take)
         needed == Limit + 1 - Cardinality(matches)
         hits   == Newest(batch \cap Matching, needed)
         read   == IF Cardinality(hits) = needed THEN {e \in batch : e >= Min(hits)} ELSE batch
         found  == matches \cup hits
         count  == scanned + Cardinality(read)
         last   == IF read = {} THEN cursor ELSE Min(read)
         short  == Cardinality(batch) < take
         full   == Cardinality(found) > Limit
         kept   == Newest(found, Limit)
     IN IF full \/ short \/ count >= ScanCap
        THEN Show(kept, IF full THEN Resume(kept, last) ELSE IF short THEN 0 ELSE last)
        ELSE /\ matches' = found /\ scanned' = count /\ cursor' = last
             /\ UNCHANGED <<phase, page, disturbed>>
  /\ UNCHANGED <<readVars, seen, steady>>

\* "Older". The search page carries its query in the address; a REST client
\* sends the prompt again, which is compiled again.
Older ==
  /\ phase = "shown"
  /\ phase' = IF client = "rest" THEN "compile" ELSE "fetch"
  /\ seen' = seen \cup page /\ page' = {}
  /\ UNCHANGED <<readVars, cursor, scanVars, historyVars>>

\* The reader leaves, or edits the prompt.
Leave ==
  /\ phase \in {"preview", "shown"} /\ phase' = "idle"
  /\ UNCHANGED <<readVars, cursor, scanVars, page, seen, historyVars>>

SearchSteps == Compile \/ CompileFails \/ RunPreview \/ FetchPage \/ Scan \/ Older \/ Leave

\* The table changes: the history of the reader follows.
Followed ==
  /\ UNCHANGED <<readVars, phase, cursor, scanVars, page, seen>>
  /\ steady' = {e \in steady : Hit(query, e)'}
  /\ disturbed' = (disturbed \/ (cursor # 0 /\ ~Meets(query, cursor)'))
-----------------------------------------------------------------------------
(* Properties.                                                              *)

\* Whatever arrives, settles or is deleted between two pages, and whichever
\* query the cursor was made for, a page holds only rows older than all before.
PagesDescend == \A e \in page, f \in seen : e < f

\* A reader that reached the end has seen every event that was a hit all the
\* while, although the scan reads ahead, stops at its cap and resumes from a
\* row's id; unless a row it had to resume after left the query. A REST search
\* may change its query from page to page.
NothingIsSkipped ==
  phase = "done" /\ client # "rest" /\ ~disturbed => steady \subseteq seen \cup page

\* Paging shows each hit once: none twice, and none of the lasting ones never.
EachHitOnce == PagesDescend /\ NothingIsSkipped
=============================================================================
