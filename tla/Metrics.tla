------------------------------- MODULE Metrics -------------------------------
(***************************************************************************)
(* The figures of the overview page (lib/metrics): totals, three charts    *)
(* and the failing destinations, each computed by a query of its own while *)
(* the table changes; and the digest that is mailed of the same period.    *)
(* All take their window at the same moment. A chart is represented by     *)
(* what its buckets add up to, or by how many of them have a value.        *)
(***************************************************************************)
EXTENDS Records

CONSTANTS
  Window, Bucket,
  TopN           \* the LIMIT of the failing destinations

ASSUME MetricsAssumption == Window \in Nat /\ Bucket \in Nat \ {0} /\ TopN \in Nat

VARIABLES
  asOf,      \* the time of the load
  pending,   \* the queries that have not been answered
  figure,    \* [name -> number]
  drift      \* history: rows changed since the load began

metricVars == <<asOf, pending, figure, drift>>

\* The first three are those of the totals.
QueryNames == {"received", "settled", "percentile", "throughput", "success", "latency", "failing",
               "digest"}
Figures == {"events", "delivered", "failed", "p95",
            "throughput", "deliveredChart", "failedChart", "busyBuckets", "latencyBuckets",
            "listed", "failing", "mailedEvents", "mailedDelivered", "mailedFailed"}

MetricsInit ==
  /\ asOf = 0 /\ pending = {} /\ drift = 0
  /\ figure = [f \in Figures |-> 0]

windowStart == asOf - Window

\* date_trunc, and floorToBucket.
BucketOf(t) == t \div Bucket

Received == {e \in Events : Present(e) /\ e >= windowStart}

\* The deliveries of the window, joined with their events: the foreign key loses
\* none. A filter-skip has no response code and is neither.
InWindow(statuses) == {d \in Deliveries : delivery[d] \in statuses /\ d[1] >= windowStart}

Delivered == InWindow({"delivered"})
Failed    == InWindow({"failed"})

\* Mutant of LastBucket: the bucket in progress is left out.
LastFullBucket == BucketOf(asOf) - 1

LastBucket == BucketOf(asOf)

\* zeroFill: a row whose bucket is not between those of start and end is lost.
Kept(t) == BucketOf(t) \in BucketOf(windowStart)..LastBucket

Charted(D) == {d \in D : Kept(d[1])}

\* The buckets with a delivery, which are those that have percentiles.
Buckets(D) == {BucketOf(d[1]) : d \in D}

\* Failures count by when the delivery was updated, not by when its event came.
Failing == {d \in Deliveries : delivery[d] = "failed" /\ touched[d] >= windowStart}

FailingTo(X) == {d \in Failing : To[d[2]] \in X}

Names == {To[d[2]] : d \in Failing}

ListedRows == IF Cardinality(Names) < TopN THEN Cardinality(Names) ELSE TopN

\* ORDER BY failures DESC LIMIT. How ties are broken does not show in the figures.
Top == CHOOSE X \in SUBSET Names :
         /\ Cardinality(X) = ListedRows
         /\ \A x \in X, y \in Names \ X :
              Cardinality(FailingTo({x})) >= Cardinality(FailingTo({y}))

\* buildDigestStats goes by the status alone: what a filter held back is delivered.
Digested ==
  [mailedEvents |-> Cardinality(Received),
   mailedDelivered |-> Cardinality(InWindow({"delivered", "skipped"})),
   mailedFailed |-> Cardinality(Failed)]

\* What each query returns.
Answer(q) ==
  CASE q = "received" -> [events |-> Cardinality(Received)]
    [] q = "settled" -> [delivered |-> Cardinality(Delivered), failed |-> Cardinality(Failed)]
    [] q = "percentile" -> [p95 |-> IF Delivered = {} THEN 0 ELSE 1]
    [] q = "throughput" -> [throughput |-> Cardinality({e \in Received : Kept(e)})]
    [] q = "success" -> [deliveredChart |-> Cardinality(Charted(Delivered)),
                         failedChart |-> Cardinality(Charted(Failed)),
                         busyBuckets |-> Cardinality(Buckets(Charted(Delivered)))]
    [] q = "latency" -> [latencyBuckets |-> Cardinality(Buckets(Charted(Delivered)))]
    [] q = "failing" -> [listed |-> ListedRows, failing |-> Cardinality(FailingTo(Top))]
    [] q = "digest" -> Digested

\* The page is opened, and the weekly job comes to the account.
Load ==
  /\ pending = {} /\ pending' = QueryNames
  /\ asOf' = clock /\ drift' = 0 /\ figure' = [f \in Figures |-> 0]

Query(q) ==
  /\ q \in pending /\ pending' = pending \ {q}
  /\ LET answer == Answer(q)
     IN figure' = [f \in Figures |-> IF f \in DOMAIN answer THEN answer[f] ELSE figure[f]]
  /\ UNCHANGED <<asOf, drift>>

\* The rows that a step changes.
Moved ==
  LET row(d) == <<delivery[d], touched[d]>>
  IN Cardinality({e \in Events : event'[e] # event[e]})
       + Cardinality({d \in Deliveries : row(d)' # row(d)})

\* The tables change while the page is loading.
Drifted ==
  /\ drift' = IF pending = {} THEN drift ELSE drift + Moved
  /\ UNCHANGED <<asOf, pending, figure>>
-----------------------------------------------------------------------------
(* Properties.                                                              *)

Near(x, y) == x - y <= drift /\ y - x <= drift

\* The figures of one page, and of the digest, differ by no more than the rows
\* that changed while they were computed: the charts lose no row at either end of
\* the window, the latency chart has a value where the other has a delivery, a
\* filter-skip is a success in the digest only, there is a percentile when there
\* was a delivery, and as long as the list of failing destinations is not cut off
\* it accounts for the failures of the window.
FiguresAgree ==
  pending = {} =>
    /\ Near(figure["events"], figure["throughput"])
    /\ Near(figure["delivered"], figure["deliveredChart"])
    /\ Near(figure["failed"], figure["failedChart"])
    /\ Near(figure["busyBuckets"], figure["latencyBuckets"])
    /\ Near(figure["events"], figure["mailedEvents"])
    /\ Near(figure["failed"], figure["mailedFailed"])
    /\ figure["delivered"] <= figure["mailedDelivered"] + drift
    /\ figure["listed"] < TopN => figure["failed"] <= figure["failing"] + drift
    /\ drift = 0 => (figure["p95"] > 0 <=> figure["delivered"] > 0)
=============================================================================
