# Odyhook: TLA+ models, model checking and proofs

Odyhook receives webhooks, stores them and delivers them to the destinations
their owner has configured. This directory holds TLA+ modules written from its
source, the TLC configurations that check them on small instances, and TLAPS
proofs of their main properties for every value of the constants.
`PROJECT.json` lists the components, the runs, the theorems, the hazards of the
code with the properties that look for them, and for every definition the lines
it models.

To repeat a check: `tlc -config MCIngest.cfg MCIngest` (the table of runs below
gives module and configuration); to repeat a proof: `tlapm IngestProofs.tla`.

Paths below are relative to the program's `src/` unless they begin with `cli/`
or `prisma/`.

## 1. The system and its parts

| Part | State | Operations | Interacts through | Modelled in |
|---|---|---|---|---|
| Ingest endpoint (`app/api/ingest/[slug]/route.ts`, `lib/idempotency.ts`, `lib/hmac.ts`) | rows `Event`, `Delivery` | rate limit, size, signature, duplicate check, insert, publish, enqueue | Postgres, Redis pub/sub, BullMQ | `Ingest`; its jobs in `Delivery`, its messages in `LiveStream` |
| Replay, bulk replay, bulk cancel (`app/api/events/...`) | `Delivery` | insert deliveries for old events; close open ones | Postgres, BullMQ | `Delivery`; the replayed rows also in `Records` |
| Delivery worker and reaper (`workers/delivery.ts`, `lib/delivery-claim.ts`, `lib/queue.ts`) | `Delivery.status`, `attemptCount`, the BullMQ queue | take a job, claim, attempt, record, retry; re-enqueue stalled rows | Postgres, BullMQ, HTTP | `Delivery`, `DeliveryLifecycle` |
| One attempt (`lib/filters`, `lib/sandbox`, `lib/outbound-sign.ts`, `lib/ssrf.ts`, `lib/safe-fetch.ts`) | nothing that lasts | filter, transform, sign, resolve, connect, read | DNS, HTTP, the attempt's timer | `Attempt`, `Filters` |
| Circuit breaker (`lib/circuit-breaker.ts`) | `Destination.enabled/consecutiveFailures/autoDisabledAt` | reset, count, trip; mail the owner | Postgres, called by the worker | `CircuitBreaker` |
| Failure alerts (`lib/alerts`, `workers/alerts.ts`, `lib/actions/alerts.ts`) | settings, cooldown keys, alert queue | save the forms; evaluate triggers, enqueue; claim a cooldown, post | Postgres, Redis, BullMQ | `Alerts` |
| Live stream (`app/api/v1/listen`, `lib/sse-limit.ts`, `lib/events-pubsub.ts`), `ody listen` (`cli/`) | slots per user; a subscription and a buffer per stream; the client's last event id | subscribe, backfill, flush, forward; reconnect | Redis pub/sub, Postgres | `LiveStream` |
| Rate limiter (`lib/ratelimit.ts`) | a Redis hash per key; a bounded map in memory | take a token; fall back when the call rejects | Redis, called by ingest, replay, the API and test alerts | `RateLimit` |
| Configuration: sources, destinations, routes, tokens, quotas (`lib/services`, `lib/actions`, `lib/quota.ts`, `lib/mcp/tools.ts`, `app/api/v1`) | rows of the account | check, then write | Postgres | `Workspace` |
| Search, lists, metrics, digest (`lib/search`, `lib/metrics`, `lib/services/events.ts`, `lib/ai/digest.ts`) | none: they read | page, scan, aggregate | Postgres, the model provider | `Records`, `Search`, `Metrics`, `Dashboard` |
| Provider keys and stored answers (`lib/actions/api-keys.ts`, `lib/llm`, `lib/actions/diagnose.ts`, `lib/actions/event-diff.ts`) | keys, active provider, one answer per question | save, activate, delete; ask, store | Postgres, the model provider | `Assist`, `Dashboard` |
| Retention (`lib/services/retention.ts`) | `Event`, `Delivery` | delete old events with their deliveries | Postgres | an action of `Delivery`, `Ingest` and `Records` |

The hard behaviours are where the parts meet:

* **One row, several jobs.** The reaper, a crashed worker and a retry each add
  jobs for a delivery; only the compare-and-swap of `claimDelivery` keeps the
  attempts apart. Everything a worker reads before it (status, count, filter,
  `enabled`) may be out of date when it acts.
* **Two stores without a transaction.** A row is committed in Postgres, its job
  is added in Redis. Either may fail alone; the reaper repairs some of the cases,
  the provider's next attempt runs into the duplicate check.
* **Blind updates.** Outcomes and edits are written by id alone, so they may land
  on a row that was cancelled, deleted or changed meanwhile.
* **Check, then write.** Quotas, ownership, duplicates and the settings forms are
  read in one statement and written in a later one; only foreign keys and unique
  indices are checked again.
* **Claim, then act.** A cooldown is claimed before the alert is posted, and is
  not given back when the post fails.
* **A snapshot and a subscription.** The live stream joins a query of the past with
  messages about the present; commit, publication, query and delivery of a message
  are four moments, and the client may go away between any two of them.
* **A cursor into a table that changes.** A page is fetched with the id of a row of
  the page before it, which may have been deleted or may have left the query.
* **A name resolved twice, a timer that fires anywhere.** The guard approves an
  address; the socket must connect to that one; and the timer may end the request
  at any of its awaits.

## 2. Modules

| Module | What it is |
|---|---|
| `Delivery`, `MCDelivery` | worker slots, claim, queue, reaper, creating handlers, operator, faults |
| `DeliveryLifecycle` | what the pipeline promises about one delivery: the abstract specification |
| `Bookkeeping`, `MCBookkeeping` | the pipeline with a history of what it feeds to the breaker's counter |
| `DeliveryProofs` | typing, exclusive claims, final rows, refinement, no forgotten row, the bound on attempts, one count per exhaustion |
| `CircuitBreaker`, `MCCircuitBreaker` | the breaker, its mail, dashboard and API |
| `LiveStream`, `MCLiveStream`, `LiveStreamProofs` | ingest and publication, the `/listen` requests of one user, `ody listen` |
| `EventLog` | what the stream promises a client while nothing fails: the abstract specification |
| `Alerts`, `MCAlerts`, `AlertsProofs` | settings, triggers, alert queue and cooldown of one destination |
| `RateLimit`, `MCRateLimit`, `RateLimitProofs` | the script, the expiry of its hash, calls that come late or twice, the fallback |
| `Ingest`, `MCIngest`, `IngestProofs` | the requests of one source, providers that send again, the operator |
| `WebhookStore` | what the endpoint promises providers: the abstract specification of ingest |
| `Workspace`, `MCWorkspace`, `WorkspaceProofs` | sources, destinations, routes and tokens of several accounts |
| `Filters` | `validateFilterAst` and `evaluateFilter` over trees of JSON |
| `Attempt` | one delivery attempt, with the resolver, the destination and the timer; the verdict of a filter is a parameter |
| `FilteredAttempt`, `MCAttempt` | the attempt with the evaluator of `Filters` as that parameter |
| `WorkerProofs` | what a worker does around one delivery: the proofs about `CircuitBreaker`, `Attempt` and `Filters`, which share no variable |
| `Records` | the tables of events and deliveries the readers read |
| `Search`, `Metrics`, `Assist` | the reader that pages; the overview and the digest; keys and stored answers |
| `Dashboard`, `MCDashboard`, `DashboardProofs` | the three composed over one `Records` |

### Delivery

Each `await` of `processDelivery` is the border of an action, so a worker slot
has a program point `pc` and keeps exactly the copies the function keeps:

| `pc` | next action | code |
|---|---|---|
| `idle` | `TakeJob` | BullMQ hands a job to one of the slots (concurrency 8 per process) |
| `read` | `ReadRow` | the row with its destination; early returns for terminal or missing rows |
| `pause` | `PauseRow` | destination disabled: the delivery is exhausted |
| `route` | `ReadRoute` | the route's filter is evaluated; either verdict is possible |
| `skip` | `SkipRow`, `SkipFails` | rejected by the filter: the row is marked delivered |
| `claim` | `ClaimDelivery` | the compare-and-swap |
| `post` | `Post` | transform, sign, send; the result is one of `Outcomes` |
| `write` | `WriteDelivered`, `WriteExhausted`, `WriteFailed` | the update that ends the attempt and counts it |
| `schedule` | `ScheduleRetry` | `queue.add` with the back-off |
| `book` | `Bookkeep` | breaker and alerts; inside try/catch, no effect on rows or queue |

`attemptRead` is the `attemptCount` of the row as it was when the job began;
`Attempt`, `GivesUp` use that copy, as the code does. The queue is a bag:
`ready[d]` and `delayed[d]` count the jobs of a delivery. `Create` is the
handler of ingest and of replay (read the routes, insert, enqueue);
`ReapScan`/`ReapEnqueue` are one pass of the reaper; `Operator` pauses, resumes,
cancels and deletes. `Failures` are the faults: `EnqueueFails`, `SkipFails`,
`Throw` (a call to Postgres or Redis rejects outside a try block; BullMQ does
not run the job again), `Crash` (the process dies; BullMQ finds the job stalled
and runs it again), `ReapFails`.

Three details of the code that the model keeps:

* The update for a rejected event is *inside* the try block that guards the
  filter. When it throws (a database error, or the row was deleted), the catch
  takes it for a broken filter and the handler goes on to claim and deliver:
  `FallThrough`.
* The claim does not look at `nextRetryAt`, `enabled` or the attempt count, so
  `nextRetryAt` is no state of the model: nothing but the delayed job, whose delay
  may end at any time (`DelayElapses`), waits for it.
* The row is set to `failed` before the retry job is added.

Time is not a clock. The code derives two facts about a row from time, and each is a
variable set by an action of its own: the pending grace of the reaper is over
(`pendingGraceOver`), the in-flight grace is over (`inFlightGraceOver`). They expire at
any moment, so all relative speeds are covered, with one restriction: unless `Overrun`
is true, `inFlightGraceOver` is not set while a live worker holds the row. That is the
assumption delivery-claim.ts states for `IN_FLIGHT_GRACE_MS` ("must comfortably exceed
one fetch+write cycle"). Theorems say whether they need it.

### DeliveryLifecycle

The abstract specification knows no queue: a delivery appears, an attempt begins
if none is under way, ends with an outcome and is counted, or is abandoned; a
delivery is closed or disappears. The refinement mapping is the identity on
`status` and `attemptCount`, and `attempting` is the set of deliveries some
worker holds.

### Bookkeeping

The worker calls `recordExhausted` after it has written `exhausted`. `Bookkeeping`
extends `Delivery` by the history variable `counted` and refines its step `Bookkeep`:
a slot that has given up (`Owes`) may increment the counter of its destination, if
that is enabled, and end its job or die (`RecordExhausted`); every other step, and a
call that throws, counts nothing (`Elsewhere`). The trip itself is a `SetEnabled` of
`Delivery`.

### CircuitBreaker

Every Prisma call is one action: `RecordSuccess`, `CountFailure` (the conditional
increment), `Trip`/`DontTrip` (the conditional update), `ReadForMail`,
`SendMail`. Operators click the toggle (`ToggleRead`, `ToggleWrite`, as
`toggleDestinationEnabled` reads and then writes the negation of what it has
read) or use the API (`Patch`). `mail[x]` is the count in the mail about the last
trip. `Abandon` stops a call half-way, as an exception or the end of the process
does.

### LiveStream

One source, one user and one client; other clients of the user share nothing with
it but the slots, and a slot held by a request whose client is gone is held in
the same way as one of another client.

| `phase` of a request | next action | code |
|---|---|---|
| `free` | `Connect` (or `Refuse`) | `acquireSseSlot`, before anything that can wait |
| `subscribe` | `Subscribe` | SUBSCRIBE takes effect; from here on messages go to `inbox` |
| `marker` | `FindMarker` | the event of `Last-Event-ID` is looked up |
| `query` | `RunQuery` | the backfill query reads the table: `snapshot` |
| `flush` | `GoLive` | the continuation after the last await: backfill, flush, live |
| `live` | `Receive` | messages are sent as they come (before that, they are buffered) |
| `closed` | `Cleanup` again, `Forget` | cleanup has run; it may run again from another caller |
| `failed` | - | `start()` has rejected (`StartFails`) |

What the database or Redis does and what the handler does with the answer are
different moments: `RunQuery` fixes the snapshot, and messages may be received
before `GoLive` uses it. `inbox` is what Redis has sent and `sub.on("message")` has
not seen.

Events are numbers in the order of `receivedAt`. They are committed and published
in any order, by one handler each (`handler[e]`). The history variable
`overlapped` notes that an event was committed after one with a later
`receivedAt`, or while an earlier one was not published yet. Then the marker of the
client may stand for more than the client has seen, and no resumption by
`receivedAt` can be exact. Events with the same `receivedAt` behave as such a pair.

The client keeps `lastSeen` inside `consumeStream` (`Take`) and `resumeFrom` outside.
`EndOfStream` hands the one to the other, `Break` does not: the function throws.
`EventLog` knows neither requests nor messages: a log in the order of events, and a
reader that takes the next event or, at first, any. The mapping takes the table for the
log and the set `forwarded` for what has been read.
Faults are of four kinds, which a configuration can choose from: a lost
publication, a deleted event, a broken stream, a rejected call in `start()`.

### Alerts

One destination and its account. `Settle` is the worker's write of an outcome,
which opens a report; `ReadConfig` is the first await of `maybeEnqueueAlerts`,
`Enqueue` the rest of it: triggers are evaluated over `rows`, the history, *as it is
then*, which may hold outcomes committed after the one reported. Each trigger that
fires adds a job; any of the adds may be rejected. `Claim` is `SET NX EX` and the
start of the posts, `Posted` their end, `Drop` the two early returns of
`runAlertJob`; `Throw` counts an attempt and puts the job back with the next delay,
`Crash` puts it back without counting, once. The key stays in both cases. The forms
are parsed against the settings read in `ReadForm` and written in `WriteForm`, so that
a save may overwrite another; `mergeAlertConfigs` is `Effective`.

Time is a countdown per key and per waiting job; a tick is 30 seconds. `since[t]`
counts the ticks since trigger `t` was last claimed.

### RateLimit

A call stamps the time (`Stamp`) and has its script run later (`Eval`), so the script
may see a time older than the one stored. How much later has no bound: the Redis client
is made with `maxRetriesPerRequest: null` (`lib/queue.ts:34`), so a call that meets a
lost connection (`Outage`) does not reject but waits until it is back (`Recover`), and
one whose reply is lost with the connection has run and is sent, and runs, again with
the same stamp (`ReplyLost`). A call rejects when Redis answers with an error; then
`EvalFails` asks the map in memory, whose oldest key is evicted when the map is full.

`Script` is the Lua script on `tokens` and `ts`; a hash that has not been written for
`TTL` is gone (`Live`). `TTL` has the code's floor: it is computed with 0.01 tokens per
second (`Slowest` is the period of that rate) when the rate is lower. `Override`, `Env`
and `Preset` are the three places a setting may come from. Units are the time it takes
to earn: a tick refills one unit, a call costs `Cost` of them, which keeps the
arithmetic whole; the floor of the burst (`Whole`) is the script's. There is one clock:
the script gets the time of the web process, and the expiry runs on that of Redis, which
is taken to be the same. `Watch` begins a period; `spent` and `localSpent` are what is
granted in it, `newest` is the latest time the script was given, and `late` adds up what
late calls were late by, or a burst where that is less.

### Ingest

A request reads the source and its routes once (`Receive`) and works on that copy
(`seen`, `plan`). `Screen` is the size, secret and signature checks, in the code's
order; `Lookup` the duplicate check; `Create` the insert with its index and foreign
keys, `CreateFailed` the handler of its errors; `Enqueue` the adds, all awaited, of
which some may have succeeded when one rejects. `hook` is a webhook as its provider
sees it; `Content` gives what the code can see of it. Providers send a webhook until
they see a 2xx (`Reply`); `Abandon` is a crash of the server or a lost answer.

`WebhookStore` knows no requests: it stores a webhook under one of its keys if the key
is free, forgets, and acknowledges a webhook once it has held one of its keys. The
refinement mapping reduces each row to its key and its webhook (`stored`).

### Workspace

A request is two steps: the reads with all their checks (the `Start...` operators),
then the one statement that writes (`Create`, `UpdateSource`, `CreateRoute`, `Edit`,
`DeleteRoute`), described by the record `job[c]`, which is all the code still knows.
Between them anything may be deleted, with the cascades of the schema (`Drop`).
`create_route` of MCP with a filter goes on with `Attach`, a look-up and an update of
its own, after its insert. The dashboard's toggle creates or negates. Whoever the
caller is (form, REST, MCP), the service is the same, and so is the action.

### Filters and Attempt

`Filters` has JSON as records of kind and value. The set `Json` is a constant, closed
under the parts of a value, and `Nesting` a measure of depth: the assumption that JSON
is finitely nested, which is all that recursion on it needs. `IsValid` is
`validateFilterAst`, `EvalNode` and `Evaluate` are `evaluateFilter`, each a recursive
function over `Json` with its body in an operator of its own (`ValidStep`, `EvalStep`);
`"throw"` is the exception. `Attempt`
does not extend `Filters`: its constants `Verdict` and `Nothing` stand for the evaluator
and for the absence of a rule, so that the theorems about it hold whatever a filter
says, and `FilteredAttempt` extends both; `MCAttempt.cfg` gives `Verdict` the value
`Evaluate`. `Attempt` goes from the row that was read to the outcome that is written:
filter, claim (which another job may have won), sandbox, signature, guard, pinned
connection, response, body, outcome. `Abort`, the timer, may come at any point after it
was armed. Headers are a function from spelled names to the origin of their value, since
the code's object spread keeps two spellings of a name apart and `fetch` joins them.
Addresses are their first three bytes, which is as far as the guard's ranges for IPv4
reach.

### Records, Search, Metrics, Assist, Dashboard

`Records` is the tables: event `e` was received at time `e` and committed later,
possibly after a later one, with a delivery for every enabled route. The deliveries of
an event are numbered by slots, each with its destination; the slots an event has not
used are there for a replay, which inserts rows for several events in one transaction
(`Replay`). The worker settles a delivery, retention and the deletion of a source take
events with their deliveries (`DeleteEvents`), and a destination takes its deliveries
while the events stay (`DeleteDestination`).

`Search` is one reader: the filter bar and the lists of events fetch a page
(`FetchPage`), a search with a payload rule scans in batches (`Scan`) up to a cap;
`Older` uses the cursor. On the page the compiled query is previewed and carried in the
address, while a REST client sends its prompt again, which is compiled again. `steady`
is the set of hits that have been hits since the reader began.

`Metrics` answers each figure of the overview with a query of its own at a moment of its
own; `drift` counts the rows changed since `Load`. Of a chart the model keeps what its
buckets add up to or how many of them have a value, of a percentile whether there is
one, of the failing destinations how many are listed, at most `TopN`, and their failures
together. The digest of the same period is one more query. `Assist` has the key actions
statement by statement, and the questions a tab pays for: about a delivery, or about two
events. `Dashboard` composes them: the tables change under all three, and a search needs
a key.

## 3. Runs

| Run | Expected | Question |
|---|---|---|
| `MCDeliverySafety` (`MCBookkeeping`) | pass | with two slots, duplicates, a fault, pauses, cancels and deletes: are claims exclusive, attempts bounded, open rows driven, settled rows final, exhaustions counted once, rejected events held back, and is the life cycle implemented? |
| `MCDeliveryLive` (`MCDelivery`) | pass | does the reaper recover a row stuck in `in_flight` after a fault, and does every delivery settle as long as nothing failed? |
| `MCDeliveryBacklog` (`MCDelivery`) | pass | two stalled deliveries and a batch of one: does the limit starve none? |
| `MCDeliveryLostRetry` (`MCDelivery`) | violation | is a failed delivery always tried again? |
| `MCBreaker` (`MCCircuitBreaker`) | pass | three workers and two operators: are mark, threshold and mail consistent? |
| `MCLiveStream` | pass | with any two faults: are slots counted and given back, does the flush leave neither gap nor duplicate, does a client that met no fault get everything? |
| `MCAlerts` | pass | with two jobs, retries, crashes and saves: are posts a cooldown apart, and is every alert posted or absorbed by one that is? |
| `MCRateLimit` | pass | with late and repeated calls, expiry, an outage and a rate below the floor: does neither bucket grant more than it may, and is the map bounded? |
| `MCIngest` | pass | with two requests, edits, deletions and a fault: is the endpoint a store of one webhook per key, with true answers, is a webhook taken for another only on an identity that was vouched for, and is every acceptable webhook acknowledged in the end? |
| `MCWorkspace` | pass | with two concurrent requests and deletions: do owners agree, do writes stay in the account, how far can a quota be overrun? |
| `MCAttempt` | pass | over all rules, payloads, transforms, headers, URLs, answers of the resolver and failures: see section 4 |
| `MCDashboard` | pass | do pages descend and skip nothing, do the figures agree, is the answer on display the stored one, do the keys stay usable? |

### Bounds

* *Delivery.* One delivery: deliveries share nothing but the slots and the reaper's
  batch. A slot that works for another delivery is a slot that does not move, which
  the interleaving covers, and the batch has its own run with two deliveries and
  `ReaperBatch = 1`. Two slots are what a claim needs to be contested; the bound on
  attempts depends on their number and is proved for any. `MaxAttempts = 2` is a first
  attempt, a retry and exhaustion; 7 is more of the same retry. `MaxFaults = 1`: one
  crash, throw or rejected call at any point. `MaxQueued`: the reaper adds a job per
  pass without a limit; the guard stops it at 1 (liveness) or 2 ready jobs per
  delivery, which with the jobs held by the slots is one more than can be processed at
  once. One reaper pass at a time: two add only more duplicates. Ids are in the order
  of `createdAt`, a choice of names. The proofs depend on none of these.
* *Circuit breaker.* `Threshold = 2`, `MaxFailures = 3`: the count can pass the
  threshold by one before somebody tests it. `MaxAbandoned = 1` is one crash.
* *Live stream.* Two events and two requests: one event is the marker, the other is
  missed, buffered, queried or published late; one request is left behind while the
  client uses the other. Requests are used again, so the client can connect any number
  of times. `MaxFaults = 2` of any kind, in any order.
* *Alerts.* Two deliveries (one alone, or a success before a failure), two jobs of any
  triggers (they contest a key), two saves of three forms (one that turns everything
  on, one that mutes a channel, one that is rejected unless an address is stored), two
  faults and a retry: the second fault may hit the retry. The cooldowns, two and three
  ticks, are the shortest the schema admits, in 30 seconds, and a longer one.
* *Rate limiter.* Two keys for the eviction of one by the other (`FallbackMax = 1`): one
  has a burst of its own, one and a half tokens (so that the floor shows), and the
  environment's rate; the other is slower than `Slowest`, so that its hash expires
  before it is full again. Two callers, three calls, five ticks and one outage: time
  enough for a bucket to be spent, to expire and to be refilled in the period watched,
  and for a call to come after the slack (one tick) or twice.
* *Ingest.* Two webhooks whose bodies differ and name the same Stripe id, both signed
  with the secret `k1`: the body key tells them apart and the Stripe key does not. Three
  settings: no verification, Stripe's style with that secret, a style without a secret.
  Two requests race; one edit, one deletion and one fault at any point; `MaxEvents = 4`
  is never in the way: there are three keys, and one deletion.
* *Workspace.* Two accounts, the second to be protected; limits of one row; four rows
  in all: a source and a destination, a route, and one row more or its replacement.
* *Attempt.* Every operator with fitting and unfitting literals, alone, negated and
  joined; nesting up to the depth limit (2 here, 100 in the code: `MAX_FILTER_DEPTH`,
  `evaluator.ts:188`) and beyond; paths into objects and arrays; addresses on both sides
  of the edges of the guard's ranges; a resolver with one or two answers; static headers
  that collide with a credential, with the content type and with the name of our
  signature.
* *Dashboard.* Four events, three of them received before the behaviour begins, and two
  slots with a route each to one of two destinations. Two histories: nothing is
  committed yet; deliveries of each kind of end, with two destinations that fail, one of
  them twice. Pages of one, batches of one and a cap of two: a scan ends because the
  page is full, because the cap is reached (with or without a match on the page) and
  because there are no more rows, and a match that is held from one batch to the next
  may be deleted. A window of two is cut at both ends by buckets of two; the failing
  list is cut off after one (`TopN`; 10 in the code). The budgets let a search run with
  two changes in between, an overview with one, two tabs with one, or a search with a
  tab, which share the keys; every combination at once would be a product of
  independent parts.

Symmetry is used in runs of safety properties and action properties only
(`MCDeliverySafety`, `MCRateLimit`, `MCWorkspace`, `MCDashboard`), never with liveness. The
refinement in `MCDeliverySafety` is of the safety specification.

Deadlock is checked where the system cannot stop (delivery, breaker, live stream, and
`Attempt`, whose end is a step of its own). The others may stop: once the bounds on
faults, saves, calls or budgets are used up and nothing is under way, there is nothing
left to do.

### Fairness

* *Delivery.* Weak fairness of `Process(w)`: an async function goes on when its await is
  done, and each await ends (the request has a timeout; a call that fails is a
  fault). Strong fairness of taking a ready job of `d` by *some* slot: slots become
  free again and again, and BullMQ hands jobs out in order. Weak fairness of
  `Enqueue`, of the timers, of `ReapScan` (`setInterval`) and of `ReapEnqueue`.
* *Circuit breaker.* Weak fairness of a call that has begun (`CallerNext`).
* *Live stream.* Weak fairness of each request's handler, of receiving a message, and
  of `Cleanup` and `Forget` once the client is gone: the server notices a closed
  connection. None for the client, for publications, and for connecting.
* *Alerts.* Weak fairness of time and of each job's progress: BullMQ hands out ready
  jobs, and a post has a timeout. None of the worker's reports: the property is about
  alerts that have been queued.
* *Ingest.* Weak fairness of a request that has begun. Strong fairness of sending a
  webhook again until a 2xx, which is what providers promise, and of the rate limiter
  granting a request in time for its timestamp: the bucket refills, so a provider that
  keeps trying is not refused for ever.
* *Attempt.* Weak fairness of the handler, of the resolver answering or failing, of
  the timer, and of an aborted request throwing. None of the destination: whether it
  ever responds is its own affair, and the timer is what the property rests on.
* None for operators, owners and faults.

## 4. What the passing runs show

* `ClaimExclusive`: whatever duplicates exist, at most one worker is between the claim
  and the write of the outcome, if the grace outlasts every live attempt.
  `AttemptsBounded`: at most `MaxAttempts + |Workers| - 1` attempts are counted (the
  documented bound is `MaxAttempts`, see section 6). `OpenRowIsDriven`: without faults
  no handler ends the last job of a row that is not terminal; it is what justifies the
  early returns of `processDelivery`, in particular the one after a lost claim.
  `SettledStaysSettled`: a terminal row nobody is attempting is never claimed, attempted
  or reopened. `RejectedIsSentOnlyOnFault`: an event its filter rejected is sent only if
  a call failed or a process died; when the row is deleted between the filter and the
  skip, the handler falls through just the same, and the claim stops it. `CountedOnce`:
  the breaker counts a delivery once at most, also when the job runs again after a
  crash, when a duplicate is queued, or when the row was cancelled while its attempt was
  under way (`circuit-breaker.ts:55`); with `Overrun = TRUE` two attempts that overlap
  are counted twice. `ImplementsLifecycle`: all of this is an implementation of
  `DeliveryLifecycle`. `PendingIsPickedUp`, `InFlightIsResolved`: the two cases of the
  reaper repair what a fault left behind. `EveryDeliverySettles`: as long as nothing has
  failed, every delivery ends.
* `AutoDisabledIsOff`, `ThresholdIsActedOn`, `TripIsMailedOrAbandoned`: the breaker's
  mark is consistent with the switch, a count at the threshold is being acted on, and a
  trip is mailed unless its call was abandoned. That only one worker owns a trip is the
  condition of one `UPDATE` (`circuit-breaker.ts:71`) and is no property here.
* `NoGapAfterMarker`: subscribing before the backfill query leaves no gap, in every
  order of commit, publication, query and message. `FlushedOnce`: at the flush the
  overlap of the two is removed. `FollowsTheLog`: as long as nothing failed and no event
  overtook another, over any number of orderly reconnections, the client reads the table
  as `EventLog` does: a new event is the next one after those it has, and every later one
  is on its way (`ResumesWhereItStopped`). `SlotsAreCounted`, `SlotComesBackOrFailed`: the
  counter stays exact however often `cleanup` is called, and the slot comes back, except
  for a request whose `start()` failed.
* `CooldownIsKept`: two posts about one trigger are at least the shortest cooldown apart,
  also when a job is retried, runs twice after a crash, or the cooldown is edited.
  `AlertIsAnswered`: without faults, and with settings that stay after the first save, a
  queued alert is posted or gives way to one of its trigger that is.
* `GrantsAreEarned`, `LocalIsBounded`: an idle or expired bucket, or one that is asked
  by calls that come late or twice, never grants more than a burst, what the period
  earns, and for each late call what it is late by (behind the newest time, or behind
  the slack once the hash has expired), never more than a burst. A call that waits out
  an outage is thus worth at most one burst, however long the outage. This holds of
  rates of 0.01 tokens per second and more; of lower ones see section 6. The map in
  memory stays within its cap, and its buckets within theirs.
* `ImplementsStore`, `AnswersAreTrue`, `DuplicatesAreVouchedFor`: however requests race,
  the table has one event per key, hence one per webhook and style (`OneEventPerHook`),
  and a webhook is acknowledged only if its key has been there; the row an answer names,
  if it still exists, has the request's key; a 202 says that it is the webhook's own and
  that every delivery of it has its job. A webhook may be answered with the event of
  another one. Then both came with the same header, or have the same body, or name the
  same id of a provider, and in that case the source has checked the signatures of both
  in that provider's style: without verification, or under another style, an id in the
  body that anyone can make up stands in nobody's way. `HooksGetThrough`: a webhook that
  can be verified from some point on is acknowledged.
* `OwnersAgree`, `OnlyOwnRows`, `QuotaNearlyHolds`: whatever is deleted between check and
  write, rows keep an owner and routes stay inside an account; a late write changes
  only rows of its own account; N concurrent requests overrun a quota by at most N-1.
* `ValidRuleDecides`: a rule that was accepted never throws at delivery time, for any
  payload, nor falls back on what an unrecognised node evaluates to. `RequestIsOurs`:
  our signature is over the body that is sent, a destination without a secret gets none
  of ours, and no credential of the provider is forwarded. `PeerIsApproved`: the socket
  is connected to an address the guard approved, outside the private blocks, whatever
  the resolver says later. `NothingLeftOpen`: no attempt leaves a connection or a timer.
  `AcknowledgedIsDelivered`: a 2xx is final, even if the timer fires while its body is
  read. `AttemptSettles`: every attempt ends.
* `EachHitOnce`: a reader sees no row twice (`PagesDescend`), and sees every steady hit
  (`NothingIsSkipped`), unless a row its cursor pointed to was deleted or had left the
  query, which `disturbed` records. `FiguresAgree`: the figures of one page differ by no
  more than the number of rows, events and deliveries, that changed while it was loaded;
  a chart and its total agree although the chart's buckets are cut differently at both
  ends; the failing list accounts for the failed total as long as it is not cut off.
  Figures about events are compared with figures about events, and those about
  deliveries with those about deliveries: with several routes neither bounds the other.
  `AnswerIsStored`: what a tab shows is what is stored, as long as the rows it was asked
  about are there, even when two tabs raced. `KeysStayUsable`: when no two key actions
  overlapped, the active provider has a key, and is none only if there is no key.

For every one of them `PROJECT.json` names a mutant of the model, a plausible bug
in the mapped code, that violates it.

Type invariants are proved where there is a proof (section 5) and are no separate
property of the runs; the mutable domains of `Attempt` are in `AttemptTypeOK`.

## 5. Proofs

All theorems hold for every value of the constants that satisfies the `ASSUME`
of the module; those marked (g) also assume `~Overrun`.

| Theorem | States |
|---|---|
| `DeliveryProofs!TypeCorrect` | `Spec => []TypeOK` |
| `DeliveryProofs!JobsNeedRows` | `Spec => []JobsHaveRows` |
| `DeliveryProofs!RejectedNeedsAFault` | `Spec => []RejectedIsSentOnlyOnFault` |
| `DeliveryProofs!ClaimsAreExclusive` (g) | `Spec => []ClaimExclusive` |
| `DeliveryProofs!SettledIsFinal` | `Spec => SettledStaysSettled` |
| `DeliveryProofs!OpenRowsAreDriven` | `Spec => []OpenRowIsDriven` |
| `DeliveryProofs!RefinesLifecycle` (g) | `Spec => ImplementsLifecycle` |
| `DeliveryProofs!AttemptsAreBounded` (g), `Workers` finite and not empty | `Spec => []AttemptsBounded` |
| `DeliveryProofs!ExhaustionIsCountedOnce` (g) | `BookSpec => []CountedOnce` |
| `WorkerProofs!BreakerTypeCorrect` | `BreakerSpec => []BreakerTypeOK` |
| `WorkerProofs!MarkMeansOff` | `BreakerSpec => []AutoDisabledIsOff` |
| `WorkerProofs!ThresholdIsNotMissed` | `BreakerSpec => []ThresholdIsActedOn` |
| `WorkerProofs!AttemptTypeCorrect` | `AttemptSpec => []AttemptTypeOK` |
| `WorkerProofs!PinnedPeerIsPublic` | `AttemptSpec => []PeerIsApproved` |
| `WorkerProofs!AttemptsLeaveNothing` | `AttemptSpec => []NothingLeftOpen` |
| `WorkerProofs!AnswerDecides` | `AttemptSpec => []AcknowledgedIsDelivered` |
| `WorkerProofs!RequestsAreSigned` | `AttemptSpec => []RequestIsOurs` |
| `WorkerProofs!AttemptsRunDown` | `AttemptSpec => AttemptRunsDown`: every step leaves fewer than before, at most 19, and no wait is untimed |
| `WorkerProofs!ValidFiltersDecide` | a filter that `IsValid` evaluates to `"true"` or `"false"` on every payload |
| `WorkerProofs!AcceptedRulesDecide` | `AttemptSpec => []ValidRuleDecides` |
| `WorkerProofs!MalformedFailsClosed` | `MalformedIsNeverTrue`: a filter with an unrecognised node anywhere never evaluates to `"true"` |
| `LiveStreamProofs!LiveTypeCorrect` | `LiveSpec => []LiveTypeOK` |
| `LiveStreamProofs!SlotsAreExact` | `LiveSpec => []SlotsAreCounted` |
| `LiveStreamProofs!NoGap` | `LiveSpec => []NoGapAfterMarker` |
| `LiveStreamProofs!BackfillMeetsSubscription` | `LiveSpec => FlushedOnce` |
| `LiveStreamProofs!ResumptionLosesNothing` | `LiveSpec => []ResumesWhereItStopped` |
| `LiveStreamProofs!StreamIsALog` | `LiveSpec => FollowsTheLog` |
| `AlertsProofs!KeysAreSpaced` | `AlertsSpec => []AlertsInv` |
| `AlertsProofs!CooldownSeparatesAlerts` | `AlertsSpec => CooldownIsKept` |
| `RateLimitProofs!BucketIsAccounted` | `LimitSpec => []LimitInv` |
| `RateLimitProofs!LimiterHolds` | `LimitSpec => []GrantsAreEarned` |
| `RateLimitProofs!FallbackIsAccounted` | `LimitSpec => []LocalInv` |
| `RateLimitProofs!FallbackHolds` | `LimitSpec => []LocalIsBounded` |
| `IngestProofs!RowsStayKeyed` | `IngestSpec => []IngestInv` |
| `IngestProofs!ImplementsWebhookStore` | `IngestSpec => ImplementsStore` |
| `IngestProofs!AcknowledgedWasStored` | `IngestSpec => []WebhookStore!AcknowledgedWasHeld` |
| `IngestProofs!UneditedSourceStoresOnce` | `IngestSpec => [](edits = 0 => HookStoredOnce)` |
| `IngestProofs!WebhookStoredOncePerStyle` | `IngestSpec => []OneEventPerHook` |
| `IngestProofs!AnswersNameTheirRow` | `IngestSpec => []AnswerInv` |
| `IngestProofs!AcknowledgedIsStored` | `IngestSpec => []AnswersAreTrue` |
| `IngestProofs!ProviderIdsAreVerified` | `IngestSpec => []DuplicatesAreVouchedFor` |
| `WorkspaceProofs!WorkInvariant` | `WorkSpec => []WorkInv` |
| `WorkspaceProofs!RowsAgreeAboutOwners` | `WorkSpec => []OwnersAgree` |
| `WorkspaceProofs!WritesStayHome` | `WorkSpec => OnlyOwnRows` |
| `WorkspaceProofs!QuotaOverrunIsBounded` | `WorkSpec => []QuotaNearlyHolds` |
| `DashboardProofs!SearchShowsEachHitOnce` | `DashboardSpec => []EachHitOnce` |
| `DashboardProofs!FiguresDriftTogether` | `DashboardSpec => []FiguresAgree` |
| `DashboardProofs!DisplayedIsStored` | `DashboardSpec => []AnswerIsStored` |
| `DashboardProofs!KeysRemainUsable` | `DashboardSpec => []KeysStayUsable` |

**How the arguments go.**

* Most lemmas about `Delivery` do not look at its twenty-odd actions one by one.
  Lemma `KindOfStep` sorts the steps into seven kinds by what they do to the rows
  and the holders of claims (nothing, insert, claim, end an attempt, abandon one,
  close or delete a row, expire a grace); each invariant is then preserved by
  seven cases.
* *Exclusive claims.* `ClaimExclusive` is not inductive: the claim may take over an
  `in_flight` row whose grace is over, and nothing in the property says that such
  a row has no holder. `ClaimInv` adds that a row whose grace is over while it is
  in flight has none. `Overrun = FALSE` is used in exactly one place, the expiry
  of that grace.
* *The filter's verdict.* `RejectedIsGone`: without a fault, a slot that fell through from
  the skip is at the claim, of a row that is deleted; and a deleted row stays deleted
  (`DeletedStep`), whatever the other slots, the reaper and the operator do before the
  claim is made.
* *The bound on attempts.* The count may pass `MaxAttempts` because slots hold old
  copies of it. A slot is `Low` if its copy is so low that a failure would be
  written as `failed` and leave the row open. Once the count is at
  `MaxAttempts - 1`, a slot that reads it is not low, so every further attempt
  either uses up a low slot or ends the row. `AttemptInv` is that balance: from
  there on, the count and the number of low slots together stay below
  `MaxAttempts + |Workers| - 1`, with one unit of slack for a row that is settled.
* *One count.* A slot comes to owe an increment by writing `exhausted` as a holder of the
  claim (`OwesStep`). `CountInv`: while it owes, and after it has counted, the row is
  `Settled`: closed or gone, and held by nobody. A settled row remains so
  (`SettledRemains`, from the seven kinds of steps), hence nobody will hold it and
  exhaust it again. Exclusive claims are used where the row settles: the writer was the
  only holder. That a slot on its way to a retry has not given up (`RetriesAreOpen`) had
  to be added. `CountingIsHistory` brings the theorems about `Spec` to `BookSpec`.
* *No forgotten row.* `OpenRowIsDriven` is inductive with `TypeOK`, one lemma per
  group of actions. The step that matters is a lost claim: the slot may give up
  because the row is closed, or because it is in flight and then, by the
  hypothesis, another slot holds it.
* *Refinement.* `Delivery` has `Lifecycle == INSTANCE DeliveryLifecycle WITH ...`. Each
  kind of step is one abstract step or a stutter; the guard of the abstract
  `BeginAttempt` (no attempt is under way) is `ClaimInv`.
* *Threshold.* The caller that brings the count to the threshold is itself about to
  test it; all others who raise the count are too. `ThresholdIsActedOn` is
  inductive together with the typing invariant.
* *Slots.* The counter is exact because `released` outlives the closing of a request:
  `SlotsInv` adds that a closed request is released, so `Forget` frees nothing that
  is still counted, and a second `Cleanup` takes the branch that does nothing.
* *No gap.* `NoGapInv` says where a published event is before the stream is live: in
  the backfill, in the buffer or in the inbox. It is established by the query alone,
  because what was published before the query is in the table it reads, and what is
  published after it finds the request subscribed. The lemmas about sequences
  (`AppendElements`, `TailElements`, `ConcatElements`, `UnsentElements`) carry it
  through the flush.
* *Cooldown.* `CooldownIsKept` is about steps; what makes it true is a state: `Spaced`
  says that the life a key has left and the time since it was claimed add up to the
  shortest cooldown at least, so a key that is free was claimed that long ago.
  `ConfigOK` (every stored cooldown is one the schema admits) is what gives a fresh
  key that much life, through the merge (`EffectiveCooldown`).
* *Rate limiter.* `Accounted` is an account: what was granted in the period watched,
  together with what the bucket would hold for a call of the newest time so far
  (`Balance`), is at most a burst, the time from the start of the period to that newest
  time, and what the late calls are worth. A refill takes from the period, a cap only
  loses (`RefillIsPaid`); a call behind the newest time may refill the same interval
  again, which is its `Behind`. A fresh hash is a burst, and is paid for because its
  `TTL` is longer than a refill takes (`LifeIsRefill`, `FreshIsPaid`), which needs a
  rate of at least 0.01; what a call is beyond the slack when it finds the hash expired
  is its `Overdue`. Nothing is assumed of how late calls are, nor of how often they run.
* *Ingest.* `OneEventPerHook` follows from `RowsAreKeyed`: a row's key is that of its
  webhook under the style it was read with, and no two rows have the same key. The
  second part is the unique index, in `Create`; the first needs that a request's copy
  and its webhook stay put until then (`RequestsOK`).
* *The store.* `Create` is a `Store`, `Reply` an `Acknowledge`, the deletions `Forget`;
  adds to the queue and cascades of a destination rewrite rows and leave `stored` alone
  (`RewritingStores`). The guard of `Store` is the unique index, that of `Acknowledge` is
  `NamesItsRow`. `AcknowledgedWasStored` is proved of the store and carried over.
* *Edits.* `HookStoredOnce` does not hold (section 6); `StyleInv` shows that an edit is
  the only reason: until the first one, rows and copies have the style of the source.
* *Workspace.* `OwnersAgree` is not inductive, since a route is inserted by a job
  that was checked earlier. `Holding` says what a checked job may still rely on: ids
  are never used twice, so a row that has the id *now* is the row that was checked,
  with the owner it had. Rows may have gone, and then the foreign keys refuse.
  `OnlyOwnRows` uses the same fact for each kind of write.
* *Attempt.* `AttemptInv` follows the attempt along its program points. `GuardInv`: from
  `connect` on, `ips` is an answer the guard looked at as a whole, and the peer is its
  first address. That no such address lies in a reserved block is arithmetic on the
  guard's list (`ReservedIsPrivate`): each block has one prefix length, two for the last.
  `ResultInv`: a status of 2xx and the absence of an error are the same fact from the head
  of the response to the outcome. `HeadersInv` carries what the merge (`MergedIsClean`)
  guarantees through the two overlays that follow it. Nothing is assumed of `Verdict`.
  The first form of `RequestIsOurs` said that a destination without a secret gets no
  header of that name; it was not provable, because a static header may have it, and
  TLC's static headers had not included one. It now says whose value that is.
* *The end of an attempt.* `StepsLeft` is the variant: twice the stage, plus one for a timer
  that can still fire. A step either goes to a later stage, which outweighs arming the
  timer, or is `Abort`, which fires it. This is the safe half of `AttemptSettles`; that a
  step is always possible while the attempt has not ended, and is taken, stays with TLC.
* *Filters.* A recursive function is specified by an equation, and that some function
  satisfies it has to be proved. The library's theorems about recursion take an operator
  as a parameter, which the provers cannot instantiate; `RecursionExists` therefore takes
  the functional as a *function*: for every level of `Nesting` some approximation solves
  the equation up to it, and these agree where both do. Its two uses, with a body that looks
  only at the parts of a value (`StepLooksInside`, `ValidStepLooksInside`), give the
  equations `EvalNodeUnfolds` and `ValidFilterUnfolds`. Induction over trees
  is done without an induction theorem too: of the counterexamples, take one of least
  `Nesting` (`LeastExists`); its parts are none (`PartsAreDeeper`). So a valid filter
  decides (`ValidDecides`), the step being that each operator accepts only literals it
  can compare (`StepDecides`), and an unrecognised node makes every connective above it
  undecided (`MalformedIsPoisonous`). `MalformedUnfolds` is a third use of the recursion.
* *The flush.* `FlushInv`: an event is published once, so it is in `inbox` and `buffer` at
  most once and never in both (`MessagesOnce`), and a backfill is a table in ascending
  order. `UnsentElements` then gives the injectivity of what is sent.
* *Resumption.* `ResumesWhereItStopped` assumes a history without faults and overtaking;
  `CalmInv` says what such a history leaves: events are published in the order of their
  numbers (`InOrder`), the client's set is closed downwards among those (`ClientInOrder`),
  and each stream holds, sends and receives without leaving one out between two others
  (`StreamInOrder`).
* *The log.* `FollowsTheLog` is a refinement under a condition on the history, so it says of
  each step that leaves the history calm that it is a step of `EventLog` or none. The
  frontier alone does not give it: a message that repeats an event after later ones moves
  the frontier, and the marker, back. `NewComesAfter` shows that what is new lies behind
  something the client has (a stream sends nothing before its marker, which `AfterMarker`
  had to be extended by), `NothingLeftOut` of the log that it then lies behind everything.
* *The fallback.* `LocalInv` is the account of the bucket in memory, where time does not run
  backwards because one process stamps and evaluates. `OrderListsBuckets` makes the map
  and its order of eviction name the same keys, each once; `RoomListsTheRest` is what the
  eviction of the oldest leaves.
* *Answers.* `AnswersAreTrue` is not inductive: it speaks of replies that were given,
  and nothing in it ties a reply to its row before that. `NamesItsRow` follows a reply
  from the moment a row is named: the number is of a row created by then, whose key is
  the request's own, and numbers are never used twice, so whatever row has it is that
  one. `RowsDescend` is what every other request may do to such a row: queue its
  deliveries.
* *Provider ids.* `VerifiedInv`: a request that passed the screening, and a row, was
  verified in the style it was read with, whatever the source's style is by now
  (`ScreeningVerifies`, `RowsComeVerified`). A key in a provider's name space is made
  only in that provider's style, so two webhooks that share one were both verified in
  it.
* *Quota.* `QuotaInv` counts the jobs about to insert with the rows that are there: rows and
  `Creating` jobs of one account and kind together stay below the limit and the number of
  callers. A check that passes has fewer rows than the limit, and there are no more jobs
  than callers; an insertion turns one into the other.
* *Search.* `SearchInv`: everything shown or held lies above the cursor (`Descends`), and a
  steady hit is shown, held, or below the cursor (`Accounted`). The second half was not
  inductive in the first model: a scan that fills its page resumes after the last match
  it returned, and a match held from an earlier batch may have been deleted before it
  becomes the cursor. A run with larger batches showed the counterexample; `Show` now
  records it in `disturbed`, as a cursor whose row goes later always was.
  The lemmas about `Newest` and `Min` (`NewestKept`, `FetchOlder`, `FetchNewest`) rest on
  `LeastExists`, the well-ordering of numbers.
* *Figures.* Each figure is the size of a set in the tables as they were when its query
  ran. `Agreement` gives to a pending figure the value it would have now (`Expected`),
  so that all figures can be compared before they are there. If one set is part of
  another (`PartsInclude`), a change of some rows moves their sizes apart by at most the
  number of those rows (`CountsMoveTogether`), which is what `drift` grows by; a chart
  has as many buckets with a value as it has different values of `BucketOf`, and these
  sets of buckets move in the same way (`BucketsMove`). A list that is not cut off
  contains every failing destination (`ListIsWhole`).
* *Answers on display, keys.* `AnswersInv`: an answer is written once, by the statement
  that finds none, and a tab shows what that statement returned or what it read; a row
  that is gone does not come back (`KnownStays`), so an answer on display is either
  stored or about something that is gone. `KeysInv`: between the statements of a key
  action `OnTheWay` says what the rest of the action has still to put right; it holds as
  long as no second action has begun (`raced`).

**Only model-checked.** The leads-to properties (`InFlightIsResolved`,
`EveryDeliverySettles`, `PendingIsPickedUp`, `TripIsMailedOrAbandoned`,
`SlotComesBackOrFailed`, `AlertIsAnswered`, `HooksGetThrough`, `AttemptSettles`): liveness
under fairness and ENABLED are beyond the prover. Of `AttemptSettles` the variant is
proved (`AttemptsRunDown`).
Every other property of the runs is a theorem.

`OpenRowsAreDriven` and `SettledIsFinal` do not assume `~Overrun`: also when a live
worker outlasts the grace and claims overlap, no row is forgotten and no settled
row is reopened.

## 6. Where the code and its documentation differ

One divergence has a run of its own, `MCDeliveryLostRetry`: when `queue.add` rejects
after the row was set to `failed`, no job exists and the reaper does not look at `failed`
rows, so the delivery is never tried again (`workers/delivery.ts:421`).

The others are stated as formulas in the modules, under "What the comments say and the
code does not do". None of them holds. To see a counterexample, add the formula to the
configuration named, as INVARIANT, or as PROPERTY where (P) is given.

| Formula | Configuration | What the code does, and what is said of it |
|---|---|---|
| `AtMostMaxAttempts` | `MCDeliverySafety` | A duplicate job that read the row before another attempt ended counts from the old number (`workers/delivery.ts:187`). "There are up to 7 attempts in total" (`docs/retries-and-backoff/page.mdx:8`). |
| `CancelledStaysTerminal` (P) | `MCDeliverySafety` | The attempt under way at the cancel may write `failed` over `exhausted` and schedule a retry (`workers/delivery.ts:410`). "the worker may overwrite the `exhausted` status with its own terminal write" (`bulk-cancel/route.ts:16`). |
| `RejectedIsNotSent` (P) | `MCDeliverySafety` | The update of a filtered delivery is inside the try block whose catch goes on to deliver (`workers/delivery.ts:169`). "if it evaluates false, skip delivery entirely" (`:140`). It takes a fault: `RejectedNeedsAFault`. |
| `NothingIsLost` | `MCLiveStream` | When the stream breaks the id of the last event is lost with the exception (`cli/src/commands/listen.ts:163`). "reconnects and backfills any events you missed while disconnected, so nothing is lost" (`docs/cli/page.mdx:28`). |
| `NotSentTwice` | `MCLiveStream` | The ids of the backfill are consulted for buffered messages only; a message may come after the flush (`listen/route.ts:134`). "skipping any the backfill query already delivered" (`:129`). |
| `SlotComesBack` (P) | `MCLiveStream` | When SUBSCRIBE or a query in `start()` rejects, nobody calls `cleanup` (`listen/route.ts:92`). "there's nothing to leak" (`lib/sse-limit.ts:9`). |
| `AlertSurvivesABlip` (P) | `MCAlerts` | The retry of a post that failed finds its own cooldown taken and is dropped. The schedule is there to "ride through" such failures "without losing the alert" (`lib/alerts/queue.ts:8`). |
| `HookStoredOnce` | `MCIngest` | The key depends on the source's style, so an edit between two sends stores the webhook again; nothing else does (`UneditedSourceStoresOnce`). "a stable per-source dedupe key" (`lib/idempotency.ts:4`). |
| `SlowGrantsAreEarned` | `MCRateLimit` | The life of a hash is computed with at least 0.01 tokens per second, so a slower one expires, and is full again, before it has refilled (`lib/ratelimit.ts:142`). "TTL = time to refill a full bucket from empty, plus a small buffer" (`:139`). |
| `OutageIsBridged` | `MCRateLimit` | With `maxRetriesPerRequest: null` (`lib/queue.ts:34`) a call without a connection does not reject, so it waits for Redis and never asks the fallback. "any Redis disruption" ... "during an outage we mirror the bucket in process memory" (`lib/ratelimit.ts:93`). |
| `StyleHasSecret` | `MCWorkspace` | Two updates of a source, checked against the same row, leave a style without a secret; every request is then answered 503. "signing secret is required when verifyStyle is set" (`lib/services/sources.ts:34`). |
| `QuotaHolds` | `MCWorkspace` | Concurrent requests count together. "at most ${limit} ${resource} per account" (`lib/quota.ts:23`). |
| `LookupIsRetried` | `MCAttempt` | A resolver that fails once is an `SsrfError`, which is terminal. "currently only SSRF rejections, since the destination URL is constant across retries" (`workers/delivery.ts:262`). |
| `MalformedIsNotForwarded` (P) | `MCAttempt` | A rule that throws is treated as no rule, and one that the validator refuses, for its literals or its depth, may also evaluate to true (an unrecognised node cannot: `MalformedFailsClosed`). "a malformed (e.g. hand-edited) AST can never cause an event to be forwarded" (`lib/filters/evaluator.ts:172`). |
| `StaticHeaderWins` | `MCAttempt` | Names that differ in their spelling are both sent. "Destination static headers overlay this set" (`workers/delivery.ts:62`). |
| `PaidOnce` | `MCDashboard` | Two tabs that ask at the same time both call the model, and one of them shows an error. "persisted once per delivery so the user pays for the call only once" (`lib/ai/diagnose.ts:6`). |

Smaller observations made on the way, which no property is about:

* *Alerts.* Unticking a channel whose address is blank drops its entry, so the
  destination inherits the account's setting for it. The rate is compared as a floating
  point quotient (`triggers.ts:49`). A cooldown is claimed also when no channel is
  enabled any more.
* *Rate limiter.* A burst below one is floored to zero and never grants.
* *Routes.* `toggleRoute` is not counted against the quota, and concurrent toggles lose
  one of the two or fail on the index. The MCP tool `create_route` enables a route
  before its filter is attached; if the second step fails it stays without.
* *Lists.* With `skip: 1` the row after a cursor that has left the query is skipped
  without having been seen (`disturbed`). A search with a payload rule holds its matches
  from one batch to the next; if the last one it returns has been deleted meanwhile, the
  next page resumes from a row that is gone and is empty (`lib/search/run.ts:100`). A
  REST search compiles its prompt anew for each page. The selection on the events page
  survives a change of page (`components/events-bulk-actions.tsx:56`).
* *Filter editor.* Saving sends the tree compiled earlier together with the prompt as
  it is edited now.
* *Digest, drift.* The digest counts what a filter held back as delivered, unlike the
  metrics. The drift baseline is updated before the mail about it is sent
  (`lib/ai/drift.ts:129`).

## 7. What is not modelled

* *Computations*: HMAC, encryption, scrubbing, the SSE and command line parsers, the
  arithmetic of IPv6 addresses. Their verdicts are choices of the models.
* *Content*: names, texts of mails and posts, the response bodies that are stored; the
  code that asks a model provider and parses its answer (an answer is any query).
* *Edits of data no property tells apart*: names, URLs, timeouts, retention periods,
  rates. `Attempt` takes any value of those it uses.
* *Authentication*: one look-up without a protocol. The models begin with an account.
* *Drift detection, fixtures, the account export, seeds and smoke tests*: scripts and
  single reads.
* *`ody trigger`, `ody forward`'s local request, `--since`*: single calls.
* *The lists of deliveries* (`lib/services/deliveries.ts`): the same keyset as the lists of
  events, over another table. *The moment of the digest*: its job runs weekly; here it is
  answered among the queries of a page that is opened at that moment.
* *Rendering and the documentation site.*
* *Loss of committed data in Redis or Postgres.* A fault loses a call, not a row or an
  added job; the expiry of keys is modelled.
* *`Delivery` composed with the whole of `CircuitBreaker` or `Alerts`.* The product is
  beyond a run; each takes the other as an arbitrary environment. `Bookkeeping` is the one
  place where the order of a row's writes and the breaker's calls matters.

## 8. Plan

Done: the pipeline, the breaker, the live stream, alerts, the rate limiter, ingest, the
configuration, the attempt, and the readers, with the runs and proofs above. Left, by
what it would add:

1. Variants for the other leads-to properties, as `AttemptsRunDown` has one for
   `AttemptSettles`: what a delivery, a trip or a slot has before it falls only between
   faults and claims of others, so they need a measure of those too.
2. The drift baseline: a script that runs beside itself.
