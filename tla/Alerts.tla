------------------------------- MODULE Alerts -------------------------------
(***************************************************************************)
(* Failure alerts of one destination. Delivery workers report every        *)
(* outcome; the report reads the configuration and the recent history and  *)
(* queues one job per trigger that fires. Alert workers claim a cooldown   *)
(* per trigger and post to the enabled channels; a failed post is retried  *)
(* by the queue. The owner edits the account's and the destination's       *)
(* settings meanwhile.                                                     *)
(*                                                                         *)
(* Time is a countdown per timer. One tick stands for 30 seconds, the      *)
(* first retry delay; the shortest cooldown the schema admits is two.      *)
(***************************************************************************)
EXTENDS Integers, Sequences, FiniteSets, TLC

CONSTANTS
  Forms,         \* the settings forms the owner may submit
  Cooldowns,     \* cooldown lengths the owner may choose, in ticks
  MinCooldown, DefaultCooldown,
  RetryDelays,   \* ALERTS_RETRY_DELAYS_MS, in ticks
  RatePct, WindowCount, AfterSuccesses,   \* thresholds of the triggers
  MaxDeliveries, MaxJobs, MaxSaves, MaxFaults,   \* bounds
  FaultKinds,    \* among "reject", "enqueue", "crash"
  Blank, Null, Gone

ASSUME AlertsAssumption ==
  /\ Cooldowns \subseteq Nat \ {0}
  /\ {MinCooldown, DefaultCooldown} \subseteq Cooldowns
  /\ \A c \in Cooldowns : MinCooldown <= c
  /\ \A f \in Forms : f.cooldown \in Cooldowns
  /\ Gone # Null
  /\ RetryDelays \in Seq(Nat)
  /\ MaxJobs \in Nat

Triggers == {"exhausted", "failureRate", "firstFailure"}
Channels == {"email", "slack", "webhook"}
MaxAttempts == Len(RetryDelays) + 1
JobIds == 1..MaxJobs

VARIABLES
  rows,       \* Delivery.status, oldest first
  reports,    \* maybeEnqueueAlerts calls under way, with the config they read
  user, dest, \* alertConfigJson of the account and of the destination
  form,       \* a settings form between its read and its write, or Null
  jobs,       \* the alerts queue
  cooldown,   \* remaining life of each trigger's Redis key, 0 if there is none
  since,      \* ticks since the key was last claimed, up to MinCooldown
  saves, faults

configVars == <<user, dest, form, saves>>
keyVars    == <<cooldown, since>>
alertVars  == <<rows, reports, configVars, jobs, keyVars, faults>>

Fault(kind) == kind \in FaultKinds /\ faults < MaxFaults /\ faults' = faults + 1

NoJob == [state |-> "none", trigger |-> "exhausted", made |-> 0, wait |-> 0,
          stalled |-> FALSE]

AlertsInit ==
  /\ rows = <<>> /\ reports = {}
  /\ user = Null /\ dest = Null /\ form = Null
  /\ jobs = [j \in JobIds |-> NoJob]
  /\ cooldown = [t \in Triggers |-> 0]
  /\ since = [t \in Triggers |-> MinCooldown]
  /\ saves = 0 /\ faults = 0

-----------------------------------------------------------------------------
(* Configuration.                                                           *)

Layer(l) == IF l = Null THEN [channels |-> <<>>, triggers |-> {}, cooldown |-> 0] ELSE l

\* mergeAlertConfigs: the destination's entry wins per channel, triggers add up
\* (a stored trigger is an enabled one).
Effective(u, d) ==
  LET chosen == [channels |-> Layer(d).channels @@ Layer(u).channels,
                 triggers |-> Layer(d).triggers \cup Layer(u).triggers]
  IN [channels |-> {c \in DOMAIN chosen.channels : chosen.channels[c].on},
      triggers |-> chosen.triggers,
      cooldown |-> IF d # Null THEN d.cooldown
                   ELSE IF u # Null THEN u.cooldown ELSE DefaultCooldown]

\* A channel of the form is stored when it is ticked or an address was typed;
\* a blank address keeps the stored one; an unticked, blank one is dropped.
Stored(f, existing) == {c \in Channels : c \in f.ticked \/ f.url[c] # Blank}
Address(f, existing, c) ==
  IF c = "email" \/ f.url[c] # Blank THEN f.url[c] ELSE existing.channels[c].url
Rejected(f, existing) ==
  \E c \in Stored(f, existing) \ {"email"} :
    f.url[c] = Blank /\ c \notin DOMAIN existing.channels

ParseForm(f, existing) ==
  [channels |-> [c \in Stored(f, existing) |->
                   [on |-> c \in f.ticked, url |-> Address(f, existing, c)]],
   triggers |-> f.triggers, cooldown |-> f.cooldown]

\* saveUserAlerts and saveDestinationAlerts read the stored settings ...
ReadForm(f) ==
  /\ form = Null /\ saves < MaxSaves
  /\ dest # Gone
  /\ form' = [form |-> f, existing |-> Layer(IF f.target = "user" THEN user ELSE dest)]
  /\ saves' = saves + 1
  /\ UNCHANGED <<rows, reports, user, dest, jobs, keyVars, faults>>

\* ... and overwrite them with the parsed form, unless it is rejected or the
\* destination is gone.
WriteForm ==
  /\ form # Null
  /\ LET f == form.form
         parsed == ParseForm(f, form.existing)
         accepted == ~Rejected(f, form.existing)
     IN /\ user' = IF accepted /\ f.target = "user" THEN parsed ELSE user
        /\ dest' = IF accepted /\ f.target = "dest" /\ dest # Gone THEN parsed ELSE dest
  /\ form' = Null
  /\ UNCHANGED <<rows, reports, jobs, keyVars, saves, faults>>

\* "Use account defaults", ticked for the destination.
UseDefaults ==
  /\ dest \notin {Null, Gone} /\ saves < MaxSaves
  /\ dest' = Null /\ saves' = saves + 1
  /\ UNCHANGED <<rows, reports, user, form, jobs, keyVars, faults>>

DeleteDestination ==
  /\ dest # Gone /\ saves < MaxSaves
  /\ dest' = Gone /\ saves' = saves + 1
  /\ rows' = <<>>
  /\ UNCHANGED <<reports, user, form, jobs, keyVars, faults>>

-----------------------------------------------------------------------------
(* Triggers. History is newest first by creation, whatever its statuses.    *)

Failure(s) == s \in {"failed", "exhausted"}

Newest(n, skipped) ==
  LET ids == DOMAIN rows \ skipped
  IN {i \in ids : Cardinality({k \in ids : k > i}) < n}

Failures(ids) == Cardinality({i \in ids : Failure(rows[i])})

\* What one findMany can show: both triggers share one window.
WindowSize(triggers) ==
  LET rate  == IF "failureRate" \in triggers THEN WindowCount ELSE 0
      first == IF "firstFailure" \in triggers THEN AfterSuccesses + 1 ELSE 1
  IN IF rate > first THEN rate ELSE first

FiresRate(history) ==
  LET window == {i \in history : Cardinality({k \in history : k > i}) < WindowCount}
  IN /\ Cardinality(history) >= WindowCount
     /\ Failures(window) * 100 >= RatePct * WindowCount

FiresFirst(history, r) ==
  LET prior  == history \ {r.id}
      window == {i \in prior : Cardinality({k \in prior : k > i}) < AfterSuccesses}
  IN /\ Failure(r.status)
     /\ Cardinality(prior) >= AfterSuccesses
     /\ \A i \in window : rows[i] = "delivered"

Fired(r) ==
  LET history == Newest(WindowSize(r.cfg.triggers), {})
  IN {t \in Triggers :
        /\ t \in r.cfg.triggers
        /\ CASE t = "exhausted"    -> r.status = "exhausted"
             [] t = "failureRate"  -> FiresRate(history)
             [] t = "firstFailure" -> FiresFirst(history, r)}

-----------------------------------------------------------------------------
(* The delivery worker.                                                     *)

Arrive ==
  /\ Len(rows) < MaxDeliveries /\ dest # Gone
  /\ rows' = Append(rows, "pending")
  /\ UNCHANGED <<reports, configVars, jobs, keyVars, faults>>

\* The outcome is committed, then reported. Bound: one reported outcome per
\* delivery; a retry's report differs from another delivery's by its id only.
Settle(i, s) ==
  /\ rows[i] = "pending"
  /\ rows' = [rows EXCEPT ![i] = s]
  /\ reports' = reports \cup {[id |-> i, status |-> s, cfg |-> Null]}
  /\ UNCHANGED <<configVars, jobs, keyVars, faults>>

\* Mutant of ReadConfig: no look at the channels.
ReadConfigBlindly(r) ==
  LET silent == dest = Gone \/ (user = Null /\ dest = Null)
  IN /\ r.cfg = Null
     /\ reports' = (reports \ {r}) \cup
                     (IF silent THEN {} ELSE {[r EXCEPT !.cfg = Effective(user, dest)]})
     /\ UNCHANGED <<rows, configVars, jobs, keyVars, faults>>

\* First await of maybeEnqueueAlerts: no configuration, no enabled channel or
\* no destination ends it.
ReadConfig(r) ==
  LET cfg == Effective(user, dest)
      silent == dest = Gone \/ (user = Null /\ dest = Null) \/ cfg.channels = {}
  IN /\ r.cfg = Null
     /\ reports' = (reports \ {r}) \cup (IF silent THEN {} ELSE {[r EXCEPT !.cfg = cfg]})
     /\ UNCHANGED <<rows, configVars, jobs, keyVars, faults>>

\* Unused ids are taken in order; a queue.add that rejects loses its own job
\* only, and the worker logs it.
Enqueue(r, lost) ==
  LET added == Fired(r) \ lost
      free  == {j \in JobIds : jobs[j].state = "none"}
  IN /\ r.cfg # Null
     /\ lost \subseteq Fired(r)
     /\ Cardinality(added) <= Cardinality(free)
     /\ LET place == CHOOSE f \in [added -> free] : \A t, u \in added : t # u => f[t] # f[u]
        IN jobs' = [j \in JobIds |->
                      IF \E t \in added : place[t] = j
                      THEN [NoJob EXCEPT !.state = "queued",
                                         !.trigger = CHOOSE t \in added : place[t] = j]
                      ELSE jobs[j]]
     /\ reports' = reports \ {r}
     /\ IF lost = {} THEN UNCHANGED faults ELSE Fault("enqueue")
     /\ UNCHANGED <<rows, configVars, keyVars>>

-----------------------------------------------------------------------------
(* The alert worker.                                                        *)

SetJob(j, s) == jobs' = [jobs EXCEPT ![j].state = s]
Ready(j) == jobs[j].state = "queued" /\ jobs[j].wait = 0

\* Mutant of Held: a retried job does not claim the key again.
HeldUnlessRetried(j) == cooldown[jobs[j].trigger] > 0 /\ jobs[j].made = 0

Held(j) == cooldown[jobs[j].trigger] > 0

\* The destination is gone, or the trigger's key is held: the job succeeds
\* without posting.
Drop(j) ==
  /\ Ready(j)
  /\ dest = Gone \/ Held(j)
  /\ SetJob(j, "done")
  /\ UNCHANGED <<rows, reports, configVars, keyVars, faults>>

\* SET NX EX, then the enabled channels are posted to; if there is none, the
\* job ends with the key claimed.
Claim(j) ==
  LET t == jobs[j].trigger
      cfg == Effective(user, dest)
  IN /\ Ready(j)
     /\ dest # Gone /\ ~Held(j)
     /\ cooldown' = [cooldown EXCEPT ![t] = cfg.cooldown]
     /\ since' = [since EXCEPT ![t] = 0]
     /\ jobs' = [jobs EXCEPT ![j].state = IF cfg.channels = {} THEN "done" ELSE "posting"]
     /\ UNCHANGED <<rows, reports, configVars, faults>>

\* allSettled: every channel accepted the message.
Posted(j) ==
  /\ jobs[j].state = "posting"
  /\ SetJob(j, "sent")
  /\ UNCHANGED <<rows, reports, configVars, keyVars, faults>>

\* A channel rejected, or runAlertJob threw earlier: attempt counted, retried
\* after the next delay or failed for good. The key stays.
Throw(j) ==
  LET made == jobs[j].made + 1 IN
  /\ jobs[j].state = "posting" \/ Ready(j)
  /\ Fault("reject")
  /\ jobs' = [jobs EXCEPT ![j] =
                IF made >= MaxAttempts
                THEN [@ EXCEPT !.state = "failed", !.made = made]
                ELSE [@ EXCEPT !.state = "queued", !.made = made,
                               !.wait = RetryDelays[made]]]
  /\ UNCHANGED <<rows, reports, configVars, keyVars>>

\* The worker process dies; BullMQ hands a stalled job out again, once.
Crash(j) ==
  /\ jobs[j].state = "posting"
  /\ Fault("crash")
  /\ jobs' = [jobs EXCEPT ![j].state = IF jobs[j].stalled THEN "failed" ELSE "queued",
                          ![j].stalled = TRUE]
  /\ UNCHANGED <<rows, reports, configVars, keyVars>>

Countdown(n) == IF n > 0 THEN n - 1 ELSE 0

\* 30 seconds pass.
Tick ==
  /\ (\E t \in Triggers : cooldown[t] > 0) \/ (\E j \in JobIds : jobs[j].wait > 0)
  /\ cooldown' = [t \in Triggers |-> Countdown(cooldown[t])]
  /\ since' = [t \in Triggers |-> IF since[t] < MinCooldown THEN since[t] + 1 ELSE since[t]]
  /\ jobs' = [j \in JobIds |-> [jobs[j] EXCEPT !.wait = Countdown(@)]]
  /\ UNCHANGED <<rows, reports, configVars, faults>>

-----------------------------------------------------------------------------
ReportNext == \E r \in reports : ReadConfig(r) \/ (\E lost \in SUBSET Triggers : Enqueue(r, lost))
JobNext(j) == Drop(j) \/ Claim(j) \/ Posted(j)
OwnerNext  == (\E f \in Forms : ReadForm(f)) \/ WriteForm \/ UseDefaults \/ DeleteDestination

AlertsNext ==
  \/ Arrive \/ Tick \/ ReportNext \/ OwnerNext
  \/ \E i \in DOMAIN rows, s \in {"delivered", "failed", "exhausted"} : Settle(i, s)
  \/ \E j \in JobIds : JobNext(j) \/ Throw(j) \/ Crash(j)

AlertsSpec == AlertsInit /\ [][AlertsNext]_alertVars

\* Time passes, the queue hands out ready jobs and a post ends: ten seconds for
\* a webhook, the mail library's own timeout for a mail.
AlertsFairSpec ==
  AlertsSpec /\ WF_alertVars(Tick) /\ \A j \in JobIds : WF_alertVars(JobNext(j))

-----------------------------------------------------------------------------
(* Properties.                                                              *)

\* No double fire: between two posts about one trigger at least the shortest
\* cooldown passes, whatever is retried, crashes, runs at once or is
\* reconfigured in between.
CooldownIsKept ==
  [][\A j \in JobIds : jobs[j].state # "posting" /\ jobs'[j].state = "posting" =>
       since[jobs[j].trigger] >= MinCooldown]_alertVars

\* A queued alert is posted, or absorbed by another alert of the trigger that
\* is, unless something failed or the settings changed after the first save.
AlertIsAnswered ==
  \A j \in JobIds : jobs[j].state = "queued" ~>
    \/ faults > 0 \/ saves > 1
    \/ jobs[j].state = "sent"
    \/ /\ jobs[j].state = "done"
       /\ \E k \in JobIds : /\ jobs[k].trigger = jobs[j].trigger
                           /\ jobs[k].state \in {"posting", "sent"}

-----------------------------------------------------------------------------
(* What the comments say and the code does not do.                          *)

\* The retry schedule rides through a transient failure without losing the
\* alert (the comment above ALERTS_RETRY_DELAYS_MS): a post that fails after the
\* claim of its cooldown finds it taken when it is retried.
AlertSurvivesABlip ==
  \A j \in JobIds : jobs[j].state = "queued" ~>
    \/ saves > 1
    \/ \E k \in JobIds : jobs[k].trigger = jobs[j].trigger /\ jobs[k].state = "sent"
=============================================================================
