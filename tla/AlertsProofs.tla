---------------------------- MODULE AlertsProofs ----------------------------
(* Proof that the cooldown separates two alerts of a trigger, for every      *)
(* schedule of retries, every set of forms and every cooldown they offer.    *)
EXTENDS Alerts, TLAPS

Jobs == [state : {"none", "queued", "posting", "sent", "done", "failed"},
         trigger : Triggers, made : Nat, wait : Nat, stalled : BOOLEAN]

\* A stored or submitted cooldown is one the forms offer.
ConfigOK ==
  /\ user = Null \/ user.cooldown \in Cooldowns
  /\ dest \in {Null, Gone} \/ dest.cooldown \in Cooldowns
  /\ form = Null \/ form.form \in Forms

KeysOK ==
  /\ cooldown \in [Triggers -> Nat]
  /\ since \in [Triggers -> Nat]
  /\ jobs \in [JobIds -> Jobs]

\* What is left of a key and what has passed since its claim make up at least
\* the shortest cooldown.
Spaced == \A t \in Triggers : cooldown[t] + since[t] >= MinCooldown

AlertsInv == ConfigOK /\ KeysOK /\ Spaced

LEMMA MinCooldownNat == MinCooldown \in Nat /\ \A c \in Cooldowns : c \in Nat /\ c >= MinCooldown
BY AlertsAssumption

LEMMA AlertsInitially == AlertsInit => AlertsInv
<1> SUFFICES ASSUME AlertsInit PROVE AlertsInv
  OBVIOUS
<1>1. ConfigOK
  BY DEF AlertsInit, ConfigOK
<1>2. KeysOK
  BY MinCooldownNat DEF AlertsInit, KeysOK, Jobs, NoJob, Triggers, JobIds
<1>3. Spaced
  BY MinCooldownNat DEF AlertsInit, Spaced
<1> QED BY <1>1, <1>2, <1>3 DEF AlertsInv

\* The cooldown in force is one of the offered ones.
LEMMA EffectiveCooldown ==
  ASSUME ConfigOK, dest # Gone
  PROVE  Effective(user, dest).cooldown \in Cooldowns
BY AlertsAssumption DEF ConfigOK, Effective

LEMMA ConfigKept == ASSUME ConfigOK, [AlertsNext]_alertVars PROVE ConfigOK'
<1>1. CASE UNCHANGED <<user, dest, form>>
  BY <1>1 DEF ConfigOK
<1>2. CASE OwnerNext
  <2>1. CASE \E f \in Forms : ReadForm(f)
    BY <2>1 DEF ReadForm, ConfigOK
  <2>2. CASE WriteForm
    BY <2>2, AlertsAssumption DEF WriteForm, ConfigOK, ParseForm
  <2>3. CASE UseDefaults \/ DeleteDestination
    BY <2>3 DEF UseDefaults, DeleteDestination, ConfigOK
  <2> QED BY <1>2, <2>1, <2>2, <2>3 DEF OwnerNext
<1>3. CASE UNCHANGED alertVars
  BY <1>3, <1>1 DEF alertVars, configVars
<1>4. CASE Arrive \/ Tick \/ ReportNext
  BY <1>4, <1>1 DEF Arrive, Tick, ReportNext, ReadConfig, Enqueue, configVars
<1>5. CASE \E i \in DOMAIN rows, s \in {"delivered", "failed", "exhausted"} : Settle(i, s)
  BY <1>5, <1>1 DEF Settle, configVars
<1>6. CASE \E j \in JobIds : JobNext(j) \/ Throw(j) \/ Crash(j)
  BY <1>6, <1>1 DEF JobNext, Drop, Claim, Posted, Throw, Crash, configVars
<1> QED BY <1>2, <1>3, <1>4, <1>5, <1>6 DEF AlertsNext

LEMMA KeysKept == ASSUME AlertsInv, [AlertsNext]_alertVars PROVE KeysOK' /\ Spaced'
<1> USE DEF AlertsInv
<1>1. CASE UNCHANGED <<keyVars, jobs>>
  BY <1>1 DEF KeysOK, Spaced, keyVars
<1>2. CASE Tick
  <2>1. KeysOK'
    <3>1. cooldown' \in [Triggers -> Nat]
      BY <1>2 DEF Tick, KeysOK, Countdown
    <3>2. since' \in [Triggers -> Nat]
      BY <1>2 DEF Tick, KeysOK
    <3>3. \A j \in JobIds : [jobs[j] EXCEPT !.wait = Countdown(@)] \in Jobs
      BY DEF KeysOK, Jobs, Countdown
    <3>4. jobs' \in [JobIds -> Jobs]
      BY <1>2, <3>3 DEF Tick
    <3> QED BY <3>1, <3>2, <3>4 DEF KeysOK
  <2>2. ASSUME NEW t \in Triggers PROVE cooldown'[t] + since'[t] >= MinCooldown
    <3>1. /\ cooldown[t] \in Nat /\ since[t] \in Nat /\ MinCooldown \in Nat
          /\ cooldown[t] + since[t] >= MinCooldown
      BY AlertsAssumption DEF KeysOK, Spaced
    <3>2. /\ cooldown'[t] = IF cooldown[t] > 0 THEN cooldown[t] - 1 ELSE 0
          /\ since'[t] = IF since[t] < MinCooldown THEN since[t] + 1 ELSE since[t]
      BY <1>2 DEF Tick, Countdown
    <3> QED BY <3>1, <3>2
  <2> QED BY <2>1, <2>2 DEF Spaced
<1>3. ASSUME NEW r \in reports, NEW lost \in SUBSET Triggers, Enqueue(r, lost)
      PROVE KeysOK' /\ Spaced'
  <2>1. jobs' \in [JobIds -> Jobs]
    <3> DEFINE added == Fired(r) \ lost
               free == {j \in JobIds : jobs[j].state = "none"}
               place == CHOOSE f \in [added -> free] : \A t, u \in added : t # u => f[t] # f[u]
    <3>1. jobs' = [j \in JobIds |->
                     IF \E t \in added : place[t] = j
                     THEN [NoJob EXCEPT !.state = "queued",
                                        !.trigger = CHOOSE t \in added : place[t] = j]
                     ELSE jobs[j]]
      BY <1>3 DEF Enqueue
    <3>2. added \subseteq Triggers
      BY DEF Fired
    <3> QED BY <3>1, <3>2 DEF KeysOK, Jobs, NoJob
  <2> QED BY <1>3, <2>1 DEF Enqueue, KeysOK, Spaced, keyVars
<1>4. ASSUME NEW j \in JobIds, Claim(j) PROVE KeysOK' /\ Spaced'
  <2> DEFINE t == jobs[j].trigger
  <2>1. t \in Triggers /\ jobs[j] \in Jobs
    BY DEF KeysOK, Jobs
  <2>2. Effective(user, dest).cooldown \in Nat /\ Effective(user, dest).cooldown >= MinCooldown
    BY <1>4, EffectiveCooldown, AlertsAssumption DEF Claim
  <2>3. /\ cooldown' = [cooldown EXCEPT ![t] = Effective(user, dest).cooldown]
        /\ since' = [since EXCEPT ![t] = 0]
    BY <1>4 DEF Claim
  <2>4. KeysOK'
    BY <1>4, <2>1, <2>2, <2>3 DEF Claim, KeysOK, Jobs
  <2>5. Spaced'
    BY <2>1, <2>2, <2>3, AlertsAssumption DEF KeysOK, Spaced
  <2> QED BY <2>4, <2>5
<1>5. ASSUME NEW j \in JobIds, Drop(j) \/ Posted(j) \/ Throw(j) \/ Crash(j)
      PROVE KeysOK' /\ Spaced'
  <2>1. UNCHANGED keyVars
    BY <1>5 DEF Drop, Posted, Throw, Crash
  <2>2. jobs' \in [JobIds -> Jobs]
    <3>1. jobs[j] \in Jobs /\ jobs[j].made + 1 \in Nat
      BY DEF KeysOK, Jobs
    <3>2. CASE Drop(j) \/ Posted(j)
      BY <3>1, <3>2 DEF Drop, Posted, SetJob, KeysOK, Jobs
    <3>3. CASE Crash(j)
      BY <3>1, <3>3 DEF Crash, KeysOK, Jobs
    <3>4. CASE Throw(j)
      <4>1. jobs[j].made + 1 < MaxAttempts => RetryDelays[jobs[j].made + 1] \in Nat
        <5>1. RetryDelays \in Seq(Nat) /\ Len(RetryDelays) \in Nat
          BY AlertsAssumption
        <5>2. jobs[j].made \in Nat
          BY <3>1 DEF Jobs
        <5>3. ASSUME NEW n \in Nat, n + 1 < Len(RetryDelays) + 1 PROVE RetryDelays[n + 1] \in Nat
          <6>1. n + 1 \in 1..Len(RetryDelays)
            BY <5>1, <5>3
          <6> QED BY <5>1, <6>1
        <5> QED BY <5>2, <5>3 DEF MaxAttempts
      <4>2. /\ [jobs[j] EXCEPT !.state = "failed", !.made = jobs[j].made + 1] \in Jobs
            /\ jobs[j].made + 1 < MaxAttempts =>
                 [jobs[j] EXCEPT !.state = "queued", !.made = jobs[j].made + 1,
                                 !.wait = RetryDelays[jobs[j].made + 1]] \in Jobs
        BY <3>1, <4>1 DEF Jobs
      <4>3. MaxAttempts \in Nat
        BY AlertsAssumption DEF MaxAttempts
      <4> QED BY <3>1, <3>4, <4>2, <4>3 DEF Throw, KeysOK
    <3> QED BY <1>5, <3>2, <3>3, <3>4
  <2> QED BY <2>1, <2>2 DEF KeysOK, Spaced, keyVars
<1>6. CASE OwnerNext \/ Arrive \/ (\E i \in DOMAIN rows, s \in {"delivered", "failed", "exhausted"} : Settle(i, s))
  BY <1>1, <1>6 DEF OwnerNext, ReadForm, WriteForm, UseDefaults, DeleteDestination, Arrive, Settle
<1>7. CASE \E r \in reports : ReadConfig(r)
  BY <1>1, <1>7 DEF ReadConfig
<1>8. CASE UNCHANGED alertVars
  BY <1>1, <1>8 DEF alertVars
<1> QED BY <1>2, <1>3, <1>4, <1>5, <1>6, <1>7, <1>8 DEF AlertsNext, ReportNext, JobNext

\* A key that is not held was claimed at least the shortest cooldown ago.
LEMMA ClaimIsSpaced ==
  ASSUME AlertsInv, [AlertsNext]_alertVars, NEW j \in JobIds,
         jobs[j].state # "posting", jobs'[j].state = "posting"
  PROVE  since[jobs[j].trigger] >= MinCooldown
<1> USE DEF AlertsInv
<1> DEFINE t == jobs[j].trigger
<1>0. /\ t \in Triggers /\ cooldown[t] \in Nat /\ since[t] \in Nat /\ MinCooldown \in Nat
      /\ cooldown[t] + since[t] >= MinCooldown
  BY AlertsAssumption DEF KeysOK, Jobs, Spaced
<1>1. CASE Claim(j)
  BY <1>0, <1>1 DEF Claim, Held
<1>2. ASSUME NEW i \in JobIds, Claim(i), i # j PROVE FALSE
  BY <1>2 DEF Claim, KeysOK
<1>3. ASSUME NEW i \in JobIds, Drop(i) \/ Posted(i) \/ Throw(i) \/ Crash(i) PROVE FALSE
  BY <1>3 DEF Drop, Posted, Throw, Crash, SetJob, KeysOK, Jobs
<1>4. CASE Tick
  BY <1>4 DEF Tick, KeysOK, Jobs
<1>5. ASSUME NEW r \in reports, NEW lost \in SUBSET Triggers, Enqueue(r, lost) PROVE FALSE
  BY <1>5 DEF Enqueue, NoJob
<1>6. CASE UNCHANGED jobs
  BY <1>6
<1>7. CASE OwnerNext \/ Arrive \/ (\E i \in DOMAIN rows, s \in {"delivered", "failed", "exhausted"} : Settle(i, s))
  BY <1>6, <1>7 DEF OwnerNext, ReadForm, WriteForm, UseDefaults, DeleteDestination, Arrive, Settle
<1>8. CASE \E r \in reports : ReadConfig(r)
  BY <1>6, <1>8 DEF ReadConfig
<1>9. CASE UNCHANGED alertVars
  BY <1>6, <1>9 DEF alertVars
<1> QED BY <1>1, <1>2, <1>3, <1>4, <1>5, <1>7, <1>8, <1>9 DEF AlertsNext, ReportNext, JobNext

\* Every reachable state keeps what is left of a key and what has passed since
\* its claim together above the shortest cooldown.
THEOREM KeysAreSpaced == AlertsSpec => []AlertsInv
<1>1. AlertsInit => AlertsInv
  BY AlertsInitially
<1>2. AlertsInv /\ [AlertsNext]_alertVars => AlertsInv'
  BY ConfigKept, KeysKept DEF AlertsInv
<1> QED BY <1>1, <1>2, PTL DEF AlertsSpec

\* No double fire: the posts about one trigger are at least the shortest
\* cooldown apart, whatever is retried, crashes or is reconfigured.
THEOREM CooldownSeparatesAlerts == AlertsSpec => CooldownIsKept
<1>1. AlertsInv /\ [AlertsNext]_alertVars =>
        [\A j \in JobIds : jobs[j].state # "posting" /\ jobs'[j].state = "posting" =>
           since[jobs[j].trigger] >= MinCooldown]_alertVars
  BY ClaimIsSpaced
<1> QED BY <1>1, KeysAreSpaced, PTL DEF AlertsSpec, CooldownIsKept
=============================================================================
