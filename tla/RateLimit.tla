------------------------------ MODULE RateLimit ------------------------------
(***************************************************************************)
(* The token bucket of ratelimit.ts: a Lua script on a Redis hash, and a   *)
(* bucket in process memory for when the call rejects. A caller reads its  *)
(* clock first and reaches Redis later, so the script may see times run    *)
(* backwards. How much later has no bound: with maxRetriesPerRequest null  *)
(* (queue.ts) a call waits for a lost connection to come back, and one     *)
(* whose reply was lost is sent, and runs, once more.                      *)
(*                                                                         *)
(* Tokens are measured in the time it takes to earn them: a tick refills   *)
(* one unit of every bucket, and a request of key k costs Cost(k) units    *)
(* (refillPerSec is the number of requests a second's ticks pay for).      *)
(***************************************************************************)
EXTENDS Integers, Sequences, FiniteSets

CONSTANTS
  Keys, Callers,
  Override,      \* per key, the source's own [period, burst]; 0 is null or not positive
  Env, Preset,   \* of its kind: the environment's (0: unset or not positive), the code's
  Slowest,       \* the period of 0.01 tokens per second
  Slack,         \* the 60 seconds added to the key's life
  FallbackMax,   \* FALLBACK_MAX_BUCKETS
  MaxClock, MaxOutages, MaxCalls,   \* bounds
  None

\* defaultConfig and its siblings for replays, API tokens and test alerts.
Default(k, f) == IF Env[k][f] > 0 THEN Env[k][f] ELSE Preset[k][f]

\* configForSource: the source's own setting wins. period is the number of units
\* that make a token (1 / refillPerSec), burst counts half tokens.
Setting(k, f) == IF Override[k][f] > 0 THEN Override[k][f] ELSE Default(k, f)

Least(a, b) == IF a < b THEN a ELSE b
Forward(a, b) == IF b > a THEN b - a ELSE 0

Cost(k)     == Setting(k, "period")
Capacity(k) == (Setting(k, "burst") * Cost(k)) \div 2
Whole(k)    == (Setting(k, "burst") \div 2) * Cost(k)   \* Math.floor(cfg.capacity)

\* The life of a key: the time to refill it at its rate, but at no less than 0.01
\* tokens per second, and the slack.
TTL(k) == (Setting(k, "burst") * Least(Cost(k), Slowest) + 1) \div 2 + Slack

ASSUME RateLimitAssumption ==
  /\ \A k \in Keys : /\ Cost(k) \in Nat /\ Capacity(k) \in Nat /\ Whole(k) \in Nat
                     /\ Whole(k) <= Capacity(k) /\ Setting(k, "burst") \in Nat
  /\ Slack \in Nat /\ Slowest \in Nat
  /\ FallbackMax \in Nat \ {0} /\ MaxClock \in Nat /\ MaxOutages \in Nat
  /\ MaxCalls \in Nat /\ None \notin Keys /\ None \notin Int
  /\ None \notin [tokens : Nat, ts : Nat]

VARIABLES
  clock,
  tokens, ts, wrote,         \* the Redis hash, and when its life was renewed
  local, order,              \* fallback buckets, and their insertion order
  at, key, now,              \* each caller: point, key, clock reading
  up, outages, calls,        \* whether there is a connection; outages and calls so far
  \* History: the start of the period watched; the units granted in it by Redis
  \* and by the current local bucket; the newest time Redis was given, or that
  \* start; what the calls that came late were worth.
  mark, spent, localSpent, newest, late

redisVars == <<tokens, ts, wrote, spent, newest, late>>
localVars == <<local, order, localSpent>>
callVars  == <<at, key, now>>
limitVars == <<clock, redisVars, localVars, callVars, up, outages, calls, mark>>

\* The key exists: written, and not expired since.
Live(k) == wrote[k] # None /\ clock - wrote[k] < TTL(k)

LimitInit ==
  /\ clock = 0
  /\ tokens = [k \in Keys |-> 0] /\ ts = [k \in Keys |-> 0]
  /\ wrote = [k \in Keys |-> None]
  /\ local = [k \in Keys |-> None] /\ order = <<>>
  /\ at = [c \in Callers |-> "idle"] /\ key = [c \in Callers |-> None]
  /\ now = [c \in Callers |-> 0]
  /\ up = TRUE /\ outages = 0 /\ calls = 0 /\ mark = 0
  /\ spent = [k \in Keys |-> 0] /\ newest = [k \in Keys |-> 0] /\ late = [k \in Keys |-> 0]
  /\ localSpent = [k \in Keys |-> 0]

\* Mutant of Refilled: the cap is forgotten.
RefilledUncapped(have, cap, from, to) == have + Forward(from, to)

Refilled(have, cap, from, to) == Least(cap, have + Forward(from, to))

-----------------------------------------------------------------------------
\* consumeToken reads Date.now() ...
Stamp(c, k) ==
  /\ at[c] = "idle" /\ calls < MaxCalls
  /\ at' = [at EXCEPT ![c] = "stamped"] /\ key' = [key EXCEPT ![c] = k]
  /\ now' = [now EXCEPT ![c] = clock] /\ calls' = calls + 1
  /\ UNCHANGED <<clock, redisVars, localVars, up, outages, mark>>

Return(c) ==
  /\ at' = [at EXCEPT ![c] = "idle"]
  /\ key' = [key EXCEPT ![c] = None] /\ now' = [now EXCEPT ![c] = 0]

Enough(k, have) == have >= Cost(k)

\* History: how late a call comes, in terms of what it may gain, never more than a
\* burst: behind the newest time, and, if the key has expired, behind its slack.
Behind(k, t)  == Least(Whole(k), Forward(t, newest[k]))
Overdue(k, t) == IF wrote[k] # None /\ ~Live(k)
                 THEN Least(Whole(k), Forward(t + Slack, clock)) ELSE 0

\* ... and the script runs: refill, take a token or say how long to wait, store
\* the caller's time, renew the key's life.
Script(k, t) ==
  LET have == IF Live(k) THEN Refilled(tokens[k], Whole(k), ts[k], t) ELSE Whole(k)
      granted == Enough(k, have)
  IN /\ tokens' = [tokens EXCEPT ![k] = IF granted THEN have - Cost(k) ELSE have]
     /\ spent' = [spent EXCEPT ![k] = IF granted THEN @ + Cost(k) ELSE @]
     /\ ts' = [ts EXCEPT ![k] = t]
     /\ wrote' = [wrote EXCEPT ![k] = clock]
     /\ newest' = [newest EXCEPT ![k] = @ + Forward(@, t)]
     /\ late' = [late EXCEPT ![k] = @ + Behind(k, t) + Overdue(k, t)]

Eval(c) ==
  /\ at[c] = "stamped" /\ up
  /\ Script(key[c], now[c])
  /\ Return(c)
  /\ UNCHANGED <<clock, localVars, up, outages, calls, mark>>

\* Mutant of Full: the map outgrows its cap by one.
FullLate == Len(order) > FallbackMax

\* There are FALLBACK_MAX_BUCKETS.
Full == Len(order) >= FallbackMax

\* checkFallbackLimit: the same bucket in memory, with the clock read again; a
\* full map evicts the bucket inserted first.
Fallback(k) ==
  LET fresh == local[k] = None
      have == IF fresh THEN Capacity(k)
              ELSE Refilled(local[k].tokens, Capacity(k), local[k].ts, clock)
      granted == Enough(k, have)
      left == IF granted THEN have - Cost(k) ELSE have
      Lost(j) == fresh /\ Full /\ j = Head(order)
  IN /\ local' = [j \in Keys |-> IF j = k THEN [tokens |-> left, ts |-> clock]
                                 ELSE IF Lost(j) THEN None ELSE local[j]]
     /\ order' = IF ~fresh THEN order ELSE Append(IF Full THEN Tail(order) ELSE order, k)
     /\ localSpent' = [localSpent EXCEPT ![k] = (IF fresh THEN 0 ELSE @)
                                                + (IF granted THEN Cost(k) ELSE 0)]

\* Redis answers with an error (out of memory, read-only), and the catch block asks
\* the bucket in memory.
EvalFails(c) ==
  /\ at[c] = "stamped" /\ up
  /\ Fallback(key[c])
  /\ Return(c)
  /\ UNCHANGED <<clock, redisVars, up, outages, calls, mark>>

\* A call takes as long as it takes.
Tick ==
  /\ clock < MaxClock
  /\ clock' = clock + 1
  /\ UNCHANGED <<redisVars, localVars, callVars, up, outages, calls, mark>>

Break == up /\ outages < MaxOutages /\ up' = FALSE /\ outages' = outages + 1

\* The connection is lost: calls under way wait for it.
Outage == Break /\ UNCHANGED <<clock, redisVars, localVars, callVars, calls, mark>>

\* It is lost after the script ran and before the reply: the call waits as well,
\* and is sent again.
ReplyLost(c) ==
  /\ at[c] = "stamped" /\ Break
  /\ Script(key[c], now[c])
  /\ UNCHANGED <<clock, localVars, callVars, calls, mark>>

Recover ==
  /\ ~up /\ up' = TRUE
  /\ UNCHANGED <<clock, redisVars, localVars, callVars, outages, calls, mark>>

\* The period the properties watch starts now (once in a run; a history action).
Watch ==
  /\ mark = 0 /\ clock > 0
  /\ mark' = clock
  /\ spent' = [k \in Keys |-> 0] /\ newest' = [k \in Keys |-> clock] /\ late' = [k \in Keys |-> 0]
  /\ localSpent' = [k \in Keys |-> 0]
  /\ UNCHANGED <<clock, tokens, ts, wrote, local, order, callVars, up, outages, calls>>

-----------------------------------------------------------------------------
LimitNext ==
  \/ \E c \in Callers : (\E k \in Keys : Stamp(c, k)) \/ Eval(c) \/ EvalFails(c) \/ ReplyLost(c)
  \/ Tick \/ Outage \/ Recover \/ Watch

LimitSpec == LimitInit /\ [][LimitNext]_limitVars

-----------------------------------------------------------------------------
(* Properties.                                                              *)

\* What Redis grants a key in any period is at most a burst, what the period earns,
\* and for each call that came late what it was late by, or a burst if that is
\* less: neither an idle key nor an expired one gains more, nor a call that waited
\* out an outage or ran twice. At less than 0.01 tokens per second it may.
GrantsAreEarned ==
  \A k \in Keys : Cost(k) <= Slowest => spent[k] <= Whole(k) + (clock - mark) + late[k]

\* So does a local bucket while it is not evicted, and memory holds no more
\* buckets than the cap, each listed once in the eviction order.
LocalIsBounded ==
  /\ \A k \in Keys : local[k] # None => localSpent[k] <= Capacity(k) + (clock - mark)
  /\ Len(order) <= FallbackMax
  /\ Cardinality({k \in Keys : local[k] # None}) = Len(order)

-----------------------------------------------------------------------------
(* What the comments say and the code does not do.                          *)

\* "TTL = time to refill a full bucket from empty, plus a small buffer": not for a
\* rate below 0.01, whose key expires, and is full again, before it has refilled.
SlowGrantsAreEarned == \A k \in Keys : spent[k] <= Whole(k) + (clock - mark) + late[k]

\* "any Redis disruption", "during an outage we mirror the bucket in process memory":
\* but a call that has no connection neither rejects nor asks the fallback, however
\* long the outage.
OutageIsBridged == \A c \in Callers : ~up /\ at[c] = "stamped" => clock - now[c] <= Slack
=============================================================================
