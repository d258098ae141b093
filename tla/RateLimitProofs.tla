--------------------------- MODULE RateLimitProofs ---------------------------
(* The bounds on what the bucket in Redis and its fallback in memory grant, *)
(* for every rate, burst, number of callers and lag of a call, and on how   *)
(* many buckets memory holds.                                               *)
EXTENDS RateLimit, FiniteSetTheorems, SequenceTheorems, TLAPS

\* Types of what the bound depends on.
BucketTypeOK ==
  /\ clock \in Nat /\ mark \in Nat /\ mark <= clock
  /\ tokens \in [Keys -> Nat] /\ ts \in [Keys -> Nat]
  /\ wrote \in [Keys -> Nat \cup {None}]
  /\ spent \in [Keys -> Nat] /\ newest \in [Keys -> Nat] /\ late \in [Keys -> Nat]
  /\ at \in [Callers -> {"idle", "stamped"}]
  /\ key \in [Callers -> Keys \cup {None}] /\ now \in [Callers -> Nat]

\* A caller on its way to Redis has a time of the past, however long ago.
StampIsPast(c) == at[c] = "stamped" => key[c] \in Keys /\ now[c] <= clock

\* What the bucket would hold for a call stamped with the newest time so far.
Balance(k) == Least(Whole(k), tokens[k] + (newest[k] - ts[k]))

\* What is granted and what is left never exceed what the period paid for.
Accounted(k) ==
  /\ ts[k] <= newest[k] /\ mark <= newest[k] /\ newest[k] <= clock
  /\ tokens[k] <= Whole(k)
  /\ wrote[k] # None => wrote[k] <= clock
  /\ spent[k] > 0 => wrote[k] # None /\ newest[k] <= wrote[k]
  /\ Cost(k) <= Slowest => spent[k] + Balance(k) <= Whole(k) + (newest[k] - mark) + late[k]

LimitInv ==
  /\ BucketTypeOK
  /\ \A c \in Callers : StampIsPast(c)
  /\ \A k \in Keys : Accounted(k)

\* The constants of a key.
LEMMA SettingsType ==
  ASSUME NEW k \in Keys
  PROVE  /\ Cost(k) \in Nat /\ Capacity(k) \in Nat /\ Whole(k) \in Nat
         /\ Whole(k) <= Capacity(k) /\ Slack \in Nat /\ None \notin Int
BY RateLimitAssumption

\* Unless its rate is below the slowest, a key lives as long as a full refill takes.
LEMMA LifeIsRefill ==
  ASSUME NEW k \in Keys, Cost(k) <= Slowest
  PROVE  TTL(k) \in Nat /\ TTL(k) >= Whole(k) + Slack
<1> DEFINE n == Setting(k, "burst") * Cost(k)
<1>1. Least(Cost(k), Slowest) = Cost(k)
  BY RateLimitAssumption DEF Least
<1>2. n \in Nat /\ Whole(k) <= n \div 2 /\ Slack \in Nat /\ Whole(k) \in Nat
  BY RateLimitAssumption DEF Capacity
<1>3. TTL(k) = (n + 1) \div 2 + Slack
  BY <1>1 DEF TTL
<1> HIDE DEF n
<1>4. (n + 1) \div 2 >= n \div 2 /\ (n + 1) \div 2 \in Nat
  BY <1>2
<1> QED
  BY <1>2, <1>3, <1>4

\* What one call does to the balance of its key, in numbers: w is the whole bucket, c
\* the cost, r what was left at time s, n the newest time, t the call's.
LEMMA RefillIsPaid ==
  ASSUME NEW w \in Nat, NEW c \in Nat, NEW r \in Nat, NEW s \in Nat, NEW n \in Nat, NEW t \in Nat,
         s <= n, r <= w,
         NEW h \in Nat, h = Least(w, r + Forward(s, t)),
         NEW u \in Nat, NEW g \in Nat, u + g = h, u = h \/ (g = c /\ c <= h),
         NEW m \in Nat, m = n + Forward(n, t)
  PROVE  g + Least(w, u + (m - t))
           <= Least(w, r + (n - s)) + (m - n) + Least(w, Forward(t, n))
<1>1. CASE t >= n
  BY <1>1 DEF Least, Forward
<1>2. CASE t < n
  BY <1>2 DEF Least, Forward
<1> QED
  BY <1>1, <1>2

\* The same for a call that finds no key.
LEMMA FreshIsPaid ==
  ASSUME NEW w \in Nat, NEW c \in Nat, NEW n \in Nat, NEW t \in Nat,
         NEW u \in Nat, NEW g \in Nat, u + g = w, u = w \/ (g = c /\ c <= w),
         NEW m \in Nat, m = n + Forward(n, t)
  PROVE  g + Least(w, u + (m - t)) <= w + Least(w, Forward(t, n))
BY DEF Least, Forward

\* One run of the script keeps the account of its key, expired or not, and
\* touches no other key.
LEMMA ScriptKeepsAccounts ==
  ASSUME LimitInv, NEW k \in Keys, NEW t \in Nat, t <= clock, Script(k, t), UNCHANGED <<clock, mark>>
  PROVE  /\ tokens' \in [Keys -> Nat] /\ ts' \in [Keys -> Nat]
         /\ wrote' \in [Keys -> Nat \cup {None}]
         /\ spent' \in [Keys -> Nat] /\ newest' \in [Keys -> Nat] /\ late' \in [Keys -> Nat]
         /\ \A j \in Keys : Accounted(j)'
<1> DEFINE have == IF Live(k) THEN Refilled(tokens[k], Whole(k), ts[k], t) ELSE Whole(k)
           granted == have >= Cost(k)
           left == IF granted THEN have - Cost(k) ELSE have
           got == IF granted THEN Cost(k) ELSE 0
           top == newest[k] + Forward(newest[k], t)
           more == Behind(k, t) + Overdue(k, t)
<1>t. BucketTypeOK /\ Accounted(k)
  BY DEF LimitInv
<1>c. /\ Cost(k) \in Nat /\ Capacity(k) \in Nat /\ Whole(k) \in Nat
      /\ Whole(k) <= Capacity(k) /\ Slack \in Nat /\ None \notin Int
  BY SettingsType
<1>k. /\ tokens[k] \in Nat /\ ts[k] \in Nat /\ spent[k] \in Nat /\ late[k] \in Nat
      /\ newest[k] \in Nat /\ clock \in Nat /\ mark \in Nat
  BY <1>t DEF BucketTypeOK
<1>a. ts[k] <= newest[k] /\ mark <= newest[k] /\ newest[k] <= clock /\ tokens[k] <= Whole(k)
  BY <1>t DEF Accounted
<1>h. have \in Nat /\ have <= Whole(k)
  BY <1>a, <1>c, <1>k DEF Refilled, Least, Forward
<1>n. /\ left \in Nat /\ left <= Whole(k) /\ got \in Nat /\ left + got = have
      /\ left = have \/ (got = Cost(k) /\ Cost(k) <= have)
  BY <1>h, <1>c
<1>m. top \in Nat /\ top >= newest[k] /\ top >= t /\ top <= clock
  BY <1>k, <1>a DEF Forward
<1>b. /\ Behind(k, t) \in Nat /\ Overdue(k, t) \in Nat /\ more \in Nat
      /\ Behind(k, t) = Least(Whole(k), Forward(t, newest[k]))
  BY <1>k, <1>c DEF Behind, Overdue, Least, Forward
<1>s. /\ tokens' = [tokens EXCEPT ![k] = left]
      /\ spent' = [spent EXCEPT ![k] = IF granted THEN @ + Cost(k) ELSE @]
      /\ ts' = [ts EXCEPT ![k] = t] /\ wrote' = [wrote EXCEPT ![k] = clock]
      /\ newest' = [newest EXCEPT ![k] = @ + Forward(@, t)]
      /\ late' = [late EXCEPT ![k] = @ + Behind(k, t) + Overdue(k, t)]
  BY DEF Script, Enough
<1>4. /\ tokens'[k] = left /\ ts'[k] = t /\ wrote'[k] = clock /\ newest'[k] = top
      /\ spent'[k] = spent[k] + got /\ late'[k] = late[k] + more
  BY <1>s, <1>t, <1>b, <1>k, <1>c DEF BucketTypeOK
<1> HIDE DEF have, left, got, granted, top, more
<1>1. /\ tokens' \in [Keys -> Nat] /\ ts' \in [Keys -> Nat] /\ wrote' \in [Keys -> Nat \cup {None}]
      /\ spent' \in [Keys -> Nat] /\ newest' \in [Keys -> Nat] /\ late' \in [Keys -> Nat]
  <2>1. tokens' \in [Keys -> Nat] /\ ts' \in [Keys -> Nat] /\ wrote' \in [Keys -> Nat \cup {None}]
    BY <1>s, <1>n, <1>t DEF BucketTypeOK
  <2>2. spent[k] + Cost(k) \in Nat /\ newest[k] + Forward(newest[k], t) \in Nat
        /\ late[k] + Behind(k, t) + Overdue(k, t) \in Nat
    BY <1>k, <1>c, <1>b DEF Forward
  <2>3. spent' \in [Keys -> Nat] /\ newest' \in [Keys -> Nat] /\ late' \in [Keys -> Nat]
    BY <1>s, <1>t, <2>2 DEF BucketTypeOK
  <2> QED
    BY <2>1, <2>3
<1>3. ASSUME NEW j \in Keys, j # k
      PROVE  Accounted(j)'
  <2>1. Accounted(j)
    BY DEF LimitInv
  <2>2. /\ tokens'[j] = tokens[j] /\ ts'[j] = ts[j] /\ wrote'[j] = wrote[j] /\ spent'[j] = spent[j]
        /\ newest'[j] = newest[j] /\ late'[j] = late[j] /\ clock' = clock /\ mark' = mark
    BY <1>s, <1>t, <1>3 DEF BucketTypeOK
  <2> QED
    BY <2>1, <2>2 DEF Accounted, Balance, Whole, Setting, Cost, Default
<1>5. ASSUME Cost(k) <= Slowest
      PROVE  got + Least(Whole(k), left + (top - t)) <= Balance(k) + (top - newest[k]) + more
             \/ (spent[k] = 0 /\ got + Least(Whole(k), left + (top - t)) <= Whole(k) + more)
  <2>0. Overdue(k, t) \in Nat /\ Behind(k, t) \in Nat /\ more = Behind(k, t) + Overdue(k, t)
    BY <1>b DEF more
  <2>1. CASE Live(k)
    <3>1. have = Least(Whole(k), tokens[k] + Forward(ts[k], t))
      BY <2>1 DEF have, Refilled
    <3>2. got + Least(Whole(k), left + (top - t))
            <= Balance(k) + (top - newest[k]) + Least(Whole(k), Forward(t, newest[k]))
      BY <3>1, <1>a, <1>c, <1>k, <1>h, <1>n, <1>m, RefillIsPaid DEF Balance, top
    <3> DEFINE new == got + Least(Whole(k), left + (top - t))
    <3>3. new \in Int /\ Balance(k) \in Int /\ top - newest[k] \in Int
      BY <1>n, <1>c, <1>k, <1>m DEF Least, Balance
    <3> QED
      BY <2>0, <3>2, <3>3, <1>b
  <2>2. CASE ~Live(k)
    <3>1. have = Whole(k)
      BY <2>2 DEF have
    <3>2. got + Least(Whole(k), left + (top - t)) <= Whole(k) + Behind(k, t)
      BY <3>1, <1>c, <1>k, <1>n, <1>m, <1>b, FreshIsPaid DEF top
    <3>3. CASE spent[k] = 0
      <4>1. got + Least(Whole(k), left + (top - t)) \in Int
        BY <1>n, <1>c, <1>k, <1>m DEF Least
      <4> QED
        BY <3>2, <3>3, <4>1, <2>0, <1>c
    <3>4. CASE spent[k] > 0
      <4>2. TTL(k) \in Nat /\ TTL(k) >= Whole(k) + Slack
        BY <1>5, LifeIsRefill
      <4>w. wrote[k] \in Nat /\ newest[k] <= wrote[k]
        BY <3>4, <1>t, <1>c DEF BucketTypeOK, Accounted
      <4>1. wrote[k] \in Nat /\ newest[k] <= wrote[k] /\ clock - wrote[k] >= TTL(k)
        BY <4>w, <4>2, <2>2, <1>k, <1>c DEF Live
      <4>3. Overdue(k, t) = Least(Whole(k), Forward(t + Slack, clock))
        BY <4>1, <2>2, <1>c DEF Overdue
      <4>4. Whole(k) <= (top - newest[k]) + Overdue(k, t)
        BY <4>1, <4>2, <4>3, <1>k, <1>c, <1>m DEF Least, Forward
      <4>5. Balance(k) \in Nat /\ got + Least(Whole(k), left + (top - t)) \in Int
        BY <1>k, <1>a, <1>c, <1>n, <1>m DEF Balance, Least
      <4> QED
        BY <3>2, <4>4, <4>5, <2>0, <1>c, <1>k, <1>m
    <3> QED
      BY <3>3, <3>4, <1>k
  <2> QED
    BY <2>1, <2>2
<1>6. Accounted(k)'
  <2>1. /\ ts'[k] <= newest'[k] /\ mark' <= newest'[k] /\ newest'[k] <= clock'
        /\ tokens'[k] <= Whole(k)
        /\ wrote'[k] <= clock' /\ wrote'[k] # None /\ newest'[k] <= wrote'[k]
    BY <1>4, <1>n, <1>m, <1>k, <1>a, <1>c
  <2>2. Balance(k)' = Least(Whole(k), left + (top - t))
    BY <1>4 DEF Balance, Whole, Setting, Cost, Default, Least
  <2>3. ASSUME Cost(k) <= Slowest
        PROVE  spent'[k] + Balance(k)' <= Whole(k) + (newest'[k] - mark') + late'[k]
    <3>1. spent[k] + Balance(k) <= Whole(k) + (newest[k] - mark) + late[k]
      BY <2>3, <1>t DEF Accounted
    <3>2. Balance(k) \in Nat /\ Least(Whole(k), left + (top - t)) \in Int
      BY <1>k, <1>a, <1>c, <1>n, <1>m DEF Balance, Least
    <3> QED
      BY <2>3, <1>5, <3>1, <3>2, <2>2, <1>4, <1>k, <1>n, <1>m, <1>b, <1>c, <1>a
  <2> QED
    BY <2>1, <2>3 DEF Accounted, Whole, Setting, Cost, Default
<1> QED
  BY <1>1, <1>3, <1>6

\* A step that leaves Redis alone keeps the accounts, time passing or not.
LEMMA RestKeepsAccounts ==
  ASSUME LimitInv, UNCHANGED <<redisVars, mark>>, clock' \in Nat, clock' >= clock
  PROVE  \A k \in Keys : Accounted(k)'
<1> SUFFICES ASSUME NEW k \in Keys PROVE Accounted(k)'
  OBVIOUS
<1>1. Accounted(k) /\ BucketTypeOK
  BY DEF LimitInv
<1>2. /\ wrote[k] \in Nat \cup {None} /\ None \notin Int /\ newest[k] \in Nat /\ clock \in Nat
  BY <1>1, SettingsType DEF BucketTypeOK
<1> QED
  BY <1>1, <1>2 DEF Accounted, Balance, redisVars, Whole, Setting, Cost, Default

LEMMA LimitInvInit == LimitInit => LimitInv
<1> SUFFICES ASSUME LimitInit PROVE LimitInv
  OBVIOUS
<1>1. BucketTypeOK
  BY DEF LimitInit, BucketTypeOK
<1>2. \A c \in Callers : StampIsPast(c)
  BY DEF LimitInit, StampIsPast
<1>3. ASSUME NEW k \in Keys PROVE Accounted(k)
  BY SettingsType DEF LimitInit, Accounted, Balance, Least
<1> QED
  BY <1>1, <1>2, <1>3 DEF LimitInv

\* Every step keeps the accounts.
LEMMA LimitInvStep == LimitInv /\ [LimitNext]_limitVars => LimitInv'
<1> SUFFICES ASSUME LimitInv, [LimitNext]_limitVars PROVE LimitInv'
  OBVIOUS
<1>t. BucketTypeOK /\ (\A c \in Callers : StampIsPast(c))
  BY DEF LimitInv
<1> USE DEF callVars
<1>1. ASSUME NEW c \in Callers, NEW k \in Keys, Stamp(c, k) PROVE LimitInv'
  <2>1. BucketTypeOK'
    BY <1>1, <1>t DEF Stamp, BucketTypeOK, redisVars
  <2>2. \A b \in Callers : StampIsPast(b)'
    BY <1>1, <1>t DEF Stamp, BucketTypeOK, StampIsPast
  <2>3. \A j \in Keys : Accounted(j)'
    BY <1>1, <1>t, RestKeepsAccounts DEF Stamp, BucketTypeOK
  <2> QED
    BY <2>1, <2>2, <2>3 DEF LimitInv
<1>2. ASSUME NEW c \in Callers, Eval(c) \/ EvalFails(c) \/ ReplyLost(c) PROVE LimitInv'
  <2>1. /\ key[c] \in Keys /\ now[c] \in Nat /\ now[c] <= clock
        /\ UNCHANGED <<clock, mark>> /\ (Return(c) \/ UNCHANGED callVars)
        /\ Script(key[c], now[c]) \/ UNCHANGED redisVars
    BY <1>2, <1>t DEF Eval, EvalFails, ReplyLost, StampIsPast, BucketTypeOK
  <2>2. /\ tokens' \in [Keys -> Nat] /\ ts' \in [Keys -> Nat]
        /\ wrote' \in [Keys -> Nat \cup {None}]
        /\ spent' \in [Keys -> Nat] /\ newest' \in [Keys -> Nat] /\ late' \in [Keys -> Nat]
        /\ \A j \in Keys : Accounted(j)'
    <3>1. CASE Script(key[c], now[c])
      BY <3>1, <2>1, ScriptKeepsAccounts
    <3>2. CASE UNCHANGED redisVars
      BY <3>2, <2>1, <1>t, RestKeepsAccounts DEF redisVars, BucketTypeOK
    <3> QED
      BY <2>1, <3>1, <3>2
  <2>3. BucketTypeOK'
    BY <2>1, <2>2, <1>t DEF BucketTypeOK, Return
  <2>4. \A b \in Callers : StampIsPast(b)'
    BY <2>1, <1>t DEF Return, StampIsPast, BucketTypeOK
  <2> QED
    BY <2>2, <2>3, <2>4 DEF LimitInv
<1>3. CASE Tick
  <2>1. BucketTypeOK'
    BY <1>3, <1>t DEF Tick, BucketTypeOK, redisVars
  <2>2. \A b \in Callers : StampIsPast(b)'
    BY <1>3, <1>t DEF Tick, BucketTypeOK, StampIsPast
  <2>3. \A j \in Keys : Accounted(j)'
    BY <1>3, <1>t, RestKeepsAccounts DEF Tick, BucketTypeOK
  <2> QED
    BY <2>1, <2>2, <2>3 DEF LimitInv
<1>4. CASE Outage \/ Recover \/ UNCHANGED limitVars
  <2>1. UNCHANGED <<clock, mark, redisVars, callVars>>
    BY <1>4 DEF Outage, Recover, limitVars
  <2>2. BucketTypeOK'
    BY <2>1, <1>t DEF BucketTypeOK, redisVars
  <2>3. \A b \in Callers : StampIsPast(b)'
    BY <2>1, <1>t DEF StampIsPast
  <2>4. \A j \in Keys : Accounted(j)'
    BY <2>1, <1>t, RestKeepsAccounts DEF BucketTypeOK
  <2> QED
    BY <2>2, <2>3, <2>4 DEF LimitInv
<1>5. CASE Watch
  <2>1. BucketTypeOK'
    BY <1>5, <1>t DEF Watch, BucketTypeOK
  <2>2. \A b \in Callers : StampIsPast(b)'
    BY <1>5, <1>t DEF Watch, StampIsPast
  <2>3. ASSUME NEW j \in Keys PROVE Accounted(j)'
    <3>1. /\ Accounted(j) /\ spent'[j] = 0 /\ late'[j] = 0 /\ newest'[j] = clock /\ mark' = clock
          /\ UNCHANGED <<tokens, ts, wrote, clock>>
      BY <1>5 DEF Watch, LimitInv
    <3>2. clock \in Nat /\ newest[j] \in Nat /\ ts[j] \in Nat /\ Whole(j) \in Nat /\ tokens[j] \in Nat
      BY <1>t, SettingsType DEF BucketTypeOK
    <3>3. Whole(j)' = Whole(j) /\ Cost(j)' = Cost(j) /\ Slowest' = Slowest
      BY DEF Whole, Setting, Cost, Default
    <3>4. Balance(j)' <= Whole(j) /\ Balance(j)' \in Int
      BY <3>1, <3>2, <3>3 DEF Balance, Least
    <3> QED
      BY <3>1, <3>2, <3>3, <3>4 DEF Accounted
  <2> QED
    BY <2>1, <2>2, <2>3 DEF LimitInv
<1> QED
  BY <1>1, <1>2, <1>3, <1>4, <1>5 DEF LimitNext

\* The account of a bucket in Redis (ratelimit.ts:24-62): what was granted in the
\* period, and what a call with the newest time would find, is paid for by a burst,
\* by the time since, and by the calls that came late; in every reachable state.
THEOREM BucketIsAccounted == LimitSpec => []LimitInv
<1>1. LimitInit => LimitInv
  BY LimitInvInit
<1>2. LimitInv /\ [LimitNext]_limitVars => LimitInv'
  BY LimitInvStep
<1> QED
  BY <1>1, <1>2, PTL DEF LimitSpec

\* ratelimit.ts grants a key no more in any period than a burst, what the period
\* earns, and for each late call what it was late by, or a burst if that is less;
\* whatever expires, is sent again or waits out an outage meanwhile.
THEOREM LimiterHolds == LimitSpec => []GrantsAreEarned
<1>1. LimitInv => GrantsAreEarned
  <2> SUFFICES ASSUME LimitInv, NEW k \in Keys, Cost(k) <= Slowest
               PROVE  spent[k] <= Whole(k) + (clock - mark) + late[k]
    BY DEF GrantsAreEarned
  <2>1. BucketTypeOK /\ Accounted(k)
    BY DEF LimitInv
  <2>2. /\ spent[k] \in Nat /\ tokens[k] \in Nat /\ ts[k] \in Nat /\ late[k] \in Nat
        /\ Whole(k) \in Nat /\ newest[k] \in Nat /\ clock \in Nat /\ mark \in Nat
    BY <2>1, SettingsType DEF BucketTypeOK
  <2>3. Balance(k) \in Nat /\ newest[k] <= clock
    BY <2>1, <2>2 DEF Accounted, Balance, Least
  <2>4. spent[k] + Balance(k) <= Whole(k) + (newest[k] - mark) + late[k]
    BY <2>1 DEF Accounted
  <2> QED
    BY <2>2, <2>3, <2>4
<1> QED
  BY <1>1, BucketIsAccounted, PTL

-----------------------------------------------------------------------------
(* The fallback's buckets. The eviction order lists every bucket once, and   *)
(* each is accounted for from its insertion, or from the start of the period.*)

LocalTypeOK ==
  /\ clock \in Nat /\ mark \in Nat /\ mark <= clock
  /\ local \in [Keys -> [tokens : Nat, ts : Nat] \cup {None}]
  /\ localSpent \in [Keys -> Nat]
  /\ order \in Seq(Keys) /\ Len(order) <= FallbackMax

OrderListsBuckets ==
  /\ \A i, j \in 1..Len(order) : order[i] = order[j] => i = j
  /\ \A i \in 1..Len(order) : local[order[i]] # None
  /\ \A k \in Keys : local[k] # None => \E i \in 1..Len(order) : order[i] = k

LocalAccounted(k) ==
  local[k] # None =>
    /\ local[k].tokens <= Capacity(k) /\ local[k].ts <= clock
    /\ localSpent[k] > 0 =>
         /\ local[k].ts >= mark
         /\ localSpent[k] + local[k].tokens <= Capacity(k) + (local[k].ts - mark)

LocalInv == LocalTypeOK /\ OrderListsBuckets /\ \A k \in Keys : LocalAccounted(k)

\* Before an insertion there is room: the list, without its head when the map is
\* full, lists the buckets that stay.
Room == IF Full THEN Tail(order) ELSE order
Stays(j) == local[j] # None /\ ~(Full /\ j = Head(order))

LEMMA RoomListsTheRest ==
  ASSUME LocalInv
  PROVE  /\ Room \in Seq(Keys) /\ Len(Room) < FallbackMax
         /\ \A i, j \in 1..Len(Room) : Room[i] = Room[j] => i = j
         /\ \A i \in 1..Len(Room) : Stays(Room[i])
         /\ \A j \in Keys : Stays(j) => \E i \in 1..Len(Room) : Room[i] = j
<1>t. order \in Seq(Keys) /\ Len(order) <= FallbackMax /\ FallbackMax \in Nat \ {0} /\ Len(order) \in Nat
  BY RateLimitAssumption DEF LocalInv, LocalTypeOK
<1>u. OrderListsBuckets
  BY DEF LocalInv
<1>1. CASE ~Full
  BY <1>1, <1>t, <1>u DEF Full, Room, Stays, OrderListsBuckets
<1>2. CASE Full
  <2>1. order # <<>> /\ Room = Tail(order)
    BY <1>2, <1>t DEF Full, Room
  <2>2. /\ Room \in Seq(Keys) /\ Len(Room) = Len(order) - 1 /\ Head(order) = order[1]
        /\ \A i \in 1..Len(Room) : Room[i] = order[i + 1]
    BY <2>1, <1>t, HeadTailProperties
  <2>3. \A i, j \in 1..Len(Room) : Room[i] = Room[j] => i = j
    BY <2>2, <1>t, <1>u DEF OrderListsBuckets
  <2>4. \A i \in 1..Len(Room) : Stays(Room[i])
    BY <2>2, <1>t, <1>u DEF OrderListsBuckets, Stays
  <2>5. ASSUME NEW j \in Keys, Stays(j) PROVE \E i \in 1..Len(Room) : Room[i] = j
    <3>1. PICK n \in 1..Len(order) : order[n] = j
      BY <2>5, <1>u DEF Stays, OrderListsBuckets
    <3>2. n # 1
      BY <3>1, <2>2, <2>5, <1>2 DEF Stays
    <3>3. n - 1 \in 1..Len(Room) /\ Room[n - 1] = j
      BY <3>1, <3>2, <2>2, <1>t
    <3> QED
      BY <3>3
  <2>6. Room \in Seq(Keys) /\ Len(Room) < FallbackMax
    BY <2>2, <1>t
  <2> HIDE DEF Room, Stays
  <2> QED
    BY <2>3, <2>4, <2>5, <2>6
<1> QED
  BY <1>1, <1>2

\* One use of the bucket in memory, fresh or not.
LEMMA FallbackKeepsLocal ==
  ASSUME LocalInv, NEW k \in Keys, Fallback(k), UNCHANGED <<clock, mark>>
  PROVE  LocalInv'
<1> DEFINE fresh == local[k] = None
           have == IF fresh THEN Capacity(k)
                   ELSE Refilled(local[k].tokens, Capacity(k), local[k].ts, clock)
           granted == have >= Cost(k)
           left == IF granted THEN have - Cost(k) ELSE have
           sp == (IF fresh THEN 0 ELSE localSpent[k]) + (IF granted THEN Cost(k) ELSE 0)
<1>t. LocalTypeOK /\ OrderListsBuckets /\ \A j \in Keys : LocalAccounted(j)
  BY DEF LocalInv
<1>c. /\ Cost(k) \in Nat /\ Capacity(k) \in Nat /\ None \notin [tokens : Nat, ts : Nat]
      /\ clock \in Nat /\ mark \in Nat /\ mark <= clock /\ localSpent[k] \in Nat
  BY <1>t, RateLimitAssumption DEF LocalTypeOK
<1>b. ~fresh => local[k].tokens \in Nat /\ local[k].ts \in Nat
  BY <1>t DEF LocalTypeOK
<1>a. ~fresh => LocalAccounted(k)
  BY <1>t
<1>h. /\ have \in Nat /\ have <= Capacity(k)
      /\ ~fresh => have <= local[k].tokens + (clock - local[k].ts)
  BY <1>b, <1>a, <1>c DEF Refilled, Least, Forward, LocalAccounted
<1>n. /\ left \in Nat /\ left <= Capacity(k) /\ sp \in Nat
      /\ sp + left = (IF fresh THEN 0 ELSE localSpent[k]) + have
  BY <1>h, <1>c
<1>s. /\ local' = [j \in Keys |-> IF j = k THEN [tokens |-> left, ts |-> clock]
                                  ELSE IF fresh /\ Full /\ j = Head(order) THEN None ELSE local[j]]
      /\ order' = IF ~fresh THEN order ELSE Append(Room, k)
      /\ localSpent' = [localSpent EXCEPT ![k] = sp]
  BY DEF Fallback, Enough, Room
<1>p. sp <= Capacity(k) + (clock - mark) /\ sp + left <= Capacity(k) + (clock - mark)
  <2>1. CASE fresh \/ localSpent[k] = 0
    BY <2>1, <1>n, <1>h, <1>c
  <2>2. CASE ~fresh /\ localSpent[k] > 0
    <3>1. localSpent[k] + local[k].tokens <= Capacity(k) + (local[k].ts - mark)
      BY <2>2, <1>a DEF LocalAccounted
    <3> QED
      BY <2>2, <3>1, <1>n, <1>h, <1>c, <1>b
  <2> QED
    BY <2>1, <2>2, <1>c
<1> HIDE DEF have, granted, left, sp
<1>1. local' \in [Keys -> [tokens : Nat, ts : Nat] \cup {None}] /\ localSpent' \in [Keys -> Nat]
  BY <1>s, <1>n, <1>t, <1>c DEF LocalTypeOK
<1>2. local'[k] = [tokens |-> left, ts |-> clock] /\ local'[k] # None /\ localSpent'[k] = sp
  BY <1>s, <1>n, <1>t, <1>c DEF LocalTypeOK
<1>3. \A j \in Keys \ {k} : /\ local'[j] # None => local'[j] = local[j]
                            /\ localSpent'[j] = localSpent[j]
  BY <1>s, <1>t DEF LocalTypeOK
<1>4. ASSUME NEW j \in Keys PROVE LocalAccounted(j)'
  <2>1. CASE j = k
    <3>1. /\ left <= Capacity(k) /\ clock <= clock /\ clock >= mark
          /\ sp + left <= Capacity(k) + (clock - mark)
      BY <1>n, <1>p, <1>c
    <3> QED
      BY <2>1, <3>1, <1>2 DEF LocalAccounted, Capacity, Cost, Setting, Default
  <2>2. CASE j # k
    <3>1. LocalAccounted(j)
      BY <1>t
    <3> QED
      BY <2>2, <3>1, <1>3 DEF LocalAccounted, Capacity, Cost, Setting, Default
  <2> QED
    BY <2>1, <2>2
<1>5. CASE ~fresh
  <2>1. order' = order /\ \A j \in Keys : local'[j] # None <=> local[j] # None
    BY <1>5, <1>s, <1>2
  <2>2. \A i \in 1..Len(order) : order[i] \in Keys
    BY <1>t DEF LocalTypeOK
  <2>3. OrderListsBuckets'
    BY <1>t, <2>1, <2>2 DEF OrderListsBuckets
  <2>4. LocalTypeOK'
    BY <1>1, <1>t, <2>1 DEF LocalTypeOK
  <2> QED
    BY <1>4, <2>3, <2>4 DEF LocalInv
<1>6. CASE fresh
  <2>1. order' = Append(Room, k) /\ \A j \in Keys \ {k} : local'[j] # None <=> Stays(j)
    BY <1>6, <1>s DEF Stays
  <2>2. /\ Room \in Seq(Keys) /\ Len(Room) \in Nat /\ Len(Room) < FallbackMax
        /\ \A i, j \in 1..Len(Room) : Room[i] = Room[j] => i = j
        /\ \A i \in 1..Len(Room) : Stays(Room[i])
        /\ \A j \in Keys : Stays(j) => \E i \in 1..Len(Room) : Room[i] = j
    BY RoomListsTheRest
  <2>3. \A i \in 1..Len(Room) : Room[i] \in Keys /\ Room[i] # k
    BY <2>2, <1>6 DEF Stays
  <2>4. /\ order' \in Seq(Keys) /\ Len(order') = Len(Room) + 1
        /\ \A i \in 1..Len(Room) : order'[i] = Room[i]
        /\ order'[Len(Room) + 1] = k
    BY <2>1, <2>2, AppendProperties
  <2> HIDE DEF Room
  <2>r. Len(order') <= FallbackMax
    BY <2>2, <2>4, RateLimitAssumption
  <2>5. LocalTypeOK'
    BY <1>1, <1>t, <2>4, <2>r DEF LocalTypeOK
  <2>6. \A i, j \in 1..Len(order') : order'[i] = order'[j] => i = j
    BY <2>2, <2>3, <2>4
  <2>7. \A i \in 1..Len(order') : local'[order'[i]] # None
    BY <2>1, <2>2, <2>3, <2>4, <1>2
  <2>8. ASSUME NEW j \in Keys, local'[j] # None PROVE \E i \in 1..Len(order') : order'[i] = j
    <3>1. CASE j = k
      BY <3>1, <2>2, <2>4
    <3>2. CASE j # k
      <4>1. PICK i \in 1..Len(Room) : Room[i] = j
        BY <2>1, <2>2, <2>8, <3>2
      <4>2. i \in 1..Len(order') /\ order'[i] = j
        BY <4>1, <2>2, <2>4
      <4> QED
        BY <4>2
    <3> QED
      BY <3>1, <3>2
  <2>9. OrderListsBuckets'
    BY <2>6, <2>7, <2>8 DEF OrderListsBuckets
  <2> QED
    BY <1>4, <2>5, <2>9 DEF LocalInv
<1> QED
  BY <1>5, <1>6

\* Time passing, and the start of the period, keep the accounts.
LEMMA RestKeepsLocal ==
  ASSUME LocalInv, UNCHANGED <<local, order>>, clock' \in Nat, clock' >= clock,
         \/ UNCHANGED <<localSpent, mark>>
         \/ mark' = clock /\ clock' = clock /\ localSpent' = [k \in Keys |-> 0]
  PROVE  LocalInv'
<1>1. LocalTypeOK /\ OrderListsBuckets /\ \A k \in Keys : LocalAccounted(k)
  BY DEF LocalInv
<1>2. LocalTypeOK' /\ OrderListsBuckets'
  BY <1>1 DEF LocalTypeOK, OrderListsBuckets
<1>3. ASSUME NEW k \in Keys PROVE LocalAccounted(k)'
  <2>1. LocalAccounted(k) /\ (local[k] # None => local[k].ts \in Nat) /\ clock \in Nat
    BY <1>1 DEF LocalTypeOK
  <2>2. localSpent'[k] = 0 \/ (localSpent'[k] = localSpent[k] /\ mark' = mark)
    OBVIOUS
  <2> QED
    BY <2>1, <2>2 DEF LocalAccounted, Capacity, Cost, Setting, Default
<1> QED
  BY <1>2, <1>3 DEF LocalInv

LEMMA LocalInvInit == LimitInit => LocalInv
<1> SUFFICES ASSUME LimitInit PROVE LocalInv
  OBVIOUS
<1>1. order = <<>> /\ Len(order) = 0 /\ order \in Seq(Keys) /\ \A k \in Keys : local[k] = None
  BY DEF LimitInit
<1>2. LocalTypeOK
  BY <1>1, RateLimitAssumption DEF LimitInit, LocalTypeOK
<1>3. OrderListsBuckets
  BY <1>1 DEF OrderListsBuckets
<1> QED
  BY <1>1, <1>2, <1>3 DEF LocalInv, LocalAccounted

LEMMA LocalInvStep == LimitInv /\ LocalInv /\ [LimitNext]_limitVars => LocalInv'
<1> SUFFICES ASSUME LimitInv, LocalInv, [LimitNext]_limitVars PROVE LocalInv'
  OBVIOUS
<1>t. clock \in Nat
  BY DEF LocalInv, LocalTypeOK
<1>1. ASSUME NEW c \in Callers, EvalFails(c) PROVE LocalInv'
  <2>1. key[c] \in Keys /\ Fallback(key[c]) /\ UNCHANGED <<clock, mark>>
    BY <1>1 DEF EvalFails, LimitInv, StampIsPast
  <2> QED
    BY <2>1, FallbackKeepsLocal
<1>2. ASSUME NEW c \in Callers, (\E k \in Keys : Stamp(c, k)) \/ Eval(c) \/ ReplyLost(c)
      PROVE  LocalInv'
  BY <1>2, <1>t, RestKeepsLocal DEF Stamp, Eval, ReplyLost, localVars
<1>3. CASE Tick \/ Outage \/ Recover \/ Watch \/ UNCHANGED limitVars
  BY <1>3, <1>t, RestKeepsLocal DEF Tick, Outage, Recover, Watch, limitVars, localVars
<1> QED
  BY <1>1, <1>2, <1>3 DEF LimitNext

\* The memory's buckets are accounted for in every reachable state.
THEOREM FallbackIsAccounted == LimitSpec => []LocalInv
<1>1. LimitInit => LocalInv
  BY LocalInvInit
<1>2. LimitInv /\ LocalInv /\ [LimitNext]_limitVars => LocalInv'
  BY LocalInvStep
<1> QED
  BY <1>1, <1>2, BucketIsAccounted, PTL DEF LimitSpec

\* checkFallbackLimit (ratelimit.ts:105): a bucket in memory grants no more than a
\* burst and what the period earns, and there are never more buckets than
\* FALLBACK_MAX_BUCKETS, each in the eviction order exactly once.
THEOREM FallbackHolds == LimitSpec => []LocalIsBounded
<1>1. LocalInv => LocalIsBounded
  <2> SUFFICES ASSUME LocalInv PROVE LocalIsBounded
    OBVIOUS
  <2>t. LocalTypeOK /\ OrderListsBuckets /\ order \in Seq(Keys) /\ Len(order) \in Nat
    BY DEF LocalInv, LocalTypeOK
  <2>1. ASSUME NEW k \in Keys, local[k] # None
        PROVE  localSpent[k] <= Capacity(k) + (clock - mark)
    <3>1. LocalAccounted(k) /\ local[k].tokens \in Nat /\ local[k].ts \in Nat
      BY <2>1, <2>t DEF LocalInv, LocalTypeOK
    <3>2. localSpent[k] \in Nat /\ clock \in Nat /\ mark \in Nat /\ mark <= clock /\ Capacity(k) \in Nat
      BY <2>t, SettingsType DEF LocalTypeOK
    <3> QED
      BY <2>1, <3>1, <3>2 DEF LocalAccounted
  <2> DEFINE S == {k \in Keys : local[k] # None}
  <2>2. order \in Bijection(1..Len(order), S)
    <3>1. order \in [1..Len(order) -> S]
      <4>1. order \in [1..Len(order) -> Keys]
        BY <2>t, LenProperties
      <4> QED
        BY <4>1, <2>t DEF OrderListsBuckets
    <3>2. \A i, j \in 1..Len(order) : order[i] = order[j] => i = j
      BY <2>t DEF OrderListsBuckets
    <3>3. \A k \in S : \E i \in 1..Len(order) : order[i] = k
      BY <2>t DEF OrderListsBuckets
    <3> HIDE DEF S
    <3>4. order \in Injection(1..Len(order), S)
      BY <3>1, <3>2 DEF Injection, IsInjective
    <3>5. order \in Surjection(1..Len(order), S)
      BY <3>1, <3>3 DEF Surjection
    <3> QED
      BY <3>4, <3>5 DEF Bijection
  <2>3. Cardinality(S) = Len(order)
    <3>1. ExistsBijection(1..Len(order), S)
      BY <2>2 DEF ExistsBijection
    <3> HIDE DEF S
    <3> QED
      BY <3>1, <2>t, FS_CountingElements
  <2> QED
    BY <2>1, <2>3, <2>t DEF LocalIsBounded, LocalTypeOK
<1> QED
  BY <1>1, FallbackIsAccounted, PTL
=============================================================================
