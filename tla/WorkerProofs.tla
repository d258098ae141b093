---------------------------- MODULE WorkerProofs ----------------------------
(***************************************************************************)
(* Proofs about what a worker does around one delivery: the bookkeeping of *)
(* the circuit breaker (CircuitBreaker), for any number of destinations,   *)
(* callers and operators and any positive threshold, and the attempt       *)
(* itself (Attempt), for any headers, URLs, addresses, statuses and        *)
(* number of attempts and whatever the filter decides, and the evaluator   *)
(* of the filters (Filters), for all rules and payloads. CircuitBreaker    *)
(* and Attempt share no variable, and each theorem is about one of them.   *)
(***************************************************************************)
EXTENDS CircuitBreaker, FilteredAttempt, WellFoundedInduction, TLAPS

-----------------------------------------------------------------------------
(* The circuit breaker.                                                     *)

\* The end of a call keeps the callers well typed.
LEMMA EndCallTypes ==
  ASSUME BreakerTypeOK, NEW c \in Callers, EndCall(c), abandoned' \in 0..MaxAbandoned
  PROVE  CallerTypes'
BY DEF BreakerTypeOK, CallerTypes, EndCall

\* Variables an action leaves alone keep their types.
LEMMA KeptTypes ==
  ASSUME BreakerTypeOK
  PROVE  /\ UNCHANGED <<destinationVars, mail>> => RowTypes'
         /\ UNCHANGED <<callerVars, abandoned>> => CallerTypes'
         /\ UNCHANGED operatorVars => OperatorTypes'
BY DEF BreakerTypeOK, RowTypes, CallerTypes, OperatorTypes,
       destinationVars, callerVars, operatorVars

\* A caller or an operator that is busy is busy with a destination.
LEMMA BusyHasDestination ==
  ASSUME BreakerTypeOK
  PROVE  /\ \A c \in Callers : at[c] # "idle" => on[c] \in Destinations
         /\ \A o \in Operators : opAt[o] # "away" => opOn[o] \in Destinations
BY DEF BreakerTypeOK, CallerTypes, OperatorTypes

-----------------------------------------------------------------------------
(* Type correctness.                                                        *)

\* Every variable ranges over its domain, and a caller or operator is bound to
\* a destination exactly while it is busy.
THEOREM BreakerTypeCorrect == BreakerSpec => []BreakerTypeOK
<1>1. BreakerInit => BreakerTypeOK
  BY BreakerAssumption DEF BreakerInit, BreakerTypeOK, RowTypes, CallerTypes, OperatorTypes
<1>2. BreakerTypeOK /\ [BreakerNext]_breakerVars => BreakerTypeOK'
  <2> SUFFICES ASSUME BreakerTypeOK, [BreakerNext]_breakerVars PROVE BreakerTypeOK'
    OBVIOUS
  <2> USE BreakerAssumption
  <2>1. ASSUME NEW c \in Callers, NEW x \in Destinations, RecordSuccess(c, x)
        PROVE  BreakerTypeOK'
    BY <2>1, KeptTypes DEF RecordSuccess, BreakerTypeOK, RowTypes
  <2>2. ASSUME NEW c \in Callers, NEW x \in Destinations, CountFailure(c, x)
        PROVE  BreakerTypeOK'
    BY <2>2, KeptTypes DEF CountFailure, BreakerTypeOK, RowTypes, CallerTypes
  <2>3. ASSUME NEW c \in Callers, CallerNext(c) PROVE BreakerTypeOK'
    <3>1. CASE Trip(c)
      <4>1. CallerTypes'
        BY <3>1, BusyHasDestination DEF Trip, BreakerTypeOK, CallerTypes
      <4>2. RowTypes'
        BY <3>1, BusyHasDestination DEF Trip, BreakerTypeOK, RowTypes
      <4> QED
        BY <3>1, <4>1, <4>2, KeptTypes DEF Trip, BreakerTypeOK
    <3>2. CASE DontTrip(c)
      BY <3>2, KeptTypes, EndCallTypes DEF DontTrip, BreakerTypeOK, CallerTypes
    <3>3. CASE ReadForMail(c)
      <4>1. CallerTypes'
        BY <3>3, BusyHasDestination DEF ReadForMail, BreakerTypeOK, RowTypes, CallerTypes
      <4> QED
        BY <3>3, <4>1, KeptTypes DEF ReadForMail, BreakerTypeOK
    <3>4. CASE SendMail(c)
      <4>1. RowTypes'
        BY <3>4 DEF SendMail, BreakerTypeOK, RowTypes, CallerTypes, destinationVars
      <4> QED
        BY <3>4, <4>1, KeptTypes, EndCallTypes DEF SendMail, BreakerTypeOK, CallerTypes
    <3> QED
      BY <2>3, <3>1, <3>2, <3>3, <3>4 DEF CallerNext
  <2>4. ASSUME NEW c \in Callers, Abandon(c) PROVE BreakerTypeOK'
    BY <2>4, KeptTypes, EndCallTypes DEF Abandon, BreakerTypeOK, CallerTypes
  <2>5. ASSUME NEW o \in Operators, OperatorNext(o) PROVE BreakerTypeOK'
    <3>2. ASSUME NEW x \in Destinations, ToggleRead(o, x) PROVE BreakerTypeOK'
      BY <3>2, KeptTypes DEF ToggleRead, BreakerTypeOK, RowTypes, OperatorTypes
    <3>3. CASE ToggleWrite(o)
      <4>1. RowTypes'
        BY <3>3, BusyHasDestination DEF ToggleWrite, Switch, BreakerTypeOK, RowTypes, OperatorTypes
      <4>2. OperatorTypes'
        BY <3>3 DEF ToggleWrite, BreakerTypeOK, OperatorTypes
      <4> QED
        BY <3>3, <4>1, <4>2, KeptTypes DEF ToggleWrite, BreakerTypeOK
    <3> QED
      BY <2>5, <3>2, <3>3 DEF OperatorNext
  <2>6. ASSUME NEW x \in Destinations, NEW b \in BOOLEAN, Patch(x, b) PROVE BreakerTypeOK'
    BY <2>6, KeptTypes DEF Patch, Switch, BreakerTypeOK, RowTypes
  <2>7. CASE UNCHANGED breakerVars
    BY <2>7, KeptTypes DEF breakerVars, BreakerTypeOK
  <2> QED
    BY <2>1, <2>2, <2>3, <2>4, <2>5, <2>6, <2>7 DEF BreakerNext
<1> QED
  BY <1>1, <1>2, PTL DEF BreakerSpec

-----------------------------------------------------------------------------
(* The mark of the breaker.                                                 *)

\* A destination carries the mark of the breaker only while it is off.
THEOREM MarkMeansOff == BreakerSpec => []AutoDisabledIsOff
<1>1. BreakerInit => AutoDisabledIsOff
  BY DEF BreakerInit, AutoDisabledIsOff
<1>2. BreakerTypeOK /\ AutoDisabledIsOff /\ [BreakerNext]_breakerVars => AutoDisabledIsOff'
  <2> SUFFICES ASSUME BreakerTypeOK, AutoDisabledIsOff, [BreakerNext]_breakerVars
               PROVE  AutoDisabledIsOff'
    OBVIOUS
  <2> USE DEF AutoDisabledIsOff
  <2>1. ASSUME NEW x \in Destinations, NEW b \in BOOLEAN, Switch(x, b) PROVE AutoDisabledIsOff'
    BY <2>1 DEF Switch, BreakerTypeOK, RowTypes
  <2>2. ASSUME NEW c \in Callers, Trip(c) PROVE AutoDisabledIsOff'
    BY <2>2, BusyHasDestination DEF Trip, BreakerTypeOK, RowTypes
  <2>3. ASSUME NEW o \in Operators, ToggleWrite(o) PROVE AutoDisabledIsOff'
    BY <2>1, <2>3, BusyHasDestination DEF ToggleWrite, BreakerTypeOK, OperatorTypes
  <2>4. CASE UNCHANGED <<enabled, autoDisabledAt>>
    BY <2>4
  <2> QED
    BY <2>1, <2>2, <2>3, <2>4
       DEF BreakerNext, RecordSuccess, CountFailure, CallerNext, DontTrip, ReadForMail, SendMail,
           Abandon, OperatorNext, ToggleRead, Patch, destinationVars, breakerVars
<1> QED
  BY <1>1, <1>2, BreakerTypeCorrect, PTL DEF BreakerSpec

-----------------------------------------------------------------------------
(* The threshold.                                                           *)

\* An enabled destination whose count has reached the threshold is about to be
\* tripped by some worker, as long as no call was abandoned.
THEOREM ThresholdIsNotMissed == BreakerSpec => []ThresholdIsActedOn
<1>1. BreakerInit => ThresholdIsActedOn
  BY BreakerAssumption DEF BreakerInit, ThresholdIsActedOn
<1>2. BreakerTypeOK /\ ThresholdIsActedOn /\ [BreakerNext]_breakerVars => ThresholdIsActedOn'
  <2> SUFFICES ASSUME BreakerTypeOK, ThresholdIsActedOn, [BreakerNext]_breakerVars,
                      abandoned' = 0, NEW x \in Destinations,
                      enabled'[x], consecutiveFailures'[x] >= Threshold
               PROVE  \E c \in Callers : at'[c] = "counted" /\ on'[c] = x
    BY DEF ThresholdIsActedOn
  <2>0. /\ at \in [Callers -> {"idle", "counted", "tripped", "mailing"}]
        /\ on \in [Callers -> Destinations \cup {NoDestination}]
        /\ enabled \in [Destinations -> BOOLEAN]
        /\ consecutiveFailures \in [Destinations -> Nat]
        /\ abandoned \in Nat /\ Threshold \in Nat \ {0}
    BY BreakerAssumption DEF BreakerTypeOK, RowTypes, CallerTypes
  <2>1. ASSUME abandoned = 0, enabled[x], consecutiveFailures[x] >= Threshold,
               \A c \in Callers : at[c] = "counted" /\ on[c] = x =>
                 at'[c] = "counted" /\ on'[c] = x
        PROVE  \E c \in Callers : at'[c] = "counted" /\ on'[c] = x
    BY <2>1 DEF ThresholdIsActedOn
  <2>2. ASSUME NEW c \in Callers, NEW y \in Destinations, RecordSuccess(c, y)
        PROVE  \E d \in Callers : at'[d] = "counted" /\ on'[d] = x
    BY <2>0, <2>1, <2>2 DEF RecordSuccess, callerVars
  <2>3. ASSUME NEW c \in Callers, NEW y \in Destinations, CountFailure(c, y)
        PROVE  \E d \in Callers : at'[d] = "counted" /\ on'[d] = x
    <3>1. CASE y = x
      BY <2>0, <2>3, <3>1 DEF CountFailure
    <3>2. CASE y # x
      BY <2>0, <2>1, <2>3, <3>2 DEF CountFailure
    <3> QED
      BY <3>1, <3>2
  <2>4. ASSUME NEW c \in Callers, CallerNext(c)
        PROVE  \E d \in Callers : at'[d] = "counted" /\ on'[d] = x
    <3>1. CASE Trip(c)
      <4>1. on[c] # x /\ enabled[x] /\ consecutiveFailures[x] >= Threshold /\ abandoned = 0
        BY <2>0, <3>1 DEF Trip
      <4> QED
        BY <2>0, <2>1, <3>1, <4>1 DEF Trip
    <3>2. CASE DontTrip(c)
      <4>1. on[c] # x /\ enabled[x] /\ consecutiveFailures[x] >= Threshold /\ abandoned = 0
        BY <2>0, <3>2 DEF DontTrip, Trips, destinationVars
      <4> QED
        BY <2>0, <2>1, <3>2, <4>1 DEF DontTrip, EndCall
    <3>3. CASE ReadForMail(c)
      BY <2>0, <2>1, <3>3 DEF ReadForMail, destinationVars
    <3>4. CASE SendMail(c)
      BY <2>0, <2>1, <3>4 DEF SendMail, EndCall, destinationVars
    <3> QED
      BY <2>4, <3>1, <3>2, <3>3, <3>4 DEF CallerNext
  <2>5. \A c \in Callers : ~Abandon(c)
    BY <2>0 DEF Abandon
  <2>6. ASSUME NEW y \in Destinations, NEW b \in BOOLEAN, Switch(y, b),
               UNCHANGED <<callerVars, abandoned>>
        PROVE  \E d \in Callers : at'[d] = "counted" /\ on'[d] = x
    BY <2>0, <2>1, <2>6 DEF Switch, callerVars
  <2>7. ASSUME NEW o \in Operators, OperatorNext(o)
        PROVE  \E d \in Callers : at'[d] = "counted" /\ on'[d] = x
    <3>1. CASE ToggleWrite(o)
      BY <2>6, <3>1, BusyHasDestination DEF ToggleWrite, BreakerTypeOK, OperatorTypes
    <3>2. CASE UNCHANGED <<destinationVars, callerVars, abandoned>>
      BY <2>1, <3>2 DEF destinationVars, callerVars
    <3> QED
      BY <2>7, <3>1, <3>2 DEF OperatorNext, ToggleRead
  <2>8. CASE UNCHANGED breakerVars
    BY <2>1, <2>8 DEF breakerVars, destinationVars, callerVars
  <2> QED
    BY <2>2, <2>3, <2>4, <2>5, <2>6, <2>7, <2>8 DEF BreakerNext, Patch
<1> QED
  BY <1>1, <1>2, BreakerTypeCorrect, PTL DEF BreakerSpec

-----------------------------------------------------------------------------
(* One attempt.                                                             *)

\* What the next steps of the request rely on.
StageInv ==
  /\ pc \in {"filter", "claim", "build", "sign", "done"} => timer # "armed"
  /\ pc \notin {"fetch", "read"} => peer = NoPeer

\* The addresses the socket is pinned to passed the guard.
GuardInv ==
  /\ pc \in {"connect", "fetch", "read"} =>
       /\ 1 \in DOMAIN ips /\ Safe(ips)
       /\ \A i \in DOMAIN ips : ips[i] \in Nat
  /\ pc \in {"fetch", "read"} => peer = ips[1]

\* A status of 2xx and the absence of an error are the same thing once the head
\* of a response is there, and stay so while the body is read.
ResultInv ==
  /\ pc \notin {"read", "settle", "done"} => status = 0
  /\ pc \in {"filter", "claim", "build", "resolve", "connect", "fetch"} => error = "none"
  /\ pc \in {"read", "settle"} => (status \in 200..299 <=> error = "none")
  /\ AcknowledgedIsDelivered

Ours == <<"signature", "title">>

\* A value under that name that is not of a signature made in this attempt.
NotSigned == Ours \in DOMAIN headers => headers[Ours] = "static"

\* The request, from the merge of the headers to the signature.
HeadersInv ==
  /\ \A k \in DOMAIN headers : k[1] = "authorization" => headers[k] = "static"
  /\ pc \in {"build", "sign"} => NotSigned
  /\ pc \in {"resolve", "connect", "fetch"} =>
       IF secret = "opens" THEN Ours \in DOMAIN headers /\ headers[Ours] = body
       ELSE NotSigned

\* The literal of a URL is an address.
UrlInv == url.kind = "literal" => url.ip \in Nat

AttemptInv == AttemptTypeOK /\ UrlInv /\ StageInv /\ GuardInv /\ ResultInv /\ HeadersInv

USE DEF Goto

LEMMA InitialAttempt == AttemptInit => AttemptInv
  <1> SUFFICES ASSUME AttemptInit PROVE AttemptInv
    OBVIOUS
  <1> USE AttemptAssumption DEF AttemptInit
  <1>1. AttemptTypeOK
    <2>1. \A i \in DOMAIN ips : ips[i] \in Int
      OBVIOUS
    <2>2. attempt \in 1..MaxAttempts
      OBVIOUS
    <2>3. peer \in Int /\ status \in Statuses \cup {0}
      BY DEF NoPeer
    <2>4. terminal \in BOOLEAN
      BY Zenon
    <2>5. /\ pc \in {"filter", "claim"} /\ body \in {"raw"} /\ timer \in {"off"}
          /\ error \in {"none"} /\ outcome \in {"none"}
      OBVIOUS
    <2> HIDE DEF AttemptInit
    <2> QED
      BY <2>1, <2>2, <2>3, <2>4, <2>5 DEF AttemptTypeOK
  <1>2. UrlInv
    BY DEF UrlInv
  <1>3. StageInv /\ GuardInv
    BY DEF StageInv, GuardInv
  <1>4. ResultInv
    BY DEF ResultInv, AcknowledgedIsDelivered
  <1>5. HeadersInv
    BY DEF HeadersInv
  <1> QED
    BY <1>1, <1>2, <1>3, <1>4, <1>5 DEF AttemptInv

\* What the guard looks at: at least one address, and numbers.
LEMMA AnswersAreAddresses ==
  ASSUME UrlInv, NEW answer \in Answers
  PROVE  1 \in DOMAIN answer /\ \A i \in DOMAIN answer : answer[i] \in Nat
  <1>1. CASE url.kind = "literal"
    BY <1>1 DEF Answers, UrlInv
  <1>2. CASE url.kind # "literal"
    <2>1. PICK n \in 1..2 : answer \in [1..n -> Addresses]
      BY <1>2 DEF Answers
    <2>2. DOMAIN answer = 1..n /\ 1 \in 1..n
      BY <2>1
    <2> QED
      BY <2>1, <2>2, AttemptAssumption
  <1> QED
    BY <1>1, <1>2

LEMMA TypesKept == AttemptInv /\ [AttemptNext]_attemptVars => AttemptTypeOK'
  <1> SUFFICES ASSUME AttemptInv, [AttemptNext]_attemptVars PROVE AttemptTypeOK'
    OBVIOUS
  <1> USE AttemptAssumption DEF AttemptInv, AttemptTypeOK, NoPeer, filtered, input, request
  <1>1. CASE Filter
    BY <1>1 DEF Filter
  <1>2. CASE Claim
    BY <1>2 DEF Claim
  <1>3. CASE Loop \/ Ended \/ UNCHANGED attemptVars
    BY <1>3 DEF Loop, Ended, attemptVars
  <1>4. CASE Transform
    BY <1>4 DEF Transform
  <1>5. CASE Sign
    BY <1>5 DEF Sign
  <1>6. CASE Abort
    BY <1>6 DEF Abort
  <1>7. CASE Resolve
    <2>1. \A answer \in Answers : \A i \in DOMAIN answer : answer[i] \in Int
      BY AnswersAreAddresses
    <2> QED
      BY <1>7, <2>1 DEF Resolve
  <1>8. CASE LookupFails
    BY <1>8 DEF LookupFails
  <1>9. CASE Connect
    BY <1>9 DEF Connect, Target, GuardInv
  <1>10. CASE FetchFails
    BY <1>10 DEF FetchFails, Released
  <1>11. CASE Respond
    BY <1>11 DEF Respond
  <1>12. CASE Read
    BY <1>12 DEF Read, ReadError
  <1>13. CASE Settle
    BY <1>13 DEF Settle
  <1> QED
    BY <1>1, <1>2, <1>3, <1>4, <1>5, <1>6, <1>7, <1>8, <1>9, <1>10, <1>11, <1>12, <1>13
       DEF AttemptNext, Request

\* The timer runs and the socket is open only inside the request.
LEMMA StagesKept ==
  AttemptInv /\ [AttemptNext]_attemptVars => UrlInv' /\ StageInv' /\ GuardInv'
  <1> SUFFICES ASSUME AttemptInv, [AttemptNext]_attemptVars
               PROVE  UrlInv' /\ StageInv' /\ GuardInv'
    OBVIOUS
  <1> USE AttemptAssumption
      DEF AttemptInv, UrlInv, StageInv, GuardInv, Safe, filtered, input, request
  <1>1. CASE Filter
    BY <1>1 DEF Filter
  <1>2. CASE Claim
    BY <1>2 DEF Claim
  <1>3. CASE Loop \/ Ended \/ UNCHANGED attemptVars
    BY <1>3 DEF Loop, Ended, attemptVars
  <1>4. CASE Transform
    BY <1>4 DEF Transform
  <1>5. CASE Sign
    BY <1>5 DEF Sign
  <1>6. CASE Abort
    BY <1>6 DEF Abort
  <1>7. CASE Resolve
    BY <1>7, AnswersAreAddresses DEF Resolve
  <1>8. CASE LookupFails
    BY <1>8 DEF LookupFails
  <1>9. CASE Connect
    BY <1>9 DEF Connect, Target
  <1>10. CASE FetchFails
    BY <1>10 DEF FetchFails, Released
  <1>11. CASE Respond
    BY <1>11 DEF Respond
  <1>12. CASE Read
    BY <1>12 DEF Read
  <1>13. CASE Settle
    BY <1>13 DEF Settle
  <1> QED
    BY <1>1, <1>2, <1>3, <1>4, <1>5, <1>6, <1>7, <1>8, <1>9, <1>10, <1>11, <1>12, <1>13
       DEF AttemptNext, Request

\* Whatever fails before the head of a response leaves the status 0; what fails
\* after it changes nothing.
LEMMA ResultKept == AttemptInv /\ [AttemptNext]_attemptVars => ResultInv'
  <1> SUFFICES ASSUME AttemptInv, [AttemptNext]_attemptVars PROVE ResultInv'
    OBVIOUS
  <1> USE AttemptAssumption
      DEF AttemptInv, ResultInv, AcknowledgedIsDelivered, filtered, input, request
  <1>1. CASE Filter
    BY <1>1 DEF Filter
  <1>2. CASE Claim
    BY <1>2 DEF Claim
  <1>3. CASE Loop \/ Ended \/ UNCHANGED attemptVars
    BY <1>3 DEF Loop, Ended, attemptVars
  <1>4. CASE Transform
    BY <1>4 DEF Transform
  <1>5. CASE Sign
    BY <1>5 DEF Sign
  <1>6. CASE Abort
    BY <1>6 DEF Abort
  <1>7. CASE Resolve
    BY <1>7 DEF Resolve
  <1>8. CASE LookupFails
    BY <1>8 DEF LookupFails
  <1>9. CASE Connect
    BY <1>9 DEF Connect
  <1>10. CASE FetchFails
    BY <1>10 DEF FetchFails
  <1>11. CASE Respond
    BY <1>11 DEF Respond
  <1>12. CASE Read
    BY <1>12 DEF Read, ReadError
  <1>13. CASE Settle
    BY <1>13 DEF Settle
  <1> QED
    BY <1>1, <1>2, <1>3, <1>4, <1>5, <1>6, <1>7, <1>8, <1>9, <1>10, <1>11, <1>12, <1>13
       DEF AttemptNext, Request

\* What an object spread holds.
LEMMA OverlayHolds ==
  ASSUME NEW f, NEW g
  PROVE  /\ DOMAIN Overlay(f, g) = DOMAIN f \cup DOMAIN g
         /\ \A k \in DOMAIN g : Overlay(f, g)[k] = g[k]
         /\ \A k \in DOMAIN f \ DOMAIN g : Overlay(f, g)[k] = f[k]
  BY DEF Overlay

\* The merged headers: of the sensitive names, and of the name of our signature,
\* only what the destination's owner put there.
LEMMA MergedIsClean ==
  ASSUME NEW static, NEW k \in DOMAIN Merged(static), k[1] = "authorization" \/ k = Ours
  PROVE  Merged(static)[k] = "static"
  <1> DEFINE event == [h \in Forwarded |-> "event"]
             owner == [h \in static |-> "static"]
  <1>1. DOMAIN event = Forwarded /\ DOMAIN owner = static
    OBVIOUS
  <1>2. k \notin Forwarded
    BY DEF Forwarded, Sensitive, Ours
  <1>3. Merged(static) = Overlay(event, owner)
    BY Zenon DEF Merged
  <1>6. \A h \in static : owner[h] = "static"
    OBVIOUS
  <1> HIDE DEF event, owner
  <1>7. /\ DOMAIN Overlay(event, owner) = DOMAIN event \cup DOMAIN owner
        /\ \A h \in DOMAIN owner : Overlay(event, owner)[h] = owner[h]
    BY OverlayHolds, Zenon
  <1>4. k \in static
    BY <1>1, <1>2, <1>3, <1>7
  <1>5. Merged(static)[k] = owner[k]
    BY <1>1, <1>3, <1>4, <1>7
  <1> QED
    BY <1>4, <1>5, <1>6

LEMMA HeadersKept == AttemptInv /\ [AttemptNext]_attemptVars => HeadersInv'
  <1> SUFFICES ASSUME AttemptInv, [AttemptNext]_attemptVars PROVE HeadersInv'
    OBVIOUS
  <1> USE DEF AttemptInv, HeadersInv, NotSigned, filtered, input, request
  <1>1. CASE Claim
    <2>1. CASE headers' = Merged(statics') /\ pc' = "build"
      BY <2>1, MergedIsClean
    <2>2. CASE UNCHANGED headers /\ pc' = "done"
      BY <2>2
    <2> QED
      BY <1>1, <2>1, <2>2 DEF Claim
  <1>2. CASE Transform
    <2> DEFINE kind == [k \in {<<"type", "lower">>} |-> "json"]
    <2>1. CASE UNCHANGED headers
      BY <1>2, <2>1 DEF Transform
    <2>2. CASE headers' = Overlay(headers, kind)
      <3>1. DOMAIN kind = {<<"type", "lower">>}
        OBVIOUS
      <3> HIDE DEF kind
      <3>3. /\ DOMAIN Overlay(headers, kind) = DOMAIN headers \cup DOMAIN kind
            /\ \A k \in DOMAIN headers \ DOMAIN kind : Overlay(headers, kind)[k] = headers[k]
        BY OverlayHolds, Zenon
      <3>2. \A k \in DOMAIN headers' :
              k[1] = "authorization" \/ k = Ours => k \in DOMAIN headers /\ headers'[k] = headers[k]
        BY <2>2, <3>1, <3>3 DEF Ours
      <3> QED
        BY <1>2, <3>2 DEF Transform
    <2> QED
      BY <1>2, <2>1, <2>2 DEF Transform
  <1>3. CASE Sign
    <2>1. CASE ~(error = "none" /\ secret = "opens")
      BY <1>3, <2>1 DEF Sign
    <2>2. CASE error = "none" /\ secret = "opens"
      <3> DEFINE signed == Overlay(headers, Signature)
      <3>0. headers' = signed
        BY <1>3, <2>2 DEF Sign
      <3>1. DOMAIN Signature = {Ours} /\ Signature[Ours] = body
        BY DEF Signature, Ours
      <3>5. /\ DOMAIN signed = DOMAIN headers \cup DOMAIN Signature
            /\ \A k \in DOMAIN Signature : signed[k] = Signature[k]
            /\ \A k \in DOMAIN headers \ DOMAIN Signature : signed[k] = headers[k]
        BY OverlayHolds, Zenon
      <3> HIDE DEF signed
      <3>2. Ours \in DOMAIN headers' /\ headers'[Ours] = body
        BY <3>0, <3>1, <3>5
      <3>3. \A k \in DOMAIN headers' \ {Ours} : k \in DOMAIN headers /\ headers'[k] = headers[k]
        BY <3>0, <3>1, <3>5
      <3>4. Ours[1] # "authorization"
        BY DEF Ours
      <3> QED
        BY <1>3, <2>2, <3>2, <3>3, <3>4 DEF Sign
    <2> QED
      BY <1>3, <2>1, <2>2 DEF Sign
  <1>4. CASE Filter \/ Loop \/ Ended \/ UNCHANGED attemptVars
    BY <1>4 DEF Filter, Loop, Ended, attemptVars
  <1>5. CASE Abort \/ Request \/ Settle
    BY <1>5 DEF Abort, Request, Resolve, LookupFails, Connect, FetchFails, Respond, Read, Settle
  <1> QED
    BY <1>1, <1>2, <1>3, <1>4, <1>5 DEF AttemptNext

LEMMA AttemptInvariant == AttemptSpec => []AttemptInv
  <1>1. AttemptInv /\ [AttemptNext]_attemptVars => AttemptInv'
    BY TypesKept, StagesKept, ResultKept, HeadersKept DEF AttemptInv
  <1> QED
    BY InitialAttempt, <1>1, PTL DEF AttemptSpec

\* A range holds what agrees with its base on the leading bits.
LEMMA RangeIsPrivate ==
  ASSUME NEW ip \in Nat, NEW base, NEW bits, <<base, bits>> \in PrivateRanges,
         Masked(ip, bits) = Masked(base, bits)
  PROVE  IsPrivate(ip)
  <1>1. <<base, bits>>[1] = base /\ <<base, bits>>[2] = bits
    OBVIOUS
  <1> QED
    BY <1>1, Zenon DEF IsPrivate

\* The guard's list covers every reserved block.
LEMMA ReservedIsPrivate ==
  ASSUME NEW ip \in Nat, NEW r \in Reserved, ip \in r[1]..r[2]
  PROVE  IsPrivate(ip)
  <1>1. CASE r = <<Prefix(0, 0, 0), Prefix(0, 255, 255)>>
    <2>1. Masked(ip, 8) = Masked(Prefix(0, 0, 0), 8)
      BY <1>1, SMT DEF Prefix, Masked
    <2>2. <<Prefix(0, 0, 0), 8>> \in PrivateRanges
      BY SMT DEF PrivateRanges
    <2> QED
      BY <2>1, <2>2, RangeIsPrivate, SMT
  <1>2. CASE r = <<Prefix(10, 0, 0), Prefix(10, 255, 255)>>
    <2>1. Masked(ip, 8) = Masked(Prefix(10, 0, 0), 8)
      BY <1>2, SMT DEF Prefix, Masked
    <2>2. <<Prefix(10, 0, 0), 8>> \in PrivateRanges
      BY SMT DEF PrivateRanges
    <2> QED
      BY <2>1, <2>2, RangeIsPrivate, SMT
  <1>3. CASE r = <<Prefix(100, 64, 0), Prefix(100, 127, 255)>>
    <2>1. Masked(ip, 10) = Masked(Prefix(100, 64, 0), 10)
      BY <1>3, SMT DEF Prefix, Masked
    <2>2. <<Prefix(100, 64, 0), 10>> \in PrivateRanges
      BY SMT DEF PrivateRanges
    <2> QED
      BY <2>1, <2>2, RangeIsPrivate, SMT
  <1>4. CASE r = <<Prefix(127, 0, 0), Prefix(127, 255, 255)>>
    <2>1. Masked(ip, 8) = Masked(Prefix(127, 0, 0), 8)
      BY <1>4, SMT DEF Prefix, Masked
    <2>2. <<Prefix(127, 0, 0), 8>> \in PrivateRanges
      BY SMT DEF PrivateRanges
    <2> QED
      BY <2>1, <2>2, RangeIsPrivate, SMT
  <1>5. CASE r = <<Prefix(169, 254, 0), Prefix(169, 254, 255)>>
    <2>1. Masked(ip, 16) = Masked(Prefix(169, 254, 0), 16)
      BY <1>5, SMT DEF Prefix, Masked
    <2>2. <<Prefix(169, 254, 0), 16>> \in PrivateRanges
      BY SMT DEF PrivateRanges
    <2> QED
      BY <2>1, <2>2, RangeIsPrivate, SMT
  <1>6. CASE r = <<Prefix(172, 16, 0), Prefix(172, 31, 255)>>
    <2>1. Masked(ip, 12) = Masked(Prefix(172, 16, 0), 12)
      BY <1>6, SMT DEF Prefix, Masked
    <2>2. <<Prefix(172, 16, 0), 12>> \in PrivateRanges
      BY SMT DEF PrivateRanges
    <2> QED
      BY <2>1, <2>2, RangeIsPrivate, SMT
  <1>7. CASE r = <<Prefix(192, 168, 0), Prefix(192, 168, 255)>>
    <2>1. Masked(ip, 16) = Masked(Prefix(192, 168, 0), 16)
      BY <1>7, SMT DEF Prefix, Masked
    <2>2. <<Prefix(192, 168, 0), 16>> \in PrivateRanges
      BY SMT DEF PrivateRanges
    <2> QED
      BY <2>1, <2>2, RangeIsPrivate, SMT
  <1>8. CASE r = <<Prefix(198, 18, 0), Prefix(198, 19, 255)>>
    <2>1. Masked(ip, 15) = Masked(Prefix(198, 18, 0), 15)
      BY <1>8, SMT DEF Prefix, Masked
    <2>2. <<Prefix(198, 18, 0), 15>> \in PrivateRanges
      BY SMT DEF PrivateRanges
    <2> QED
      BY <2>1, <2>2, RangeIsPrivate, SMT
  <1>9. CASE r = <<Prefix(224, 0, 0), Prefix(255, 255, 255)>>
    <2>1. \/ Masked(ip, 4) = Masked(Prefix(224, 0, 0), 4)
          \/ Masked(ip, 4) = Masked(Prefix(240, 0, 0), 4)
      BY <1>9, SMT DEF Prefix, Masked
    <2>2. /\ <<Prefix(224, 0, 0), 4>> \in PrivateRanges
          /\ <<Prefix(240, 0, 0), 4>> \in PrivateRanges
      BY SMT DEF PrivateRanges
    <2> QED
      BY <2>1, <2>2, RangeIsPrivate, SMT
  <1> QED
    BY <1>1, <1>2, <1>3, <1>4, <1>5, <1>6, <1>7, <1>8, <1>9, SMT DEF Reserved

-----------------------------------------------------------------------------
(* What an attempt may never do.                                            *)

\* Typing of one attempt: where it stands, what failed and how it ended.
THEOREM AttemptTypeCorrect == AttemptSpec => []AttemptTypeOK
  BY AttemptInvariant, PTL DEF AttemptInv

\* The socket is connected to an address the guard approved, whatever the
\* resolver answers to a second question, and the guard approves no address of
\* a reserved block: safeFetch pins the connection, and the leading bits of the
\* list in ssrf.ts cover every block.
THEOREM PinnedPeerIsPublic == AttemptSpec => []PeerIsApproved
  <1>1. AttemptInv => PeerIsApproved
    <2> SUFFICES ASSUME AttemptInv, peer # NoPeer PROVE PeerIsApproved
      BY DEF PeerIsApproved
    <2>1. /\ pc \in {"fetch", "read"} /\ peer = ips[1] /\ 1 \in DOMAIN ips
          /\ Safe(ips) /\ ips[1] \in Nat
      BY DEF AttemptInv, StageInv, GuardInv
    <2>2. ~IsPrivate(peer)
      BY <2>1 DEF Safe
    <2>3. \A r \in Reserved : peer \notin r[1]..r[2]
      BY <2>1, <2>2, ReservedIsPrivate, Zenon
    <2> QED
      BY <2>1, <2>3, Zenon DEF PeerIsApproved
  <1> QED
    BY AttemptInvariant, <1>1, PTL

\* An attempt that is over holds no connection and no armed timer, by whatever
\* path of processDelivery it ended.
THEOREM AttemptsLeaveNothing == AttemptSpec => []NothingLeftOpen
  <1>1. AttemptInv => NothingLeftOpen
    BY DEF AttemptInv, StageInv, NothingLeftOpen
  <1> QED
    BY AttemptInvariant, <1>1, PTL

\* A delivery is written delivered exactly if the destination answered 2xx,
\* whatever the timer and the body of the response do afterwards.
THEOREM AnswerDecides == AttemptSpec => []AcknowledgedIsDelivered
  <1>1. AttemptInv => AcknowledgedIsDelivered
    BY DEF AttemptInv, ResultInv
  <1> QED
    BY AttemptInvariant, <1>1, PTL

\* The request carries our signature of the body that is sent if the secret can
\* be read, none of ours otherwise, and no credential the provider sent: for
\* every set of headers of the event and of the destination.
THEOREM RequestsAreSigned == AttemptSpec => []RequestIsOurs
  <1>1. AttemptInv => RequestIsOurs
    BY DEF AttemptInv, HeadersInv, NotSigned, Ours, RequestIsOurs, Received
  <1> QED
    BY AttemptInvariant, <1>1, PTL

-----------------------------------------------------------------------------
(* The safe half of AttemptSettles.                                         *)

\* How many awaits an attempt that stands here has before it at most.
Stage ==
  [filter |-> 9, claim |-> 8, build |-> 7, sign |-> 6, resolve |-> 5, connect |-> 4,
   fetch |-> 3, read |-> 2, settle |-> 1, done |-> 0]

\* The timer, while it is armed, is one step more.
StepsLeft == 2 * Stage[pc] + IF timer = "armed" THEN 1 ELSE 0

\* Places where the attempt waits for the resolver or the destination.
Waits == {"resolve", "connect", "fetch", "read"}

\* Whatever the resolver, the destination and the timer do, an attempt has no more
\* than a fixed number of steps, and it never waits for them without a timer that
\* is armed or has fired. With the fairness of AttemptFairSpec this is why every
\* attempt settles; it is what can be said of it without ENABLED.
AttemptRunsDown ==
  /\ [](StepsLeft \in 0..19 /\ (pc \in Waits => timer # "off"))
  /\ [][StepsLeft' < StepsLeft]_attemptVars

\* The variant is a number, wherever the attempt stands.
LEMMA StageIsNumber ==
  ASSUME AttemptTypeOK
  PROVE  Stage[pc] \in 0..9 /\ StepsLeft \in 0..19
  <1>1. Stage[pc] \in 0..9
    BY DEF Stage, AttemptTypeOK
  <1> QED
    BY <1>1 DEF StepsLeft

\* Each step leads to a later stage, or fires the timer where the attempt stands.
LEMMA StagesRunDown ==
  ASSUME AttemptTypeOK, AttemptTypeOK', [AttemptNext]_attemptVars, ~UNCHANGED attemptVars
  PROVE  StepsLeft' < StepsLeft
  <1>1. Stage[pc] \in 0..9 /\ Stage'[pc'] \in 0..9 /\ Stage' = Stage
    BY StageIsNumber DEF Stage, AttemptTypeOK
  <1>2. CASE Abort
    BY <1>1, <1>2 DEF Abort, StepsLeft
  <1>3. CASE ~Abort
    <2>1. Stage[pc'] < Stage[pc]
      BY <1>3 DEF Stage, AttemptNext, Filter, Claim, Loop, Transform, Sign, Request, Resolve,
         LookupFails, Connect, FetchFails, Respond, Read, Settle, Ended
    <2> QED
      BY <1>1, <2>1 DEF StepsLeft
  <1> QED
    BY <1>2, <1>3

\* The number of steps left falls with every step of the attempt, down from 19 at most,
\* and where the attempt waits for others (dns.lookup, connect, fetch, the reader of the
\* body) the timer is armed or has fired: an attempt neither goes round nor hangs.
THEOREM AttemptsRunDown == AttemptSpec => AttemptRunsDown
  <1> DEFINE Timed == pc \in Waits => timer # "off"
  <1>1. AttemptInit => Timed
    BY DEF AttemptInit, Waits
  <1>2. Timed /\ [AttemptNext]_attemptVars => Timed'
    BY DEF Waits, attemptVars, AttemptNext, Filter, Claim, Loop, Transform, Sign, Abort, Request,
       Resolve, LookupFails, Connect, FetchFails, Respond, Read, Settle, Ended
  <1>3. AttemptInv => AttemptTypeOK /\ StepsLeft \in 0..19
    BY StageIsNumber DEF AttemptInv
  <1>4. AttemptTypeOK /\ AttemptTypeOK' /\ [AttemptNext]_attemptVars =>
          [StepsLeft' < StepsLeft]_attemptVars
    BY StagesRunDown
  <1> QED
    BY <1>1, <1>2, <1>3, <1>4, AttemptInvariant, PTL DEF AttemptSpec, AttemptRunsDown

-----------------------------------------------------------------------------
(* Recursion on JSON. The functions of Filters are recursive, and so are no *)
(* more than the solutions of their equations, if there are any: that there *)
(* are is proved here from the finite nesting of JSON.                      *)

\* < on the naturals, as a relation.
LEMMA BelowIsWellFounded ==
  \E R : IsWellFoundedOn(R, Nat) /\ \A x, y \in Nat : x < y => <<x, y>> \in R
<1>1. \A x, y \in Nat : x < y => <<x, y>> \in OpToRel(<, Nat)
  BY Zenon DEF OpToRel
<1> QED
  BY <1>1, NatLessThanWellFounded, Zenon

\* A set of numbers that is not empty has a least one.
LEMMA LeastExists ==
  ASSUME NEW T \in SUBSET Nat, T # {}
  PROVE  \E x \in T : \A y \in T : x <= y
<1>1. PICK R : IsWellFoundedOn(R, Nat) /\ \A x, y \in Nat : x < y => <<x, y>> \in R
  BY BelowIsWellFounded
<1>2. T \subseteq Nat /\ IsWellFoundedOn(R, Nat)
  BY <1>1
<1>3. \E x \in T : \A y \in T : ~ (<<y, x>> \in R)
  BY <1>2, WFMin, Zenon
<1>4. PICK x \in T : \A y \in T : ~ (<<y, x>> \in R)
  BY <1>3
<1>5. ASSUME NEW y \in T PROVE ~(y < x)
  BY <1>1, <1>4
<1> QED
  BY <1>5

\* A recursion whose calls descend in rank has a solution. The step is a function
\* of functions, so that the lemma can be applied to a given one.
LEMMA RecursionExists ==
  ASSUME NEW R, R # {},
         NEW step \in [[Json -> R] -> [Json -> R]],
         \A g, h \in [Json -> R] : \A x \in Json :
           (\A y \in Json : Nesting[y] < Nesting[x] => g[y] = h[y]) => step[g][x] = step[h][x]
  PROVE  \E g \in [Json -> R] : step[g] = g
<1> USE FilterAssumption
<1> DEFINE Solved(n) == {g \in [Json -> R] : \A x \in Json : Nesting[x] < n => step[g][x] = g[x]}
<1>1. \A n \in Nat : Solved(n) # {}
  <2> DEFINE Bad == {n \in Nat : Solved(n) = {}}
  <2> SUFFICES ASSUME Bad # {} PROVE FALSE
    <3> HIDE DEF Solved
    <3> QED
      OBVIOUS
  <2>1. PICK n \in Bad : \A m \in Bad : n <= m
    <3> HIDE DEF Bad
    <3>1. Bad \in SUBSET Nat
      BY DEF Bad
    <3> QED
      BY <3>1, LeastExists
  <2>2. n # 0
    <3>1. PICK r \in R : TRUE
      OBVIOUS
    <3>2. [x \in Json |-> r] \in Solved(0)
      OBVIOUS
    <3> QED
      BY <3>2
  <2>3. PICK g \in Solved(n - 1) : TRUE
    BY <2>1, <2>2
  <2>4. ASSUME NEW x \in Json, Nesting[x] < n PROVE step[step[g]][x] = step[g][x]
    <3>1. g \in [Json -> R] /\ step[g] \in [Json -> R]
      BY <2>3
    <3>2. \A y \in Json : Nesting[y] < Nesting[x] => step[g][y] = g[y]
      BY <2>1, <2>3, <2>4
    <3> QED
      BY <3>1, <3>2
  <2>5. step[g] \in Solved(n)
    BY <2>3, <2>4
  <2> QED
    BY <2>1, <2>5
<1>2. ASSUME NEW n \in Nat, NEW g \in Solved(n), NEW h \in Solved(n)
      PROVE  \A x \in Json : Nesting[x] < n => g[x] = h[x]
  <2> DEFINE Differ == {Nesting[x] : x \in {y \in Json : Nesting[y] < n /\ g[y] # h[y]}}
  <2> SUFFICES ASSUME Differ # {} PROVE FALSE
    OBVIOUS
  <2>1. PICK k \in Differ : \A m \in Differ : k <= m
    <3>1. Differ \in SUBSET Nat
      OBVIOUS
    <3> HIDE DEF Differ
    <3> QED
      BY <3>1, LeastExists
  <2>2. PICK x \in Json : Nesting[x] < n /\ g[x] # h[x] /\ Nesting[x] = k
    BY <2>1
  <2>3. \A y \in Json : Nesting[y] < Nesting[x] => g[y] = h[y]
    <3> SUFFICES ASSUME NEW y \in Json, Nesting[y] < Nesting[x], g[y] # h[y] PROVE FALSE
      OBVIOUS
    <3>1. Nesting[y] \in Differ /\ Nesting[x] \in Nat /\ Nesting[y] \in Nat
      BY <2>2
    <3> HIDE DEF Differ
    <3> QED
      BY <2>1, <2>2, <3>1
  <2>4. step[g][x] = step[h][x]
    BY <2>3
  <2> QED
    BY <2>2, <2>4
<1> DEFINE Local(x) == CHOOSE g : g \in Solved(Nesting[x] + 1)
           G == [x \in Json |-> Local(x)[x]]
<1>3. \A x \in Json : Local(x) \in Solved(Nesting[x] + 1)
  <2> TAKE x \in Json
  <2>1. \E g : g \in Solved(Nesting[x] + 1)
    BY <1>1
  <2> HIDE DEF Solved
  <2> QED
    BY <2>1
<1> HIDE DEF Local
<1>4. G \in [Json -> R]
  BY <1>3
<1>5. ASSUME NEW x \in Json PROVE step[G][x] = G[x]
  <2>1. \A y \in Json : Nesting[y] < Nesting[x] => G[y] = Local(x)[y]
    <3> SUFFICES ASSUME NEW y \in Json, Nesting[y] < Nesting[x] PROVE Local(y)[y] = Local(x)[y]
      OBVIOUS
    <3>1. Local(x) \in Solved(Nesting[y] + 1) /\ Local(y) \in Solved(Nesting[y] + 1)
      <4>1. Nesting[x] \in Nat /\ Nesting[y] \in Nat /\ Local(x) \in Solved(Nesting[x] + 1)
        BY <1>3
      <4>2. \A z \in Json : Nesting[z] < Nesting[y] + 1 => Nesting[z] < Nesting[x] + 1
        BY <4>1
      <4> QED
        BY <1>3, <4>1, <4>2
    <3>2. Nesting[y] + 1 \in Nat /\ Nesting[y] < Nesting[y] + 1
      OBVIOUS
    <3> HIDE DEF Solved
    <3> QED
      BY <1>2, <3>1, <3>2
  <2>2. Local(x) \in [Json -> R] /\ step[Local(x)][x] = Local(x)[x]
    BY <1>3
  <2>3. step[G][x] = step[Local(x)][x]
    BY <1>4, <2>1, <2>2
  <2> QED
    BY <2>2, <2>3
<1>6. step[G] = G
  BY <1>4, <1>5
<1> QED
  BY <1>4, <1>6

-----------------------------------------------------------------------------
(* What a step of the evaluator and of the validator computes.              *)

\* What evalNode may answer.
Verdicts == {"true", "false", "null", "throw"}

\* The key a node is evaluated by is one of its own; the only one, if it has one.
LEMMA KeyIsKnown ==
  ASSUME NEW ast
  PROVE  /\ KeyOf(ast) # "none" => KeyOf(ast) \in Keys /\ KeyOf(ast) \in DOMAIN ast.f
         /\ \A key \in Keys : DOMAIN ast.f = {key} => KeyOf(ast) = key
<1> DEFINE known == {i \in DOMAIN Order : Order[i] \in DOMAIN ast.f}
           first == CHOOSE i \in known : \A j \in known : i <= j
<1>1. DOMAIN Order = 1..14 /\ \A i \in 1..14 : Order[i] \in Keys /\ Order[i] # "none"
  BY DEF Order, Keys, Binary, Numeric, Textual
<1>2. \A key \in Keys : \E i \in 1..14 : Order[i] = key
  BY DEF Order, Keys, Binary, Numeric, Textual
<1>3. KeyOf(ast) = IF known = {} THEN "none" ELSE Order[first]
  BY DEF KeyOf
<1>4. known # {} => first \in known
  <2> SUFFICES ASSUME known # {} PROVE \E i \in known : \A j \in known : i <= j
    <3> HIDE DEF known
    <3> QED
      OBVIOUS
  <2>1. known \in SUBSET Nat
    BY <1>1
  <2> HIDE DEF known
  <2> QED
    BY <2>1, LeastExists
<1>5. known # {} => Order[first] \in Keys /\ Order[first] \in DOMAIN ast.f
  <2> HIDE DEF first
  <2> QED
    BY <1>1, <1>4
<1>6. ASSUME NEW key \in Keys, DOMAIN ast.f = {key} PROVE KeyOf(ast) = key
  <2>1. known # {}
    BY <1>1, <1>2, <1>6
  <2> HIDE DEF known, first
  <2>2. Order[first] = key
    BY <1>5, <1>6, <2>1
  <2> QED
    BY <1>3, <2>1, <2>2
<1> HIDE DEF known, first
<1> QED
  BY <1>3, <1>5, <1>6

\* What evalNode and validateFilterAst call themselves on is inside their argument.
LEMMA PartsAreDeeper ==
  ASSUME NEW v \in Json, v.kind = "object", NEW key \in DOMAIN v.f
  PROVE  /\ v.f[key] \in Json /\ Nesting[v.f[key]] < Nesting[v]
         /\ v.f[key].kind = "array" =>
              \A child \in Range(v.f[key].a) : child \in Json /\ Nesting[child] < Nesting[v]
<1>1. v.f[key] \in Elements(v)
  BY DEF Elements, Range
<1>2. v.f[key] \in Json /\ Nesting[v.f[key]] < Nesting[v]
  BY <1>1, FilterAssumption
<1>3. ASSUME v.f[key].kind = "array", NEW child \in Range(v.f[key].a)
      PROVE  child \in Json /\ Nesting[child] < Nesting[v]
  <2>1. child \in Elements(v.f[key])
    BY <1>3 DEF Elements
  <2>2. child \in Json /\ Nesting[child] < Nesting[v.f[key]]
    BY <1>2, <2>1, FilterAssumption
  <2> QED
    BY <1>2, <2>2, FilterAssumption
<1> QED
  BY <1>2, <1>3

\* A step answers one of the four.
LEMMA StepDecides ==
  ASSUME NEW eval, NEW ast, NEW event
  PROVE  EvalStep(eval, ast, event) \in Verdicts
<1> DEFINE key == KeyOf(ast)
           val == ast.f[key]
<1>1. CASE ast.kind # "object"
  BY <1>1 DEF EvalStep, Verdicts
<1>2. CASE ast.kind = "object"
  <2>1. \A b : Truth(b) \in Verdicts
    BY Zenon DEF Truth, Verdicts
  <2>2. \A k, results : Joined(k, results) \in Verdicts
    BY <2>1, Zenon DEF Joined, Verdicts
  <2>3. \A op \in Binary : \A v, lit : Decide(op, v, lit) \in Verdicts
    <3> TAKE op \in Binary
    <3> TAKE v, lit
    <3>1. op \in {"eq", "neq", "in"} \/ op \in Numeric \/ op \in Textual
      BY DEF Binary
    <3>2. CASE op = "eq"
      BY <3>2, <2>1 DEF Decide, Numeric, Textual
    <3>3. CASE op = "neq"
      BY <3>3, <2>1 DEF Decide, Numeric, Textual
    <3>4. CASE op = "in"
      BY <3>4, <2>1 DEF Decide, Numeric, Textual, Verdicts
    <3>5. CASE op \in Numeric
      BY <3>5, <2>1 DEF Decide, Numeric, Textual
    <3>6. CASE op \in Textual
      BY <3>6, <2>1 DEF Decide, Numeric, Textual, Verdicts
    <3> QED
      BY <3>1, <3>2, <3>3, <3>4, <3>5, <3>6
  <2>4. key = "none" \/ key \in Keys
    BY KeyIsKnown
  <2>5. CASE key = "none"
    BY <1>2, <2>5 DEF EvalStep, Verdicts, Binary, Numeric, Textual
  <2>6. CASE key \in {"and", "or", "not"}
    BY <1>2, <2>2, <2>6 DEF EvalStep, Verdicts, Binary, Numeric, Textual
  <2>7. CASE key \in Binary
    BY <1>2, <2>3, <2>7 DEF EvalStep, Verdicts, Binary, Numeric, Textual
  <2>8. CASE key = "exists"
    BY <1>2, <2>1, <2>8 DEF EvalStep, Verdicts, Binary, Numeric, Textual
  <2> QED
    BY <2>4, <2>5, <2>6, <2>7, <2>8 DEF Keys
<1> QED
  BY <1>1, <1>2

\* A step of either calls itself on what is inside the node and on nothing else.
LEMMA StepLooksInside ==
  ASSUME NEW g, NEW h, NEW ast \in Json, NEW event,
         \A v \in Json : Nesting[v] < Nesting[ast] => g[v] = h[v]
  PROVE  EvalStep(g, ast, event) = EvalStep(h, ast, event)
<1> DEFINE key == KeyOf(ast)
           val == ast.f[key]
<1>1. CASE ast.kind # "object" \/ key = "none"
  BY <1>1 DEF EvalStep
<1>2. CASE ast.kind = "object" /\ key # "none"
  <2>1. key \in Keys /\ key \in DOMAIN ast.f
    BY <1>2, KeyIsKnown
  <2>2. g[val] = h[val]
    BY <1>2, <2>1, PartsAreDeeper
  <2>3. val.kind = "array" => \A child \in Range(val.a) : g[child] = h[child]
    BY <1>2, <2>1, PartsAreDeeper
  <2>4. val.kind = "array" => {g[child][event] : child \in Range(val.a)} =
                              {h[child][event] : child \in Range(val.a)}
    BY <2>3
  <2>5. CASE key = "not"
    BY <1>2, <2>2, <2>5 DEF EvalStep
  <2>6. CASE key \in {"and", "or"}
    BY <1>2, <2>4, <2>6 DEF EvalStep
  <2>7. CASE key \in Binary
    BY <1>2, <2>7 DEF EvalStep, Binary, Numeric, Textual
  <2>8. CASE key = "exists"
    BY <1>2, <2>8 DEF EvalStep, Binary, Numeric, Textual
  <2> QED
    BY <2>1, <2>5, <2>6, <2>7, <2>8 DEF Keys
<1> QED
  BY <1>1, <1>2

\* Likewise the validator.
LEMMA ValidStepLooksInside ==
  ASSUME NEW g, NEW h, NEW node \in Json, NEW depth \in Nat,
         \A v \in Json : Nesting[v] < Nesting[node] => g[v] = h[v]
  PROVE  ValidStep(g, node, depth) = ValidStep(h, node, depth)
<1>1. ASSUME node.kind = "object", NEW key \in Keys, DOMAIN node.f = {key}
      PROVE  /\ g[node.f[key]] = h[node.f[key]]
             /\ node.f[key].kind = "array" =>
                  \A child \in Range(node.f[key].a) : g[child] = h[child]
  BY <1>1, PartsAreDeeper
<1>2. ValidStep(g, node, depth) <=> ValidStep(h, node, depth)
  BY <1>1 DEF ValidStep, Keys, Binary, Numeric, Textual
<1> QED
  BY <1>2 DEF ValidStep

-----------------------------------------------------------------------------
(* The recursive functions are what their definitions say.                  *)

Solves(g) == g = [ast \in Json |-> [event \in Json |-> EvalStep(g, ast, event)]]

\* evalNode satisfies the equation that defines it.
LEMMA EvalNodeUnfolds ==
  \A ast, event \in Json : EvalNode[ast][event] = EvalStep(EvalNode, ast, event)
<1> DEFINE R == [Json -> Verdicts]
           step == [g \in [Json -> R] |->
                      [ast \in Json |-> [event \in Json |-> EvalStep(g, ast, event)]]]
<1>1. step \in [[Json -> R] -> [Json -> R]]
  BY StepDecides
<1>2. R # {}
  <2>1. [event \in Json |-> "null"] \in R
    BY DEF Verdicts
  <2> QED
    BY <2>1
<1>3. \A g, h \in [Json -> R] : \A x \in Json :
        (\A y \in Json : Nesting[y] < Nesting[x] => g[y] = h[y]) => step[g][x] = step[h][x]
  <2> SUFFICES ASSUME NEW g \in [Json -> R], NEW h \in [Json -> R], NEW x \in Json,
                      \A y \in Json : Nesting[y] < Nesting[x] => g[y] = h[y]
               PROVE  step[g][x] = step[h][x]
    BY Zenon
  <2>1. \A event \in Json : EvalStep(g, x, event) = EvalStep(h, x, event)
    BY StepLooksInside
  <2> QED
    BY <2>1
<1>5. \E g \in [Json -> R] : step[g] = g
  <2> HIDE DEF step, R
  <2> QED
    BY <1>1, <1>2, <1>3, RecursionExists
<1>6. \E g : Solves(g)
  BY <1>5 DEF Solves
<1>7. EvalNode = CHOOSE g : Solves(g)
  BY Zenon DEF EvalNode, Solves
<1>8. Solves(EvalNode)
  BY <1>6, <1>7
<1> QED
  BY <1>8 DEF Solves

ValidSolves(g) == g = [node \in Json |-> [depth \in Nat |-> ValidStep(g, node, depth)]]

\* validateFilterAst satisfies the equation that defines it.
LEMMA ValidFilterUnfolds ==
  \A node \in Json : \A depth \in Nat :
    ValidFilter[node][depth] = ValidStep(ValidFilter, node, depth)
<1> DEFINE R == [Nat -> BOOLEAN]
           step == [g \in [Json -> R] |->
                      [node \in Json |-> [depth \in Nat |-> ValidStep(g, node, depth)]]]
<1>1. step \in [[Json -> R] -> [Json -> R]]
  <2>1. \A g, node, depth : ValidStep(g, node, depth) \in BOOLEAN
    BY Zenon DEF ValidStep
  <2> QED
    BY <2>1
<1>2. R # {}
  <2>1. [depth \in Nat |-> TRUE] \in R
    OBVIOUS
  <2> QED
    BY <2>1
<1>3. \A g, h \in [Json -> R] : \A x \in Json :
        (\A y \in Json : Nesting[y] < Nesting[x] => g[y] = h[y]) => step[g][x] = step[h][x]
  <2> SUFFICES ASSUME NEW g \in [Json -> R], NEW h \in [Json -> R], NEW x \in Json,
                      \A y \in Json : Nesting[y] < Nesting[x] => g[y] = h[y]
               PROVE  step[g][x] = step[h][x]
    BY Zenon
  <2>1. \A depth \in Nat : ValidStep(g, x, depth) = ValidStep(h, x, depth)
    BY ValidStepLooksInside
  <2> QED
    BY <2>1
<1>5. \E g \in [Json -> R] : step[g] = g
  <2> HIDE DEF step, R
  <2> QED
    BY <1>1, <1>2, <1>3, RecursionExists
<1>6. \E g : ValidSolves(g)
  BY <1>5 DEF ValidSolves
<1>7. ValidFilter = CHOOSE g : ValidSolves(g)
  BY Zenon DEF ValidFilter, ValidSolves
<1>8. ValidSolves(ValidFilter)
  BY <1>6, <1>7
<1> QED
  BY <1>8 DEF ValidSolves

-----------------------------------------------------------------------------
(* Validation and evaluation agree.                                         *)

\* A valid node is decided if the valid nodes less deep than it are.
LEMMA ValidDecides ==
  ASSUME NEW rank \in Nat, NEW ast \in Json, Nesting[ast] = rank, NEW event \in Json,
         NEW depth \in Nat, ValidFilter[ast][depth],
         \A v \in Json : \A d \in Nat :
           Nesting[v] < rank /\ ValidFilter[v][d] => EvalNode[v][event] \in {"true", "false"}
  PROVE  EvalNode[ast][event] \in {"true", "false"}
<1>1. ValidStep(ValidFilter, ast, depth) /\ depth + 1 \in Nat
  BY ValidFilterUnfolds
<1>2. ast.kind = "object"
  BY <1>1 DEF ValidStep
<1>3. PICK key \in Keys :
        /\ DOMAIN ast.f = {key}
        /\ key \in {"and", "or"} =>
             /\ ast.f[key].kind = "array"
             /\ \A child \in Range(ast.f[key].a) : ValidFilter[child][depth + 1]
        /\ key = "not" => ValidFilter[ast.f[key]][depth + 1]
        /\ key \in Binary => /\ ast.f[key].kind = "array" /\ Len(ast.f[key].a) = 2
                             /\ ast.f[key].a[1].kind = "string"
                             /\ Fits(key, ast.f[key].a[2])
        /\ key = "exists" => ast.f[key].kind = "string"
  BY <1>1 DEF ValidStep, Keys, Binary, Numeric, Textual
<1> DEFINE val == ast.f[key]
<1>4. KeyOf(ast) = key /\ key # "none" /\ key \in DOMAIN ast.f
  BY <1>3, KeyIsKnown DEF Keys, Binary, Numeric, Textual
<1>5. EvalNode[ast][event] = EvalStep(EvalNode, ast, event)
  BY EvalNodeUnfolds
<1>6. \A b : Truth(b) \in {"true", "false"}
  BY Zenon DEF Truth
<1>7. \A results : results \subseteq {"true", "false"} => Joined(key, results) \in {"true", "false"}
  BY <1>6 DEF Joined
<1>8. CASE key = "not"
  <2>1. EvalNode[val][event] \in {"true", "false"}
    BY <1>1, <1>2, <1>3, <1>4, <1>8, PartsAreDeeper
  <2>2. Joined(key, {EvalNode[val][event]}) \in {"true", "false"}
    BY <1>7, <2>1
  <2>3. EvalStep(EvalNode, ast, event) = Joined(key, {EvalNode[val][event]})
    BY <1>2, <1>4, <1>8 DEF EvalStep, Binary, Numeric, Textual
  <2> QED
    BY <1>5, <2>2, <2>3
<1>9. CASE key \in {"and", "or"}
  <2> DEFINE results == {EvalNode[child][event] : child \in Range(val.a)}
  <2>1. \A child \in Range(val.a) : EvalNode[child][event] \in {"true", "false"}
    BY <1>1, <1>2, <1>3, <1>4, <1>9, PartsAreDeeper
  <2>2. results \subseteq {"true", "false"}
    BY <2>1
  <2>3. EvalStep(EvalNode, ast, event) = Joined(key, results)
    BY <1>2, <1>3, <1>4, <1>9 DEF EvalStep, Binary, Numeric, Textual
  <2> HIDE DEF results
  <2> QED
    BY <1>5, <1>7, <2>2, <2>3
<1>10. CASE key \in Binary
  <2>1. val.kind = "array" /\ Len(val.a) = 2 /\ val.a[1].kind = "string" /\ Fits(key, val.a[2])
    BY <1>3, <1>10
  <2>2. Iterable(val) /\ Nth(val, 1) = val.a[1] /\ Nth(val, 2) = val.a[2]
    BY <2>1 DEF Iterable, Nth
  <2> DEFINE v == ReadPath(event, val.a[1].s)
             lit == val.a[2]
  <2>3. EvalStep(EvalNode, ast, event) = Decide(key, v, lit)
    BY <1>2, <1>4, <1>10, <2>1, <2>2 DEF EvalStep, Binary, Numeric, Textual
  <2> HIDE DEF v
  <2>4. key \in {"eq", "neq", "in"} \/ key \in Numeric \/ key \in Textual
    BY <1>10 DEF Binary
  <2>5. CASE key \in {"eq", "neq"}
    BY <1>5, <1>6, <2>3, <2>5 DEF Decide, Numeric, Textual
  <2>6. CASE key = "in"
    BY <1>5, <1>6, <2>1, <2>3, <2>6 DEF Decide, Fits, Iterable, Numeric, Textual
  <2>7. CASE key \in Numeric
    BY <1>5, <1>6, <2>3, <2>7 DEF Decide, Numeric, Textual
  <2>8. CASE key \in Textual
    BY <1>5, <1>6, <2>1, <2>3, <2>8 DEF Decide, Fits, Numeric, Textual
  <2> QED
    BY <1>5, <2>3, <2>4, <2>5, <2>6, <2>7, <2>8
<1>11. CASE key = "exists"
  BY <1>2, <1>3, <1>4, <1>5, <1>6, <1>11 DEF EvalStep, Binary, Numeric, Textual
<1> QED
  BY <1>8, <1>9, <1>10, <1>11 DEF Keys

\* Whatever the rule, its depth and the payload: evaluateFilter finds a rule that
\* validateFilterAst accepted true or false. It never throws and never answers null.
THEOREM ValidFiltersDecide ==
  ASSUME NEW ast \in Json, IsValid(ast), NEW event \in Json
  PROVE  EvalNode[ast][event] \in {"true", "false"}
<1> DEFINE Bad == {v \in Json : \E d \in Nat :
                     ValidFilter[v][d] /\ EvalNode[v][event] \notin {"true", "false"}}
           Ranks == {Nesting[v] : v \in Bad}
<1>1. Ranks \in SUBSET Nat
  BY FilterAssumption
<1>2. ASSUME Bad # {} PROVE FALSE
  <2>1. PICK r \in Ranks : \A s \in Ranks : r <= s
    <3>1. Ranks # {}
      BY <1>2
    <3> HIDE DEF Ranks
    <3> QED
      BY <1>1, <3>1, LeastExists
  <2>2. PICK v \in Bad : Nesting[v] = r
    BY <2>1
  <2>3. r \in Nat /\ v \in Json
    BY <1>1, <2>1, <2>2
  <2>4. PICK d \in Nat : ValidFilter[v][d] /\ EvalNode[v][event] \notin {"true", "false"}
    BY <2>2
  <2>5. ASSUME NEW w \in Json, NEW e \in Nat, Nesting[w] < r, ValidFilter[w][e]
        PROVE  EvalNode[w][event] \in {"true", "false"}
    <3> SUFFICES ASSUME EvalNode[w][event] \notin {"true", "false"} PROVE FALSE
      OBVIOUS
    <3>1. w \in Bad
      BY <2>5
    <3>2. Nesting[w] \in Ranks /\ Nesting[w] \in Nat
      BY <3>1, FilterAssumption
    <3> HIDE DEF Ranks, Bad
    <3> QED
      BY <2>1, <2>3, <2>5, <3>2
  <2> HIDE DEF Bad, Ranks
  <2> QED
    BY <2>2, <2>3, <2>4, <2>5, ValidDecides
<1>3. ValidFilter[ast][0]
  BY DEF IsValid
<1> QED
  BY <1>2, <1>3

\* So every attempt whose route has an accepted rule gets a verdict from it.
THEOREM AcceptedRulesDecide == AttemptSpec => []ValidRuleDecides
<1> DEFINE Chosen == pc = "filter" => rule \in Rules /\ payload \in Payloads
<1>1. AttemptInit => Chosen
  BY DEF AttemptInit
<1>2. Chosen /\ [AttemptNext]_attemptVars => Chosen'
  BY DEF AttemptNext, attemptVars, filtered, input, request, Filter, Claim, Loop, Transform, Sign,
         Abort, Request, Resolve, LookupFails, Connect, FetchFails, Respond, Read, Settle, Ended, Goto
<1>3. Chosen => ValidRuleDecides
  BY ValidFiltersDecide, FilteredAssumption DEF ValidRuleDecides
<1> QED
  BY <1>1, <1>2, <1>3, PTL DEF AttemptSpec

-----------------------------------------------------------------------------
(* A malformed rule is never true.                                          *)

MalformedStep(malformed, ast) ==
  Unrecognised(ast) \/ \E child \in Operands(ast) : malformed[child]

MalformedSolves(g) == g = [ast \in Json |-> MalformedStep(g, ast)]

\* Operands are inside the node.
LEMMA OperandsAreDeeper ==
  ASSUME NEW ast \in Json
  PROVE  \A child \in Operands(ast) : child \in Json /\ Nesting[child] < Nesting[ast]
<1>1. CASE Unrecognised(ast)
  BY <1>1 DEF Operands
<1>2. CASE ~Unrecognised(ast)
  <2>1. ast.kind = "object" /\ KeyOf(ast) \in DOMAIN ast.f
    BY <1>2, KeyIsKnown DEF Unrecognised
  <2> QED
    BY <1>2, <2>1, PartsAreDeeper DEF Operands
<1> QED
  BY <1>1, <1>2

\* Malformed satisfies the equation that defines it.
LEMMA MalformedUnfolds == \A ast \in Json : Malformed[ast] = MalformedStep(Malformed, ast)
<1> DEFINE step == [g \in [Json -> BOOLEAN] |-> [ast \in Json |-> MalformedStep(g, ast)]]
<1>1. step \in [[Json -> BOOLEAN] -> [Json -> BOOLEAN]]
  <2>1. \A g, ast : MalformedStep(g, ast) \in BOOLEAN
    BY Zenon DEF MalformedStep
  <2> QED
    BY <2>1
<1>2. \A g, h \in [Json -> BOOLEAN] : \A x \in Json :
        (\A y \in Json : Nesting[y] < Nesting[x] => g[y] = h[y]) => step[g][x] = step[h][x]
  <2> SUFFICES ASSUME NEW g \in [Json -> BOOLEAN], NEW h \in [Json -> BOOLEAN], NEW x \in Json,
                      \A y \in Json : Nesting[y] < Nesting[x] => g[y] = h[y]
               PROVE  step[g][x] = step[h][x]
    BY Zenon
  <2>1. MalformedStep(g, x) <=> MalformedStep(h, x)
    BY OperandsAreDeeper DEF MalformedStep
  <2>2. MalformedStep(g, x) = MalformedStep(h, x)
    BY <2>1 DEF MalformedStep
  <2> QED
    BY <2>2
<1>3. \E g \in [Json -> BOOLEAN] : step[g] = g
  <2>1. BOOLEAN # {}
    OBVIOUS
  <2> HIDE DEF step
  <2> QED
    BY <1>1, <1>2, <2>1, RecursionExists
<1>4. \E g : MalformedSolves(g)
  BY <1>3 DEF MalformedSolves
<1>5. Malformed = CHOOSE g : MalformedSolves(g)
  BY Zenon DEF Malformed, MalformedSolves, MalformedStep
<1>6. MalformedSolves(Malformed)
  BY <1>4, <1>5
<1> QED
  BY <1>6 DEF MalformedSolves

\* A malformed operand makes the node null, or it throws.
LEMMA MalformedIsPoisonous ==
  ASSUME NEW ast \in Json, NEW event \in Json, Malformed[ast],
         \A v \in Json : Nesting[v] < Nesting[ast] /\ Malformed[v] =>
                           EvalNode[v][event] \in {"null", "throw"}
  PROVE  EvalNode[ast][event] \in {"null", "throw"}
<1> DEFINE key == KeyOf(ast)
           val == ast.f[key]
<1>1. EvalNode[ast][event] = EvalStep(EvalNode, ast, event)
  BY EvalNodeUnfolds
<1>2. CASE Unrecognised(ast)
  BY <1>1, <1>2 DEF Unrecognised, EvalStep, Binary, Numeric, Textual
<1>3. CASE ~Unrecognised(ast)
  <2>1. PICK child \in Operands(ast) : Malformed[child]
    BY <1>3, MalformedUnfolds DEF MalformedStep
  <2>2. EvalNode[child][event] \in {"null", "throw"}
    BY <2>1, OperandsAreDeeper
  <2>3. ASSUME NEW results, EvalNode[child][event] \in results
        PROVE  Joined(key, results) \in {"null", "throw"}
    BY <2>2, <2>3 DEF Joined
  <2>4. CASE key = "not"
    <3>1. child = val
      BY <1>3, <2>1, <2>4 DEF Operands
    <3>2. EvalStep(EvalNode, ast, event) = Joined(key, {EvalNode[val][event]})
      BY <1>3, <2>4 DEF EvalStep, Unrecognised, Binary, Numeric, Textual
    <3> QED
      BY <1>1, <2>3, <3>1, <3>2
  <2>5. CASE key \in {"and", "or"} /\ val.kind = "array"
    <3> DEFINE results == {EvalNode[c][event] : c \in Range(val.a)}
    <3>1. child \in Range(val.a)
      BY <1>3, <2>1, <2>5 DEF Operands
    <3>2. EvalStep(EvalNode, ast, event) = Joined(key, results)
      BY <1>3, <2>5 DEF EvalStep, Unrecognised, Binary, Numeric, Textual
    <3>3. EvalNode[child][event] \in results
      BY <3>1
    <3> HIDE DEF results
    <3> QED
      BY <1>1, <2>3, <3>2, <3>3
  <2>6. CASE ~(key = "not" \/ (key \in {"and", "or"} /\ val.kind = "array"))
    BY <1>3, <2>1, <2>6 DEF Operands
  <2> QED
    BY <2>4, <2>5, <2>6
<1> QED
  BY <1>2, <1>3

\* No rule with a node that is not recognised, however deep and under however many
\* negations, forwards an event by evaluating to true.
THEOREM MalformedFailsClosed == MalformedIsNeverTrue
<1> SUFFICES ASSUME NEW event \in Json, NEW v \in Json, Malformed[v]
             PROVE  EvalNode[v][event] \in {"null", "throw"}
  BY DEF MalformedIsNeverTrue, Evaluate
<1> DEFINE Bad == {w \in Json : Malformed[w] /\ EvalNode[w][event] \notin {"null", "throw"}}
           Ranks == {Nesting[w] : w \in Bad}
<1>1. Ranks \in SUBSET Nat
  BY FilterAssumption
<1>2. ASSUME Bad # {} PROVE FALSE
  <2>1. PICK r \in Ranks : \A s \in Ranks : r <= s
    <3>1. Ranks # {}
      BY <1>2
    <3> HIDE DEF Ranks
    <3> QED
      BY <1>1, <3>1, LeastExists
  <2>2. PICK w \in Bad : Nesting[w] = r
    BY <2>1
  <2>3. ASSUME NEW u \in Json, Nesting[u] < Nesting[w], Malformed[u]
        PROVE  EvalNode[u][event] \in {"null", "throw"}
    <3> SUFFICES ASSUME u \in Bad PROVE FALSE
      BY <2>3
    <3>1. Nesting[u] \in Ranks /\ Nesting[u] \in Nat /\ r \in Nat
      BY <1>1, <2>1, FilterAssumption
    <3> HIDE DEF Ranks, Bad
    <3> QED
      BY <2>1, <2>2, <2>3, <3>1
  <2> QED
    BY <2>2, <2>3, MalformedIsPoisonous
<1> QED
  BY <1>2
=============================================================================
