--------------------------- MODULE CircuitBreaker ---------------------------
(***************************************************************************)
(* The circuit breaker of a destination: workers count exhausted           *)
(* deliveries, reset the count on a success, disable the destination when  *)
(* the count reaches the threshold and mail its owner; operators pause and *)
(* resume it from the dashboard and through the API.                       *)
(*                                                                         *)
(* Each Prisma call is one statement on one row, hence one action; several *)
(* calls of one function interleave with those of other workers and of the *)
(* operators.                                                              *)
(***************************************************************************)
EXTENDS Integers, FiniteSets

CONSTANTS
  Destinations,
  Callers,        \* worker slots that report the outcome of a delivery
  Operators,      \* dashboard sessions of the owner
  Threshold,      \* getFailureThreshold()
  MaxFailures,    \* bound: no failure is counted past this value
  MaxAbandoned,   \* bound: crashes and rejected calls in the bookkeeping
  NoDestination, NoMail

ASSUME BreakerAssumption ==
  /\ Threshold \in Nat \ {0}
  /\ MaxFailures \in Nat /\ MaxFailures >= Threshold
  /\ MaxAbandoned \in Nat
  /\ NoDestination \notin Destinations
  /\ NoMail \notin Nat

VARIABLES
  enabled, consecutiveFailures, autoDisabledAt,  \* the Destination row
  at, on, count,        \* each caller: program point, destination, count read
  opAt, opOn, opNext,   \* each operator: what was read and decided
  mail,                 \* the count in the owner's mail about the last trip
  abandoned             \* how many bookkeeping calls stopped half-way

destinationVars == <<enabled, consecutiveFailures, autoDisabledAt>>
callerVars      == <<at, on, count>>
operatorVars    == <<opAt, opOn, opNext>>
breakerVars     == <<destinationVars, callerVars, operatorVars, mail, abandoned>>

RowTypes ==
  /\ enabled \in [Destinations -> BOOLEAN]
  /\ consecutiveFailures \in [Destinations -> Nat]
  /\ autoDisabledAt \in [Destinations -> BOOLEAN]
  /\ mail \in [Destinations -> Nat \cup {NoMail}]

CallerTypes ==
  /\ at \in [Callers -> {"idle", "counted", "tripped", "mailing"}]
  /\ on \in [Callers -> Destinations \cup {NoDestination}]
  /\ count \in [Callers -> Nat]
  /\ \A c \in Callers : at[c] = "idle" <=> on[c] = NoDestination
  /\ abandoned \in 0..MaxAbandoned

OperatorTypes ==
  /\ opAt \in [Operators -> {"away", "deciding"}]
  /\ opOn \in [Operators -> Destinations \cup {NoDestination}]
  /\ opNext \in [Operators -> BOOLEAN]
  /\ \A o \in Operators : opAt[o] = "away" <=> opOn[o] = NoDestination

BreakerTypeOK == RowTypes /\ CallerTypes /\ OperatorTypes

BreakerInit ==
  /\ enabled = [x \in Destinations |-> TRUE]
  /\ consecutiveFailures = [x \in Destinations |-> 0]
  /\ autoDisabledAt = [x \in Destinations |-> FALSE]
  /\ at = [c \in Callers |-> "idle"]
  /\ on = [c \in Callers |-> NoDestination]
  /\ count = [c \in Callers |-> 0]
  /\ opAt = [o \in Operators |-> "away"]
  /\ opOn = [o \in Operators |-> NoDestination]
  /\ opNext = [o \in Operators |-> FALSE]
  /\ mail = [x \in Destinations |-> NoMail]
  /\ abandoned = 0

-----------------------------------------------------------------------------
(* The worker's bookkeeping.                                                *)

EndCall(c) ==
  /\ at' = [at EXCEPT ![c] = "idle"]
  /\ on' = [on EXCEPT ![c] = NoDestination]
  /\ count' = [count EXCEPT ![c] = 0]

RecordSuccess(c, x) ==
  /\ at[c] = "idle"
  /\ consecutiveFailures' = [consecutiveFailures EXCEPT ![x] = 0]
  /\ UNCHANGED <<enabled, autoDisabledAt, callerVars, operatorVars, mail, abandoned>>

\* recordExhausted, step 1. A destination that is already disabled is left
\* alone, and the call ends without having changed anything.
CountFailure(c, x) ==
  /\ at[c] = "idle"
  /\ enabled[x]
  /\ consecutiveFailures[x] < MaxFailures
  /\ consecutiveFailures' = [consecutiveFailures EXCEPT ![x] = @ + 1]
  /\ at' = [at EXCEPT ![c] = "counted"]
  /\ on' = [on EXCEPT ![c] = x]
  /\ UNCHANGED <<enabled, autoDisabledAt, count, operatorVars, mail, abandoned>>

\* Mutant of Trips: only the exact threshold counts.
TripsAtExactly(x) == enabled[x] /\ consecutiveFailures[x] = Threshold

Trips(x) == enabled[x] /\ consecutiveFailures[x] >= Threshold

\* recordExhausted, step 2: the conditional update.
Trip(c) ==
  LET x == on[c] IN
  /\ at[c] = "counted"
  /\ Trips(x)
  /\ enabled' = [enabled EXCEPT ![x] = FALSE]
  /\ autoDisabledAt' = [autoDisabledAt EXCEPT ![x] = TRUE]
  /\ mail' = [mail EXCEPT ![x] = NoMail]
  /\ at' = [at EXCEPT ![c] = "tripped"]
  /\ UNCHANGED <<consecutiveFailures, on, count, operatorVars, abandoned>>

DontTrip(c) ==
  /\ at[c] = "counted"
  /\ ~Trips(on[c])
  /\ EndCall(c)
  /\ UNCHANGED <<destinationVars, operatorVars, mail, abandoned>>

\* findUniqueOrThrow: the counter is read again, after the trip.
ReadForMail(c) ==
  /\ at[c] = "tripped"
  /\ count' = [count EXCEPT ![c] = consecutiveFailures[on[c]]]
  /\ at' = [at EXCEPT ![c] = "mailing"]
  /\ UNCHANGED <<destinationVars, on, operatorVars, mail, abandoned>>

\* Mutant of SendMail: only the first count past the threshold is mailed.
SendMailAtThreshold(c) ==
  /\ at[c] = "mailing"
  /\ mail' = [mail EXCEPT ![on[c]] = IF count[c] = Threshold THEN count[c] ELSE @]
  /\ EndCall(c)
  /\ UNCHANGED <<destinationVars, operatorVars, abandoned>>

SendMail(c) ==
  /\ at[c] = "mailing"
  /\ mail' = [mail EXCEPT ![on[c]] = count[c]]
  /\ EndCall(c)
  /\ UNCHANGED <<destinationVars, operatorVars, abandoned>>

\* A statement or the SMTP call rejects, or the process dies: the catch block
\* logs it, and nothing ever takes the call up again.
Abandon(c) ==
  /\ at[c] # "idle"
  /\ abandoned < MaxAbandoned
  /\ abandoned' = abandoned + 1
  /\ EndCall(c)
  /\ UNCHANGED <<destinationVars, operatorVars, mail>>

-----------------------------------------------------------------------------
(* The operators.                                                           *)

\* Mutant of Switch: a resume keeps the mark of the breaker.
SwitchKeepingMark(x, b) ==
  /\ enabled' = [enabled EXCEPT ![x] = b]
  /\ consecutiveFailures' = [consecutiveFailures EXCEPT ![x] = IF b THEN 0 ELSE @]
  /\ UNCHANGED autoDisabledAt

\* A resume clears the breaker state, a pause leaves it alone.
Switch(x, b) ==
  /\ enabled' = [enabled EXCEPT ![x] = b]
  /\ consecutiveFailures' = [consecutiveFailures EXCEPT ![x] = IF b THEN 0 ELSE @]
  /\ autoDisabledAt' = [autoDisabledAt EXCEPT ![x] = IF b THEN FALSE ELSE @]

\* toggleDestinationEnabled reads the row and negates what it finds ...
ToggleRead(o, x) ==
  /\ opAt[o] = "away"
  /\ opAt' = [opAt EXCEPT ![o] = "deciding"]
  /\ opOn' = [opOn EXCEPT ![o] = x]
  /\ opNext' = [opNext EXCEPT ![o] = ~enabled[x]]
  /\ UNCHANGED <<destinationVars, callerVars, mail, abandoned>>

\* ... and then writes it.
ToggleWrite(o) ==
  /\ opAt[o] = "deciding"
  /\ Switch(opOn[o], opNext[o])
  /\ opAt' = [opAt EXCEPT ![o] = "away"]
  /\ opOn' = [opOn EXCEPT ![o] = NoDestination]
  /\ opNext' = [opNext EXCEPT ![o] = FALSE]
  /\ UNCHANGED <<callerVars, mail, abandoned>>

\* updateDestination with `enabled` in the patch: no look at the row's value.
Patch(x, b) ==
  /\ Switch(x, b)
  /\ UNCHANGED <<callerVars, operatorVars, mail, abandoned>>

-----------------------------------------------------------------------------
CallerNext(c) == Trip(c) \/ DontTrip(c) \/ ReadForMail(c) \/ SendMail(c)

OperatorNext(o) == (\E x \in Destinations : ToggleRead(o, x)) \/ ToggleWrite(o)

BreakerNext ==
  \/ \E c \in Callers, x \in Destinations : RecordSuccess(c, x) \/ CountFailure(c, x)
  \/ \E c \in Callers : CallerNext(c) \/ Abandon(c)
  \/ \E o \in Operators : OperatorNext(o)
  \/ \E x \in Destinations, b \in BOOLEAN : Patch(x, b)

BreakerSpec == BreakerInit /\ [][BreakerNext]_breakerVars

\* A worker that has started its bookkeeping goes on with it.
BreakerFairSpec == BreakerSpec /\ \A c \in Callers : WF_breakerVars(CallerNext(c))

-----------------------------------------------------------------------------
(* Properties.                                                              *)

\* "Auto-disabled" is shown only for a destination that is off: no
\* interleaving of trips, toggles and patches resumes it and keeps the mark.
AutoDisabledIsOff == \A x \in Destinations : autoDisabledAt[x] => ~enabled[x]

\* The count of an enabled destination does not stay at the threshold
\* unattended: some worker is about to trip it, unless a call was abandoned.
ThresholdIsActedOn ==
  abandoned = 0 =>
    \A x \in Destinations :
      enabled[x] /\ consecutiveFailures[x] >= Threshold =>
        \E c \in Callers : at[c] = "counted" /\ on[c] = x

\* Every automatic disablement reaches its owner, whatever the other workers and
\* the operators do meanwhile, unless a call was abandoned.
TripIsMailedOrAbandoned ==
  \A x \in Destinations :
    autoDisabledAt[x] /\ mail[x] = NoMail ~> mail[x] # NoMail \/ abandoned > 0

=============================================================================
