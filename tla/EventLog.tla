------------------------------ MODULE EventLog ------------------------------
(***************************************************************************)
(* What the live stream promises a client as long as nothing fails and no  *)
(* event overtakes another, with no requests, queries or messages: events  *)
(* are appended to a log in their order, and the client reads the log from *)
(* some event on, one event after the other. To be sent an event again is  *)
(* no step.                                                                *)
(***************************************************************************)
EXTENDS Integers

CONSTANT Events

VARIABLES log, read

logVars == <<log, read>>

LogInit == log = {} /\ read = {}

AppendToLog(e) ==
  /\ \A f \in log : f < e
  /\ log' = log \cup {e}
  /\ UNCHANGED read

\* The first event may be any; each further one is the next of the log.
ReadNext(e) ==
  /\ e \in log \ read
  /\ \A f \in read : f < e /\ \A g \in log : f < g /\ g < e => g \in read
  /\ read' = read \cup {e}
  /\ UNCHANGED log

LogNext == \E e \in Events : AppendToLog(e) \/ ReadNext(e)

LogSpec == LogInit /\ [][LogNext]_logVars

\* Nothing is left out between two events that were read.
NothingLeftOut ==
  \A f, g \in read, e \in log : f < e /\ e < g => e \in read
=============================================================================
