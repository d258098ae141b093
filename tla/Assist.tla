------------------------------- MODULE Assist -------------------------------
(***************************************************************************)
(* The user's keys of model providers and the answers the user pays for:   *)
(* the diagnosis of a delivery and the explanation of what changed between *)
(* two events, each stored once. Several tabs work at the same time; every *)
(* query to the database, and the call of the model, is a step of the      *)
(* server action that a tab started.                                       *)
(***************************************************************************)
EXTENDS Records, SequencesExt

CONSTANTS Tabs, Providers, Null

ASSUME AssistAssumption == Null \notin Tabs \cup Providers

VARIABLES
  keys,      \* providers with a stored key, the most recently updated first
  active,    \* users.activeAiProvider
  op,        \* [Tabs -> the action under way]
  answers,   \* [Questions -> the tab whose answer is stored, or Null]
  shown,     \* [Tabs -> the question and answer on display]
  paid,      \* [Tabs \X Questions -> calls of the model]
  lost,      \* history: [Tabs \X Questions -> answers paid for and lost in a crash]
  raced      \* history: two key actions overlapped, or one was cut off

keyVars    == <<keys, active>>
answerVars == <<answers, paid>>
assistVars == <<keyVars, op, answerVars, shown, lost, raced>>

\* What is wrong with a delivery, and what changed from an event to a later one.
EventPairs == {q \in Events \X Events : q[1] < q[2]}
Questions  == Deliveries \cup EventPairs

Nothing == [question |-> <<0, 0>>, by |-> Null]

Idle == [step |-> "idle", provider |-> Null, question |-> <<0, 0>>]

KeySteps == {"read", "set", "check", "remaining"}

\* The user may have saved keys before.
AssistInit ==
  /\ keys \in {k \in BoundedSeq(Providers, Cardinality(Providers)) : IsInjective(k)}
  /\ active \in IF keys = <<>> THEN {Null} ELSE ToSet(keys)
  /\ op = [t \in Tabs |-> Idle] /\ shown = [t \in Tabs |-> Nothing]
  /\ answers = [q \in Questions |-> Null]
  /\ paid = [a \in Tabs \X Questions |-> 0] /\ lost = paid /\ raced = FALSE

Go(t, step, p) == op' = [op EXCEPT ![t].step = step, ![t].provider = p]
End(t)         == op' = [op EXCEPT ![t] = Idle]

-----------------------------------------------------------------------------
(* Keys (actions/api-keys.ts).                                              *)

StartsKeyAction(t) ==
  /\ op[t] = Idle
  /\ raced' = (raced \/ \E u \in Tabs : op[u].step \in KeySteps)

\* saveProviderKey with a key that validates: the upsert.
SaveKey(t, p) ==
  /\ StartsKeyAction(t)
  /\ keys' = <<p>> \o RemoveFirst(keys, p)
  /\ Go(t, "read", p)
  /\ UNCHANGED <<active, answerVars, shown, lost>>

\* Is there an active provider?
ReadActive(t) ==
  /\ op[t].step = "read"
  /\ IF active = Null THEN Go(t, "set", op[t].provider) ELSE End(t)
  /\ UNCHANGED <<keyVars, answerVars, shown, lost, raced>>

\* setActiveProvider: only a provider with a key.
Activate(t, p) ==
  /\ StartsKeyAction(t)
  /\ p \in ToSet(keys)
  /\ Go(t, "set", p)
  /\ UNCHANGED <<keyVars, answerVars, shown, lost>>

SetActive(t) ==
  /\ op[t].step = "set"
  /\ active' = op[t].provider
  /\ End(t)
  /\ UNCHANGED <<keys, answerVars, shown, lost, raced>>

\* deleteProviderKey: the key first.
DeleteKey(t, p) ==
  /\ StartsKeyAction(t)
  /\ keys' = RemoveFirst(keys, p)
  /\ Go(t, "check", p)
  /\ UNCHANGED <<active, answerVars, shown, lost>>

\* Mutant of Repoints: only if another key is left.
RepointsIfAny(p) == active = p /\ keys # <<>>

\* Was it the active one?
Repoints(p) == active = p

CheckActive(t) ==
  /\ op[t].step = "check"
  /\ IF Repoints(op[t].provider) THEN Go(t, "remaining", op[t].provider) ELSE End(t)
  /\ UNCHANGED <<keyVars, answerVars, shown, lost, raced>>

\* The most recent of the remaining keys, or none.
FindRemaining(t) ==
  /\ op[t].step = "remaining"
  /\ Go(t, "set", IF keys = <<>> THEN Null ELSE Head(keys))
  /\ UNCHANGED <<keyVars, answerVars, shown, lost, raced>>

-----------------------------------------------------------------------------
(* Questions (actions/diagnose.ts, actions/event-diff.ts).                  *)

\* canonicalPair.
Canonical(e, f) == IF e < f THEN <<e, f>> ELSE <<f, e>>

Exists(q) == IF q \in Deliveries THEN Recorded(q) ELSE Present(q[1]) /\ Present(q[2])

Cached(q) == answers[q] # Null

\* The rows and the stored answer are read; a stored one is returned.
Ask(t, q) ==
  /\ op[t] = Idle
  /\ Exists(q)
  /\ IF Cached(q)
     THEN shown' = [shown EXCEPT ![t] = [question |-> q, by |-> answers[q]]] /\ UNCHANGED op
     ELSE op' = [op EXCEPT ![t] = [@ EXCEPT !.step = "client", !.question = q]]
          /\ UNCHANGED shown
  /\ UNCHANGED <<keyVars, answerVars, lost, raced>>

\* llmFor reads the active provider; NoLlmKeyError if there is none.
FindClient(t) ==
  /\ op[t].step = "client"
  /\ IF active = Null THEN End(t) ELSE Go(t, "key", active)
  /\ UNCHANGED <<keyVars, answerVars, shown, lost, raced>>

\* llmFor reads its key; NoLlmKeyError if that has been deleted.
FindKey(t) ==
  /\ op[t].step = "key"
  /\ IF op[t].provider \in ToSet(keys) THEN Go(t, "call", Null) ELSE End(t)
  /\ UNCHANGED <<keyVars, answerVars, shown, lost, raced>>

\* The model answers.
Call(t) ==
  /\ op[t].step = "call"
  /\ paid' = [paid EXCEPT ![<<t, op[t].question>>] = @ + 1]
  /\ Go(t, "create", Null)
  /\ UNCHANGED <<keyVars, answers, shown, lost, raced>>

\* The call fails.
CallFails(t) ==
  /\ op[t].step = "call"
  /\ End(t)
  /\ UNCHANGED <<keyVars, answerVars, shown, lost, raced>>

\* Mutant of Insertable: the stored answer is replaced.
InsertableTwice(q) == Exists(q)

\* The unique index and the foreign keys of the answers.
Insertable(q) == Exists(q) /\ answers[q] = Null

\* create; on an error the tab shows the error, not the answer it paid for.
Create(t) ==
  /\ op[t].step = "create"
  /\ LET q == op[t].question
     IN IF Insertable(q)
        THEN /\ answers' = [answers EXCEPT ![q] = t]
             /\ shown' = [shown EXCEPT ![t] = [question |-> q, by |-> t]]
        ELSE UNCHANGED <<answers, shown>>
  /\ End(t)
  /\ UNCHANGED <<keyVars, paid, lost, raced>>

\* The server stops in the middle of an action.
Abandon(t) ==
  /\ op[t] # Idle
  /\ lost' = IF op[t].step = "create" THEN [lost EXCEPT ![<<t, op[t].question>>] = @ + 1] ELSE lost
  /\ raced' = (raced \/ op[t].step \in KeySteps)
  /\ End(t)
  /\ UNCHANGED <<keyVars, answerVars, shown>>

StartAssist(t) ==
  \/ \E p \in Providers : SaveKey(t, p) \/ Activate(t, p) \/ DeleteKey(t, p)
  \/ \E d \in Deliveries : Ask(t, d)
  \/ \E e, f \in Events : e # f /\ Ask(t, Canonical(e, f))

AssistStep(t) ==
  \/ ReadActive(t) \/ SetActive(t) \/ CheckActive(t) \/ FindRemaining(t)
  \/ FindClient(t) \/ FindKey(t) \/ Call(t) \/ CallFails(t) \/ Create(t) \/ Abandon(t)

\* The tables change: an answer goes with its delivery, or with either event.
Cascaded ==
  /\ answers' = [q \in Questions |-> IF Exists(q)' THEN answers[q] ELSE Null]
  /\ UNCHANGED <<keyVars, op, paid, shown, lost, raced>>

\* Is there a client for the user, in the reads of one moment?
HasClient == active # Null /\ active \in ToSet(keys)
-----------------------------------------------------------------------------
(* Properties.                                                              *)

\* However many tabs ask the same at the same time, an answer on display is the
\* one that is stored as long as what it was asked about is there.
AnswerIsStored ==
  \A t \in Tabs :
    LET q == shown[t].question
    IN shown[t] # Nothing /\ Exists(q) => answers[q] = shown[t].by

\* Once the key actions are done, and unless two of them overlapped, the user
\* has an active provider exactly if there is a key, and it is one with a key.
KeysStayUsable ==
  ~raced /\ (\A t \in Tabs : op[t].step \notin KeySteps) =>
    IF keys = <<>> THEN active = Null ELSE active \in ToSet(keys)

-----------------------------------------------------------------------------
(* What the comments say and the code does not do.                          *)

\* "persisted once per delivery so the user pays for the call only once": but two
\* tabs may both look before either stores.
PaidOnce ==
  \A t, u \in Tabs, q \in Questions : t # u => paid[t, q] + paid[u, q] <= 1 + lost[t, q] + lost[u, q]
=============================================================================
