----------------------------- MODULE WebhookStore -----------------------------
(***************************************************************************)
(* What the ingest endpoint promises the providers, with no requests, races *)
(* or retries: a store that holds at most one webhook per key, and that    *)
(* acknowledges a webhook only after it has held one under a key of it.    *)
(***************************************************************************)
CONSTANTS
  Hooks,    \* the webhooks providers have to deliver
  KeysOf    \* of each: the keys it may be stored under

VARIABLES
  stored,   \* the [key, hook] pairs in the store
  held,     \* keys that have ever been in it
  acked     \* webhooks that have been acknowledged

storeVars == <<stored, held, acked>>

StoreInit == stored = {} /\ held = {} /\ acked = {}

Store(h, k) ==
  /\ k \in KeysOf[h]
  /\ \A row \in stored : row.key # k
  /\ stored' = stored \cup {[key |-> k, hook |-> h]}
  /\ held' = held \cup {k}
  /\ UNCHANGED acked

Acknowledge(h) ==
  /\ KeysOf[h] \cap held # {}
  /\ acked' = acked \cup {h}
  /\ UNCHANGED <<stored, held>>

\* The owner or the retention deletes some of it.
Forget == stored' \in SUBSET stored /\ UNCHANGED <<held, acked>>

StoreNext == \/ \E h \in Hooks : Acknowledge(h) \/ \E k \in KeysOf[h] : Store(h, k)
             \/ Forget

StoreSpec == StoreInit /\ [][StoreNext]_storeVars

\* Whatever is acknowledged was there: no webhook is lost by the one who promised
\* to keep it.
AcknowledgedWasHeld == \A h \in acked : KeysOf[h] \cap held # {}
=============================================================================
