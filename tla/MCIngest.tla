------------------------------- MODULE MCIngest -------------------------------
(* A small instance of Ingest for TLC: two webhooks whose bodies differ and  *)
(* name the same Stripe id, both signed with the secret k1.                  *)
EXTENDS Ingest

Bodies == [h \in Hooks |-> [header |-> Null, stripe |-> "evt", github |-> Null, body |-> h,
                            signedBy |-> "k1", large |-> FALSE]]
\* No verification, Stripe's, and GitHub's without a secret on record.
Stored == {[style |-> Null, secret |-> Null], [style |-> "stripe", secret |-> "k1"],
           [style |-> "github", secret |-> Null]}
=============================================================================
