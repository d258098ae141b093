------------------------------ MODULE MCAlerts ------------------------------
(* Small instances of Alerts for TLC: an account form that turns everything *)
(* on, one for the destination that mutes a channel and keeps its address,  *)
(* and one that is rejected unless an address is already stored.            *)
EXTENDS Alerts

NoUrl == [c \in Channels |-> Blank]

AccountForm == [target |-> "user", ticked |-> {"email", "slack"},
                url |-> [NoUrl EXCEPT !["slack"] = "u1"],
                triggers |-> {"exhausted", "firstFailure"}, cooldown |-> 2]
MutedForm   == [target |-> "dest", ticked |-> {},
                url |-> [NoUrl EXCEPT !["slack"] = "u2"],
                triggers |-> {"failureRate"}, cooldown |-> 3]
BlankForm   == [target |-> "dest", ticked |-> {"slack"}, url |-> NoUrl,
                triggers |-> {"exhausted"}, cooldown |-> 2]

ThreeForms == {AccountForm, MutedForm, BlankForm}
Delays     == <<1>>
=============================================================================
