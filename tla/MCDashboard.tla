---------------------------- MODULE MCDashboard ----------------------------
(* A small instance of Dashboard for TLC.                                    *)
EXTENDS Dashboard, TLC

CONSTANTS a, b, x, y

\* Two routes; a replay adds the one an event has not gone along.
Targets == a :> x @@ b :> y

\* A history from the events that are committed and their settled deliveries.
History(stored, settled) ==
  [event |-> [e \in Events |-> IF e \in stored THEN "stored" ELSE "none"],
   delivery |-> [d \in Deliveries |-> IF d \in DOMAIN settled THEN settled[d] ELSE "none"]]

\* Nothing is committed; each kind of end, with two destinations that fail, one twice.
HistorySet ==
  {History({}, <<>>),
   History({1, 2, 3}, <<1, a>> :> "failed" @@ <<2, a>> :> "failed" @@ <<2, b>> :> "failed"
                        @@ <<1, b>> :> "delivered" @@ <<3, a>> :> "skipped")}

Budget(s, o, t, n) == [search |-> s, overview |-> o, tab |-> t, change |-> n]

BudgetSet == {Budget(1, 0, 0, 2), Budget(0, 1, 0, 1), Budget(0, 0, 2, 1), Budget(1, 0, 1, 0)}

Symmetry == Permutations(Providers) \cup Permutations(Tabs)
=============================================================================
