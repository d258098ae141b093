------------------------------ MODULE Dashboard ------------------------------
(***************************************************************************)
(* What a user has open at the same time, over the same tables: a search   *)
(* or a list, the overview page and the tabs that manage the keys and ask  *)
(* for answers. They share the events and the keys. A budget bounds how    *)
(* often the user starts something and the tables change.                  *)
(***************************************************************************)
EXTENDS Search, Metrics, Assist

CONSTANT Budgets     \* records [search, overview, tab, change : Nat]

ASSUME DashboardAssumption == Budgets \subseteq [search : Nat, overview : Nat, tab : Nat, change : Nat]

VARIABLE budget

dashboardVars == <<recordVars, searchVars, metricVars, assistVars, budget>>

\* Nobody reads the keys for the overview.
DashboardInit ==
  /\ RecordsInit /\ SearchInit /\ MetricsInit /\ AssistInit /\ budget \in Budgets
  /\ budget.search + budget.tab = 0 => keys = <<>>

Spend(kind) == budget[kind] > 0 /\ budget' = [budget EXCEPT ![kind] = @ - 1]

\* The tables change under all of them.
Change == Spend("change") /\ RecordChange /\ Followed /\ Drifted /\ Cascaded

Pass == Tick /\ UNCHANGED <<searchVars, metricVars, assistVars, budget>>

Read ==
  /\ \/ Spend("search") /\ \E c \in Clients, failed \in BOOLEAN : StartSearch(c, failed)
     \/ SearchSteps /\ (phase = "compile" /\ phase' # "idle" => HasClient) /\ UNCHANGED budget
  /\ UNCHANGED <<recordVars, metricVars, assistVars>>

Overview ==
  /\ \/ Spend("overview") /\ Load
     \/ UNCHANGED budget /\ \E q \in QueryNames : Query(q)
  /\ UNCHANGED <<recordVars, searchVars, assistVars>>

Work ==
  /\ \E t \in Tabs : \/ Spend("tab") /\ StartAssist(t)
                     \/ UNCHANGED budget /\ AssistStep(t)
  /\ UNCHANGED <<recordVars, searchVars, metricVars>>

DashboardNext == Change \/ Pass \/ Read \/ Overview \/ Work

DashboardSpec == DashboardInit /\ [][DashboardNext]_dashboardVars
=============================================================================
