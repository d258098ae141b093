--------------------------- MODULE FilteredAttempt ---------------------------
(***************************************************************************)
(* One attempt, where the verdict on a filter rule is the evaluator's: the *)
(* parameters Verdict and Nothing of Attempt are Evaluate and Undefined of *)
(* Filters. They meet here, and nowhere else, because the theorems about   *)
(* Attempt hold for any evaluator.                                         *)
(***************************************************************************)
EXTENDS Attempt, Filters

ASSUME FilteredAssumption == Rules \subseteq Json \cup {Nothing} /\ Payloads \subseteq Json

\* validateFilterAst and evaluateFilter agree: a rule that was accepted is true
\* or false of every payload, and never throws at delivery time.
ValidRuleDecides ==
  pc = "filter" /\ rule # Nothing /\ IsValid(rule) => EvalNode[rule][payload] \in {"true", "false"}

\* "a malformed (e.g. hand-edited) AST can never cause an event to be forwarded",
\* says a comment; the code treats a rule that throws as no rule.
MalformedIsNotForwarded ==
  [][pc = "filter" /\ pc' = "claim" => rule = Nothing \/ IsValid(rule)]_attemptVars
=============================================================================
