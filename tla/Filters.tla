------------------------------- MODULE Filters -------------------------------
(***************************************************************************)
(* The filter rules of a route (lib/filters/evaluator.ts). A rule is JSON  *)
(* that an editor, a model or an API client wrote: validateFilterAst       *)
(* decides what is stored and evaluateFilter what is forwarded.            *)
(*                                                                         *)
(* JSON is a tree of records. A string is a sequence of symbols, and a     *)
(* path is the string of its keys. What JavaScript throws is "throw".      *)
(***************************************************************************)
EXTENDS Integers, SequencesExt

CONSTANTS
  MaxFilterDepth,
  Json,      \* the JSON values there may be, with all their parts
  Nesting    \* how deep each of them is nested

Undefined == [kind |-> "undefined"]
JNull     == [kind |-> "null"]
Num(n)    == [kind |-> "number", n |-> n]
Str(s)    == [kind |-> "string", s |-> s]
Arr(a)    == [kind |-> "array",  a |-> a]
Obj(f)    == [kind |-> "object", f |-> f]

Elements(v) == CASE v.kind = "array"  -> Range(v.a)
                 [] v.kind = "object" -> Range(v.f)
                 [] OTHER             -> {}

\* JSON is finite: what is inside a value is nested less deep than the value.
ASSUME FilterAssumption ==
  /\ MaxFilterDepth \in Nat
  /\ Nesting \in [Json -> Nat]
  /\ \A v \in Json : \A part \in Elements(v) : part \in Json /\ Nesting[part] < Nesting[v]

-----------------------------------------------------------------------------
(* JavaScript.                                                              *)

\* Number(text) for the texts that are one digit; the others are NaN.
Digits == [one |-> 1, two |-> 2]
Numerals(s) == IF Len(s) = 1 /\ s[1] \in DOMAIN Digits THEN {Digits[s[1]]} ELSE {}

\* toLowerCase
Lower(s) == [i \in DOMAIN s |-> IF s[i] = "A" THEN "a" ELSE s[i]]

\* ===: objects and arrays are equal only to themselves, and a payload holds
\* none of the rule's.
StrictlyEqual(x, y) == x.kind \notin {"array", "object"} /\ x = y

\* What a relational operator reads a literal as; none if NaN.
Coerced(v) ==
  CASE v.kind = "number" -> {v.n}
    [] v.kind = "null"   -> {0}
    [] v.kind = "string" -> Numerals(v.s)
    [] OTHER             -> {}

Iterable(v) == v.kind \in {"array", "string"}

\* The i-th element when an array or a string is destructured.
Nth(v, i) ==
  CASE v.kind = "array"  /\ i <= Len(v.a) -> v.a[i]
    [] v.kind = "string" /\ i <= Len(v.s) -> Str(<<v.s[i]>>)
    [] OTHER                              -> Undefined

-----------------------------------------------------------------------------
(* Evaluation.                                                              *)

\* An own property: a key of an object, an index of an array, or its length.
Child(v, key) ==
  CASE v.kind = "object" /\ key \in DOMAIN v.f -> v.f[key]
    [] v.kind = "array" /\ key \in DOMAIN Digits /\ Digits[key] < Len(v.a) -> v.a[Digits[key] + 1]
    [] v.kind = "array" /\ key = "length" -> Num(Len(v.a))
    [] OTHER -> Undefined

ReadPath(event, path) == FoldLeft(Child, event, path)

\* toNumber, as the set of the number if there is one.
ToNumber(v) ==
  CASE v.kind = "number" -> {v.n}
    [] v.kind = "string" -> Numerals(v.s)
    [] OTHER             -> {}

Truth(b) == IF b THEN "true" ELSE "false"

Numeric == {"gt", "gte", "lt", "lte"}
Textual == {"contains", "startsWith", "endsWith"}
Binary  == {"eq", "neq", "in"} \cup Numeric \cup Textual
Keys    == {"and", "or", "not", "exists"} \cup Binary

Compare(op, a, b) ==
  CASE op = "gt"  -> a > b
    [] op = "gte" -> a >= b
    [] op = "lt"  -> a < b
    [] op = "lte" -> a <= b

Within(s, t) == \E i \in 1..(Len(t) - Len(s) + 1) : SubSeq(t, i, i + Len(s) - 1) = s

Matches(op, text, needle) ==
  CASE op = "contains"   -> Within(needle, text)
    [] op = "startsWith" -> IsPrefix(needle, text)
    [] op = "endsWith"   -> IsSuffix(needle, text)

\* A comparison of the value v at the path with the literal.
Decide(op, v, lit) ==
  CASE op = "eq"  -> Truth(StrictlyEqual(v, lit))
    [] op = "neq" -> Truth(~StrictlyEqual(v, lit))
    [] op = "in"  ->
         IF ~Iterable(lit) THEN "throw"
         ELSE IF lit.kind = "array" THEN Truth(\E i \in DOMAIN lit.a : StrictlyEqual(lit.a[i], v))
         ELSE Truth(v.kind = "string" /\ Within(v.s, lit.s))
    [] op \in Numeric -> Truth(\E a \in ToNumber(v), b \in Coerced(lit) : Compare(op, a, b))
    [] op \in Textual ->
         IF v.kind # "string" THEN "false"
         ELSE IF lit.kind # "string" THEN "throw"
         ELSE Truth(Matches(op, Lower(v.s), Lower(lit.s)))

\* The first key in the order of the code's tests; "none" if it knows none.
Order == <<"and", "or", "not", "eq", "neq", "gt", "gte", "lt", "lte", "in",
           "contains", "startsWith", "endsWith", "exists">>
KeyOf(ast) ==
  LET known == {i \in DOMAIN Order : Order[i] \in DOMAIN ast.f}
  IN IF known = {} THEN "none" ELSE Order[CHOOSE i \in known : \A j \in known : i <= j]

\* The connective of valid results.
Connective(key, results) ==
  CASE key = "and" -> results \subseteq {"true"}
    [] key = "or"  -> "true" \in results
    [] key = "not" -> "false" \in results

\* and, or, not: an invalid child makes the whole invalid.
Joined(key, results) ==
  IF "throw" \in results THEN "throw"
  ELSE IF "null" \in results THEN "null"
  ELSE Truth(Connective(key, results))

\* The body of evalNode, whose calls of itself are answered by eval: "true", "false",
\* "null" for what it does not recognise, "throw".
EvalStep(eval, ast, event) ==
  IF ast.kind # "object" THEN "null"
  ELSE LET key == KeyOf(ast)
           val == ast.f[key]
       IN CASE key = "none" -> "null"
            [] key = "not"  -> Joined(key, {eval[val][event]})
            [] key \in {"and", "or"} ->
                 IF val.kind # "array" THEN "throw"
                 ELSE Joined(key, {eval[child][event] : child \in Range(val.a)})
            [] key \in Binary ->
                 IF ~Iterable(val) \/ Nth(val, 1).kind # "string" THEN "throw"
                 ELSE Decide(key, ReadPath(event, Nth(val, 1).s), Nth(val, 2))
            [] key = "exists" ->
                 IF val.kind # "string" THEN "throw"
                 ELSE Truth(ReadPath(event, val.s) # Undefined)

\* evalNode
EvalNode[ast \in Json] == [event \in Json |-> EvalStep(EvalNode, ast, event)]

-----------------------------------------------------------------------------
(* Validation.                                                              *)

\* Mutant of Fits: the literal of "in" is not looked at.
FitsUnlisted(op, lit) ==
  /\ op \in Numeric => lit.kind = "number"
  /\ op \in Textual => lit.kind = "string"

\* The literal is of the type its operator needs.
Fits(op, lit) ==
  /\ op \in Numeric => lit.kind = "number"
  /\ op = "in"      => lit.kind = "array"
  /\ op \in Textual => lit.kind = "string"

\* The body of validateFilterAst, likewise.
ValidStep(valid, input, depth) ==
  /\ depth <= MaxFilterDepth
  /\ input.kind = "object"
  /\ \E key \in Keys :
       /\ DOMAIN input.f = {key}
       /\ LET val == input.f[key]
          IN CASE key \in {"and", "or"} ->
                    /\ val.kind = "array" /\ val.a # <<>>
                    /\ \A child \in Range(val.a) : valid[child][depth + 1]
               [] key = "not"    -> valid[val][depth + 1]
               [] key \in Binary -> /\ val.kind = "array" /\ Len(val.a) = 2
                                    /\ val.a[1].kind = "string"
                                    /\ Fits(key, val.a[2])
               [] key = "exists" -> val.kind = "string"

\* validateFilterAst accepts the input.
ValidFilter[input \in Json] == [depth \in Nat |-> ValidStep(ValidFilter, input, depth)]

IsValid(input) == ValidFilter[input][0]

\* evaluateFilter, which throws what evalNode throws.
Evaluate(ast, event) ==
  IF EvalNode[ast][event] = "null" THEN "false" ELSE EvalNode[ast][event]

-----------------------------------------------------------------------------
(* Properties.                                                              *)

Unrecognised(ast) == ast.kind # "object" \/ KeyOf(ast) = "none"

\* The nodes a node combines the results of.
Operands(ast) ==
  IF Unrecognised(ast) THEN {}
  ELSE LET key == KeyOf(ast)
           val == ast.f[key]
       IN IF key = "not" THEN {val}
          ELSE IF key \in {"and", "or"} /\ val.kind = "array" THEN Range(val.a)
          ELSE {}

\* The rule is not recognised, here or somewhere below its connectives.
Malformed[ast \in Json] ==
  Unrecognised(ast) \/ \E child \in Operands(ast) : Malformed[child]

\* "An invalid or unrecognised node - at any depth, including under a not - fails
\* closed": it may throw, but no rule that holds one is ever true.
MalformedIsNeverTrue ==
  \A ast, event \in Json : Malformed[ast] => Evaluate(ast, event) # "true"
=============================================================================
