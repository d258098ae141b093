------------------------------ MODULE MCAttempt ------------------------------
(* A small instance of Attempt for TLC: every operator with fitting and      *)
(* unfitting literals, alone and under the connectives.                      *)
EXTENDS FilteredAttempt, TLC

Path     == Str(<<"x">>)
Deep     == Str(<<"x", "y">>)
Second   == Str(<<"x", "one">>)
Literals == {Num(1), JNull, Str(<<"one">>), Str(<<"A">>), Arr(<<Num(1), Str(<<"a">>)>>)}
Node(key, val) == Obj([k \in {key} |-> val])

Leaves ==
  {Node(op, Arr(<<Path, lit>>)) : op \in Binary, lit \in Literals}
    \cup {Node(op, v) : op \in Binary, v \in {JNull, Num(1), Arr(<<>>), Arr(<<Path>>), Arr(<<JNull, Num(1)>>)}}
    \cup {Node("exists", v) : v \in {Deep, Second, Num(1)}}
    \cup {Node("unknown", JNull), JNull, Num(1), Arr(<<>>), Obj(<<>>)}

Pieces == {Node("gt", Arr(<<Path, Num(0)>>)), Node("contains", Arr(<<Deep, Str(<<"a">>)>>)),
          Node("in", Arr(<<Path, JNull>>)), Node("unknown", JNull)}

Joins == {Node(key, Arr(<<p, q>>)) : key \in {"and", "or"}, p, q \in Pieces}

BothKeys == Obj([and |-> Arr(<<>>), or |-> Arr(<<>>)])

RuleSet ==
  Leaves \cup Joins \cup {Node("not", r) : r \in Pieces \cup Joins}
    \cup {Node(key, v) : key \in {"and", "or"}, v \in {Num(1), Arr(<<>>)}}
    \cup {Node("not", Node("not", Node("not", p))) : p \in Pieces}
    \cup {BothKeys, Nothing}

PayloadSet ==
  {Obj([x |-> Num(1)]), Obj([x |-> Str(<<"b", "A">>)]), Obj([x |-> Str(<<"two">>)]),
   Obj([x |-> Obj([y |-> Str(<<"a">>)])]), Obj([x |-> Arr(<<Num(1), Str(<<"a">>)>>)]), JNull}

\* A value with everything inside it, and how deep it is nested.
RECURSIVE AllOf(_)
AllOf(v) == {v} \cup UNION {AllOf(part) : part \in Elements(v)}

RECURSIVE Height(_)
Height(v) == 1 + Max({0} \cup {Height(part) : part \in Elements(v)})

JsonSet == UNION {AllOf(v) : v \in PayloadSet \cup (RuleSet \ {Nothing})}
Heights == [v \in JsonSet |-> Height(v)]

StaticSets ==
  {{}, {<<"authorization", "title">>}, {<<"type", "title">>, <<"signature", "title">>}}

UrlSet ==
  {[kind |-> "invalid"], [kind |-> "name"], [kind |-> "literal", ip |-> Prefix(8, 8, 8)],
   [kind |-> "literal", ip |-> Prefix(172, 31, 255)]}

AddressSet ==
  {Prefix(8, 8, 8), Prefix(10, 0, 0), Prefix(172, 31, 255), Prefix(172, 32, 0),
   Prefix(100, 127, 255), Prefix(198, 19, 1)}
=============================================================================
