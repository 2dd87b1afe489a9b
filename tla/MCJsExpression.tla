--------------------------- MODULE MCJsExpression ---------------------------
(***************************************************************************)
(* Every operator on every pair of values, and nested expressions with     *)
(* calls under the operators that choose.                                  *)
(***************************************************************************)
EXTENDS ES5Expression, TLC

LiteralValues ==
  [zero |-> [t |-> "int64", v |-> 0], two |-> [t |-> "int64", v |-> 2],
   twelve |-> [t |-> "int64", v |-> 12],
   null |-> Null, true |-> Bool(TRUE), false |-> Bool(FALSE),
   empty |-> String(<< >>), text |-> String(<<97, 49>>), falseText |-> String(FalseText),
   padded |-> String(<<48, 49>>), signed |-> String(<<43, 49>>), minus |-> String(<<45, 49>>),
   han |-> String(<<228, 184, 173>>), wide |-> String(<<240, 159, 152, 128>>),
   length |-> String(LengthText)]

List(vs) == [t |-> "list", v |-> vs]
Map(f) == [t |-> "map", v |-> f]

\* The variables, some of types only Go has; a name that is not among them is x.
EnvValues ==
  <<[i |-> [t |-> "int", v |-> 2], g |-> [t |-> "float32", v |-> -3], nan |-> NaN,
     inf |-> Infinity(1), low |-> Infinity(-1), s |-> String(<<57>>), z |-> String(<<48>>),
     l |-> List(<<Num(5), String(<<97>>)>>),
     m |-> Map((<<97>> :> Num(1)) @@ (<<48>> :> Bool(TRUE))),
     f |-> [t |-> "func", v |-> "f"], h |-> [t |-> "func", v |-> "h"]]>>

Var(a) == [n |-> "identifier", name |-> a]
Lit(a) == [n |-> "literal", name |-> a]
Leaves == {Var(a) : a \in DOMAIN EnvValues[1] \cup {"x"}} \cup {Lit(a) : a \in DOMAIN LiteralValues}

Op(o, x, y) == [n |-> "binary", o |-> o, x |-> x, y |-> y]
Un(o, x) == [n |-> "unary", o |-> o, x |-> x]
Cond(c, x, y) == [n |-> "conditional", test |-> c, x |-> x, y |-> y]
Call(x, as) == [n |-> "call", x |-> x, args |-> as]
Member(x, y) == [n |-> "bracket", x |-> x, y |-> y]

Operators == Comparisons \cup {"==", "!=", "===", "!==", "+", "-", "*", "/", "&&", "||", "%"}

\* One operator.
Simple ==
  {Op(o, x, y) : o \in Operators, x \in Leaves, y \in Leaves}
    \cup {Un(o, x) : o \in {"!", "-", "~"}, x \in Leaves}
    \cup {Member(x, y) : x \in Leaves, y \in Leaves}
    \cup {[n |-> "dot", x |-> x, key |-> k] : x \in Leaves, k \in {LengthText, <<97>>, <<98>>}}
    \cup {Call(x, as) : x \in Leaves, as \in {<< >>, <<Var("l")>>, <<Lit("two"), Var("m")>>}}

\* Calls, and operators that choose among them.
Truths == {Call(Var("f"), <<Lit("true")>>), Call(Var("h"), <<Lit("false")>>), Var("z")}
Values == {Call(Var("f"), <<Lit("two")>>), Call(Var("h"), <<Var("i")>>), Call(Var("i"), << >>)}

Choices ==
  {Op(o, x, y) : o \in {"&&", "||"}, x \in Truths, y \in Truths}
    \cup {Cond(c, x, y) : c \in Truths, x \in Values, y \in Values}

Zeroth == Call(Var("f"), <<Lit("zero")>>)

Objects ==
  {[n |-> "object", fields |-> fs] : fs \in
     {<< >>} \cup {<<[key |-> a, x |-> v], [key |-> b, x |-> w]>> :
                     a \in {<<97>>, <<98>>}, b \in {<<97>>}, v \in Values, w \in {Var("i"), Lit("text")}}}
    \cup {[n |-> "array", args |-> as] : as \in {<< >>} \cup {<<v, w>> : v \in Values, w \in Choices}}

Nested ==
  {Op(o, x, y) : o \in {"+", "<=", "=="}, x \in Choices, y \in Values}
    \cup {Op(o, x, y) : o \in {"&&", "||"}, x \in Choices, y \in Truths}
    \cup {Cond(x, y, z) : x \in Choices, y \in Values, z \in Objects \cap {[n |-> "array", args |-> << >>]}}
    \cup {Un("!", x) : x \in Choices}
    \cup {Member(o, k) : o \in Objects, k \in {Lit("zero"), Lit("two"), Var("s"), Lit("text"), Zeroth}}

AllExprs == {Zeroth} \cup Leaves \cup Truths \cup Values \cup Simple \cup Choices \cup Objects \cup Nested

\* A definition of its own, which TLC evaluates once.
ExprValues == AllExprs

MCHeight ==
  [e \in ExprValues |->
     IF e \in Leaves THEN 0
     ELSE IF e \in Simple \cup Truths \cup Values \cup {Zeroth} THEN 1
     ELSE IF e \in Choices THEN 2
     ELSE IF e \in Objects THEN 3
     ELSE 4]

\* All values, and those in lists and maps.
MCValues ==
  {LiteralValues[a] : a \in DOMAIN LiteralValues} \cup {EnvValues[1][a] : a \in DOMAIN EnvValues[1]}
    \cup {Num(1), Num(5), String(<<97>>), Bool(TRUE)}

ASSUME HeightAssumption == FiniteSyntax(MCHeight)

ASSUME ValueAssumption == Founded(MCValues)
=============================================================================
