---------------------------- MODULE JsExpression ----------------------------
(***************************************************************************)
(* The interpreter of JavaScript expressions (jsexpression.go): what an    *)
(* expression evaluates to, and the functions it calls.                    *)
(*                                                                         *)
(* An expression is a record [n, ...] named for its node in the syntax     *)
(* tree.  A value is [t, v] with its Go type t; a string is a sequence of  *)
(* bytes, those of its characters in UTF-8, but the json of a list and of  *)
(* a map is one byte.  Zero has no sign.                                   *)
(***************************************************************************)
EXTENDS Integers, Sequences

CONSTANTS
  Exprs,     \* the expressions, and those in them
  Literals,  \* the literals in them: name |-> value
  Envs       \* a sequence of what the scope may hold: name |-> value

NumType == {"int", "int64", "float64", "float32"}

Null == [t |-> "null", v |-> 0]
Bool(b) == [t |-> "bool", v |-> b]
Num(n) == [t |-> "float64", v |-> n]
String(s) == [t |-> "str", v |-> s]
NaN == [t |-> "nan", v |-> 0]
Infinity(sign) == [t |-> "inf", v |-> sign]
Panic == [t |-> "panic", v |-> 0]

-----------------------------------------------------------------------------
(* Conversions *)

\* isNumber: NaN and the infinities are a float64.
IsNumber(x) == x.t \in NumType \cup {"nan", "inf"}

\* strconv.FormatInt, 'f' format, for up to two digits.
Digits(n) == IF n < 10 THEN <<48 + n>> ELSE <<48 + (n \div 10), 48 + (n % 10)>>

\* The words, in bytes.
TrueText == <<116, 114, 117, 101>>
FalseText == <<102, 97, 108, 115, 101>>
NullText == <<110, 117, 108, 108>>
NaNText == <<78, 97, 78>>
InfText == <<73, 110, 102>>
LengthText == <<108, 101, 110, 103, 116, 104>>

InterfaceToStr(x) ==
  CASE x.t = "str" -> x.v
    [] x.t \in NumType -> IF x.v < 0 THEN <<45>> \o Digits(-x.v) ELSE Digits(x.v)
    [] x.t = "nan" -> NaNText
    [] x.t = "inf" -> (IF x.v < 0 THEN <<45>> ELSE <<43>>) \o InfText
    [] x.t = "list" -> <<91>>
    [] x.t = "bool" -> IF x.v THEN TrueText ELSE FalseText
    [] x.t = "null" -> NullText
    [] x.t = "map" -> <<123>>
    [] x.t = "func" -> << >>

\* The strings false and 0 are false.
InterfaceToBool(x) ==
  CASE x.t = "null" -> FALSE
    [] x.t = "bool" -> x.v
    [] x.t \in NumType -> x.v # 0
    [] x.t = "str" -> x.v \notin {<< >>, FalseText, <<48>>}
    [] OTHER -> TRUE

\* interfaceToFloat, which other types than numbers are 0 for.
InterfaceToFloat(x) == IF x.t \in NumType THEN Num(x.v) ELSE IF IsNumber(x) THEN x ELSE Num(0)

-----------------------------------------------------------------------------
(* Operators *)

Finite(x) == x.t \notin {"nan", "inf"}

Sign(x) == IF x.v < 0 THEN -1 ELSE IF x.v = 0 THEN 0 ELSE 1

\* The sum and the product of floats.
Sum2(a, b) ==
  CASE Finite(a) /\ Finite(b) -> Num(a.v + b.v)
    [] a.t = "inf" /\ (Finite(b) \/ a = b) -> a
    [] b.t = "inf" /\ Finite(a) -> b
    [] OTHER -> NaN

Negative(a) == IF a.t = "nan" THEN a ELSE [t |-> a.t, v |-> -a.v]

Times(a, b) ==
  IF Finite(a) /\ Finite(b) THEN Num(a.v * b.v)
  ELSE IF a.t # "nan" /\ b.t # "nan" /\ Sign(a) * Sign(b) # 0 THEN Infinity(Sign(a) * Sign(b))
  ELSE NaN

\* The quotient is rounded towards minus infinity, which no property is about.
Divided(a, b) ==
  CASE ~ Finite(b) -> IF Finite(a) /\ b.t = "inf" THEN Num(0) ELSE NaN
    [] Finite(b) /\ b.v # 0 ->
         IF Finite(a) THEN Num((a.v * Sign(b)) \div (b.v * Sign(b))) ELSE Times(a, b)
    [] OTHER -> IF a.t = "nan" \/ Sign(a) = 0 THEN NaN ELSE Infinity(Sign(a))

\* interfaceAdd: two numbers are added, anything else is put together as strings.
InterfaceAdd(a, b) ==
  IF IsNumber(a) /\ IsNumber(b) THEN Sum2(InterfaceToFloat(a), InterfaceToFloat(b))
  ELSE String(InterfaceToStr(a) \o InterfaceToStr(b))

FloatLess(a, b) ==
  /\ a.t # "nan" /\ b.t # "nan"
  /\ IF Finite(a) /\ Finite(b) THEN a.v < b.v
     ELSE IF a.t = "inf" THEN a.v < 0 /\ a # b
     ELSE b.v > 0

FloatEq(a, b) == a.t # "nan" /\ InterfaceToFloat(a) = InterfaceToFloat(b)

\* The order of Go's strings.
StrLess(s, r) ==
  \/ Len(s) < Len(r) /\ \A i \in 1 .. Len(s) : s[i] = r[i]
  \/ \E i \in 1 .. Len(s) :
       /\ i <= Len(r) /\ s[i] < r[i]
       /\ \A j \in 1 .. i - 1 : s[j] = r[j]

AsNumbers(a, b) == IsNumber(a) /\ IsNumber(b)

\* interfaceLess to interfaceGreaterOrEqual: numbers as floats, the rest as strings.
InterfaceLess(a, b) ==
  IF AsNumbers(a, b) THEN FloatLess(a, b) ELSE StrLess(InterfaceToStr(a), InterfaceToStr(b))

InterfaceGreater(a, b) ==
  IF AsNumbers(a, b) THEN FloatLess(b, a) ELSE StrLess(InterfaceToStr(b), InterfaceToStr(a))

\* Bug: strings are compared for less.
InterfaceLessOrEqualStrict(a, b) ==
  IF AsNumbers(a, b) THEN FloatLess(a, b) \/ FloatEq(a, b)
  ELSE StrLess(InterfaceToStr(a), InterfaceToStr(b))

InterfaceLessOrEqual(a, b) ==
  IF AsNumbers(a, b) THEN FloatLess(a, b) \/ FloatEq(a, b)
  ELSE ~ StrLess(InterfaceToStr(b), InterfaceToStr(a))

InterfaceGreaterOrEqual(a, b) ==
  IF AsNumbers(a, b) THEN FloatLess(b, a) \/ FloatEq(a, b)
  ELSE ~ StrLess(InterfaceToStr(a), InterfaceToStr(b))

\* left == right of Go interfaces: never for two types; not for what cannot be compared.
Equal(a, b) ==
  CASE a.t # b.t -> Bool(FALSE)
    [] a.t = b.t /\ a.t \in {"list", "map", "func"} -> Panic
    [] OTHER -> Bool(a.t # "nan" /\ a.v = b.v)

Unequal(a, b) == LET same == Equal(a, b) IN IF same.t = "panic" THEN same ELSE Bool(~ same.v)

Binary(o, a, b) ==
  CASE o \in {"==", "==="} -> Equal(a, b)
    [] o \in {"!=", "!=="} -> Unequal(a, b)
    [] o = "+"  -> InterfaceAdd(a, b)
    [] o = "-"  -> Sum2(InterfaceToFloat(a), Negative(InterfaceToFloat(b)))
    [] o = "*"  -> Times(InterfaceToFloat(a), InterfaceToFloat(b))
    [] o = "/"  -> Divided(InterfaceToFloat(a), InterfaceToFloat(b))
    [] o = "&&" -> Bool(InterfaceToBool(a) /\ InterfaceToBool(b))
    [] o = "||" -> Bool(InterfaceToBool(a) \/ InterfaceToBool(b))
    [] o = "<"  -> Bool(InterfaceLess(a, b))
    [] o = ">"  -> Bool(InterfaceGreater(a, b))
    [] o = "<=" -> Bool(InterfaceLessOrEqual(a, b))
    [] o = ">=" -> Bool(InterfaceGreaterOrEqual(a, b))
    [] OTHER    -> Panic

Unary(o, a) ==
  CASE o = "!" -> Bool(~ InterfaceToBool(a))
    [] o = "-" -> Negative(InterfaceToFloat(a))
    [] OTHER   -> Panic

\* strconv.ParseInt: key is n, after a sign and any zeros.
Unsigned(key) == IF key # << >> /\ key[1] \in {43, 45} THEN Tail(key) ELSE key

ParsesTo(key, n) ==
  LET ds == Unsigned(key)
      zeros == Len(ds) - Len(Digits(n))
  IN /\ zeros >= 0
     /\ \A i \in 1 .. zeros : ds[i] = 48
     /\ SubSeq(ds, zeros + 1, Len(ds)) = Digits(n)
     /\ key[1] = 45 => n = 0

\* Bug: the index may be the length.
LookupOffByOne(x, key) ==
  CASE x.t = "map" -> IF key \in DOMAIN x.v THEN x.v[key] ELSE Null
    [] x.t \in {"list", "str"} /\ key = LengthText -> [t |-> "int", v |-> Len(x.v)]
    [] x.t = "list" /\ key # LengthText /\ \E n \in 1 .. Len(x.v) : ParsesTo(key, n) ->
         x.v[CHOOSE n \in 1 .. Len(x.v) : ParsesTo(key, n)]
    [] OTHER -> Null

\* ShouldLookInterface for one key.
Lookup(x, key) ==
  CASE x.t = "map" -> IF key \in DOMAIN x.v THEN x.v[key] ELSE Null
    [] x.t \in {"list", "str"} /\ key = LengthText -> [t |-> "int", v |-> Len(x.v)]
    [] x.t = "list" /\ key # LengthText /\ \E n \in 0 .. Len(x.v) - 1 : ParsesTo(key, n) ->
         x.v[1 + CHOOSE n \in 0 .. Len(x.v) - 1 : ParsesTo(key, n)]
    [] OTHER -> Null

-----------------------------------------------------------------------------
(* Evaluation *)

\* What is evaluated before the node, in this order, and whatever is chosen then.
Operands(e) ==
  CASE e.n = "binary" -> <<e.x, e.y>>
    [] e.n \in {"unary", "dot"} -> <<e.x>>
    [] e.n = "bracket" -> <<e.x, e.y>>
    [] e.n = "object" -> [i \in DOMAIN e.fields |-> e.fields[i].x]
    [] e.n = "call" -> <<e.x>> \o e.args
    [] e.n = "array" -> e.args
    [] e.n = "conditional" -> <<e.x, e.y, e.test>>
    [] OTHER -> << >>

\* The syntax tree that otto makes.
ASSUME ExprAssumption ==
  \A e \in Exprs :
    /\ e.n \in {"identifier", "literal", "dot", "bracket", "binary", "unary", "object", "array",
                "call", "conditional"}
    /\ Operands(e) \in Seq(Exprs)
    /\ e.n = "literal" => e.name \in DOMAIN Literals
    /\ e.n = "dot" => e.key \in Seq(Nat)
    /\ e.n = "object" => e.fields \in Seq([key : Seq(Nat), x : Exprs])
    /\ e.n \in {"array", "call"} => e.args \in Seq(Exprs)

\* It is finite: h is a height that is greater than that of every operand.
FiniteSyntax(h) ==
  h \in [Exprs -> Nat] /\ \A e \in Exprs : \A i \in DOMAIN Operands(e) : h[Operands(e)[i]] < h[e]

\* x is a value, what lists and maps are made of being in U.
ValueIn(x, U) ==
  /\ x = [t |-> x.t, v |-> x.v]
  /\ x.t \in NumType \cup {"nan", "inf", "null", "bool", "str", "list", "map", "func"}
  /\ x.t \in NumType => x.v \in Int
  /\ x.t = "inf" => x.v \in {-1, 1}
  /\ x.t = "str" => x.v \in Seq(Nat)
  /\ x.t = "list" => x.v \in Seq(U)
  /\ x.t = "map" => \A key \in DOMAIN x.v : x.v[key] \in U

\* Values are finite: U has the literals, the variables and what they are made of.
Founded(U) ==
  /\ \A x \in U : ValueIn(x, U)
  /\ \A name \in DOMAIN Literals : Literals[name] \in U
  /\ \A i \in DOMAIN Envs : \A name \in DOMAIN Envs[i] : Envs[i][name] \in U

\* The fields of an object; the last of a name stays.
Object(fields, vs) ==
  IF fields = << >> THEN Null
  ELSE LET keys == {fields[i].key : i \in DOMAIN fields}
           last(k) == CHOOSE i \in DOMAIN fields :
                        fields[i].key = k /\ \A j \in i + 1 .. Len(fields) : fields[j].key # k
       IN [t |-> "map", v |-> [k \in keys |-> vs[last(k)]]]

\* interfaceToFunc: null is emptyFunc, which returns its first argument.  A function of
\* the user is modelled to do the same.
Called(f, args) ==
  IF f.t \in {"null", "func"} THEN IF args = << >> THEN Null ELSE args[1] ELSE Panic

\* The value of the node, from those of its operands.
Apply(e, scope, vs) ==
  CASE e.n = "identifier" -> IF e.name \in DOMAIN scope THEN scope[e.name] ELSE Null
    [] e.n = "literal" -> Literals[e.name]
    [] e.n = "dot" -> Lookup(vs[1], e.key)
    [] e.n = "bracket" -> Lookup(vs[1], InterfaceToStr(vs[2]))
    [] e.n = "binary" -> Binary(e.o, vs[1], vs[2])
    [] e.n = "unary" -> Unary(e.o, vs[1])
    [] e.n = "object" -> Object(e.fields, vs)
    [] e.n = "array" -> [t |-> "list", v |-> vs]
    [] e.n = "call" -> Called(vs[1], Tail(vs))
    [] e.n = "conditional" -> IF InterfaceToBool(vs[3]) THEN vs[1] ELSE vs[2]

\* runJsExpression: the value of a node when value has those of its operands.
Evaluated(e, scope, value) ==
  LET vs == [i \in DOMAIN Operands(e) |-> value[Operands(e)[i]]]
  IN IF \E i \in DOMAIN vs : vs[i].t = "panic" THEN Panic ELSE Apply(e, scope, vs)

Value(scope) == LET value[e \in Exprs] == Evaluated(e, scope, value) IN value

\* And the calls that are made, which a panic ends.
Made(scope) ==
  LET made[e \in Exprs] ==
        LET xs == Operands(e)
            vs == [i \in DOMAIN xs |-> Value(scope)[xs[i]]]
            panicked(n) == \E i \in 1 .. n : vs[i].t = "panic"
            before[n \in 0 .. Len(xs)] ==
              CASE n = 0 -> << >>
                [] n > 0 /\ panicked(n - 1) -> before[n - 1]
                [] n > 0 /\ ~ panicked(n - 1) -> before[n - 1] \o made[xs[n]]
        IN IF e.n = "call" /\ ~ panicked(Len(xs)) /\ vs[1].t = "func"
           THEN Append(before[Len(xs)], <<vs[1].v, Tail(vs)>>)
           ELSE before[Len(xs)]
  IN made

VARIABLES
  expr,   \* the expression
  env,    \* the variables
  pc,     \* "compiled", "done" or "panic"
  val,    \* its value
  calls   \* the calls it made: <<function, arguments>>

exprVars == <<expr, env, pc, val, calls>>

ExprInit ==
  /\ expr \in Exprs
  /\ \E i \in DOMAIN Envs : env = Envs[i]
  /\ pc = "compiled"
  /\ val = Null
  /\ calls = << >>

\* jsExpression.Exec
Evaluate ==
  /\ pc = "compiled"
  /\ val' = Value(env)[expr]
  /\ calls' = Made(env)[expr]
  /\ pc' = IF val'.t = "panic" THEN "panic" ELSE "done"
  /\ UNCHANGED <<expr, env>>

Settled == pc \in {"done", "panic"} /\ UNCHANGED exprVars

ExprNext == Evaluate \/ Settled

ExprSpec == ExprInit /\ [][ExprNext]_exprVars

-----------------------------------------------------------------------------
(* Correctness *)

Comparisons == {"<", ">", "<=", ">="}

Flip(o) == CASE o = "<" -> ">" [] o = ">" -> "<" [] o = "<=" -> ">=" [] o = ">=" -> "<="
Opposite(o) == CASE o = "<" -> ">=" [] o = ">" -> "<=" [] o = "<=" -> ">" [] o = ">=" -> "<"

\* The four comparisons, which are four copies of one function (jsexpression.go:315-365),
\* agree: a < b is b > a, and is not a >= b unless one of them is not a number.
CompareBothWays ==
  pc = "done" /\ expr.n = "binary" /\ expr.o \in Comparisons =>
    LET a == Value(env)[expr.x]
        b == Value(env)[expr.y]
    IN /\ val = Binary(Flip(expr.o), b, a)
       /\ a.t = "nan" \/ b.t = "nan" \/ val # Binary(Opposite(expr.o), a, b)
=============================================================================
