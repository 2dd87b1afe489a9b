---------------------------- MODULE ES5Expression ----------------------------
(***************************************************************************)
(* Expressions in ES5 (ECMA-262, 5.1), for comparison with JsExpression.   *)
(* ok is FALSE for what the comparison leaves out, since the code differs  *)
(* there, or ES5 has an exception or an object's identity:                 *)
(*   - the length of a string with other characters than ASCII;            *)
(*   - the characters of a string, by index;                               *)
(*   - the order of strings with characters beyond 16 bits;                *)
(*   - the element of a list for another spelling of its index, as 01;     *)
(*   - == and != of two numbers that are equal but have two Go types, of   *)
(*     two lists, maps or functions, and those that convert an operand;    *)
(*   - && and || of anything but booleans, whose value is an operand;      *)
(*   - whether the strings false and 0, and NaN, are true;                 *)
(*   - an infinity, a list, a map or a function as text;                   *)
(*   - operators that convert otherwise: + of a null or a boolean and a    *)
(*     number, - * / of a string or a boolean, order of two types;         *)
(*   - a name that is absent, a call of it, and the object without fields. *)
(* Undefined and null are one value.  Calls that the code makes and ES5    *)
(* does not are left out too: both operands of && and ||, and both values  *)
(* of ?:, are evaluated (jsexpression.go:73-98, 177-196).                  *)
(***************************************************************************)
EXTENDS JsExpression

LOCAL INSTANCE SequencesExt

IsText(x) == x.t = "str"

-----------------------------------------------------------------------------
(* Text *)

\* The UTF-16 units that a string has in ES5 (8.4), of its bytes.
RECURSIVE Units(_)
Units(bs) ==
  IF bs = << >> THEN << >>
  ELSE LET size == CASE bs[1] < 128 -> 1 [] bs[1] \in 192 .. 223 -> 2
                     [] bs[1] \in 224 .. 239 -> 3 [] bs[1] >= 240 -> 4
           low(i) == bs[i] - 128
           code == CASE size = 1 -> bs[1]
                     [] size = 2 -> (bs[1] - 192) * 64 + low(2)
                     [] size = 3 -> (bs[1] - 224) * 4096 + low(2) * 64 + low(3)
                     [] size = 4 -> (bs[1] - 240) * 262144 + low(2) * 4096 + low(3) * 64 + low(4)
           above == code - 65536
       IN (IF above < 0 THEN <<code>> ELSE <<55296 + above \div 1024, 56320 + (above % 1024)>>)
            \o Units(SubSeq(bs, size + 1, Len(bs)))

IsAscii(s) == \A i \in DOMAIN s : s[i] < 128
HasWide(s) == \E i \in DOMAIN s : s[i] >= 240

RECURSIVE Decimal(_)
Decimal(n) ==
  CASE n < 0 -> <<45>> \o Decimal(-n)
    [] n \in 0 .. 9 -> <<48 + n>>
    [] n > 9 -> Append(Decimal(n \div 10), 48 + (n % 10))

\* ToString (9.8), where the comparison is made.
Printable(x) == x.t \in NumType \cup {"nan", "str", "bool", "null"}

ToText(x) ==
  CASE IsText(x) -> x.v
    [] x.t = "nan" -> NaNText
    [] x.t = "null" -> NullText
    [] x.t = "bool" /\ x.v -> TrueText
    [] x.t = "bool" /\ ~ x.v -> FalseText
    [] OTHER -> Decimal(x.v)

-----------------------------------------------------------------------------
(* Numbers *)

\* ToNumber (9.3), of numbers and null.
Numeric(x) == IsNumber(x) \/ x.t = "null"

ToNumber(x) == IF x.t \in NumType \cup {"null"} THEN Num(x.v) ELSE x

IsZero(x) == x = Num(0)

Infinite(x, y) == "inf" \in {x.t, y.t}

Undefined(x, y) == "nan" \in {x.t, y.t}

Minus(x) == IF x.t = "nan" THEN x ELSE [x EXCEPT !.v = -x.v]

\* The tables of 11.6.3, 11.5.1 and 11.5.2.
SumES5(x, y) ==
  CASE Undefined(x, y) -> NaN
    [] ~ Undefined(x, y) /\ ~ Infinite(x, y) -> Num(x.v + y.v)
    [] Infinite(x, y) /\ x.t = y.t -> IF x = y THEN x ELSE NaN
    [] OTHER -> IF x.t = "inf" THEN x ELSE y

Signed(x, y) == Infinity(IF (x.v < 0) = (y.v < 0) THEN 1 ELSE -1)

ProductES5(x, y) ==
  CASE Undefined(x, y) \/ (Infinite(x, y) /\ (IsZero(x) \/ IsZero(y))) -> NaN
    [] ~ Undefined(x, y) /\ ~ Infinite(x, y) -> Num(x.v * y.v)
    [] OTHER -> Signed(x, y)

QuotientES5(x, y) ==
  CASE Undefined(x, y) \/ (x.t = "inf" /\ y.t = "inf") \/ (IsZero(x) /\ IsZero(y)) -> NaN
    [] ~ Undefined(x, y) /\ y.t = "inf" /\ x.t # "inf" -> Num(0)
    [] ~ Undefined(x, y) /\ y.t # "inf" /\ (x.t = "inf" \/ (IsZero(y) /\ ~ IsZero(x))) -> Signed(x, y)
    [] OTHER -> Num((x.v * Sign(y)) \div (y.v * Sign(y)))

\* The quotient is a whole number, or none.
Whole(x, y) == x.t = "float64" /\ y.t = "float64" /\ y.v # 0 => x.v % (y.v * Sign(y)) = 0

-----------------------------------------------------------------------------
(* Operators *)

\* ToBoolean (9.2), for which the code means the strings false and 0 to be false
\* (jsexpression.go:262).
Truthy(x) ==
  CASE x.t = "null" -> FALSE
    [] x.t = "bool" -> x.v
    [] x.t = "nan" -> FALSE
    [] x.t \in NumType -> x.v # 0
    [] x.t = "str" -> x.v # << >>
    [] OTHER -> TRUE

TruthMeant(x) == x.t # "nan" /\ (IsText(x) => x.v \notin {FalseText, <<48>>})

Equalities == {"==", "===", "!=", "!=="}

\* Equality that converts nothing, and compares no objects (11.9.3, 11.9.6).
TypeES5(x) == IF IsNumber(x) THEN "number" ELSE x.t

Plain(x) == x.t \notin {"list", "map", "func"}

EqualityKnown(o, a, b) ==
  IF TypeES5(a) = TypeES5(b) THEN Plain(a)
  ELSE o \in {"===", "!=="} \/ "null" \in {a.t, b.t}

SameES5(a, b) ==
  /\ TypeES5(a) = TypeES5(b)
  /\ a.t # "nan" /\ b.t # "nan"
  /\ IsNumber(a) => ToNumber(a) = ToNumber(b)
  /\ ~ IsNumber(a) => a.v = b.v

EqualityES5(o, a, b) == Bool(SameES5(a, b) = (o \in {"==", "==="}))

\* The code compares the types of Go first (jsexpression.go:84).
OneNumberTwoTypes(a, b) == {a.t, b.t} \subseteq NumType /\ a.t # b.t /\ a.v = b.v

OperatorMeant(o, a, b) ==
  CASE o \in Equalities -> EqualityKnown(o, a, b) /\ ~ OneNumberTwoTypes(a, b)
    [] o = "+" -> \/ IsNumber(a) /\ IsNumber(b)
                  \/ Printable(a) /\ Printable(b) /\ (IsText(a) \/ IsText(b))
    [] o \in {"-", "*"} -> Numeric(a) /\ Numeric(b)
    [] o = "/" -> Numeric(a) /\ Numeric(b) /\ Whole(ToNumber(a), ToNumber(b))
    [] o \in Comparisons -> \/ IsNumber(a) /\ IsNumber(b)
                            \/ IsText(a) /\ IsText(b) /\ ~ HasWide(a.v) /\ ~ HasWide(b.v)
    [] OTHER -> FALSE

\* The order of 11.8.5, which of NaN is undefined, and then false.
UnitsLess(s, r) ==
  LET differ == {k \in DOMAIN s \cap DOMAIN r : s[k] # r[k]}
  IN IF differ = {} THEN Len(s) < Len(r)
     ELSE \E k \in differ : s[k] < r[k] /\ \A j \in differ : k <= j

NumberLess(x, y) ==
  /\ x # y /\ x # Infinity(1) /\ y # Infinity(-1)
  /\ x = Infinity(-1) \/ y = Infinity(1) \/ x.v < y.v

LessES5(a, b) ==
  IF IsText(a) THEN UnitsLess(Units(a.v), Units(b.v)) ELSE NumberLess(ToNumber(a), ToNumber(b))

OrderES5(o, a, b) ==
  /\ ~ Undefined(a, b)
  /\ CASE o = "<"  -> LessES5(a, b)
       [] o = ">"  -> LessES5(b, a)
       [] o = "<=" -> ~ LessES5(b, a)
       [] o = ">=" -> ~ LessES5(a, b)

ValueES5(o, a, b) ==
  CASE o \in Equalities -> EqualityES5(o, a, b)
    [] o = "+" /\ (IsText(a) \/ IsText(b)) -> String(ToText(a) \o ToText(b))
    [] o = "+" /\ ~ IsText(a) /\ ~ IsText(b) -> SumES5(ToNumber(a), ToNumber(b))
    [] o = "-" -> SumES5(ToNumber(a), Minus(ToNumber(b)))
    [] o = "*" -> ProductES5(ToNumber(a), ToNumber(b))
    [] o = "/" -> QuotientES5(ToNumber(a), ToNumber(b))
    [] o \in Comparisons -> Bool(OrderES5(o, a, b))

MemberMeant(x, key) ==
  CASE x.t = "map" -> TRUE
    [] x.t = "list" -> \A n \in 0 .. Len(x.v) : ParsesTo(key, n) => key = Decimal(n)
    [] x.t = "str" -> key = LengthText /\ IsAscii(x.v)
    [] OTHER -> FALSE

\* The property of a name, the name of an element being its index (15.4, 15.5.5.1).
MemberES5(x, key) ==
  CASE IsText(x) -> Num(Len(Units(x.v)))
    [] x.t = "list" /\ key = LengthText -> Num(Len(x.v))
    [] x.t = "list" /\ \E i \in DOMAIN x.v : key = Decimal(i - 1) ->
         x.v[CHOOSE i \in DOMAIN x.v : key = Decimal(i - 1)]
    [] x.t = "map" /\ key \in DOMAIN x.v -> x.v[key]
    [] OTHER -> Null

\* The fields of an object, put one after another (11.1.5).
Put(m, key, x) == [k \in DOMAIN m \cup {key} |-> IF k = key THEN x ELSE m[k]]

Fields(fields, vs) ==
  FoldLeft(LAMBDA m, i : Put(m, fields[i].key, vs[i]), << >>, [i \in DOMAIN fields |-> i])

-----------------------------------------------------------------------------
(* Evaluation *)

Outside(made) == [ok |-> FALSE, val |-> Null, calls |-> made]

Ok(x, made) == [ok |-> TRUE, val |-> x, calls |-> made]

RECURSIVE ES5(_, _, _)
ES5(e, scope, made) ==
  LET next(rs, x) ==
        IF rs # << >> /\ ~ Last(rs).ok THEN rs
        ELSE Append(rs, ES5(x, scope, IF rs = << >> THEN made ELSE Last(rs).calls))
      all(es) == FoldLeft(next, << >>, es)
      \* f of the values and the calls, if all of them are there
      with(es, f(_, _)) ==
        LET rs == all(es)
        IN IF rs = << >> THEN f(<< >>, made)
           ELSE IF ~ Last(rs).ok THEN Outside(made)
           ELSE f([i \in DOMAIN rs |-> rs[i].val], Last(rs).calls)
      member(x, key, cs) == IF MemberMeant(x, key) THEN Ok(MemberES5(x, key), cs) ELSE Outside(made)
  IN CASE e.n = "identifier" ->
            IF e.name \in DOMAIN scope THEN Ok(scope[e.name], made) ELSE Outside(made)
       [] e.n = "literal" -> Ok(Literals[e.name], made)
       [] e.n = "dot" -> with(<<e.x>>, LAMBDA vs, cs : member(vs[1], e.key, cs))
       [] e.n = "bracket" ->
            with(<<e.x, e.y>>, LAMBDA vs, cs :
              IF Printable(vs[2]) THEN member(vs[1], ToText(vs[2]), cs) ELSE Outside(made))
       [] e.n = "binary" /\ e.o \in {"&&", "||"} ->
            with(<<e.x>>, LAMBDA vs, cs :
              LET r == ES5(e.y, scope, cs)
              IN IF vs[1].t # "bool" THEN Outside(made)
                 ELSE IF vs[1].v = (e.o = "||") THEN Ok(vs[1], cs)
                 ELSE IF r.ok /\ r.val.t = "bool" THEN r ELSE Outside(made))
       [] e.n = "binary" /\ e.o \notin {"&&", "||"} ->
            with(<<e.x, e.y>>, LAMBDA vs, cs :
              IF OperatorMeant(e.o, vs[1], vs[2]) THEN Ok(ValueES5(e.o, vs[1], vs[2]), cs)
              ELSE Outside(made))
       [] e.n = "unary" ->
            with(<<e.x>>, LAMBDA vs, cs :
              CASE e.o = "!" /\ TruthMeant(vs[1]) -> Ok(Bool(~ Truthy(vs[1])), cs)
                [] e.o = "-" /\ Numeric(vs[1]) -> Ok(Minus(ToNumber(vs[1])), cs)
                [] OTHER -> Outside(made))
       [] e.n = "object" ->
            with([i \in DOMAIN e.fields |-> e.fields[i].x], LAMBDA vs, cs :
              IF vs = << >> THEN Outside(made) ELSE Ok([t |-> "map", v |-> Fields(e.fields, vs)], cs))
       [] e.n = "array" -> with(e.args, LAMBDA vs, cs : Ok([t |-> "list", v |-> vs], cs))
       [] e.n = "call" ->
            with(<<e.x>> \o e.args, LAMBDA vs, cs :
              IF vs[1].t = "func" THEN Ok(Called(vs[1], Tail(vs)), Append(cs, <<vs[1].v, Tail(vs)>>))
              ELSE Outside(made))
       [] e.n = "conditional" ->
            with(<<e.test>>, LAMBDA vs, cs :
              IF TruthMeant(vs[1]) THEN ES5(IF Truthy(vs[1]) THEN e.x ELSE e.y, scope, cs)
              ELSE Outside(made))

-----------------------------------------------------------------------------
(* Correctness *)

\* One value: numbers of any Go type are one, and an object or an array is its parts.
RECURSIVE SameValue(_, _)
SameValue(a, b) ==
  \/ a.t \in NumType /\ b.t \in NumType /\ a.v = b.v
  \/ /\ a.t = b.t
     /\ a.t \in {"list", "map"} => /\ DOMAIN a.v = DOMAIN b.v
                                   /\ \A k \in DOMAIN a.v : SameValue(a.v[k], b.v[k])
     /\ a.t \in {"str", "bool", "null", "nan", "inf", "func"} => a.v = b.v

SameCall(c, d) == c[1] = d[1] /\ SameValue([t |-> "list", v |-> c[2]], [t |-> "list", v |-> d[2]])

\* README.md:8: outside of what is listed above, the value is the one of ES5, and no call
\* that ES5 makes is left out, whatever else is evaluated (jsexpression.go:26-204, 393-459).
AgreesWithES5 ==
  pc = "done" =>
    LET r == ES5(expr, env, << >>)
    IN r.ok => /\ SameValue(val, r.val)
               /\ \A i \in DOMAIN r.calls : \E j \in DOMAIN calls : SameCall(calls[j], r.calls[i])
=============================================================================
