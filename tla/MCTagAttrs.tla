----------------------------- MODULE MCTagAttrs -----------------------------
(***************************************************************************)
(* Tags with up to two attributes, static or bound, of which class and     *)
(* style are merged, id is an attribute and user is only data; with every  *)
(* kind of v-bind and of call; and tags with three attributes on their     *)
(* own.                                                                    *)
(***************************************************************************)
EXTENDS TagAttrs

A(k, v, s) == [key |-> k, val |-> v, static |-> s]

Attrs ==
  {A("class", <<"a">>, TRUE), A("class", <<"b">>, FALSE), A("class", Null, FALSE),
   A("style", {"c"}, TRUE), A("style", {"d"}, FALSE), A("style", Null, FALSE),
   A("id", "s", TRUE), A("id", "", TRUE), A("id", "v", FALSE), A("id", Null, FALSE),
   A("user", "s", TRUE), A("user", "v", FALSE)}

Alike(a, b) == a.key = b.key /\ a.static = b.static

\* An attribute is written once, and bound once.
Lists(n) ==
  {s \in [1 .. n -> Attrs] : \A i, j \in 1 .. n : i # j => ~ Alike(s[i], s[j])}

B(c, i, s, u) == [class |-> c, id |-> i, style |-> s, user |-> u]

Binds ==
  {B(Unset, Unset, Unset, Unset), B(<<"x">>, "w", {"e"}, "w"), B(Null, Unset, Null, "w"),
   B(Unset, Null, {"e"}, Unset)}

Directives ==
  {<< >>, <<[key |-> "class", val |-> <<"y">>], [key |-> "user", val |-> "z"]>>,
   <<[key |-> "id", val |-> "z"]>>}

Tag(a, b, c, d, h) == [attrs |-> a, bind |-> b, call |-> c, directives |-> d, html |-> h]

MCTags ==
  {Tag(a, b, c, d, FALSE) : a \in UNION {Lists(n) : n \in 0 .. 2},
                            b \in Binds \cup {Unset, Null}, c \in {Unset}, d \in Directives}
  \cup {Tag(a, Unset, c, d, FALSE) : a \in UNION {Lists(n) : n \in 0 .. 2},
                                     c \in Binds, d \in Directives}
  \cup {Tag(a, Unset, Unset, << >>, h) : a \in Lists(3), h \in BOOLEAN}

MCKeyOrder == <<"class", "id", "style", "user">>
=============================================================================
