------------------------ MODULE MCStatementCompiler ------------------------
(***************************************************************************)
(* Texts of up to five words and marks; documents of three levels with     *)
(* tags, void tags, calls and templates, static and not, each with one of  *)
(* v-if, v-else, v-for and v-slot; and calls around a tag, a template or   *)
(* another call with one of these.                                         *)
(***************************************************************************)
EXTENDS StatementCompiler

T(text) == [type |-> "text", text |-> text]

Note == [type |-> "comment", text |-> <<"w">>]

E(tag, kids) ==
  [type |-> "element", tag |-> tag, kids |-> kids, static |-> TRUE, code |-> Nil,
   dirs |-> FALSE, cond |-> Nil, elses |-> << >>, loop |-> FALSE, slot |-> Nil]

Dynamic(e) == [e EXCEPT !.static = FALSE]

Else(c, e) == [cond |-> c, el |-> e]

w == T(<<"w">>)
beard == T(<<"{{", "w", "}}">>)
mixed == T(<<"w", "{{", "w", "}}", "w">>)

\* The ways to write an element.
Way(way, kids) ==
  CASE way = "static"    -> E("div", kids)
    [] way = "dynamic"   -> Dynamic(E("div", kids))
    [] way = "call"      -> E("C", kids)
    [] way = "template"  -> E("template", kids)
    [] way = "directive" -> [E("template", kids) EXCEPT !.dirs = TRUE]
    [] way = "html"      -> [E("div", kids) EXCEPT !.code = "w"]
    [] way = "htmlCall"  -> [E("C", kids) EXCEPT !.code = "w"]
    [] way = "void"      -> E("br", << >>)
    [] way = "dynVoid"   -> Dynamic(E("br", << >>))

Ways == {"static", "dynamic", "call", "template", "directive", "html", "htmlCall", "void", "dynVoid"}

other == Dynamic(E("div", <<w>>))
otherwise == E("br", << >>)
slotOther == [E("div", <<w>>) EXCEPT !.slot = "y"]

\* And to control it.
Control(how, e) ==
  CASE how = "plain"  -> e
    [] how = "if"     -> [e EXCEPT !.cond = "a"]
    [] how = "for"    -> [e EXCEPT !.loop = TRUE]
    [] how = "slot"   -> [e EXCEPT !.slot = "x"]
    [] how = "default" -> [e EXCEPT !.slot = "default"]
    [] how = "slotIf" -> [e EXCEPT !.slot = "y", !.cond = "a"]
    [] how = "else"   ->
         [e EXCEPT !.cond = "a", !.elses = <<Else("b", other), Else(Nil, otherwise)>>]
    [] how = "elseSlot" -> [e EXCEPT !.cond = "a", !.elses = <<Else(Nil, slotOther)>>]

Controls == {"plain", "if", "for", "slot", "default", "slotIf", "else", "elseSlot"}

Inner ==
  {Control(how, Way(way, kids)) :
     how \in Controls, way \in Ways, kids \in {<< >>, <<w, Note>>, <<mixed>>}}

Outer ==
  {Control(how, Way(way, <<w, i, w>>)) :
     how \in {"plain", "for", "slotIf", "else", "elseSlot"},
     way \in {"static", "dynamic", "call"}, i \in Inner}

\* What may have a v-slot two levels under a call.
Slots ==
  {Control(how, Way(way, <<w, Note>>)) :
     how \in {"plain", "slot", "default", "slotIf"},
     way \in {"static", "dynamic", "call", "template"}}

Between == {Way(way, <<i, w>>) : way \in {"static", "template", "call"}, i \in Slots}

Around == {E("C", <<w, b>>) : b \in Between}

TextNodes == UNION {{T(t) : t \in [1 .. n -> {"{{", "}}", "w", "bad"}]} : n \in 0 .. 5}

MCSlotNames == <<"x", "y">>

AllDocs ==
  {<<beard, o, w>> : o \in Outer} \cup {<<a>> : a \in Around} \cup {<<t>> : t \in TextNodes}

AllNodes ==
  Around \cup Between \cup Outer \cup Inner \cup {other, otherwise, slotOther, w, Note, beard, mixed}
    \cup TextNodes

\* The height of the nodes.
MCHeight ==
  [node \in AllNodes |->
     IF node.type # "element" THEN 0
     ELSE IF node \in {other, otherwise, slotOther} THEN 1
     ELSE IF node \in Inner THEN 2
     ELSE IF node \in Between \cup Outer THEN 3
     ELSE 4]

\* Definitions of their own, which TLC evaluates once.
MCDocs == AllDocs
MCNodes == AllNodes

ASSUME HeightAssumption == Trees(MCHeight)
=============================================================================
