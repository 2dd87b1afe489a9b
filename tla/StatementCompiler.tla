-------------------------- MODULE StatementCompiler --------------------------
(***************************************************************************)
(* toStatement (statement.go): Vue elements become statements, neighbouring *)
(* texts become one, {{ }} becomes a statement of its own, and the elements *)
(* with a v-slot are handed to the component around them.                  *)
(*                                                                         *)
(* A statement that holds others is the pair of its kind and of the node   *)
(* it is made of; ToStatement[node] has the statements it holds.  What a   *)
(* statement writes is a sequence of pieces <<kind, word>>.  The           *)
(* attributes of a tag are left out (TagAttrs); so are the scopes          *)
(* (SlotScope).  A component is taken to render its slots, one after the   *)
(* other.                                                                  *)
(***************************************************************************)
EXTENDS Naturals, Sequences

CONSTANTS
  Node,      \* the nodes of all documents
  Docs,      \* the documents: sequences of nodes
  HtmlTag,   \* htmlTag
  Void,      \* VoidElements
  Word,      \* the words of a text, each of which is also an expression
  Bad,       \* a word that is no expression
  SlotNames, \* a sequence: the names of slots, but for "default"
  Cond,      \* the conditions of v-if
  Nil

SlotName == {SlotNames[i] : i \in 1 .. Len(SlotNames)}
Slot == SlotName \cup {"default"}

Token == Word \cup {"{{", "}}"}

\* The nodes that toStatement is called with for a node.
Parts(node) ==
  IF node.type # "element" THEN {}
  ELSE {node.kids[i] : i \in 1 .. Len(node.kids)}
         \cup {node.elses[i].el : i \in 1 .. Len(node.elses)}

Elements == {node \in Node : node.type = "element"}

\* The documents are finite trees: h is a height that is greater than that of every part.
Trees(h) == h \in [Node -> Nat] /\ \A node \in Node : \A x \in Parts(node) : h[x] < h[node]

\* What ToVueNode makes: v-else is on an element.
ASSUME NodeAssumption ==
  /\ Docs \subseteq Seq(Node)
  /\ \A node \in Node :
       /\ node.type \in {"text", "comment", "element"}
       /\ node.type # "element" => node.text \in Seq(Token)
       /\ node.type = "element" =>
            /\ node.kids \in Seq(Node)
            /\ node.elses \in Seq([cond : Cond \cup {Nil}, el : Elements])
            /\ node.cond \in Cond \cup {Nil}
            /\ node.code \in Word \cup {Nil}
            /\ node.slot \in Slot \cup {Nil}
            /\ {node.loop, node.static, node.dirs} \subseteq BOOLEAN

ASSUME NameAssumption ==
  /\ SlotNames \in Seq(SlotName)
  /\ \A i, j \in 1 .. Len(SlotNames) : SlotNames[i] = SlotNames[j] => i = j
  /\ "default" \notin SlotName
  /\ "template" \notin HtmlTag
  /\ Word \cap {"{{", "}}"} = {}
  /\ Nil \notin Cond /\ Nil \notin Word /\ Nil \notin Slot /\ Nil \notin Node

-----------------------------------------------------------------------------
(* Sequences *)

Fold(op(_, _), base, s) ==
  LET upTo[i \in 0 .. Len(s)] == IF i = 0 THEN base ELSE op(upTo[i - 1], s[i])
  IN upTo[Len(s)]

Concat(ss) == Fold(LAMBDA a, b : a \o b, << >>, ss)

First(S) == CHOOSE i \in S : \A j \in S : i <= j

\* The last that is not nil.
LastOf(xs) ==
  LET some == {i \in DOMAIN xs : xs[i] # Nil}
  IN IF some = {} THEN Nil ELSE xs[CHOOSE i \in some : \A j \in some : j <= i]

-----------------------------------------------------------------------------
(* Statements *)

\* What is written: a kind, and a word, a tag, the name of a slot or the code of a value.
Payload ==
  Token \cup Seq(Token) \cup {node.tag : node \in Elements} \cup SlotName \cup {"nil"}

Piece ==
  {"text", "comment", "open", "close", "value", "call", "return", "slot", "panic"} \X Payload

Strs == [op : {"str"}, s : Seq(Piece)]

Exps == [op : {"exp"}, code : Seq(Token)]

\* A statement that holds others.
Holder(op, node) == [op |-> op, of |-> node]

Holders == [op : {"tag", "component", "if", "for"}, of : Elements]

\* The statements of a group: texts and others, which are in rest.
Flat(rest) == Strs \cup rest

Statements(rest) ==
  Flat(rest) \cup [op : {"empty"}] \cup [op : {"group"}, s : Seq(Flat(rest))]

Statement == Statements(Exps \cup Holders)

ASSUME NilAssumption == Nil \notin Statement

-----------------------------------------------------------------------------
(* Groups *)

EmptyGroup == [s |-> << >>, buf |-> << >>]

Str(pieces) == [op |-> "str", s |-> pieces]

Flushed(g) ==
  [s |-> IF g.buf = << >> THEN g.s ELSE Append(g.s, Str(g.buf)), buf |-> << >>]

\* Bug: the texts are merged across the statement.
AddedUnflushed(g, st) ==
  IF st.op = "str" THEN [g EXCEPT !.buf = @ \o st.s]
  ELSE [g EXCEPT !.s = Append(@, st)]

\* groupStatement.Append for one statement.
Added(g, st) ==
  IF st.op = "str" THEN [g EXCEPT !.buf = @ \o st.s]
  ELSE [s |-> Append(Flushed(g).s, st), buf |-> << >>]

\* Bug: groups are not opened.
GroupAppendNested(g, st) ==
  IF st = Nil \/ st.op = "empty" THEN g ELSE Added(g, st)

\* groupStatement.Append; the statements of a group are texts and other statements,
\* never groups.
GroupAppend(g, st) ==
  IF st = Nil \/ st.op = "empty" THEN g
  ELSE IF st.op = "group" THEN Fold(Added, g, st.s)
  ELSE Added(g, st)

Finish(g) ==
  LET s == Flushed(g).s
  IN CASE Len(s) = 0 -> [op |-> "empty"]
       [] Len(s) = 1 -> s[1]
       [] OTHER      -> [op |-> "group", s |-> s]

Group(statements) == Finish(Fold(GroupAppend, EmptyGroup, statements))

-----------------------------------------------------------------------------
(* Texts *)

Pieces(kind, words) == [i \in DOMAIN words |-> <<kind, words[i]>>]

Text(words) == Pieces("text", words)

Cut(mark, parts, w) ==
  IF w = mark THEN Append(parts, << >>) ELSE [parts EXCEPT ![Len(parts)] = Append(@, w)]

\* strings.Split: what is before, between and after the marks.
Split(text, mark) == Fold(LAMBDA parts, w : Cut(mark, parts, w), << << >> >>, text)

\* compileJS fails.
BadCode(code) == \E i \in DOMAIN code : code[i] = Bad

\* Bug: the part without an end is left out.
BeardPartStrict(n, part) ==
  LET sp == Split(part, "}}")
  IN IF n = 1 THEN <<Str(Text(part))>>
     ELSE IF Len(sp) = 2
     THEN (IF sp[1] = << >> THEN << >> ELSE <<[op |-> "exp", code |-> sp[1]]>>)
            \o (IF sp[2] = << >> THEN << >> ELSE <<Str(Text(sp[2]))>>)
     ELSE << >>

\* The statements of one part of a text that is split at "{{".
BeardPart(n, part) ==
  LET sp == Split(part, "}}")
  IN IF n = 1 THEN <<Str(Text(part))>>
     ELSE IF Len(sp) = 2
     THEN (IF sp[1] = << >> THEN << >> ELSE <<[op |-> "exp", code |-> sp[1]]>>)
            \o (IF sp[2] = << >> THEN << >> ELSE <<Str(Text(sp[2]))>>)
     ELSE <<Str(Text(part))>>  \* bad token

Beards(text) ==
  LET parts == Split(text, "{{")
  IN Concat([n \in DOMAIN parts |-> IF parts[n] = << >> THEN << >> ELSE BeardPart(n, parts[n])])

ParseBeard(text) ==
  LET all == Beards(text)
  IN [st |-> Group(all),
      err |-> \E i \in DOMAIN all : all[i].op = "exp" /\ BadCode(all[i].code)]

-----------------------------------------------------------------------------
(* Elements *)

NoSlots == [n \in Slot |-> Nil]

\* SlotsC.marge: the later content of a name replaces the earlier.
Marged(slotss) == [n \in Slot |-> LastOf([i \in DOMAIN slotss |-> slotss[i][n]])]

\* canBeStr, which also asks for v-html and v-text; node.static is about attributes.
CanBeStr(node) == node.static /\ node.code = Nil /\ ~ node.dirs

\* The statement around st for v-if, then for v-for.
If(node, st) == IF node.cond = Nil THEN st ELSE Holder("if", node)

For(node, st) == IF node.loop THEN Holder("for", node) ELSE st

\* A statement for the children of a node, and the slots among them.
Children(rs) ==
  [st |-> Group([i \in DOMAIN rs |-> rs[i].st]),
   slots |-> Marged([i \in DOMAIN rs |-> rs[i].slots]),
   err |-> \E i \in DOMAIN rs : rs[i].err]

\* v-html or v-text instead of the children.
Content(node, rs) ==
  IF node.code = Nil THEN Children(rs)
  ELSE [st |-> [op |-> "exp", code |-> <<node.code>>], slots |-> NoSlots,
        err |-> BadCode(<<node.code>>)]

\* A tag as text: a void element has no end.
StaticTag(node, body) ==
  Group(<<Str(<<<<"open", node.tag>>>>), body,
          IF node.tag \in Void THEN Nil ELSE Str(<<<<"close", node.tag>>>>)>>)

\* The own statement of an element, without its v-if, v-for and v-slot.
Own(node, body) ==
  CASE node.tag \in HtmlTag /\ CanBeStr(node)   -> StaticTag(node, body)
    [] node.tag \in HtmlTag /\ ~ CanBeStr(node) -> Group(<<Holder("tag", node)>>)
    [] node.tag = "template" /\ ~ node.dirs     -> body
    [] OTHER                                    -> Holder("component", node)

\* Slots are those of the call around them, and do not leave a template either.
OutOf(node, slots) == IF node.tag \in HtmlTag THEN slots ELSE NoSlots

\* rs and elses are what the children and the v-else elements are compiled to; st is nil
\* for an element that is a slot.
ElementStatement(node, rs, elses) ==
  LET content == Content(node, rs)
      own == Own(node, content.st)
      made == For(node, If(node, own))
      around == Marged(<<OutOf(node, content.slots)>> \o [i \in DOMAIN elses |-> elses[i].slots])
  IN [body |-> content.st, given |-> [content.slots EXCEPT !["default"] = content.st],
      own |-> own, once |-> If(node, own), made |-> made,
      st |-> IF node.slot = Nil THEN made ELSE Nil,
      slots |-> IF node.slot = Nil THEN around ELSE [around EXCEPT ![node.slot] = made],
      err |-> content.err \/ \E i \in DOMAIN elses : elses[i].err]

\* code has what the parts of the node are compiled to.
Compiled(node, code) ==
  CASE node.type = "text" ->
         [st |-> ParseBeard(node.text).st, slots |-> NoSlots, err |-> ParseBeard(node.text).err]
    [] node.type = "comment" ->
         [st |-> Str(Pieces("comment", node.text)), slots |-> NoSlots, err |-> FALSE]
    [] node.type = "element" ->
         ElementStatement(node, [i \in DOMAIN node.kids |-> code[node.kids[i]]],
                                [i \in DOMAIN node.elses |-> code[node.elses[i].el]])

ToStatement == LET code[node \in Node] == Compiled(node, code) IN code

-----------------------------------------------------------------------------
(* Exec *)

\* What a statement that is no group writes, when run is what the holders write.
Item(st, run) ==
  CASE st.op = "empty" -> << >>
    [] st.op = "str"   -> st.s
    [] st.op = "exp"   -> <<<<"value", st.code>>>>
    [] OTHER           -> run[st]

\* A nil statement panics.
Writes(st, run) ==
  IF st = Nil THEN <<<<"panic", "nil">>>>
  ELSE IF st.op = "group" THEN Concat([i \in DOMAIN st.s |-> Item(st.s[i], run)])
  ELSE Item(st, run)

\* The branches of an if statement whose condition is true, or none.
Taken(node, conds) ==
  {i \in DOMAIN node.elses : node.elses[i].cond = Nil \/ conds[node.elses[i].cond]}

\* The slots of a component, under their names.
SlotsWritten(given, run) ==
  Concat([i \in DOMAIN SlotNames |->
    IF given[SlotNames[i]] = Nil THEN << >>
    ELSE <<<<"slot", SlotNames[i]>>>> \o Writes(given[SlotNames[i]], run)])

\* What a holder writes when the conditions are as in conds, and every list has two items.
Executed(h, conds, run) ==
  LET node == h.of
      code == ToStatement[node]
  IN CASE h.op = "tag" ->
            <<<<"open", node.tag>>>> \o Writes(code.body, run) \o <<<<"close", node.tag>>>>
       [] h.op = "for" -> Writes(code.once, run) \o Writes(code.once, run)
       [] h.op = "if" ->
            IF conds[node.cond] THEN Writes(code.own, run)
            ELSE IF Taken(node, conds) = {} THEN << >>
            ELSE Writes(ToStatement[node.elses[First(Taken(node, conds))].el].st, run)
       [] h.op = "component" ->
            <<<<"call", node.tag>>>> \o Writes(code.given["default"], run)
              \o SlotsWritten(code.given, run) \o <<<<"return", node.tag>>>>

Exec(conds) == LET run[h \in Holders] == Executed(h, conds, run) IN run

VARIABLES
  doc,        \* the document
  truth,      \* the values of the conditions
  stage,      \* "source", "compiled", "error" or "done"
  statement,  \* the statement
  out         \* what it wrote

docVars == <<doc, truth, stage, statement, out>>

DocInit ==
  /\ doc \in Docs
  /\ truth \in [Cond -> BOOLEAN]
  /\ stage = "source"
  /\ statement = Nil
  /\ out = << >>

\* ParseHtmlToStatement: the root node.
Compile ==
  /\ stage = "source"
  /\ LET r == Children([i \in DOMAIN doc |-> ToStatement[doc[i]]])
     IN /\ stage' = IF r.err THEN "error" ELSE "compiled"
        /\ statement' = IF r.err THEN Nil ELSE r.st
  /\ UNCHANGED <<doc, truth, out>>

Render ==
  /\ stage = "compiled"
  /\ stage' = "done"
  /\ out' = Writes(statement, Exec(truth))
  /\ UNCHANGED <<doc, truth, statement>>

Ended == stage \in {"error", "done"} /\ UNCHANGED docVars

DocNext == Compile \/ Render \/ Ended

DocSpec == DocInit /\ [][DocNext]_docVars

-----------------------------------------------------------------------------
(* Correctness *)

\* Reading on after a text: what it shows, the code behind a "{{", whether that is open,
\* and whether the marks came in pairs, around something.
ReadOn(r, w) ==
  IF w = "{{"
  THEN [shown |-> r.shown, code |-> << >>, open |-> TRUE, ok |-> r.ok /\ ~ r.open]
  ELSE IF w = "}}"
  THEN [shown |-> Append(r.shown, <<"value", r.code>>), code |-> << >>, open |-> FALSE,
        ok |-> r.ok /\ r.open /\ r.code # << >>]
  ELSE IF r.open THEN [r EXCEPT !.code = Append(@, w)]
  ELSE [r EXCEPT !.shown = Append(@, <<"text", w>>)]

NothingRead == [shown |-> << >>, code |-> << >>, open |-> FALSE, ok |-> TRUE]

Read(text) == Fold(ReadOn, NothingRead, text)

WellFormed(text) == Read(text).ok /\ ~ Read(text).open

\* What the text writes: its words, and the values between marks.
TextShown(text) == Read(text).shown

\* A template stands for what is in it; what is no tag either is a call.
IsTemplate(node) == node.tag = "template" /\ ~ node.dirs
IsCall(node) == node.tag \notin HtmlTag /\ ~ IsTemplate(node)

\* The element with v-slot for n that belongs to the call around node, as the last that
\* is under a node: tags and templates hand it on, calls keep it.
OfferedOf(node, n, offered) ==
  IF node.type # "element" THEN Nil
  ELSE LET under == IF node.code = Nil /\ ~ IsCall(node) THEN node.kids ELSE << >>
       IN LastOf([i \in DOMAIN under |-> offered[under[i]][n]]
                   \o [i \in DOMAIN node.elses |-> offered[node.elses[i].el][n]]
                   \o <<IF node.slot = n THEN node ELSE Nil>>)

Offered ==
  LET offered[node \in Node] == [n \in Slot |-> OfferedOf(node, n, offered)] IN offered

\* What is offered for n in an element; v-html and v-text replace what is in it.
Offer(node, n) ==
  IF node.code # Nil THEN Nil
  ELSE LastOf([i \in DOMAIN node.kids |-> Offered[node.kids[i]][n]])

\* What nodes write at their own place, when whole is what they write wherever they are
\* shown.
Place(nodes, whole) ==
  Concat([i \in DOMAIN nodes |->
    IF nodes[i].type = "element" /\ nodes[i].slot # Nil THEN << >> ELSE whole[nodes[i]]])

\* A call shows what is offered for its default slot, or else what else is in it; and then
\* what is offered for its other slots.
Call(node, inner, whole) ==
  <<<<"call", node.tag>>>>
    \o (IF Offer(node, "default") = Nil THEN inner ELSE whole[Offer(node, "default")])
    \o Concat([i \in DOMAIN SlotNames |->
         IF Offer(node, SlotNames[i]) = Nil THEN << >>
         ELSE <<<<"slot", SlotNames[i]>>>> \o whole[Offer(node, SlotNames[i])]])
    \o <<<<"return", node.tag>>>>

\* A void tag needs no end (statement.go:1577); ends has those that have one all the same.
Element(node, ends, whole) ==
  LET inner == IF node.code = Nil THEN Place(node.kids, whole) ELSE <<<<"value", <<node.code>>>>>>
  IN CASE node.tag \in HtmlTag ->
            <<<<"open", node.tag>>>> \o inner
              \o (IF node.tag \in Void /\ node \notin ends THEN << >>
                  ELSE <<<<"close", node.tag>>>>)
       [] IsTemplate(node) -> inner
       [] OTHER -> Call(node, inner, whole)

Shown(node, conds, ends, whole) ==
  CASE node.type = "text"    -> TextShown(node.text)
    [] node.type = "comment" -> Pieces("comment", node.text)
    [] node.type = "element" ->
         LET one == IF node.cond = Nil \/ conds[node.cond] THEN Element(node, ends, whole)
                    ELSE IF Taken(node, conds) = {} THEN << >>
                    ELSE whole[node.elses[First(Taken(node, conds))].el]
         IN IF node.loop THEN one \o one ELSE one

Whole(conds, ends) ==
  LET whole[node \in Node] == Shown(node, conds, ends, whole) IN whole

\* A node and all that are under it.
Within ==
  LET within[node \in Node] == {node} \cup UNION {within[x] : x \in Parts(node)} IN within

NodesOf(nodes) == UNION {Within[nodes[i]] : i \in DOMAIN nodes}

ElementsOf(nodes) == {x \in NodesOf(nodes) : x.type = "element"}

\* The statement writes what the nodes say, in their order, whatever void tags it ends.
AsWritten ==
  \E ends \in SUBSET {x \in ElementsOf(doc) : x.tag \in Void} :
    out = Place(doc, Whole(truth, ends))

\* A v-else with a v-slot has no statement, and panics when its branch is taken.
SlotInElse(nodes) ==
  \E x \in ElementsOf(nodes) : \E i \in DOMAIN x.elses : x.elses[i].el.slot # Nil

\* What a call has for its default slot is replaced by what else is in it
\* (statement.go:1759; MCSlotLost).
SlotForDefault(nodes) ==
  \E x \in ElementsOf(nodes) : IsCall(x) /\ Offer(x, "default") # Nil

\* What a template has for the slots of the call around it is dropped
\* (statement.go:1789), also that of a v-slot which a <div> in its place would hand on.
SlotInTemplate(nodes) ==
  \E x \in ElementsOf(nodes) : IsTemplate(x) /\ \E n \in Slot : Offer(x, n) # Nil

\* The document is rendered, without a panic; the marks of its texts come in pairs
\* (WordsKept is about the others).
Rendered ==
  /\ stage = "done" /\ ~ SlotInElse(doc)
  /\ \A x \in NodesOf(doc) : x.type = "text" => WellFormed(x.text)

\* Whatever is merged, turned into text or moved into a call, the statement writes
\* what the nodes say, in their order (toStatement, groupStatement); but for what it
\* loses: the content of a v-slot:default, and a v-slot in a template.
OutputAsWritten ==
  Rendered /\ ~ SlotForDefault(doc) /\ ~ SlotInTemplate(doc) => AsWritten

\* Nothing in the statement can be merged or left out.
Compact(st) ==
  CASE st.op = "str" -> st.s # << >>
    [] st.op = "group" ->
         /\ Len(st.s) > 1
         /\ \A i \in DOMAIN st.s : st.s[i].op \notin {"empty", "group"}
                                    /\ (st.s[i].op = "str" => st.s[i].s # << >>)
         /\ \A i \in 1 .. Len(st.s) - 1 : st.s[i].op = "str" => st.s[i + 1].op # "str"
    [] OTHER -> TRUE

\* Nothing about the node is left to the time it is rendered.
Static(node) ==
  CASE node.type = "element" ->
         node.tag \in HtmlTag /\ CanBeStr(node) /\ node.cond = Nil /\ ~ node.loop
    [] node.type = "text" -> \A i \in DOMAIN node.text : node.text[i] # "{{"
    [] OTHER              -> TRUE

\* "Optimize static nodes as strings": no two texts are next to each other, in the
\* statement and in those it holds, and a document without variables and calls is one
\* (doc/internal.md).
TextsMerged ==
  stage = "compiled" =>
    /\ Compact(statement)
    /\ \A x \in NodesOf(doc) :
         x.type = "element" => Compact(ToStatement[x].body) /\ Compact(ToStatement[x].made)
    /\ (\A x \in NodesOf(doc) : Static(x)) => statement.op \in {"str", "empty"}

WordsIn(s) == Concat([i \in DOMAIN s |-> IF s[i] \in Word THEN <<s[i]>> ELSE << >>])

\* The words and marks in a statement without holders.
Spelled(st) ==
  CASE st.op = "str" -> [i \in DOMAIN st.s |-> st.s[i][2]]
    [] st.op = "exp" -> st.code
    [] OTHER         -> << >>

\* Whatever marks a text has, none of its words is lost (parseBeard).
WordsKept ==
  stage = "compiled" /\ Len(doc) = 1 /\ doc[1].type = "text" =>
    LET sts == IF statement.op = "group" THEN statement.s ELSE <<statement>>
    IN WordsIn(Concat([i \in DOMAIN sts |-> Spelled(sts[i])])) = WordsIn(doc[1].text)
=============================================================================
