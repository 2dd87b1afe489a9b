------------------------------ MODULE VueList ------------------------------
(***************************************************************************)
(* How the nodes of a template become Vue elements: VueElementParser.Parse *)
(* and parseList (internal/parser/parsevue), and what the compiler and the *)
(* interpreter make of the v-if, v-else-if and v-else they find.           *)
(*                                                                         *)
(* parseList runs over the siblings of one list and calls itself for the   *)
(* children of each.  It keeps one variable for the conditions, ifVueEle,  *)
(* per call; an element with v-else or v-else-if leaves the list and goes  *)
(* to the ElseIf of that element.                                          *)
(*                                                                         *)
(* Nodes are numbered in the order parseList meets them; a list, and the   *)
(* call that parses it, is named by the node it belongs to.                *)
(***************************************************************************)
EXTENDS Naturals, FiniteSets

CONSTANTS
  Markup,       \* what a node can be: [kind, tag, marks], see below
  SkipComment,  \* ParseVueNodeOptions.SkipComment
  MaxNodes      \* bound: the nodes of a template

Marks == {"if", "elseif", "else"}

ASSUME MarkupAssumption ==
  /\ Markup # {}
  /\ Markup \subseteq [kind : {"element", "text", "comment"},
                       tag : {"template", "other"},
                       marks : SUBSET Marks]
  /\ \A m \in Markup : m.kind # "element" => m.tag = "other" /\ m.marks = {}

ASSUME BoundAssumption == MaxNodes \in Nat /\ SkipComment \in BOOLEAN

Root == 0
Nodes == 1 .. MaxNodes
None == MaxNodes + 1   \* a nil pointer

VARIABLES
  read,    \* how many nodes parseList has met
  node,    \* node[n]: what n is in the template
  up,      \* up[n]: the node whose child n is in the template
  list,    \* the list of the innermost call of parseList
  ifEle,   \* ifEle[l]: the ifVueEle of the call for list l
  home,    \* home[n]: the element whose ElseIf n is in, up[n] if n is in the
           \* list it was met in, None if it is in neither
  status,  \* of Parse: "parsing", "error", "done"
  top,     \* the list that is the component
  attr     \* the elements with DistributionAttr

vars == <<read, node, up, list, ifEle, home, status, top, attr>>

Read == 1 .. read

TypeOK ==
  /\ read \in 0 .. MaxNodes
  /\ node \in [Nodes -> Markup]
  /\ up \in [Nodes -> Nodes \cup {Root}]
  /\ list \in Read \cup {Root}
  /\ ifEle \in [Nodes \cup {Root} -> Nodes \cup {None}]
  /\ \A l \in Nodes \cup {Root} : ifEle[l] # None =>
       ifEle[l] \in Read /\ up[ifEle[l]] = l /\ "if" \in node[ifEle[l]].marks
  /\ home \in [Nodes -> Nodes \cup {Root, None}]
  /\ status \in {"parsing", "error", "done"}
  /\ top \in Nodes \cup {Root}
  /\ attr \subseteq Nodes

\* The nodes that have not been met yet have no influence: theirs is any value.
Init ==
  /\ read = 0
  /\ node = [n \in Nodes |-> CHOOSE m \in Markup : TRUE]
  /\ up = [n \in Nodes |-> Root]
  /\ list = Root
  /\ ifEle = [l \in Nodes \cup {Root} |-> None]
  /\ home = [n \in Nodes |-> None]
  /\ status = "parsing"
  /\ top = Root
  /\ attr = {}

-----------------------------------------------------------------------------
(* parseList *)

Has(n, mark) == mark \in node[n].marks
IsComment(n) == node[n].kind = "comment"
IsElse(n)    == Has(n, "else") \/ Has(n, "elseif")

\* Bug: ifVueEle belongs to the parser and not to the call.
EnterShared(m) ==
  /\ status = "parsing"
  /\ list # Root => node[list].kind = "element"
  /\ read < MaxNodes
  /\ LET n == read + 1 IN
       /\ read' = n
       /\ node' = [node EXCEPT ![n] = m]
       /\ up' = [up EXCEPT ![n] = list]
       /\ IF m.kind = "comment" /\ SkipComment
          THEN UNCHANGED <<list, ifEle>>
          ELSE list' = n /\ ifEle' = [ifEle EXCEPT ![n] = ifEle[list]]
  /\ UNCHANGED <<home, status, top, attr>>

\* The loop meets a node, reads its attributes and calls parseList for its
\* children.  Texts and comments have none, but are otherwise treated alike.
Enter(m) ==
  /\ status = "parsing"
  /\ list # Root => node[list].kind = "element"
  /\ read < MaxNodes
  /\ LET n == read + 1 IN
       /\ read' = n
       /\ node' = [node EXCEPT ![n] = m]
       /\ up' = [up EXCEPT ![n] = list]
       /\ IF m.kind = "comment" /\ SkipComment
          THEN UNCHANGED <<list, ifEle>>
          ELSE list' = n /\ ifEle' = [ifEle EXCEPT ![n] = None]
  /\ UNCHANGED <<home, status, top, attr>>

\* Bug: a comment counts as an element between v-if and v-else.
OpenerNextTo(v) ==
  IF Has(v, "if") THEN v
  ELSE IF IsElse(v) THEN ifEle[up[v]]
  ELSE None

\* ifVueEle after v has been looked at, and before its own v-else is.
Opener(v) ==
  IF Has(v, "if") THEN v
  ELSE IF IsComment(v) \/ IsElse(v) THEN ifEle[up[v]]
  ELSE None

\* The call for the children of v has returned, and v is not an else.
Keep(v) ==
  /\ status = "parsing" /\ v = list /\ v # Root
  /\ ~ IsElse(v)
  /\ home' = [home EXCEPT ![v] = up[v]]
  /\ ifEle' = [ifEle EXCEPT ![up[v]] = Opener(v)]
  /\ list' = up[v]
  /\ UNCHANGED <<read, node, up, status, top, attr>>

\* Bug: ifVueEle = nil is missing after v-else.
AttachOpen(v) ==
  /\ status = "parsing" /\ v = list /\ v # Root
  /\ IsElse(v) /\ Opener(v) # None
  /\ home' = [home EXCEPT ![v] = Opener(v)]
  /\ ifEle' = [ifEle EXCEPT ![up[v]] = Opener(v)]
  /\ list' = up[v]
  /\ UNCHANGED <<read, node, up, status, top, attr>>

\* The call has returned, and v belongs to the ElseIf of the if.
Attach(v) ==
  /\ status = "parsing" /\ v = list /\ v # Root
  /\ IsElse(v) /\ Opener(v) # None
  /\ home' = [home EXCEPT ![v] = Opener(v)]
  /\ ifEle' = [ifEle EXCEPT ![up[v]] =
                 IF Has(v, "elseif") THEN Opener(v) ELSE None]
  /\ list' = up[v]
  /\ UNCHANGED <<read, node, up, status, top, attr>>

\* "v-else must below v-if": the error ends this call and all that wait for it.
Misplaced(v) ==
  /\ status = "parsing" /\ v = list /\ v # Root
  /\ IsElse(v) /\ Opener(v) = None
  /\ status' = "error"
  /\ UNCHANGED <<read, node, up, list, ifEle, home, top, attr>>

-----------------------------------------------------------------------------
(* Parse *)

Kept(l)     == {n \in Read : up[n] = l /\ home[n] = l}
Branches(f) == {n \in Read : home[n] = f /\ up[n] # f}

\* A single <template> is the writing style of vue files, and is left out.
SoleTemplate(t) ==
  /\ Kept(Root) = {t}
  /\ node[t].kind = "element" /\ node[t].tag = "template"

\* Bug: the elements in ElseIf are forgotten.
DistributedToRoot(l) ==
  {c \in Kept(l) : node[c].kind = "element" /\ \A d \in Kept(l) : d = c \/ IsComment(d)}

\* A component with one root passes the attributes of its call to that root and
\* to the elements that may stand in its place.
Distributed(l) ==
  LET roots == {c \in Kept(l) : /\ node[c].kind = "element"
                                /\ \A d \in Kept(l) : d = c \/ IsComment(d)}
  IN roots \cup UNION {Branches(c) : c \in {r \in roots : Has(r, "if")}}

Finish ==
  /\ status = "parsing" /\ list = Root
  /\ status' = "done"
  /\ \E l \in Nodes \cup {Root} :
       /\ IF \E t \in Read : SoleTemplate(t) THEN SoleTemplate(l) ELSE l = Root
       /\ top' = l
       /\ attr' = Distributed(l)
  /\ UNCHANGED <<read, node, up, list, ifEle, home>>

Stopped == status # "parsing" /\ UNCHANGED vars

Next ==
  \/ \E m \in Markup : Enter(m)
  \/ \E v \in Nodes : Keep(v) \/ Attach(v) \/ Misplaced(v)
  \/ Finish
  \/ Stopped

Spec == Init /\ [][Next]_vars

-----------------------------------------------------------------------------
(* What the program shows, for each outcome of the conditions *)

Smallest(S) == CHOOSE n \in S : \A m \in S : n <= m

\* Bug: an else without condition does not end the search.
ChosenPastElse(c, val) ==
  IF ~ Has(c, "if") \/ val[c] THEN {c}
  ELSE {b \in Branches(c) : val[b] \/ ~ Has(b, "elseif")}

\* ifStatement.Exec: the element itself, or the first branch that has no
\* condition or a true one.
Chosen(c, val) ==
  IF ~ Has(c, "if") \/ val[c] THEN {c}
  ELSE LET open == {b \in Branches(c) : val[b] \/ ~ Has(b, "elseif")}
       IN IF open = {} THEN {} ELSE {Smallest(open)}

\* toStatement on the elements of a list, and what their statements execute.
ShownIn(l, val) == UNION {Chosen(c, val) : c \in Kept(l)}

\* The nodes that a render of the component reaches.
Shown(val) ==
  LET shown[n \in Nodes] ==
        /\ n \in Read
        /\ up[n] = top \/ (up[n] # Root /\ shown[up[n]])
        /\ n \in ShownIn(up[n], val)
  IN {n \in Nodes : shown[n]}

-----------------------------------------------------------------------------
(* What the template says *)

Before(n) == {m \in Read : m < n /\ up[m] = up[n] /\ ~ IsComment(m)}

\* v-else and v-else-if have to follow a v-if or v-else-if; comments do not count.
Follows(n, m) ==
  /\ m \in Before(n)
  /\ \A k \in Before(n) : k <= m
  /\ Has(m, "if") \/ Has(m, "elseif")

\* The nodes that a reader of the template expects to see.
Written(val) ==
  LET \* some condition of the chain that ends with n is true
      taken[n \in Nodes] ==
        \/ val[n]
        \/ ~ Has(n, "if") /\ \E m \in Before(n) : Follows(n, m) /\ taken[m]
      meant[n \in Nodes] ==
        /\ n \in Read
        /\ up[n] = Root \/ meant[up[n]]
        /\ Has(n, "if") => val[n]
        /\ Has(n, "elseif") => val[n]
        /\ IsElse(n) => \A m \in Before(n) : Follows(n, m) => ~ taken[m]
  IN {n \in Nodes : meant[n]}

-----------------------------------------------------------------------------
(* Correctness *)

Outcomes == [Nodes -> BOOLEAN]

\* Parse refuses a template exactly if it has an else that does not follow an if:
\* the ifVueEle of one list is neither lost over the children of an element nor
\* taken from their list.
ElseFollowsIf ==
  /\ status = "done" => \A n \in Read : IsElse(n) => \E m \in Read : Follows(n, m)
  /\ status = "error" => IsElse(list) /\ ~ \E m \in Read : Follows(list, m)

\* An element that is not in its list is in the ElseIf of a sibling with v-if, and
\* all between them are parts of the same chain that do not end it.
ElseBelongsToIf ==
  \A n \in Read : home[n] \notin {up[n], None} =>
    /\ IsElse(n) /\ home[n] < n /\ up[home[n]] = up[n] /\ Has(home[n], "if")
    /\ \A m \in Before(n) : m > home[n] => Has(m, "elseif") /\ home[m] = home[n]

\* A node is shown if and only if the conditions written on it and around it say so.
RendersAsWritten ==
  status = "done" =>
    \A val \in Outcomes : \A n \in Read \ {top} :
      (IsComment(n) /\ SkipComment) \/ (n \in Shown(val) <=> n \in Written(val))

\* The attributes of a call go to all the elements that can be the one root of the
\* component, to no other, and to none if two roots can be there together.
AttrsToTheRoot ==
  status = "done" =>
    LET content == {n \in Read : up[n] = top /\ ~ IsComment(n)}
        alone   == \A val \in Outcomes : Cardinality(ShownIn(top, val) \cap content) <= 1
    IN attr = IF alone THEN {n \in content : node[n].kind = "element"} ELSE {}
=============================================================================
