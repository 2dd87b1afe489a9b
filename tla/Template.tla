------------------------------ MODULE Template ------------------------------
(***************************************************************************)
(* The components of a program as toStatement sees them: elements and      *)
(* texts, and which of them fills which slot of a component call.          *)
(***************************************************************************)
EXTENDS Naturals, Sequences

CONSTANTS
  Node,      \* the elements and texts of all components
  Comp,      \* the registered components
  Main,      \* the component that is rendered
  Roots,     \* Roots[c]: the nodes of component c
  Kids,      \* Kids[n]: VueElement.Children
  Kind,      \* Kind[n]: what the statement of n is, see Kinds
  Targets,   \* Targets[n]: the components that a call at n may find
  VSlot,     \* VSlot[n]: the slot of the call around n that n is for, or None
  Asks,      \* Asks[n]: the name of the slot that a <slot> asks for
  HasKey,    \* the nodes with a v-slot that names the slot's props
  None

Kinds == {
  "text",      \* a text, or a component in Go that cannot fail
  "func",      \* a component in Go, which writes or returns an error
  "tag",       \* an element whose children run as they are
  "template",  \* <template> without directives
  "if",        \* an element with v-if
  "for",       \* an element with v-for
  "wrap",      \* a tag with directives; its children become a slot
  "call",      \* a component call, also <template> with directives
  "dyn",       \* <component is>
  "slot"}      \* <slot>

ASSUME ProgramAssumption ==
  /\ Main \in Comp
  /\ Roots \in [Comp -> Seq(Node)]
  /\ Kids \in [Node -> Seq(Node)]
  /\ Kind \in [Node -> Kinds]
  /\ Targets \in [Node -> SUBSET Comp]
  /\ None \notin Node
  /\ HasKey \subseteq {n \in Node : VSlot[n] # None}

\* The children that run in the place of n: those with v-slot are no statements.
Body(n) == SelectSeq(Kids[n], LAMBDA k : VSlot[k] = None)

KidSet(n) == {Kids[n][i] : i \in 1 .. Len(Kids[n])}

ASSUME BodyAssumption ==
  \A n \in Node :
    /\ Body(n) \in Seq(Node)
    /\ \A i \in 1 .. Len(Body(n)) : Body(n)[i] \in KidSet(n) /\ VSlot[Body(n)[i]] = None

\* The elements with v-slot that n hands to the call around it.  Ordinary elements
\* pass on what their children hand them; calls and templates keep it.
Collected ==
  LET handed[n \in Node] ==
        (IF VSlot[n] = None THEN {} ELSE {n}) \cup
        (IF Kind[n] \in {"tag", "if", "for", "wrap"}
         THEN UNION {handed[k] : k \in KidSet(n)} ELSE {})
  IN handed

\* The elements with v-slot that belong to the call c.
SlotsOf(c) == UNION {Collected[k] : k \in KidSet(c)}

\* Elements with v-slot are elements of the template, and a call uses the name of a
\* slot once.
ASSUME SlotAssumption ==
  \A c \in Node :
    /\ SlotsOf(c) \subseteq Node
    /\ \A j, k \in SlotsOf(c) : VSlot[j] = VSlot[k] => j = k

\* The content for a slot that is written as an element with v-slot.
NamedContent(c, name) ==
  {[todo |-> <<k>>, key |-> IF k \in HasKey THEN k ELSE None] :
     k \in {j \in SlotsOf(c) : VSlot[j] = name}}

\* The content for the default slot that is written as the children of the call.
BodyContent(c) == [todo |-> Body(c), key |-> None]
=============================================================================
