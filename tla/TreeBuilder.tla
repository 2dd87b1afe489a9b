---------------------------- MODULE TreeBuilder ----------------------------
(***************************************************************************)
(* The construction of the node tree from the tokens of a template:        *)
(* NodeParser.Parse, Node.Add and Node.Close (internal/parser/parsehtml).  *)
(*                                                                         *)
(* The parser keeps one cursor, currNode, which is the node it has added   *)
(* last or the parent of the element it has closed last.  The cursor is    *)
(* thus a text or a void element as often as the open element itself, and  *)
(* Add and Close have to find their way from there.                        *)
(*                                                                         *)
(* Nodes are numbered in the order they are added; Node.Child is the list  *)
(* of the nodes with that Parent in this order.                            *)
(***************************************************************************)
EXTENDS Naturals, Sequences

CONSTANTS
  Tag,       \* element names
  VoidTag,   \* VoidElements
  Leaf,      \* TextNode, CommentNode, DoctypeNode
  Strict,    \* whether end tags match the innermost open element
  MaxNodes,  \* bound: the nodes of a document
  MaxAttrs   \* bound: the attributes of an element

ASSUME TagAssumption ==
  /\ VoidTag \subseteq Tag
  /\ Tag \cap Leaf = {}

ASSUME StrictAssumption == Strict \in BOOLEAN

VARIABLES
  label,    \* label[n]: Node.Tag of an element, Node.NodeType of a leaf
  parent,   \* parent[n]: Node.Parent; the root node is 0
  attrs,    \* attrs[n]: the length of Node.Attrs
  curr,     \* currNode
  inTag,    \* the lexer is inside a start tag
  crashed   \* a nil Parent has been dereferenced

vars == <<label, parent, attrs, curr, inTag, crashed>>

Root == 0

Nodes == 1 .. Len(label)

TypeOK ==
  /\ label \in Seq(Tag \cup Leaf)
  /\ parent \in Seq(Nat)
  /\ attrs \in Seq(Nat)
  /\ Len(parent) = Len(label)
  /\ Len(attrs) = Len(label)
  /\ \A n \in Nodes : parent[n] < n
  /\ curr \in Nodes \cup {Root}
  /\ inTag \in BOOLEAN
  /\ inTag => curr = Len(label) /\ curr # Root /\ label[curr] \in Tag
  /\ crashed \in BOOLEAN

Init ==
  /\ label = <<>> /\ parent = <<>> /\ attrs = <<>>
  /\ curr = Root
  /\ inTag = FALSE
  /\ crashed = FALSE

-----------------------------------------------------------------------------

IsVoid(n) == n # Root /\ label[n] \in VoidTag
IsLeaf(n) == n # Root /\ label[n] \in Leaf

Up(n) == IF n = Root THEN Root ELSE parent[n]

\* Node.GetParent stops at the root.
GetParent(n, deep) == IF deep = 1 THEN Up(n) ELSE Up(Up(n))

\* The element that is open at the cursor.
Inner == IF IsVoid(curr) \/ IsLeaf(curr) THEN Up(curr) ELSE curr

\* Bug: VoidElements is not consulted.
ContainerOrVoid(n) == IF IsLeaf(n) THEN Up(n) ELSE n

\* Node.Add: into a container, beside anything else.
Container(n) == IF IsVoid(n) \/ IsLeaf(n) THEN Up(n) ELSE n

\* AddChild, AddBor and currNode = nn.
Add(l) ==
  /\ Len(label) < MaxNodes
  /\ label' = Append(label, l)
  /\ parent' = Append(parent, Container(curr))
  /\ attrs' = Append(attrs, 0)
  /\ curr' = Len(label) + 1

\* html.StartTagToken
StartTag(t) ==
  /\ ~ crashed /\ ~ inTag
  /\ Add(t)
  /\ inTag' = TRUE
  /\ UNCHANGED crashed

\* html.AttributeToken
AttributeToken ==
  /\ ~ crashed /\ inTag
  /\ attrs[curr] < MaxAttrs
  /\ attrs' = [attrs EXCEPT ![curr] = @ + 1]
  /\ UNCHANGED <<label, parent, curr, inTag, crashed>>

\* html.StartTagCloseToken
StartTagClose ==
  /\ ~ crashed /\ inTag
  /\ inTag' = FALSE
  /\ UNCHANGED <<label, parent, attrs, curr, crashed>>

\* html.StartTagVoidToken: "/>"
StartTagVoid ==
  /\ ~ crashed /\ inTag
  /\ inTag' = FALSE
  /\ curr' = parent[curr]
  /\ UNCHANGED <<label, parent, attrs, crashed>>

\* html.TextToken (not blank), html.CommentToken, html.DoctypeToken
LeafToken(k) ==
  /\ ~ crashed /\ ~ inTag
  /\ Add(k)
  /\ UNCHANGED <<inTag, crashed>>

\* Bug: a void element counts as the open element: </p> after <p><br> closes
\* only the <br>.
ClosedVoidOnly(t) ==
  CASE IsVoid(curr) -> GetParent(curr, 1)
    [] IsLeaf(curr) -> IF parent[curr] # Root /\ label[parent[curr]] = t
                       THEN GetParent(curr, 2) ELSE curr
    [] OTHER -> IF label[curr] = t THEN GetParent(curr, 1) ELSE curr

\* Node.Close on the cursor: where the cursor goes at </t>.
Closed(t) ==
  CASE IsVoid(curr) -> GetParent(curr, IF label[curr] = t THEN 1 ELSE 2)
    [] IsLeaf(curr) -> IF parent[curr] # Root /\ label[parent[curr]] = t
                       THEN GetParent(curr, 2) ELSE curr
    [] OTHER -> IF label[curr] = t THEN GetParent(curr, 1) ELSE curr

\* In a strict document an end tag closes the innermost open element, or the
\* void element it follows.
Matches(t) ==
  \/ Inner # Root /\ label[Inner] = t
  \/ IsVoid(curr) /\ label[curr] = t

\* html.EndTagToken; Close on the root node evaluates p.Parent.Tag.
EndTag(t) ==
  /\ ~ crashed /\ ~ inTag
  /\ Strict => Matches(t)
  /\ IF curr = Root THEN crashed' = TRUE /\ UNCHANGED curr
     ELSE curr' = Closed(t) /\ UNCHANGED crashed
  /\ UNCHANGED <<label, parent, attrs, inTag>>

\* html.ErrorToken: Parse returns, wherever the cursor is.
End == UNCHANGED vars

Next ==
  \/ \E t \in Tag : StartTag(t) \/ EndTag(t)
  \/ \E k \in Leaf : LeafToken(k)
  \/ AttributeToken
  \/ StartTagClose
  \/ StartTagVoid
  \/ End

Spec == Init /\ [][Next]_vars

-----------------------------------------------------------------------------
(* Correctness *)

\* Texts, comments and void elements have no children, whatever the end tags
\* ("<p><input></p>"): every Parent is the root or an element with content.
OnlyContainersHaveChildren ==
  \A n \in Nodes : parent[n] = Root \/ label[parent[n]] \in Tag \ VoidTag

\* A strict document is read as OpenElements says, although the parser has no
\* stack and no notion of "open": its cursor always denotes the open element.
Document == INSTANCE OpenElements WITH top <- Inner

ReadsDocument == Document!Spec

\* In a strict document every end tag closes the open element, once, whatever
\* Close finds at the cursor; that of a void element (<br></br>) closes nothing.
EndTagsClose ==
  [][\A t \in Tag : EndTag(t) =>
       IF IsVoid(curr) /\ label[curr] = t THEN UNCHANGED Inner
       ELSE Document!Close(t)]_vars
=============================================================================
