---------------------------- MODULE OpenElements ----------------------------
(***************************************************************************)
(* What reading a document means: every node is a child of the innermost   *)
(* element that is open where the node stands, a void element is never     *)
(* open, and an end tag closes the innermost open element if it bears its  *)
(* name.                                                                   *)
(***************************************************************************)
EXTENDS Naturals, Sequences

CONSTANTS
  Tag,      \* element names
  VoidTag,  \* the elements that have no content
  Leaf      \* the kinds of leaves: text, comment, doctype

VARIABLES
  label,    \* label[n]: the tag or leaf kind of the n-th node of the document
  parent,   \* parent[n]: the node that contains it; 0 is the document
  attrs,    \* attrs[n]: how many attributes it has
  top,      \* the innermost open element, or 0
  inTag     \* inside a start tag

docvars == <<label, parent, attrs, top, inTag>>

Init ==
  /\ label = <<>> /\ parent = <<>> /\ attrs = <<>>
  /\ top = 0
  /\ inTag = FALSE

NewNode(l) ==
  /\ label' = Append(label, l)
  /\ parent' = Append(parent, top)
  /\ attrs' = Append(attrs, 0)

Open(t) ==
  /\ NewNode(t)
  /\ top' = IF t \in VoidTag THEN top ELSE Len(label) + 1
  /\ inTag' = TRUE

Attribute ==
  /\ inTag
  /\ attrs' = [attrs EXCEPT ![Len(attrs)] = @ + 1]
  /\ UNCHANGED <<label, parent, top, inTag>>

\* The start tag ends, for <t/> together with the element.
EndStart(selfClosing) ==
  /\ inTag
  /\ inTag' = FALSE
  /\ top' = IF selfClosing /\ top = Len(label) THEN parent[top] ELSE top
  /\ UNCHANGED <<label, parent, attrs>>

AddLeaf(k) ==
  /\ NewNode(k)
  /\ UNCHANGED <<top, inTag>>

Close(t) ==
  /\ top # 0
  /\ label[top] = t
  /\ top' = parent[top]
  /\ UNCHANGED <<label, parent, attrs, inTag>>

Next ==
  \/ \E t \in Tag : Open(t) \/ Close(t)
  \/ \E k \in Leaf : AddLeaf(k)
  \/ Attribute
  \/ \E b \in BOOLEAN : EndStart(b)

Spec == Init /\ [][Next]_docvars
=============================================================================
