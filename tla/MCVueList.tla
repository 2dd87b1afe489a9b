----------------------------- MODULE MCVueList -----------------------------
(***************************************************************************)
(* Templates of a few nodes for VueList.                                   *)
(***************************************************************************)
EXTENDS VueList

Node(k, t, ms) == [kind |-> k, tag |-> t, marks |-> ms]

Leaves == {Node("text", "other", {}), Node("comment", "other", {})}

\* Elements with at most one of v-if, v-else-if and v-else; a <template> has none.
PlainMarkup ==
  Leaves
  \cup {Node("element", "other", {}), Node("element", "template", {})}
  \cup {Node("element", "other", {d}) : d \in Marks}
=============================================================================
