--------------------------- MODULE MCTreeBuilder ---------------------------
(***************************************************************************)
(* Documents of a few nodes for TreeBuilder: two elements with content and *)
(* one void element, texts and comments.                                   *)
(***************************************************************************)
EXTENDS TreeBuilder
=============================================================================
