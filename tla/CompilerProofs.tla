--------------------------- MODULE CompilerProofs ---------------------------
(***************************************************************************)
(* What the compiler guarantees for templates of any size, in its two      *)
(* stages, and the interpreter for their expressions.                      *)
(*                                                                         *)
(* TreeBuilder: text and void elements stay without children whatever the  *)
(* end tags, and a document with matching end tags is read as OpenElements *)
(* says.                                                                   *)
(*                                                                         *)
(* StatementCompiler: the statement of a document writes what its nodes    *)
(* say, in their order; texts are merged, and no word of a text is lost.   *)
(* The documents are finite trees: Trees(h) of some h.                     *)
(*                                                                         *)
(* JsExpression: the four comparisons agree.  Syntax and values are        *)
(* finite: FiniteSyntax(h) of some h, Founded(U) of some U.                *)
(***************************************************************************)
EXTENDS TreeBuilder, StatementCompiler, JsExpression, SequenceTheorems, WellFoundedInduction, TLAPS

-----------------------------------------------------------------------------
(* The tree *)

\* The invariant: the tree is well typed and its parents are containers, so that
\* GetParent of any node is a node that may be open.
IInv == TypeOK /\ OnlyContainersHaveChildren

LEMMA NodeTyping ==
  ASSUME TypeOK
  PROVE  /\ Len(label) \in Nat
         /\ \A n \in Nodes : label[n] \in Tag \cup Leaf /\ parent[n] \in Nat
         /\ \A n \in Nodes : parent[n] \in Nodes \cup {Root}
<1>1. Len(label) \in Nat
  BY LenProperties DEF TypeOK
<1>2. \A n \in Nodes : label[n] \in Tag \cup Leaf /\ parent[n] \in Nat
  BY <1>1, ElementOfSeq DEF TypeOK, Nodes
<1>3. QED
  BY <1>1, <1>2 DEF TypeOK, Nodes, Root

\* Where Add puts a node is where the open element is, and is a container.
LEMMA InnerIsContainer ==
  ASSUME IInv
  PROVE  /\ Container(curr) = Inner
         /\ Inner \in Nodes \cup {Root}
         /\ Inner = Root \/ label[Inner] \in Tag \ VoidTag
         /\ curr # Root => Up(curr) = parent[curr]
         /\ ~ IsVoid(Inner) /\ ~ IsLeaf(Inner)
<1>1. /\ \A n \in Nodes : label[n] \in Tag \cup Leaf
      /\ \A n \in Nodes : parent[n] \in Nodes \cup {Root}
  BY NodeTyping DEF IInv
<1>2. curr \in Nodes \cup {Root}
  BY DEF IInv, TypeOK
<1>3. Container(curr) = Inner
  BY DEF Container, Inner
<1>4. Inner \in Nodes \cup {Root} /\ (Inner = Root \/ label[Inner] \in Tag \ VoidTag)
  BY <1>1, <1>2 DEF Inner, IsVoid, IsLeaf, Up, IInv, OnlyContainersHaveChildren
<1>5. QED
  BY <1>3, <1>4, TagAssumption DEF Up, IsVoid, IsLeaf

\* Appending a node leaves the others as they are.
LEMMA NodeAdded ==
  ASSUME IInv, NEW l \in Tag \cup Leaf, Add(l)
  PROVE  /\ label' \in Seq(Tag \cup Leaf) /\ parent' \in Seq(Nat) /\ attrs' \in Seq(Nat)
         /\ curr' = Len(label) + 1 /\ curr' \in Nat \ {0}
         /\ Len(label') = curr' /\ Len(parent') = curr' /\ Len(attrs') = curr'
         /\ label'[curr'] = l /\ parent'[curr'] = Inner
         /\ \A m \in Nodes : label'[m] = label[m] /\ parent'[m] = parent[m]
<1>1. /\ label \in Seq(Tag \cup Leaf) /\ parent \in Seq(Nat) /\ attrs \in Seq(Nat)
      /\ Len(parent) = Len(label) /\ Len(attrs) = Len(label) /\ Len(label) \in Nat
  BY NodeTyping DEF IInv, TypeOK
<1>2. Inner \in Nat /\ Container(curr) = Inner
  BY <1>1, InnerIsContainer DEF Nodes, Root
<1>3. /\ label' = Append(label, l) /\ parent' = Append(parent, Inner)
      /\ attrs' = Append(attrs, 0) /\ curr' = Len(label) + 1
  BY <1>2 DEF Add
<1>4. /\ label' \in Seq(Tag \cup Leaf) /\ Len(label') = Len(label) + 1
      /\ label'[Len(label) + 1] = l
      /\ \A m \in Nodes : label'[m] = label[m]
  BY <1>1, <1>3, AppendProperties DEF Nodes
<1>5. /\ parent' \in Seq(Nat) /\ Len(parent') = Len(label) + 1
      /\ parent'[Len(label) + 1] = Inner
      /\ \A m \in Nodes : parent'[m] = parent[m]
  BY <1>1, <1>2, <1>3, AppendProperties DEF Nodes
<1>6. attrs' \in Seq(Nat) /\ Len(attrs') = Len(label) + 1
  BY <1>1, <1>3, AppendProperties
<1>7. curr' = Len(label) + 1 /\ curr' \in Nat \ {0}
  BY <1>1, <1>3
<1>8. QED
  BY <1>4, <1>5, <1>6, <1>7

\* Add keeps the tree well formed.
LEMMA AddKeeps ==
  ASSUME IInv, NEW l \in Tag \cup Leaf, Add(l),
         inTag' = TRUE => l \in Tag, inTag' \in BOOLEAN, crashed' \in BOOLEAN
  PROVE  IInv'
<1> DEFINE n == Len(label) + 1
<1>1. Len(label) \in Nat /\ Inner \in Nodes \cup {Root}
  BY NodeTyping, InnerIsContainer DEF IInv
<1>2. /\ Len(label') = n /\ n \in Nat \ {0} /\ curr' = n
      /\ label'[n] = l /\ parent'[n] = Inner
      /\ \A m \in Nodes : label'[m] = label[m] /\ parent'[m] = parent[m]
  BY <1>1, NodeAdded
<1>3. Nodes' = Nodes \cup {n}
  BY <1>1, <1>2 DEF Nodes
<1>4. \A m \in Nodes' : parent'[m] < m
  <2>1. \A m \in Nodes : parent'[m] < m
    BY <1>2 DEF IInv, TypeOK
  <2>2. Inner < n
    BY <1>1 DEF Nodes, Root
  <2>3. parent'[n] < n
    BY <1>2, <2>2
  <2>4. QED
    BY <1>3, <2>1, <2>3
<1>5. TypeOK'
  BY <1>2, <1>3, <1>4, NodeAdded DEF TypeOK, Root
<1>6. OnlyContainersHaveChildren'
  <2>1. ASSUME NEW m \in Nodes
        PROVE  parent'[m] = Root \/ label'[parent'[m]] \in Tag \ VoidTag
    <3>1. parent[m] \in Nodes \cup {Root}
      BY NodeTyping DEF IInv
    <3>2. QED
      BY <1>2, <3>1 DEF IInv, OnlyContainersHaveChildren
  <2>2. parent'[n] = Root \/ label'[parent'[n]] \in Tag \ VoidTag
    BY <1>1, <1>2, InnerIsContainer
  <2>3. QED
    BY <1>3, <2>1, <2>2 DEF OnlyContainersHaveChildren
<1>7. QED
  BY <1>5, <1>6 DEF IInv

\* Where Close leaves the cursor, there is a node or the root.
LEMMA ClosedTyping ==
  ASSUME IInv, NEW t \in Tag
  PROVE  Closed(t) \in Nodes \cup {Root}
<1>1. /\ \A n \in Nodes : parent[n] \in Nodes \cup {Root}
      /\ curr \in Nodes \cup {Root}
  BY NodeTyping DEF IInv, TypeOK
<1>2. \A d \in {1, 2} : GetParent(curr, d) \in Nodes \cup {Root}
  BY <1>1 DEF GetParent, Up
<1>3. QED
  BY <1>1, <1>2 DEF Closed

LEMMA IInvStep == IInv /\ [Next]_vars => IInv'
<1> SUFFICES ASSUME IInv, [Next]_vars PROVE IInv'
  OBVIOUS
<1>1. ASSUME NEW t \in Tag, StartTag(t) PROVE IInv'
  BY <1>1, AddKeeps DEF StartTag, IInv, TypeOK
<1>2. ASSUME NEW k \in Leaf, LeafToken(k) PROVE IInv'
  BY <1>2, AddKeeps DEF LeafToken, IInv, TypeOK
<1>3. CASE AttributeToken
  <2>1. attrs' \in Seq(Nat) /\ Len(attrs') = Len(attrs)
    <3>1. curr \in 1 .. Len(attrs) /\ attrs \in Seq(Nat)
      BY <1>3 DEF AttributeToken, IInv, TypeOK, Nodes
    <3>2. attrs[curr] + 1 \in Nat
      BY <3>1, ElementOfSeq
    <3>3. QED
      BY <1>3, <3>1, <3>2, ExceptSeq DEF AttributeToken
  <2>2. QED
    BY <1>3, <2>1 DEF AttributeToken, IInv, TypeOK, OnlyContainersHaveChildren, Nodes
<1>4. CASE StartTagClose
  BY <1>4 DEF StartTagClose, IInv, TypeOK, OnlyContainersHaveChildren, Nodes
<1>5. CASE StartTagVoid
  <2>1. parent[curr] \in Nodes \cup {Root}
    BY <1>5, NodeTyping DEF StartTagVoid, IInv, TypeOK
  <2>2. QED
    BY <1>5, <2>1 DEF StartTagVoid, IInv, TypeOK, OnlyContainersHaveChildren, Nodes
<1>6. ASSUME NEW t \in Tag, EndTag(t) PROVE IInv'
  <2>1. /\ curr' \in Nodes \cup {Root} /\ crashed' \in BOOLEAN /\ ~ inTag
        /\ UNCHANGED <<label, parent, attrs, inTag>>
    BY <1>6, ClosedTyping DEF EndTag, IInv, TypeOK
  <2>2. QED
    BY <2>1 DEF IInv, TypeOK, OnlyContainersHaveChildren, Nodes
<1>7. CASE UNCHANGED vars
  BY <1>7 DEF vars, IInv, TypeOK, OnlyContainersHaveChildren, Nodes
<1>8. QED
  BY <1>1, <1>2, <1>3, <1>4, <1>5, <1>6, <1>7 DEF Next, End

LEMMA IInvInit == Init => IInv
<1> SUFFICES ASSUME Init PROVE IInv
  OBVIOUS
<1>1. Nodes = {}
  BY DEF Init, Nodes
<1>2. QED
  BY <1>1, EmptySeq DEF Init, IInv, TypeOK, OnlyContainersHaveChildren

THEOREM Invariance == Spec => []IInv
BY IInvInit, IInvStep, PTL DEF Spec

\* Parents are older nodes, and the cursor is a node, for any template.
THEOREM TypeCorrect == Spec => []TypeOK
BY Invariance, PTL DEF IInv

\* Node.Add never gives a child to a text, a comment or a void element, whatever
\* start and end tags the template has.
THEOREM ContainersOnly == Spec => []OnlyContainersHaveChildren
BY Invariance, PTL DEF IInv

-----------------------------------------------------------------------------
(* The refinement *)

\* Close finds the open element from a container, a leaf or a void element.
LEMMA EndTagStep ==
  ASSUME Strict, IInv, NEW t \in Tag, EndTag(t)
  PROVE  IF IsVoid(curr) /\ label[curr] = t
         THEN UNCHANGED Document!docvars ELSE Document!Close(t)
<1>1. /\ Inner \in Nodes \cup {Root}
      /\ ~ IsVoid(Inner) /\ ~ IsLeaf(Inner)
  BY InnerIsContainer
<1>2. ASSUME NEW n \in Nodes
      PROVE  ~ IsVoid(parent[n]) /\ ~ IsLeaf(parent[n])
  BY NodeTyping, TagAssumption DEF IInv, OnlyContainersHaveChildren, IsVoid, IsLeaf
<1>3. Matches(t) /\ UNCHANGED <<label, parent, attrs, inTag>>
  BY DEF EndTag
<1>4. curr \in Nodes /\ curr' = Closed(t)
  <2>1. curr # Root
    BY <1>3 DEF Matches, Inner, IsVoid, IsLeaf
  <2>2. QED
    BY <2>1 DEF EndTag, IInv, TypeOK
<1>5. CASE IsVoid(curr) /\ label[curr] = t
  <2>1. curr' = Inner
    <3>1. Inner = Up(curr)
      BY <1>5 DEF Inner
    <3>2. Closed(t) = GetParent(curr, 1)
      BY <1>5, TagAssumption DEF Closed, IsVoid, IsLeaf
    <3>3. QED
      BY <1>4, <3>1, <3>2 DEF GetParent
  <2>2. Inner' = Inner
    BY <1>1, <1>3, <2>1 DEF Inner, IsVoid, IsLeaf, Up
  <2>3. QED
    BY <1>3, <1>5, <2>2 DEF Document!docvars
<1>6. CASE ~ (IsVoid(curr) /\ label[curr] = t)
  <2>1. Inner # Root /\ label[Inner] = t /\ Inner \in Nodes
    BY <1>1, <1>3, <1>6 DEF Matches
  <2>2. curr' = parent[Inner]
    <3>1. CASE IsVoid(curr)
      BY <1>4, <1>6, <2>1, <3>1 DEF Closed, GetParent, Inner, Up
    <3>2. CASE IsLeaf(curr)
      <4>1. Inner = parent[curr] /\ ~ IsVoid(curr)
        BY <1>4, <3>2, TagAssumption DEF Inner, Up, IsLeaf, IsVoid
      <4>2. QED
        BY <1>4, <2>1, <3>2, <4>1 DEF Closed, GetParent, Up, IsLeaf
    <3>3. CASE ~ IsVoid(curr) /\ ~ IsLeaf(curr)
      BY <1>4, <2>1, <3>3 DEF Closed, GetParent, Inner, Up
    <3>4. QED
      BY <3>1, <3>2, <3>3
  <2>3. Inner' = parent[Inner]
    BY <1>2, <1>3, <2>1, <2>2 DEF Inner, IsVoid, IsLeaf
  <2>4. Document!Close(t)
    BY <1>3, <2>1, <2>3 DEF Document!Close, Root
  <2>5. QED
    BY <1>6, <2>4
<1>7. QED
  BY <1>5, <1>6

LEMMA DocumentStep ==
  ASSUME Strict, IInv, [Next]_vars
  PROVE  [Document!Next]_(Document!docvars)
<1> USE DEF Document!docvars, Document!Next
<1>0. /\ Container(curr) = Inner /\ Inner \in Nodes \cup {Root}
      /\ ~ IsVoid(Inner) /\ ~ IsLeaf(Inner)
      /\ \A n \in Nodes : parent[n] \in Nodes \cup {Root}
      /\ \A n \in Nodes : label[n] \in Tag \cup Leaf
      /\ Len(label) \in Nat
  BY InnerIsContainer, NodeTyping DEF IInv
<1>1. ASSUME NEW n \in Nodes
      PROVE  ~ IsVoid(parent[n]) /\ ~ IsLeaf(parent[n])
  BY <1>0, TagAssumption DEF IInv, OnlyContainersHaveChildren, IsVoid, IsLeaf
<1>2. ASSUME NEW t \in Tag, StartTag(t) PROVE [Document!Next]_(Document!docvars)
  <2>1. label'[curr'] = t /\ parent'[curr'] = Inner /\ curr' = Len(label) + 1
    BY <1>2, NodeAdded DEF StartTag
  <2>2. Inner' = IF t \in VoidTag THEN Inner ELSE Len(label) + 1
    BY <1>0, <2>1, TagAssumption DEF Inner, IsVoid, IsLeaf, Up, Root
  <2>3. Document!Open(t)
    BY <1>0, <1>2, <2>2 DEF StartTag, Add, Document!Open, Document!NewNode
  <2>4. QED
    BY <2>3
<1>3. ASSUME NEW k \in Leaf, LeafToken(k) PROVE [Document!Next]_(Document!docvars)
  <2>1. label'[curr'] = k /\ parent'[curr'] = Inner /\ curr' = Len(label) + 1
    BY <1>3, NodeAdded DEF LeafToken
  <2>2. Inner' = Inner
    BY <1>0, <2>1 DEF Inner, IsVoid, IsLeaf, Up, Root
  <2>3. Document!AddLeaf(k)
    BY <1>0, <1>3, <2>2 DEF LeafToken, Add, Document!AddLeaf, Document!NewNode
  <2>4. QED
    BY <2>3
<1>4. CASE AttributeToken
  <2>1. curr = Len(attrs)
    BY <1>4 DEF AttributeToken, IInv, TypeOK
  <2>2. Inner' = Inner
    BY <1>4 DEF AttributeToken, Inner, IsVoid, IsLeaf, Up
  <2>3. Document!Attribute
    BY <1>4, <2>1, <2>2 DEF AttributeToken, Document!Attribute
  <2>4. QED
    BY <2>3
<1>5. CASE StartTagClose
  <2>1. Inner' = Inner
    BY <1>5 DEF StartTagClose, Inner, IsVoid, IsLeaf, Up
  <2>2. Document!EndStart(FALSE)
    BY <1>5, <2>1 DEF StartTagClose, Document!EndStart
  <2>3. QED
    BY <2>2
<1>6. CASE StartTagVoid
  <2>1. curr = Len(label) /\ curr \in Nodes /\ label[curr] \in Tag /\ parent[curr] < curr
    BY <1>6 DEF StartTagVoid, IInv, TypeOK, Root
  <2>2. Inner' = parent[curr]
    BY <1>1, <1>6, <2>1 DEF StartTagVoid, Inner, IsVoid, IsLeaf
  <2>3. Inner = IF IsVoid(curr) THEN parent[curr] ELSE curr
    BY <2>1, TagAssumption DEF Inner, IsVoid, IsLeaf, Up, Root, Nodes
  <2>4. Document!EndStart(TRUE)
    BY <1>6, <2>1, <2>2, <2>3 DEF StartTagVoid, Document!EndStart
  <2>5. QED
    BY <2>4
<1>7. ASSUME NEW t \in Tag, EndTag(t) PROVE [Document!Next]_(Document!docvars)
  BY <1>7, EndTagStep
<1>8. CASE UNCHANGED vars
  BY <1>8 DEF vars, Inner, IsVoid, IsLeaf, Up
<1>9. QED
  BY <1>2, <1>3, <1>4, <1>5, <1>6, <1>7, <1>8 DEF Next, End

\* The parser reads every document with matching end tags, of any size and depth,
\* as OpenElements says: its single cursor always determines the open element.
THEOREM ReadsStrictDocuments ==
  ASSUME Strict
  PROVE  Spec => ReadsDocument
<1>1. Init => Document!Init
  BY DEF Init, Document!Init, Inner, IsVoid, IsLeaf, Root
<1>2. IInv /\ [Next]_vars => [Document!Next]_(Document!docvars)
  BY DocumentStep
<1>3. QED
  BY <1>1, <1>2, Invariance, PTL DEF Spec, ReadsDocument, Document!Spec

\* Every end tag of such a document closes the open element, whatever node the
\* cursor of Node.Close is on.
THEOREM ClosesOpenElement ==
  ASSUME Strict
  PROVE  Spec => EndTagsClose
<1> DEFINE A == \A t \in Tag : EndTag(t) =>
                 IF IsVoid(curr) /\ label[curr] = t THEN UNCHANGED Inner
                 ELSE Document!Close(t)
<1>1. IInv /\ [Next]_vars => [A]_vars
  BY EndTagStep DEF Document!docvars
<1>2. QED
  BY <1>1, Invariance, PTL DEF Spec, EndTagsClose

-----------------------------------------------------------------------------
(* Induction and recursion *)

\* Induction over the numbers, with a set for the statement: the provers take no operators.
LEMMA UpFromZero ==
  ASSUME NEW P, 0 \in P, \A i \in Nat : i \in P => i + 1 \in P
  PROVE  Nat \subseteq P
<1> DEFINE Missing == {i \in Nat : i \notin P}
<1>1. SUFFICES ASSUME Missing # {} PROVE FALSE
  OBVIOUS
<1>2. PICK i \in Missing : \A j \in Nat : <<j, i>> \in OpToRel(<, Nat) => j \notin Missing
  <2>1. Missing \in SUBSET Nat
    OBVIOUS
  <2> HIDE DEF Missing
  <2>2. QED
    BY <1>1, <2>1, WFMin, NatLessThanWellFounded, Zenon
<1>3. i # 0 /\ i \in Nat
  OBVIOUS
<1>4. i - 1 \in Nat /\ i - 1 < i /\ (i - 1) + 1 = i
  BY <1>3
<1>5. <<i - 1, i>> \in OpToRel(<, Nat)
  BY <1>3, <1>4 DEF OpToRel
<1>6. QED
  BY <1>2, <1>4, <1>5

\* What holds for the empty sequence, and with every sequence for a longer one.
LEMMA EverySequence ==
  ASSUME NEW S, NEW P, << >> \in P,
         \A s \in Seq(S), x \in S : s \in P => Append(s, x) \in P
  PROVE  Seq(S) \subseteq P
<1> DEFINE Q == {n \in Nat : \A s \in Seq(S) : Len(s) = n => s \in P}
<1>1. 0 \in Q
  BY EmptySeq
<1>2. ASSUME NEW n \in Nat, n \in Q PROVE n + 1 \in Q
  <2>1. ASSUME NEW s \in Seq(S), Len(s) = n + 1 PROVE s \in P
    <3>1. s # << >>
      BY <2>1, EmptySeq
    <3>2. PICK r \in Seq(S), x \in S : s = Append(r, x)
      BY <3>1, SequenceEmptyOrAppend
    <3>3. Len(r) = n
      BY <2>1, <3>2, AppendProperties, LenProperties
    <3>4. QED
      BY <1>2, <3>2, <3>3
  <2>2. QED
    BY <2>1
<1>3. Nat \subseteq Q
  <2> HIDE DEF Q
  <2>1. QED
    BY <1>1, <1>2, UpFromZero
<1>4. QED
  BY <1>3, LenProperties

\* What holds for everything that it holds for all lower of.
LEMMA ByHeight ==
  ASSUME NEW N, NEW h \in [N -> Nat], NEW P,
         \A n \in N : (\A k \in N : h[k] < h[n] => k \in P) => n \in P
  PROVE  N \subseteq P
<1> DEFINE Q == {m \in Nat : \A n \in N : h[n] < m => n \in P}
<1>1. 0 \in Q
  OBVIOUS
<1>2. ASSUME NEW m \in Nat, m \in Q PROVE m + 1 \in Q
  <2>1. ASSUME NEW n \in N, h[n] < m + 1 PROVE n \in P
    <3>1. \A k \in N : h[k] < h[n] => h[k] < m
      BY <2>1
    <3>2. QED
      BY <1>2, <3>1
  <2>2. QED
    BY <2>1
<1>3. Nat \subseteq Q
  <2> HIDE DEF Q
  <2>1. QED
    BY <1>1, <1>2, UpFromZero
<1>4. \A n \in N : h[n] + 1 \in Nat /\ h[n] < h[n] + 1
  OBVIOUS
<1>5. QED
  BY <1>3, <1>4

\* K has what is lower.
Lower(N, h, K) == \A n \in N : \A k \in K[n] : k \in N /\ h[k] < h[n]

\* G makes members of V.
Makes(N, V, K, G) == \A n \in N : \A r \in [K[n] -> V] : G[n][r] \in V

\* f is made by G.
MadeBy(N, K, G, f) == \A n \in N : f[n] = G[n][[k \in K[n] |-> f[k]]]

\* f is made by G, of everything below m.
Recurs(N, h, K, G, m, f) ==
  \A n \in N : h[n] < m => f[n] = G[n][[k \in K[n] |-> f[k]]]

\* There is such an f up to every height.
LEMMA RecursionBelow ==
  ASSUME NEW N, NEW h \in [N -> Nat], NEW V, V # {},
         NEW K, Lower(N, h, K),
         NEW G, Makes(N, V, K, G),
         NEW m \in Nat
  PROVE  \E f \in [N -> V] : Recurs(N, h, K, G, m, f)
<1> USE DEF Lower, Makes
<1> DEFINE Q == {i \in Nat : \E f \in [N -> V] : Recurs(N, h, K, G, i, f)}
<1>1. 0 \in Q
  <2>1. PICK v \in V : TRUE
    OBVIOUS
  <2>2. [n \in N |-> v] \in [N -> V] /\ \A n \in N : ~ (h[n] < 0)
    OBVIOUS
  <2>3. QED
    BY <2>2 DEF Recurs
<1>2. ASSUME NEW i \in Nat, i \in Q PROVE i + 1 \in Q
  <2>1. PICK f \in [N -> V] : Recurs(N, h, K, G, i, f)
    BY <1>2
  <2> DEFINE g == [n \in N |-> G[n][[k \in K[n] |-> f[k]]]]
  <2>2. ASSUME NEW n \in N PROVE [k \in K[n] |-> f[k]] \in [K[n] -> V]
    OBVIOUS
  <2>3. g \in [N -> V]
    BY <2>2
  <2>4. ASSUME NEW n \in N, h[n] < i + 1 PROVE g[n] = G[n][[k \in K[n] |-> g[k]]]
    <3>1. ASSUME NEW k \in K[n] PROVE f[k] = g[k]
      <4>1. k \in N /\ h[k] < i
        BY <2>4
      <4>2. QED
        BY <2>1, <4>1 DEF Recurs
    <3>2. [k \in K[n] |-> f[k]] = [k \in K[n] |-> g[k]]
      BY <3>1
    <3>3. QED
      BY <3>2
  <2> HIDE DEF g
  <2>5. Recurs(N, h, K, G, i + 1, g)
    BY <2>4 DEF Recurs
  <2>6. QED
    BY <2>3, <2>5
<1>3. Nat \subseteq Q
  <2> HIDE DEF Q
  <2>1. QED
    BY <1>1, <1>2, UpFromZero
<1>4. QED
  BY <1>3

\* Two of them are the same, where both are made.
LEMMA RecursionAgrees ==
  ASSUME NEW N, NEW h \in [N -> Nat],
         NEW K, Lower(N, h, K),
         NEW G, NEW m \in Nat, NEW p \in Nat, NEW f, NEW g,
         Recurs(N, h, K, G, m, f), Recurs(N, h, K, G, p, g)
  PROVE  \A n \in N : h[n] < m /\ h[n] < p => f[n] = g[n]
<1> USE DEF Lower
<1> DEFINE P == {n \in N : h[n] < m /\ h[n] < p => f[n] = g[n]}
<1>1. ASSUME NEW n \in N, \A k \in N : h[k] < h[n] => k \in P PROVE n \in P
  <2>1. SUFFICES ASSUME h[n] < m, h[n] < p PROVE f[n] = g[n]
    OBVIOUS
  <2>2. ASSUME NEW k \in K[n] PROVE f[k] = g[k]
    <3>1. k \in N /\ h[k] < h[n] /\ h[k] < m /\ h[k] < p
      BY <2>1
    <3>2. QED
      BY <1>1, <3>1
  <2>3. [k \in K[n] |-> f[k]] = [k \in K[n] |-> g[k]]
    BY <2>2
  <2>4. QED
    BY <2>1, <2>3 DEF Recurs
<1>2. N \subseteq P
  <2> HIDE DEF P
  <2>1. QED
    BY <1>1, ByHeight
<1>3. QED
  BY <1>2

\* A function that is defined by its values below.
LEMMA Recursion ==
  ASSUME NEW N, NEW h \in [N -> Nat], NEW V, V # {},
         NEW K, Lower(N, h, K),
         NEW G, Makes(N, V, K, G)
  PROVE  \E f \in [N -> V] : MadeBy(N, K, G, f)
<1> USE DEF Lower, Makes, MadeBy
<1> DEFINE F == [m \in Nat |-> CHOOSE f : f \in [N -> V] /\ Recurs(N, h, K, G, m, f)]
           f == [n \in N |-> F[h[n] + 1][n]]
<1>1. ASSUME NEW m \in Nat PROVE F[m] \in [N -> V] /\ Recurs(N, h, K, G, m, F[m])
  <2>1. \E u : u \in [N -> V] /\ Recurs(N, h, K, G, m, u)
    BY RecursionBelow
  <2>2. F[m] = CHOOSE u : u \in [N -> V] /\ Recurs(N, h, K, G, m, u)
    OBVIOUS
  <2> HIDE DEF F
  <2>3. QED
    BY <2>1, <2>2
<1> HIDE DEF F
<1>2. f \in [N -> V]
  <2>1. ASSUME NEW n \in N PROVE F[h[n] + 1][n] \in V
    <3>1. h[n] + 1 \in Nat
      OBVIOUS
    <3>2. QED
      BY <1>1, <3>1
  <2>2. QED
    BY <2>1
<1>3. ASSUME NEW n \in N PROVE f[n] = G[n][[k \in K[n] |-> f[k]]]
  <2>0. h[n] \in Nat /\ h[n] + 1 \in Nat /\ h[n] < h[n] + 1
    OBVIOUS
  <2>1. f[n] = G[n][[k \in K[n] |-> F[h[n] + 1][k]]]
    BY <1>1, <2>0 DEF Recurs
  <2>2. ASSUME NEW k \in K[n] PROVE F[h[n] + 1][k] = f[k]
    <3>1. k \in N /\ h[k] \in Nat /\ h[k] + 1 \in Nat /\ h[k] < h[k] + 1 /\ h[k] < h[n] + 1
      OBVIOUS
    <3>2. Recurs(N, h, K, G, h[k] + 1, F[h[k] + 1]) /\ Recurs(N, h, K, G, h[n] + 1, F[h[n] + 1])
      BY <1>1, <2>0, <3>1
    <3>3. PICK u : u = F[h[k] + 1]
      OBVIOUS
    <3>4. PICK w : w = F[h[n] + 1]
      OBVIOUS
    <3>5. PICK m \in Nat, p \in Nat : m = h[k] + 1 /\ p = h[n] + 1
      BY <2>0, <3>1
    <3>6. Recurs(N, h, K, G, m, u) /\ Recurs(N, h, K, G, p, w)
      BY <3>2, <3>3, <3>4, <3>5
    <3>7. \A x \in N : h[x] < m /\ h[x] < p => u[x] = w[x]
      BY <3>6, RecursionAgrees
    <3>8. u[k] = w[k]
      BY <3>1, <3>5, <3>7
    <3>9. QED
      BY <3>1, <3>3, <3>4, <3>8
  <2>3. [k \in K[n] |-> F[h[n] + 1][k]] = [k \in K[n] |-> f[k]]
    BY <2>2
  <2>4. QED
    BY <2>1, <2>3
<1> HIDE DEF f
<1>4. QED
  BY <1>2, <1>3

\* The same over the numbers up to n.
StepsIn(n, A, F) == \A i \in 1 .. n : \A a \in A : F[i][a] \in A

\* u is what they make, one after the other.
Steps(n, F, u) == \A i \in 1 .. n : u[i] = F[i][u[i - 1]]

\* Steps from b end somewhere in A.
LEMMA StepsExist ==
  ASSUME NEW n \in Nat, NEW A, NEW b \in A, NEW F, StepsIn(n, A, F)
  PROVE  \E u \in [0 .. n -> A] : u[0] = b /\ Steps(n, F, u)
<1> USE DEF StepsIn, Steps
<1> DEFINE Q == {m \in Nat : m <= n =>
                   \E u \in [0 .. n -> A] : u[0] = b /\ \A i \in 1 .. m : u[i] = F[i][u[i - 1]]}
<1>1. 0 \in Q
  <2> DEFINE u == [i \in 0 .. n |-> b]
  <2>1. u \in [0 .. n -> A] /\ u[0] = b /\ \A i \in 1 .. 0 : u[i] = F[i][u[i - 1]]
    OBVIOUS
  <2> HIDE DEF u
  <2>2. QED
    BY <2>1
<1>2. ASSUME NEW m \in Nat, m \in Q PROVE m + 1 \in Q
  <2>1. SUFFICES ASSUME m + 1 <= n
                 PROVE  \E u \in [0 .. n -> A] :
                          u[0] = b /\ \A i \in 1 .. m + 1 : u[i] = F[i][u[i - 1]]
    OBVIOUS
  <2>2. PICK u \in [0 .. n -> A] : u[0] = b /\ \A i \in 1 .. m : u[i] = F[i][u[i - 1]]
    BY <1>2, <2>1
  <2> DEFINE w == [i \in 0 .. n |-> IF i = m + 1 THEN F[m + 1][u[m]] ELSE u[i]]
  <2>3. m \in 0 .. n /\ m + 1 \in 1 .. n /\ u[m] \in A /\ F[m + 1][u[m]] \in A
    BY <2>1
  <2>4. w \in [0 .. n -> A] /\ w[0] = b
    BY <2>2, <2>3
  <2>5. ASSUME NEW i \in 1 .. m + 1 PROVE w[i] = F[i][w[i - 1]]
    <3>1. i - 1 \in 0 .. n /\ i \in 0 .. n /\ i - 1 # m + 1 /\ w[i - 1] = u[i - 1]
      BY <2>1
    <3>2. CASE i = m + 1
      BY <2>3, <3>1, <3>2
    <3>3. CASE i \in 1 .. m
      BY <2>2, <3>1, <3>3
    <3>4. QED
      BY <3>2, <3>3
  <2> HIDE DEF w
  <2>6. QED
    BY <2>4, <2>5
<1>3. Nat \subseteq Q
  <2> HIDE DEF Q
  <2>1. QED
    BY <1>1, <1>2, UpFromZero
<1>4. QED
  BY <1>3

\* And in one place only.
LEMMA StepsAgree ==
  ASSUME NEW n \in Nat, NEW F, NEW u, NEW w, u[0] = w[0], Steps(n, F, u), Steps(n, F, w)
  PROVE  u[n] = w[n]
<1> USE DEF Steps
<1> DEFINE Q == {m \in Nat : m <= n => u[m] = w[m]}
<1>1. 0 \in Q
  OBVIOUS
<1>2. ASSUME NEW m \in Nat, m \in Q PROVE m + 1 \in Q
  <2>1. SUFFICES ASSUME m + 1 <= n PROVE u[m + 1] = w[m + 1]
    OBVIOUS
  <2>2. m + 1 \in 1 .. n /\ (m + 1) - 1 = m /\ u[m] = w[m]
    BY <1>2, <2>1
  <2>3. QED
    BY <2>2
<1>3. Nat \subseteq Q
  <2> HIDE DEF Q
  <2>1. QED
    BY <1>1, <1>2, UpFromZero
<1>4. QED
  BY <1>3

-----------------------------------------------------------------------------
(* Folds *)

\* v is what a fold over s with F, which takes pairs, comes to.
Pairwise(n, F, s, u) == \A i \in 1 .. n : u[i] = F[<<u[i - 1], s[i]>>]

\* F takes a state and an item to a state.
PairsIn(A, S, F) == \A a \in A, x \in S : F[<<a, x>>] \in A

FoldsTo(A, F, b, s, v) ==
  \E u \in [0 .. Len(s) -> A] : u[0] = b /\ u[Len(s)] = v /\ Pairwise(Len(s), F, s, u)

\* A fold that stays in A step by step is a sequence of states.
LEMMA FoldStays ==
  ASSUME NEW n \in Nat, NEW A, NEW u, u = [i \in 0 .. n |-> u[i]], u[0] \in A,
         \A i \in 1 .. n : u[i - 1] \in A => u[i] \in A
  PROVE  u \in [0 .. n -> A]
<1> DEFINE Q == {i \in Nat : i <= n => u[i] \in A}
<1>1. 0 \in Q
  OBVIOUS
<1>2. ASSUME NEW i \in Nat, i \in Q PROVE i + 1 \in Q
  <2>1. SUFFICES ASSUME i + 1 <= n PROVE u[i + 1] \in A
    OBVIOUS
  <2>2. i + 1 \in 1 .. n /\ (i + 1) - 1 = i /\ u[i] \in A
    BY <1>2, <2>1
  <2>3. QED
    BY <2>2
<1>3. Nat \subseteq Q
  <2> HIDE DEF Q
  <2>1. QED
    BY <1>1, <1>2, UpFromZero
<1>4. \A i \in 0 .. n : u[i] \in A
  BY <1>3
<1>5. QED
  BY <1>4

\* A fold over nothing is the base.
LEMMA FoldsToEmpty ==
  ASSUME NEW A, NEW F, NEW b, NEW v, FoldsTo(A, F, b, << >>, v)
  PROVE  v = b
BY EmptySeq DEF FoldsTo

\* A fold over one more item is one more step.
LEMMA FoldsToAppend ==
  ASSUME NEW A, NEW S, NEW F, NEW b, NEW s \in Seq(S), NEW x \in S, NEW v, NEW w,
         FoldsTo(A, F, b, s, v), FoldsTo(A, F, b, Append(s, x), w)
  PROVE  v \in A /\ w = F[<<v, x>>]
<1>0. PICK t : t = Append(s, x)
  OBVIOUS
<1>1. PICK n \in Nat : n = Len(s)
  BY LenProperties
<1>2. Len(t) = n + 1 /\ t[n + 1] = x /\ \A i \in 1 .. n : t[i] = s[i]
  BY <1>0, <1>1, AppendProperties
<1>3. PICK u \in [0 .. n -> A] :
        u[0] = b /\ u[n] = v /\ Pairwise(n, F, s, u)
  BY <1>1 DEF FoldsTo
<1>4. FoldsTo(A, F, b, t, w)
  BY <1>0
<1>5. PICK y \in [0 .. n + 1 -> A] :
        y[0] = b /\ y[n + 1] = w /\ Pairwise(n + 1, F, t, y)
  <2>1. PICK m : m = n + 1
    OBVIOUS
  <2>2. \E y \in [0 .. m -> A] :
          y[0] = b /\ y[m] = w /\ Pairwise(m, F, t, y)
    BY <1>2, <1>4, <2>1 DEF FoldsTo
  <2>3. QED
    BY <2>1, <2>2
<1> DEFINE G == [i \in 1 .. n |-> [a \in A |-> F[<<a, s[i]>>]]]
<1>6. ASSUME NEW i \in 1 .. n PROVE u[i] = G[i][u[i - 1]] /\ y[i] = G[i][y[i - 1]]
  <2>1. i - 1 \in 0 .. n /\ i - 1 \in 0 .. n + 1 /\ i \in 1 .. n + 1
    OBVIOUS
  <2>2. u[i - 1] \in A /\ y[i - 1] \in A
    BY <2>1
  <2>3. u[i] = F[<<u[i - 1], s[i]>>] /\ y[i] = F[<<y[i - 1], s[i]>>]
    BY <1>2, <1>3, <1>5, <2>1 DEF Pairwise
  <2>4. QED
    BY <2>2, <2>3
<1>7. u[n] = y[n]
  <2>1. u[0] = y[0]
    BY <1>3, <1>5
  <2> HIDE DEF G
  <2>2. PICK H : H = G
    OBVIOUS
  <2>3. Steps(n, H, u) /\ Steps(n, H, y)
    BY <1>6, <2>2 DEF Steps
  <2>4. QED
    BY <1>1, <2>1, <2>3, StepsAgree, Zenon
<1>8. n + 1 \in 1 .. n + 1 /\ (n + 1) - 1 = n /\ n \in 0 .. n
  OBVIOUS
<1>9. QED
  BY <1>2, <1>3, <1>5, <1>7, <1>8 DEF Pairwise

\* Every fold comes to something.
LEMMA FoldsToExists ==
  ASSUME NEW A, NEW S, NEW F, NEW b \in A, NEW s \in Seq(S),
         PairsIn(A, S, F)
  PROVE  \E u \in [0 .. Len(s) -> A] : u[0] = b /\ Pairwise(Len(s), F, s, u)
<1>1. PICK n \in Nat : n = Len(s)
  BY LenProperties
<1> DEFINE G == [i \in 1 .. n |-> [a \in A |-> F[<<a, s[i]>>]]]
<1>2. ASSUME NEW i \in 1 .. n, NEW a \in A
      PROVE  G[i][a] = F[<<a, s[i]>>] /\ G[i][a] \in A
  <2>1. s[i] \in S
    BY <1>1, ElementOfSeq
  <2>2. QED
    BY <2>1 DEF PairsIn
<1>3. PICK H : H = G
  OBVIOUS
<1> HIDE DEF G
<1>4. \A i \in 1 .. n : \A a \in A : H[i][a] = F[<<a, s[i]>>] /\ H[i][a] \in A
  BY <1>2, <1>3
<1>5. PICK u \in [0 .. n -> A] : u[0] = b /\ Steps(n, H, u)
  <2>1. StepsIn(n, A, H)
    BY <1>4, Zenon DEF StepsIn
  <2>2. QED
    BY <1>1, <2>1, StepsExist, Zenon
<1>6. ASSUME NEW i \in 1 .. n PROVE u[i] = F[<<u[i - 1], s[i]>>]
  <2>1. u[i - 1] \in A
    BY <1>1, <1>5
  <2>2. u[i] = H[i][u[i - 1]]
    BY <1>5, Zenon DEF Steps
  <2>3. QED
    BY <1>4, <2>1, <2>2, Zenon
<1>7. Pairwise(n, F, s, u)
  BY <1>6 DEF Pairwise
<1>8. QED
  BY <1>1, <1>5, <1>7

-----------------------------------------------------------------------------
(* Concat *)

\* How Concat recurs.
ConcatUpTo(ss, u) ==
  u = [i \in 0 .. Len(ss) |-> IF i = 0 THEN << >> ELSE u[i - 1] \o ss[i]]

\* The step of Concat, for pairs.
Joins(T) == [p \in Seq(T) \X Seq(T) |-> p[1] \o p[2]]

LEMMA JoinsIs ==
  ASSUME NEW T, NEW a \in Seq(T), NEW b \in Seq(T)
  PROVE  Joins(T)[<<a, b>>] = a \o b /\ a \o b \in Seq(T)
BY ConcatProperties DEF Joins

\* Concat is a fold of Joins.
LEMMA ConcatFold ==
  ASSUME NEW T, NEW ss \in Seq(Seq(T))
  PROVE  FoldsTo(Seq(T), Joins(T), << >>, ss, Concat(ss))
<1>1. PICK n \in Nat : n = Len(ss)
  BY LenProperties
<1>2. << >> \in Seq(T) /\ \A i \in 1 .. n : ss[i] \in Seq(T)
  BY <1>1, ElementOfSeq, EmptySeq
<1>3. PICK J : J = Joins(T)
  OBVIOUS
<1>4. \A a \in Seq(T), b \in Seq(T) : J[<<a, b>>] = a \o b /\ J[<<a, b>>] \in Seq(T)
  BY <1>3, JoinsIs
<1>5. PICK u \in [0 .. n -> Seq(T)] : u[0] = << >> /\ Pairwise(n, J, ss, u)
  <2>1. PairsIn(Seq(T), Seq(T), J) /\ << >> \in Seq(T)
    BY <1>2, <1>4 DEF PairsIn
  <2>2. PICK e : e = << >>
    OBVIOUS
  <2>3. PICK A : A = Seq(T)
    OBVIOUS
  <2>4. e \in A /\ ss \in Seq(A) /\ PairsIn(A, A, J)
    BY <2>1, <2>2, <2>3, Zenon
  <2>5. \E u \in [0 .. Len(ss) -> A] : u[0] = e /\ Pairwise(Len(ss), J, ss, u)
    BY <2>4, FoldsToExists
  <2>6. QED
    BY <1>1, <2>2, <2>3, <2>5, Zenon
<1>6. \A i \in 1 .. n : i - 1 \in 0 .. n /\ i \in 0 .. n /\ i # 0
  OBVIOUS
<1>7. \A i \in 1 .. n : u[i] = u[i - 1] \o ss[i]
  <2>1. \A i \in 1 .. n : u[i] = J[<<u[i - 1], ss[i]>>]
    BY <1>5 DEF Pairwise
  <2>2. QED
    BY <1>2, <1>4, <1>6, <2>1
<1>8. u = [i \in 0 .. n |-> IF i = 0 THEN << >> ELSE u[i - 1] \o ss[i]]
  <2>1. u[0] = << >> /\ u = [i \in 0 .. n |-> u[i]]
    BY <1>5
  <2>2. ASSUME NEW i \in 0 .. n PROVE u[i] = IF i = 0 THEN << >> ELSE u[i - 1] \o ss[i]
    <3>1. i = 0 \/ (i # 0 /\ i \in 1 .. n)
      BY <1>1
    <3>2. QED
      BY <1>7, <2>1, <3>1, Zenon
  <2>3. QED
    BY <2>1, <2>2, Zenon
<1> DEFINE X == CHOOSE w : ConcatUpTo(ss, w)
<1>9. ConcatUpTo(ss, X)
  BY <1>1, <1>8 DEF ConcatUpTo
<1>10. Concat(ss) = X[n]
  BY <1>1 DEF Concat, Fold, ConcatUpTo
<1> HIDE DEF X
<1>11. PICK x : x = X
  OBVIOUS
<1>12. x = [i \in 0 .. n |-> IF i = 0 THEN << >> ELSE x[i - 1] \o ss[i]]
  BY <1>1, <1>9, <1>11 DEF ConcatUpTo
<1>13. x[0] = << >>
  BY <1>12
<1>14. \A i \in 1 .. n : x[i] = x[i - 1] \o ss[i]
  BY <1>6, <1>12
<1>15. x = [i \in 0 .. n |-> x[i]]
  BY <1>12
<1>16. \A i \in 1 .. n : x[i - 1] \in Seq(T) => x[i] \in Seq(T)
  BY <1>2, <1>14, ConcatProperties
<1>17. x \in [0 .. n -> Seq(T)]
  BY <1>2, <1>13, <1>15, <1>16, FoldStays
<1>18. \A i \in 1 .. n : x[i] = J[<<x[i - 1], ss[i]>>]
  BY <1>2, <1>4, <1>6, <1>14, <1>17
<1>19. QED
  BY <1>1, <1>3, <1>10, <1>11, <1>13, <1>17, <1>18 DEF FoldsTo, Pairwise

\* Concat of no sequence, and of one more sequence.
LEMMA ConcatEmpty == Concat(<< >>) = << >>
<1>1. << >> \in Seq(Seq({}))
  BY EmptySeq
<1>2. QED
  BY <1>1, ConcatFold, FoldsToEmpty

LEMMA ConcatAppend ==
  ASSUME NEW T, NEW ss \in Seq(Seq(T)), NEW s \in Seq(T)
  PROVE  Concat(Append(ss, s)) = Concat(ss) \o s /\ Concat(ss) \in Seq(T)
<1>1. Append(ss, s) \in Seq(Seq(T))
  BY AppendProperties
<1>2. PICK t : t = Append(ss, s)
  OBVIOUS
<1>3. PICK J : J = Joins(T)
  OBVIOUS
<1>4. PICK v : v = Concat(ss)
  OBVIOUS
<1>5. PICK w : w = Concat(t)
  OBVIOUS
<1>6. FoldsTo(Seq(T), J, << >>, ss, v) /\ FoldsTo(Seq(T), J, << >>, Append(ss, s), w)
  BY <1>1, <1>2, <1>3, <1>4, <1>5, ConcatFold
<1>7. v \in Seq(T) /\ w = J[<<v, s>>]
  BY <1>6, FoldsToAppend
<1>8. QED
  BY <1>2, <1>3, <1>4, <1>5, <1>7, JoinsIs

\* The function of a fold stays in A when it is as F says as long as it has.
LEMMA FoldFrom ==
  ASSUME NEW A, NEW S, NEW F, NEW b \in A, NEW s \in Seq(S), PairsIn(A, S, F), NEW x,
         x = [i \in 0 .. Len(s) |-> x[i]], x[0] = b,
         \A i \in 1 .. Len(s) : x[i - 1] \in A => x[i] = F[<<x[i - 1], s[i]>>]
  PROVE  FoldsTo(A, F, b, s, x[Len(s)])
<1>1. PICK n \in Nat : n = Len(s)
  BY LenProperties
<1>2. \A i \in 1 .. n : s[i] \in S
  BY <1>1, ElementOfSeq
<1>3. \A i \in 1 .. n : x[i - 1] \in A => x[i] = F[<<x[i - 1], s[i]>>]
  BY <1>1
<1>4. \A i \in 1 .. n : x[i - 1] \in A => x[i] \in A
  BY <1>2, <1>3 DEF PairsIn
<1>5. x = [i \in 0 .. n |-> x[i]] /\ x[0] \in A
  BY <1>1
<1>6. x \in [0 .. n -> A]
  BY <1>1, <1>4, <1>5, FoldStays, Zenon
<1>7. \A i \in 1 .. n : x[i - 1] \in A
  BY <1>6
<1>8. Pairwise(n, F, s, x)
  BY <1>3, <1>7, Zenon DEF Pairwise
<1>9. QED
  BY <1>1, <1>6, <1>8, Zenon DEF FoldsTo

-----------------------------------------------------------------------------
(* Totals *)

\* F of each item of s, and all of it put together.
Each(F, s) == [i \in DOMAIN s |-> F[s[i]]]

Total(F, s) == Concat(Each(F, s))

LEMMA EachIn ==
  ASSUME NEW S, NEW T, NEW F \in [S -> T], NEW s \in Seq(S)
  PROVE  Each(F, s) \in Seq(T) /\ Len(Each(F, s)) = Len(s) /\ DOMAIN s = 1 .. Len(s)
         /\ \A i \in 1 .. Len(s) : Each(F, s)[i] = F[s[i]]
<1>1. PICK n \in Nat : n = Len(s) /\ DOMAIN s = 1 .. n
  BY LenProperties
<1>2. \A i \in 1 .. n : s[i] \in S
  BY <1>1, ElementOfSeq
<1>3. \A i \in 1 .. n : F[s[i]] \in T
  BY <1>2
<1>4. Each(F, s) = [i \in 1 .. n |-> F[s[i]]]
  BY <1>1 DEF Each
<1>5. QED
  BY <1>1, <1>3, <1>4

LEMMA EachAppend ==
  ASSUME NEW S, NEW T, NEW F \in [S -> T], NEW s \in Seq(S), NEW x \in S
  PROVE  Each(F, Append(s, x)) = Append(Each(F, s), F[x])
<1>1. PICK n \in Nat : n = Len(s)
  BY LenProperties
<1>2. PICK t \in Seq(S) : t = Append(s, x)
  BY AppendProperties
<1>3. Len(t) = n + 1 /\ t[n + 1] = x /\ \A i \in 1 .. n : t[i] = s[i]
  BY <1>1, <1>2, AppendProperties
<1>4. PICK a \in Seq(T) : a = Each(F, s) /\ Len(a) = n /\ \A i \in 1 .. n : a[i] = F[s[i]]
  <2>1. Each(F, s) \in Seq(T) /\ Len(Each(F, s)) = Len(s)
        /\ \A i \in 1 .. Len(s) : Each(F, s)[i] = F[s[i]]
    <3>1. PICK r \in Seq(S) : r = s
      OBVIOUS
    <3>2. Each(F, r) \in Seq(T) /\ Len(Each(F, r)) = Len(r)
      BY EachIn
    <3>3. \A i \in 1 .. Len(r) : Each(F, r)[i] = F[r[i]]
      BY LenProperties DEF Each
    <3>4. QED
      BY <3>1, <3>2, <3>3, Zenon
  <2>2. QED
    BY <1>1, <2>1
<1>5. PICK b \in Seq(T) :
        b = Each(F, t) /\ Len(b) = n + 1 /\ \A i \in 1 .. n + 1 : b[i] = F[t[i]]
  <2>1. Each(F, t) \in Seq(T) /\ Len(Each(F, t)) = n + 1
        /\ \A i \in 1 .. n + 1 : Each(F, t)[i] = F[t[i]]
    <3>1. Each(F, t) \in Seq(T) /\ Len(Each(F, t)) = Len(t)
          /\ \A i \in 1 .. Len(t) : Each(F, t)[i] = F[t[i]]
      BY EachIn
    <3>2. QED
      BY <1>3, <3>1
  <2>2. QED
    BY <2>1
<1>6. PICK y \in T : y = F[x]
  OBVIOUS
<1>7. PICK c \in Seq(T) : c = Append(a, y) /\ Len(c) = n + 1 /\ c[n + 1] = y
                           /\ \A i \in 1 .. n : c[i] = a[i]
  <2>1. Append(a, y) \in Seq(T) /\ Len(Append(a, y)) = Len(a) + 1
        /\ Append(a, y)[Len(a) + 1] = y /\ \A i \in 1 .. Len(a) : Append(a, y)[i] = a[i]
    BY AppendProperties
  <2>2. QED
    BY <1>4, <2>1
<1>8. ASSUME NEW i \in 1 .. n + 1 PROVE b[i] = c[i]
  <2>1. CASE i = n + 1
    BY <1>1, <1>3, <1>5, <1>6, <1>7, <2>1
  <2>2. CASE i \in 1 .. n
    BY <1>3, <1>4, <1>5, <1>7, <2>2
  <2>3. QED
    BY <1>1, <2>1, <2>2
<1>9. b = c
  BY <1>5, <1>7, <1>8, SeqEqual
<1>10. QED
  BY <1>2, <1>4, <1>5, <1>6, <1>7, <1>9

\* The total of nothing, of one more item, of one item and of two sequences.
LEMMA TotalEmpty ==
  ASSUME NEW F
  PROVE  Total(F, << >>) = << >>
<1>1. Each(F, << >>) = << >>
  BY DEF Each
<1>2. QED
  BY <1>1, ConcatEmpty DEF Total

\* F takes members of S to sequences over T.
Maps(S, T, F) == F \in [S -> Seq(T)]

LEMMA TotalAppend ==
  ASSUME NEW S, NEW T, NEW F, Maps(S, T, F), NEW s \in Seq(S), NEW x \in S
  PROVE  Total(F, s) \in Seq(T) /\ Total(F, Append(s, x)) = Total(F, s) \o F[x]
<1>1. F[x] \in Seq(T)
  BY DEF Maps
<1>2. Each(F, s) \in Seq(Seq(T))
  BY EachIn DEF Maps
<1>3. Each(F, Append(s, x)) = Append(Each(F, s), F[x])
  BY EachAppend DEF Maps
<1>4. QED
  BY <1>1, <1>2, <1>3, ConcatAppend DEF Total

LEMMA TotalIn ==
  ASSUME NEW S, NEW T, NEW F, Maps(S, T, F), NEW s \in Seq(S)
  PROVE  Total(F, s) \in Seq(T)
<1>1. Each(F, s) \in Seq(Seq(T)) /\ << >> \in Seq(T)
  BY EachIn, EmptySeq DEF Maps
<1>2. QED
  BY <1>1, ConcatAppend DEF Total

LEMMA TotalOne ==
  ASSUME NEW S, NEW T, NEW F, Maps(S, T, F), NEW x \in S
  PROVE  Total(F, <<x>>) = F[x]
<1>1. << >> \in Seq(S) /\ Append(<< >>, x) = <<x>>
  BY EmptySeq
<1>2. Total(F, <<x>>) = << >> \o F[x]
  <2>1. PICK e \in Seq(S) : e = << >>
    BY <1>1
  <2>2. Total(F, Append(e, x)) = Total(F, e) \o F[x]
    BY TotalAppend
  <2>3. QED
    BY <1>1, <2>1, <2>2, TotalEmpty, Zenon
<1>3. F[x] \in Seq(T)
  BY DEF Maps
<1>4. QED
  BY <1>2, <1>3, ConcatEmptySeq

LEMMA AppendConcat ==
  ASSUME NEW S, NEW s \in Seq(S), NEW t \in Seq(S), NEW x \in S
  PROVE  s \o Append(t, x) = Append(s \o t, x)
<1>1. <<x>> \in Seq(S) /\ Append(t, x) = t \o <<x>> /\ s \o t \in Seq(S)
  BY AppendIsConcat, ConcatProperties
<1>2. Append(s \o t, x) = (s \o t) \o <<x>>
  BY <1>1, AppendIsConcat
<1>3. QED
  BY <1>1, <1>2, ConcatAssociative

LEMMA TotalConcat ==
  ASSUME NEW S, NEW T, NEW F, Maps(S, T, F), NEW s \in Seq(S), NEW t \in Seq(S)
  PROVE  Total(F, s \o t) = Total(F, s) \o Total(F, t)
<1> DEFINE P == {r \in Seq(S) : Total(F, s \o r) = Total(F, s) \o Total(F, r)}
<1>1. << >> \in P
  BY EmptySeq, ConcatEmptySeq, TotalEmpty, TotalIn
<1>2. ASSUME NEW r \in Seq(S), NEW x \in S, r \in P PROVE Append(r, x) \in P
  <2>1. Append(r, x) \in Seq(S) /\ s \o r \in Seq(S) /\ s \o Append(r, x) = Append(s \o r, x)
    BY AppendProperties, ConcatProperties, AppendConcat
  <2>2. Total(F, s \o Append(r, x)) = (Total(F, s) \o Total(F, r)) \o F[x]
    <3>1. PICK w \in Seq(S) : w = s \o r
      BY <2>1
    <3>2. Total(F, Append(w, x)) = Total(F, w) \o F[x]
      BY <2>1, TotalAppend
    <3>3. QED
      BY <1>2, <2>1, <3>1, <3>2, Zenon
  <2>3. Total(F, s) \in Seq(T) /\ Total(F, r) \in Seq(T) /\ F[x] \in Seq(T)
    BY TotalIn DEF Maps
  <2>4. Total(F, Append(r, x)) = Total(F, r) \o F[x]
    BY TotalAppend
  <2>5. (Total(F, s) \o Total(F, r)) \o F[x] = Total(F, s) \o (Total(F, r) \o F[x])
    <3>1. PICK a, b, c : a = Total(F, s) /\ b = Total(F, r) /\ c = F[x]
      OBVIOUS
    <3>2. a \in Seq(T) /\ b \in Seq(T) /\ c \in Seq(T)
      BY <2>3, <3>1
    <3>3. (a \o b) \o c = a \o (b \o c)
      BY <3>2, ConcatAssociative
    <3>4. QED
      BY <3>1, <3>3, Zenon
  <2>6. QED
    BY <2>1, <2>2, <2>4, <2>5, Zenon
<1>3. Seq(S) \subseteq P
  <2> HIDE DEF P
  <2>1. QED
    BY <1>1, <1>2, EverySequence
<1>4. QED
  BY <1>3

-----------------------------------------------------------------------------
(* Statements and groups *)

\* The statements of a group that are no texts.
Rest(rest) == rest \subseteq Exps \cup Holders

\* The state of a group while it is built.
GroupState(rest) == [s : Seq(Flat(rest)), buf : Seq(Piece)]

\* No two texts are next to each other, and none is empty.
Loose(s) ==
  /\ \A i \in 1 .. Len(s) : s[i].op = "str" => s[i].s # << >>
  /\ \A i \in 1 .. Len(s) - 1 : s[i].op = "str" => s[i + 1].op # "str"

\* The last statement is a text.
EndsInText(s) == s # << >> /\ s[Len(s)].op = "str"

\* A group whose statements are loose, its last text being in the buffer.
Tidy(rest) == {g \in GroupState(rest) : Loose(g.s) /\ ~ EndsInText(g.s)}

LEMMA StrIs ==
  ASSUME NEW p \in Seq(Piece), NEW rest
  PROVE  Str(p) \in Flat(rest) /\ Str(p).op = "str" /\ Str(p).s = p /\ Str(p) \in Strs
BY DEF Str, Strs, Flat

\* What is in a group is a text or one of the rest.
LEMMA FlatKind ==
  ASSUME NEW rest, Rest(rest), NEW st \in Flat(rest)
  PROVE  /\ st.op \notin {"empty", "group"}
         /\ st.op = "str" => st.s \in Seq(Piece) /\ st = Str(st.s)
         /\ st.op # "str" => st \in rest
BY DEF Rest, Flat, Strs, Exps, Holders, Str

\* A statement is a text, one of the rest, empty or a group.
LEMMA StatementKind ==
  ASSUME NEW rest, Rest(rest), NEW st \in Statements(rest)
  PROVE  /\ st \notin Flat(rest) <=> st.op \in {"empty", "group"}
         /\ st.op = "group" => st.s \in Seq(Flat(rest))
<1>1. CASE st \in Flat(rest)
  BY <1>1, FlatKind
<1>2. CASE st \in [op : {"empty"}]
  BY <1>2, FlatKind
<1>3. CASE st \in [op : {"group"}, s : Seq(Flat(rest))]
  BY <1>3, FlatKind
<1>4. QED
  BY <1>1, <1>2, <1>3 DEF Statements

LEMMA StatementsGrow ==
  ASSUME NEW rest, NEW more, rest \subseteq more
  PROVE  Statements(rest) \subseteq Statements(more)
<1>1. Flat(rest) \subseteq Flat(more)
  BY DEF Flat
<1>2. Seq(Flat(rest)) \subseteq Seq(Flat(more))
  BY <1>1, SeqMonotonic
<1>3. QED
  BY <1>1, <1>2 DEF Statements

\* No statement is nil.
LEMMA NotNil ==
  ASSUME NEW rest, Rest(rest)
  PROVE  Nil \notin Statements(rest) /\ Statements(rest) \subseteq Statement
<1>1. Statements(rest) \subseteq Statement
  BY StatementsGrow DEF Rest, Statement
<1>2. QED
  BY <1>1, NilAssumption

\* A statement behind a loose sequence leaves it loose, unless it is a second text.
LEMMA LooseAppend ==
  ASSUME NEW S, NEW s \in Seq(S), NEW x \in S, Loose(s), x.op = "str" => x.s # << >>,
         ~ EndsInText(s) \/ x.op # "str"
  PROVE  Loose(Append(s, x)) /\ (x.op # "str" => ~ EndsInText(Append(s, x)))
<1>1. PICK n \in Nat : n = Len(s)
  BY LenProperties
<1>2. PICK t \in Seq(S) : t = Append(s, x)
  BY AppendProperties
<1>3. Len(t) = n + 1 /\ t[n + 1] = x /\ \A i \in 1 .. n : t[i] = s[i]
  BY <1>1, <1>2, AppendProperties
<1>4. n # 0 => s # << >>
  BY <1>1, EmptySeq
<1>5. ASSUME NEW i \in 1 .. n + 1 PROVE t[i].op = "str" => t[i].s # << >>
  BY <1>1, <1>3 DEF Loose
<1>6. ASSUME NEW i \in 1 .. (n + 1) - 1, t[i].op = "str" PROVE t[i + 1].op # "str"
  <2>1. i \in 1 .. n
    BY <1>1
  <2>2. CASE i = n
    BY <1>1, <1>3, <1>4, <1>6, <2>1, <2>2 DEF EndsInText
  <2>3. CASE i # n
    <3>1. i \in 1 .. n - 1 /\ i + 1 \in 1 .. n
      BY <2>1, <2>3
    <3>2. QED
      BY <1>1, <1>3, <1>6, <2>1, <3>1 DEF Loose
  <2>4. QED
    BY <2>2, <2>3
<1>7. QED
  BY <1>2, <1>3, <1>5, <1>6 DEF Loose, EndsInText

\* Flush puts the buffer behind the statements.
LEMMA FlushedIn ==
  ASSUME NEW rest, NEW g \in Tidy(rest)
  PROVE  Flushed(g) \in GroupState(rest) /\ Loose(Flushed(g).s) /\ Flushed(g).buf = << >>
<1>1. g.s \in Seq(Flat(rest)) /\ g.buf \in Seq(Piece) /\ Loose(g.s) /\ ~ EndsInText(g.s)
  BY DEF Tidy, GroupState
<1>2. CASE g.buf = << >>
  BY <1>1, <1>2 DEF Flushed, GroupState
<1>3. CASE g.buf # << >>
  <2>1. PICK x \in Flat(rest) : x = Str(g.buf) /\ x.op = "str" /\ x.s = g.buf
    BY <1>1, StrIs
  <2>2. PICK s \in Seq(Flat(rest)) : s = g.s
    BY <1>1
  <2>3. Append(s, x) \in Seq(Flat(rest)) /\ Loose(Append(s, x))
    BY <1>1, <1>3, <2>1, <2>2, AppendProperties, LooseAppend
  <2>4. QED
    BY <1>3, <2>1, <2>2, <2>3, EmptySeq DEF Flushed, GroupState
<1>4. QED
  BY <1>2, <1>3

\* Adding to a tidy group leaves it tidy.
LEMMA AddedIn ==
  ASSUME NEW rest, Rest(rest), NEW g \in Tidy(rest), NEW st \in Flat(rest)
  PROVE  Added(g, st) \in Tidy(rest)
<1>1. g.s \in Seq(Flat(rest)) /\ g.buf \in Seq(Piece) /\ Loose(g.s) /\ ~ EndsInText(g.s)
      /\ g = [s |-> g.s, buf |-> g.buf]
  BY DEF Tidy, GroupState
<1>2. CASE st.op = "str"
  <2>1. st.s \in Seq(Piece)
    BY <1>2, FlatKind
  <2>2. g.buf \o st.s \in Seq(Piece)
    BY <1>1, <2>1, ConcatProperties
  <2>3. Added(g, st) = [s |-> g.s, buf |-> g.buf \o st.s]
    BY <1>1, <1>2 DEF Added
  <2>4. QED
    BY <1>1, <2>2, <2>3 DEF Tidy, GroupState
<1>3. CASE st.op # "str"
  <2>1. PICK s \in Seq(Flat(rest)) : s = Flushed(g).s /\ Loose(s)
    BY FlushedIn DEF GroupState
  <2>2. PICK t \in Seq(Flat(rest)) : t = Append(s, st) /\ Loose(t) /\ ~ EndsInText(t)
    BY <1>3, <2>1, AppendProperties, LooseAppend
  <2>3. Added(g, st) = [s |-> t, buf |-> << >>]
    BY <1>3, <2>1, <2>2 DEF Added
  <2>4. PICK e \in Seq(Piece) : e = << >>
    BY EmptySeq
  <2>5. [s |-> t, buf |-> e] \in GroupState(rest)
    BY DEF GroupState
  <2>6. PICK a : a = Added(g, st)
    OBVIOUS
  <2>7. a \in GroupState(rest) /\ a.s = t
    BY <2>3, <2>4, <2>5, <2>6
  <2>8. QED
    BY <2>2, <2>6, <2>7 DEF Tidy
<1>4. QED
  BY <1>2, <1>3

\* How the fold of Added recurs.
AddedUpTo(b, s, u) ==
  u = [i \in 0 .. Len(s) |-> IF i = 0 THEN b ELSE Added(u[i - 1], s[i])]

\* The step of that fold, for pairs.
Adds(rest) == [p \in Tidy(rest) \X Flat(rest) |-> Added(p[1], p[2])]

LEMMA AddsIs ==
  ASSUME NEW rest, Rest(rest), NEW g \in Tidy(rest), NEW st \in Flat(rest)
  PROVE  Adds(rest)[<<g, st>>] = Added(g, st) /\ Adds(rest)[<<g, st>>] \in Tidy(rest)
BY AddedIn DEF Adds

\* Adding statements one after the other is a fold.
LEMMA AddedFold ==
  ASSUME NEW rest, Rest(rest), NEW b \in Tidy(rest), NEW s \in Seq(Flat(rest))
  PROVE  FoldsTo(Tidy(rest), Adds(rest), b, s, Fold(Added, b, s))
<1>1. PICK n \in Nat : n = Len(s)
  BY LenProperties
<1>2. PICK A : A = Tidy(rest)
  OBVIOUS
<1>3. PICK S : S = Flat(rest)
  OBVIOUS
<1>4. PICK c \in A : c = b
  BY <1>2
<1>5. PICK F : F = Adds(rest)
  OBVIOUS
<1>6. \A i \in 1 .. n : s[i] \in S
  BY <1>1, <1>3, ElementOfSeq
<1>7. \A a \in A, x \in S : F[<<a, x>>] = Added(a, x) /\ F[<<a, x>>] \in A
  BY <1>2, <1>3, <1>5, AddsIs
<1>8. PairsIn(A, S, F) /\ s \in Seq(S)
  BY <1>3, <1>7 DEF PairsIn
<1>9. PICK u \in [0 .. n -> A] : u[0] = c /\ Pairwise(n, F, s, u)
  <2>1. \E u \in [0 .. Len(s) -> A] : u[0] = c /\ Pairwise(Len(s), F, s, u)
    BY <1>4, <1>8, FoldsToExists
  <2>2. QED
    BY <1>1, <2>1, Zenon
<1>10. ASSUME NEW i \in 0 .. n PROVE u[i] = IF i = 0 THEN b ELSE Added(u[i - 1], s[i])
  <2>1. CASE i = 0
    BY <1>4, <1>9, <2>1, Zenon
  <2>2. CASE i # 0
    <3>1. i \in 1 .. n /\ i - 1 \in 0 .. n
      BY <1>1, <2>2
    <3>2. u[i - 1] \in A /\ s[i] \in S
      BY <1>6, <3>1
    <3>3. u[i] = F[<<u[i - 1], s[i]>>]
      BY <1>9, <3>1, Zenon DEF Pairwise
    <3>4. QED
      BY <1>7, <2>2, <3>2, <3>3, Zenon
  <2>3. QED
    BY <2>1, <2>2, Zenon
<1>11. u = [i \in 0 .. n |-> IF i = 0 THEN b ELSE Added(u[i - 1], s[i])]
  <2>1. u = [i \in 0 .. n |-> u[i]]
    OBVIOUS
  <2>2. QED
    BY <1>10, <2>1, Zenon
<1> DEFINE X == CHOOSE w : AddedUpTo(b, s, w)
<1>12. AddedUpTo(b, s, X)
  BY <1>1, <1>11, Zenon DEF AddedUpTo
<1>13. Fold(Added, b, s) = X[n]
  BY <1>1 DEF Fold, AddedUpTo
<1> HIDE DEF X
<1>14. PICK y : y = X
  OBVIOUS
<1>15. y = [i \in 0 .. n |-> IF i = 0 THEN b ELSE Added(y[i - 1], s[i])]
  BY <1>1, <1>12, <1>14, Zenon DEF AddedUpTo
<1>16. y[0] = c
  BY <1>4, <1>15
<1>17. y = [i \in 0 .. n |-> y[i]]
  BY <1>15
<1>18. ASSUME NEW i \in 1 .. n, y[i - 1] \in A PROVE y[i] = F[<<y[i - 1], s[i]>>]
  <2>1. i \in 0 .. n /\ i # 0
    BY <1>1
  <2>2. y[i] = Added(y[i - 1], s[i])
    BY <1>15, <2>1
  <2>3. QED
    BY <1>6, <1>7, <1>18, <2>2, Zenon
<1>19. FoldsTo(A, F, c, s, y[n])
  <2>1. y = [i \in 0 .. Len(s) |-> y[i]]
        /\ \A i \in 1 .. Len(s) : y[i - 1] \in A => y[i] = F[<<y[i - 1], s[i]>>]
    BY <1>1, <1>17, <1>18, Zenon
  <2>2. FoldsTo(A, F, c, s, y[Len(s)])
    BY <1>4, <1>8, <1>16, <2>1, FoldFrom, Zenon
  <2>3. QED
    BY <1>1, <2>2, Zenon
<1>20. QED
  BY <1>2, <1>4, <1>5, <1>13, <1>14, <1>19, Zenon

\* F gives texts their pieces, so that two texts next to each other are as good as one.
Additive(rest, T, F) ==
  /\ Maps(Flat(rest), T, F)
  /\ F[Str(<< >>)] = << >>
  /\ \A a, b \in Seq(Piece) : F[Str(a \o b)] = F[Str(a)] \o F[Str(b)]

\* What a group that is not finished comes to.
Held(F, g) == Total(F, g.s) \o F[Str(g.buf)]

LEMMA HeldIn ==
  ASSUME NEW rest, NEW T, NEW F, Additive(rest, T, F), NEW g \in Tidy(rest)
  PROVE  Total(F, g.s) \in Seq(T) /\ F[Str(g.buf)] \in Seq(T) /\ Held(F, g) \in Seq(T)
<1>1. PICK s \in Seq(Flat(rest)), p \in Seq(Piece) : s = g.s /\ p = g.buf
  BY DEF Tidy, GroupState
<1>2. Total(F, s) \in Seq(T)
  BY TotalIn DEF Additive
<1>3. F[Str(p)] \in Seq(T)
  BY StrIs DEF Additive, Maps
<1>4. QED
  BY <1>1, <1>2, <1>3, ConcatProperties DEF Held

\* A flush changes nothing.
LEMMA HeldFlushed ==
  ASSUME NEW rest, NEW T, NEW F, Additive(rest, T, F), NEW g \in Tidy(rest)
  PROVE  Total(F, Flushed(g).s) = Held(F, g)
<1>1. PICK s \in Seq(Flat(rest)), p \in Seq(Piece) : s = g.s /\ p = g.buf
  BY DEF Tidy, GroupState
<1>2. Total(F, s) \in Seq(T)
  BY <1>1, HeldIn
<1>3. CASE p = << >>
  <2>1. Held(F, g) = Total(F, s) \o << >>
    BY <1>1, <1>3 DEF Held, Additive
  <2>2. Flushed(g).s = s
    BY <1>1, <1>3 DEF Flushed
  <2>3. QED
    BY <1>2, <2>1, <2>2, ConcatEmptySeq
<1>4. CASE p # << >>
  <2>1. PICK x \in Flat(rest) : x = Str(p)
    BY StrIs
  <2>2. Flushed(g).s = Append(s, x)
    BY <1>1, <1>4, <2>1 DEF Flushed
  <2>3. Total(F, Append(s, x)) = Total(F, s) \o F[x]
    BY TotalAppend DEF Additive
  <2>4. QED
    BY <1>1, <2>1, <2>2, <2>3 DEF Held
<1>5. QED
  BY <1>3, <1>4

\* Added adds what the statement comes to.
LEMMA HeldAdded ==
  ASSUME NEW rest, Rest(rest), NEW T, NEW F, Additive(rest, T, F),
         NEW g \in Tidy(rest), NEW st \in Flat(rest)
  PROVE  Held(F, Added(g, st)) = Held(F, g) \o F[st]
<1>1. PICK s \in Seq(Flat(rest)), p \in Seq(Piece) : s = g.s /\ p = g.buf
  BY DEF Tidy, GroupState
<1>2. F[st] \in Seq(T)
  BY DEF Additive, Maps
<1>3. CASE st.op = "str"
  <2>1. PICK q \in Seq(Piece) : q = st.s /\ st = Str(q)
    BY <1>3, FlatKind
  <2>2. Added(g, st).s = s /\ Added(g, st).buf = p \o q
    <3>1. g = [s |-> s, buf |-> p]
      BY <1>1 DEF Tidy, GroupState
    <3>2. QED
      BY <1>3, <2>1, <3>1 DEF Added
  <2>3. F[Str(p \o q)] = F[Str(p)] \o F[Str(q)]
    BY DEF Additive
  <2>4. PICK a, b, c : a = Total(F, s) /\ b = F[Str(p)] /\ c = F[Str(q)]
    OBVIOUS
  <2>5. a \in Seq(T) /\ b \in Seq(T) /\ c \in Seq(T)
    BY <1>1, <1>2, <2>1, <2>4, HeldIn
  <2>6. (a \o b) \o c = a \o (b \o c)
    BY <2>5, ConcatAssociative
  <2>7. Held(F, Added(g, st)) = a \o (b \o c)
    BY <2>2, <2>3, <2>4 DEF Held
  <2>8. Held(F, g) = a \o b
    BY <1>1, <2>4 DEF Held
  <2>9. QED
    BY <2>1, <2>4, <2>6, <2>7, <2>8
<1>4. CASE st.op # "str"
  <2>1. PICK r \in Seq(Flat(rest)) : r = Flushed(g).s
    BY FlushedIn DEF GroupState
  <2>2. PICK t \in Seq(Flat(rest)) : t = Append(r, st)
    BY AppendProperties
  <2>3. Added(g, st).s = t /\ Added(g, st).buf = << >>
    BY <1>4, <2>1, <2>2 DEF Added
  <2>4. Total(F, t) = Total(F, r) \o F[st] /\ Total(F, t) \in Seq(T)
    <3>1. Maps(Flat(rest), T, F)
      BY DEF Additive
    <3>2. Total(F, t) \in Seq(T)
      BY <3>1, TotalIn
    <3>3. QED
      BY <2>2, <3>1, <3>2, TotalAppend
  <2>5. Total(F, r) = Held(F, g)
    BY <2>1, HeldFlushed
  <2>6. Held(F, Added(g, st)) = Total(F, t) \o << >>
    BY <2>3 DEF Held, Additive
  <2>7. QED
    BY <2>4, <2>5, <2>6, ConcatEmptySeq
<1>5. QED
  BY <1>3, <1>4

\* A group of flat statements.
LEMMA AddedAll ==
  ASSUME NEW rest, Rest(rest), NEW g \in Tidy(rest), NEW s \in Seq(Flat(rest))
  PROVE  /\ Fold(Added, g, s) \in Tidy(rest)
         /\ \A T, F : Additive(rest, T, F) =>
              Held(F, Fold(Added, g, s)) = Held(F, g) \o Total(F, s)
<1> DEFINE P == {r \in Seq(Flat(rest)) :
                   /\ Fold(Added, g, r) \in Tidy(rest)
                   /\ \A T, F : Additive(rest, T, F) =>
                        Held(F, Fold(Added, g, r)) = Held(F, g) \o Total(F, r)}
<1>1. << >> \in P
  <2>1. PICK e \in Seq(Flat(rest)) : e = << >>
    BY EmptySeq
  <2>2. Fold(Added, g, e) = g
    <3>1. FoldsTo(Tidy(rest), Adds(rest), g, e, Fold(Added, g, e))
      BY AddedFold
    <3>2. QED
      BY <2>1, <3>1, FoldsToEmpty
  <2>3. ASSUME NEW T, NEW F, Additive(rest, T, F) PROVE Held(F, g) = Held(F, g) \o Total(F, e)
    BY <2>1, <2>3, TotalEmpty, HeldIn, ConcatEmptySeq
  <2>4. QED
    BY <2>1, <2>2, <2>3
<1>2. ASSUME NEW r \in Seq(Flat(rest)), NEW x \in Flat(rest), r \in P PROVE Append(r, x) \in P
  <2>1. PICK t \in Seq(Flat(rest)) : t = Append(r, x)
    BY AppendProperties
  <2>2. PICK v : v = Fold(Added, g, r)
    OBVIOUS
  <2>3. PICK w : w = Fold(Added, g, t)
    OBVIOUS
  <2>4. FoldsTo(Tidy(rest), Adds(rest), g, r, v) /\ FoldsTo(Tidy(rest), Adds(rest), g, t, w)
    BY <2>2, <2>3, AddedFold
  <2>5. v \in Tidy(rest) /\ w = Adds(rest)[<<v, x>>]
    BY <2>1, <2>4, FoldsToAppend
  <2>6. w = Added(v, x) /\ w \in Tidy(rest)
    BY <2>5, AddsIs
  <2>7. ASSUME NEW T, NEW F, Additive(rest, T, F) PROVE Held(F, w) = Held(F, g) \o Total(F, t)
    <3>1. Held(F, w) = Held(F, v) \o F[x]
      BY <2>5, <2>6, <2>7, HeldAdded
    <3>2. Held(F, v) = Held(F, g) \o Total(F, r)
      BY <1>2, <2>2, <2>7
    <3>3. Total(F, t) = Total(F, r) \o F[x]
      BY <2>1, <2>7, TotalAppend DEF Additive
    <3>4. PICK a, b, c : a = Held(F, g) /\ b = Total(F, r) /\ c = F[x]
      OBVIOUS
    <3>5. a \in Seq(T)
      BY <2>7, <3>4, HeldIn
    <3>6. b \in Seq(T) /\ c \in Seq(T)
      BY <2>7, <3>4, TotalIn DEF Additive, Maps
    <3>7. (a \o b) \o c = a \o (b \o c)
      BY <3>5, <3>6, ConcatAssociative
    <3>8. QED
      BY <3>1, <3>2, <3>3, <3>4, <3>7
  <2>8. QED
    BY <2>1, <2>3, <2>6, <2>7
<1>3. Seq(Flat(rest)) \subseteq P
  <2> HIDE DEF P
  <2>1. QED
    BY <1>1, <1>2, EverySequence
<1>4. QED
  BY <1>3

\* What a group is given.
Given(rest) == Statements(rest) \cup {Nil}

\* What a statement, or nil, adds to a group.
Says(F, st) ==
  IF st = Nil \/ st.op = "empty" THEN << >>
  ELSE IF st.op = "group" THEN Total(F, st.s)
  ELSE F[st]

LEMMA SaysIn ==
  ASSUME NEW rest, Rest(rest), NEW T, NEW F, Additive(rest, T, F), NEW st \in Given(rest)
  PROVE  Says(F, st) \in Seq(T)
<1>1. CASE st = Nil
  BY <1>1, EmptySeq DEF Says
<1>2. CASE st \in Statements(rest)
  <2>1. CASE st.op = "empty"
    BY <2>1, EmptySeq DEF Says
  <2>2. CASE st.op = "group"
    <3>1. Total(F, st.s) \in Seq(T)
      BY <1>2, <2>2, StatementKind, TotalIn DEF Additive
    <3>2. QED
      BY <1>2, <2>2, <3>1, NotNil DEF Says
  <2>3. CASE st.op \notin {"empty", "group"}
    BY <1>2, <2>3, StatementKind, NotNil DEF Says, Additive, Maps
  <2>4. QED
    BY <2>1, <2>2, <2>3
<1>3. QED
  BY <1>1, <1>2 DEF Given

\* groupStatement.Append adds what the statement comes to, and leaves the group tidy.
LEMMA GroupAppendIn ==
  ASSUME NEW rest, Rest(rest), NEW g \in Tidy(rest), NEW st \in Given(rest)
  PROVE  /\ GroupAppend(g, st) \in Tidy(rest)
         /\ \A T, F : Additive(rest, T, F) =>
              Held(F, GroupAppend(g, st)) = Held(F, g) \o Says(F, st)
<1>1. CASE st = Nil \/ st.op = "empty"
  <2>1. GroupAppend(g, st) = g
    BY <1>1 DEF GroupAppend
  <2>2. ASSUME NEW T, NEW F, Additive(rest, T, F) PROVE Held(F, g) = Held(F, g) \o Says(F, st)
    <3>1. Held(F, g) \in Seq(T)
      BY <2>2, HeldIn
    <3>2. Says(F, st) = << >>
      BY <1>1 DEF Says
    <3>3. QED
      BY <3>1, <3>2, ConcatEmptySeq
  <2>3. QED
    BY <2>1, <2>2
<1>2. CASE st # Nil /\ st.op = "group"
  <2>1. PICK s \in Seq(Flat(rest)) : s = st.s
    BY <1>2, StatementKind DEF Given
  <2>2. GroupAppend(g, st) = Fold(Added, g, s)
    BY <1>2, <2>1 DEF GroupAppend
  <2>3. \A F : Says(F, st) = Total(F, s)
    BY <1>2, <2>1 DEF Says
  <2>4. PICK r : r = Fold(Added, g, s)
    OBVIOUS
  <2>5. r \in Tidy(rest) /\ \A T, F : Additive(rest, T, F) => Held(F, r) = Held(F, g) \o Total(F, s)
    BY <2>4, AddedAll
  <2>6. QED
    BY <2>2, <2>3, <2>4, <2>5, Zenon
<1>3. CASE st # Nil /\ st.op \notin {"empty", "group"}
  <2>1. st \in Flat(rest)
    BY <1>3, StatementKind DEF Given
  <2>2. GroupAppend(g, st) = Added(g, st)
    BY <1>3 DEF GroupAppend
  <2>3. \A F : Says(F, st) = F[st]
    BY <1>3 DEF Says
  <2>4. Added(g, st) \in Tidy(rest)
    BY <2>1, AddedIn
  <2>5. ASSUME NEW T, NEW F, Additive(rest, T, F)
        PROVE  Held(F, Added(g, st)) = Held(F, g) \o F[st]
    BY <2>1, <2>5, HeldAdded
  <2>6. QED
    BY <2>2, <2>3, <2>4, <2>5
<1>4. QED
  BY <1>1, <1>2, <1>3

LEMMA EmptyGroupIn ==
  ASSUME NEW rest
  PROVE  EmptyGroup \in Tidy(rest) /\ \A T, F : Additive(rest, T, F) => Held(F, EmptyGroup) = << >>
<1>1. PICK e : e = << >>
  OBVIOUS
<1>2. e \in Seq(Flat(rest)) /\ e \in Seq(Piece) /\ Len(e) = 0
  BY <1>1, EmptySeq
<1>3. PICK g : g = EmptyGroup
  OBVIOUS
<1>4. g = [s |-> e, buf |-> e]
  BY <1>1, <1>3 DEF EmptyGroup
<1>5. g \in GroupState(rest) /\ g.s = e /\ g.buf = e
  BY <1>2, <1>4 DEF GroupState
<1>6. Loose(e) /\ ~ EndsInText(e)
  BY <1>1, <1>2 DEF Loose, EndsInText
<1>7. ASSUME NEW T, NEW F, Additive(rest, T, F) PROVE Held(F, g) = << >>
  <2>1. Total(F, e) = << >> /\ F[Str(e)] = << >>
    BY <1>1, <1>7, TotalEmpty DEF Additive
  <2>2. QED
    BY <1>5, <2>1 DEF Held
<1>8. QED
  BY <1>3, <1>5, <1>6, <1>7 DEF Tidy

\* How the fold of GroupAppend recurs.
GroupAppendUpTo(s, u) ==
  u = [i \in 0 .. Len(s) |-> IF i = 0 THEN EmptyGroup ELSE GroupAppend(u[i - 1], s[i])]

\* The step of that fold, for pairs.
GroupAppends(rest) == [p \in Tidy(rest) \X Given(rest) |-> GroupAppend(p[1], p[2])]

LEMMA GroupAppendsIs ==
  ASSUME NEW rest, Rest(rest), NEW g \in Tidy(rest), NEW st \in Given(rest)
  PROVE  GroupAppends(rest)[<<g, st>>] = GroupAppend(g, st)
         /\ GroupAppends(rest)[<<g, st>>] \in Tidy(rest)
BY GroupAppendIn DEF GroupAppends

\* Appending statements one after the other is a fold.
LEMMA GroupAppendFold ==
  ASSUME NEW rest, Rest(rest), NEW s \in Seq(Given(rest))
  PROVE  FoldsTo(Tidy(rest), GroupAppends(rest), EmptyGroup, s, Fold(GroupAppend, EmptyGroup, s))
<1>1. PICK n \in Nat : n = Len(s)
  BY LenProperties
<1>2. PICK A : A = Tidy(rest)
  OBVIOUS
<1>3. PICK S : S = Given(rest)
  OBVIOUS
<1>4. PICK b \in A : b = EmptyGroup
  BY <1>2, EmptyGroupIn
<1>5. PICK F : F = GroupAppends(rest)
  OBVIOUS
<1>6. \A i \in 1 .. n : s[i] \in S
  BY <1>1, <1>3, ElementOfSeq
<1>7. \A a \in A, x \in S : F[<<a, x>>] = GroupAppend(a, x) /\ F[<<a, x>>] \in A
  BY <1>2, <1>3, <1>5, GroupAppendsIs
<1>8. PairsIn(A, S, F) /\ s \in Seq(S)
  BY <1>3, <1>7 DEF PairsIn
<1>9. PICK u \in [0 .. n -> A] : u[0] = b /\ Pairwise(n, F, s, u)
  <2>1. \E u \in [0 .. Len(s) -> A] : u[0] = b /\ Pairwise(Len(s), F, s, u)
    BY <1>4, <1>8, FoldsToExists
  <2>2. QED
    BY <1>1, <2>1, Zenon
<1>10. ASSUME NEW i \in 0 .. n PROVE u[i] = IF i = 0 THEN EmptyGroup ELSE GroupAppend(u[i - 1], s[i])
  <2>1. CASE i = 0
    BY <1>4, <1>9, <2>1, Zenon
  <2>2. CASE i # 0
    <3>1. i \in 1 .. n /\ i - 1 \in 0 .. n
      BY <1>1, <2>2
    <3>2. u[i - 1] \in A /\ s[i] \in S
      BY <1>6, <3>1
    <3>3. u[i] = F[<<u[i - 1], s[i]>>]
      BY <1>9, <3>1, Zenon DEF Pairwise
    <3>4. QED
      BY <1>7, <2>2, <3>2, <3>3, Zenon
  <2>3. QED
    BY <2>1, <2>2, Zenon
<1>11. u = [i \in 0 .. n |-> IF i = 0 THEN EmptyGroup ELSE GroupAppend(u[i - 1], s[i])]
  <2>1. u = [i \in 0 .. n |-> u[i]]
    OBVIOUS
  <2>2. QED
    BY <1>10, <2>1, Zenon
<1> DEFINE X == CHOOSE w : GroupAppendUpTo(s, w)
<1>12. GroupAppendUpTo(s, X)
  BY <1>1, <1>11, Zenon DEF GroupAppendUpTo
<1>13. Fold(GroupAppend, EmptyGroup, s) = X[n]
  BY <1>1 DEF Fold, GroupAppendUpTo
<1> HIDE DEF X
<1>14. PICK y : y = X
  OBVIOUS
<1>15. y = [i \in 0 .. n |-> IF i = 0 THEN EmptyGroup ELSE GroupAppend(y[i - 1], s[i])]
  BY <1>1, <1>12, <1>14, Zenon DEF GroupAppendUpTo
<1>16. y[0] = b
  BY <1>4, <1>15
<1>17. y = [i \in 0 .. n |-> y[i]]
  BY <1>15
<1>18. ASSUME NEW i \in 1 .. n, y[i - 1] \in A PROVE y[i] = F[<<y[i - 1], s[i]>>]
  <2>1. i \in 0 .. n /\ i # 0
    BY <1>1
  <2>2. y[i] = GroupAppend(y[i - 1], s[i])
    BY <1>15, <2>1
  <2>3. QED
    BY <1>6, <1>7, <1>18, <2>2, Zenon
<1>19. FoldsTo(A, F, b, s, y[n])
  <2>1. y = [i \in 0 .. Len(s) |-> y[i]]
        /\ \A i \in 1 .. Len(s) : y[i - 1] \in A => y[i] = F[<<y[i - 1], s[i]>>]
    BY <1>1, <1>17, <1>18, Zenon
  <2>2. FoldsTo(A, F, b, s, y[Len(s)])
    BY <1>4, <1>8, <1>16, <2>1, FoldFrom, Zenon
  <2>3. QED
    BY <1>1, <2>2, Zenon
<1>20. QED
  BY <1>2, <1>4, <1>5, <1>13, <1>14, <1>19, Zenon

\* Says, as a function.
SaysOf(rest, F) == [st \in Given(rest) |-> Says(F, st)]

\* Appending them all comes to all they come to.
LEMMA GroupOfAll ==
  ASSUME NEW rest, Rest(rest), NEW sts \in Seq(Given(rest))
  PROVE  /\ Fold(GroupAppend, EmptyGroup, sts) \in Tidy(rest)
         /\ \A T, F : Additive(rest, T, F) =>
              Held(F, Fold(GroupAppend, EmptyGroup, sts)) = Total(SaysOf(rest, F), sts)
<1> DEFINE P == {r \in Seq(Given(rest)) :
                   /\ Fold(GroupAppend, EmptyGroup, r) \in Tidy(rest)
                   /\ \A T, F : Additive(rest, T, F) =>
                        Held(F, Fold(GroupAppend, EmptyGroup, r)) = Total(SaysOf(rest, F), r)}
<1>1. << >> \in P
  <2>1. PICK e \in Seq(Given(rest)) : e = << >>
    BY EmptySeq
  <2>2. Fold(GroupAppend, EmptyGroup, e) = EmptyGroup
    <3>1. FoldsTo(Tidy(rest), GroupAppends(rest), EmptyGroup, e, Fold(GroupAppend, EmptyGroup, e))
      BY GroupAppendFold
    <3>2. QED
      BY <2>1, <3>1, FoldsToEmpty
  <2>3. ASSUME NEW T, NEW F, Additive(rest, T, F)
        PROVE  Held(F, EmptyGroup) = Total(SaysOf(rest, F), e)
    BY <2>1, <2>3, TotalEmpty, EmptyGroupIn
  <2>4. QED
    BY <2>1, <2>2, <2>3, EmptyGroupIn
<1>2. ASSUME NEW r \in Seq(Given(rest)), NEW x \in Given(rest), r \in P PROVE Append(r, x) \in P
  <2>1. PICK t \in Seq(Given(rest)) : t = Append(r, x)
    BY AppendProperties
  <2>2. PICK v : v = Fold(GroupAppend, EmptyGroup, r)
    OBVIOUS
  <2>3. PICK w : w = Fold(GroupAppend, EmptyGroup, t)
    OBVIOUS
  <2>4. /\ FoldsTo(Tidy(rest), GroupAppends(rest), EmptyGroup, r, v)
        /\ FoldsTo(Tidy(rest), GroupAppends(rest), EmptyGroup, t, w)
    BY <2>2, <2>3, GroupAppendFold
  <2>5. v \in Tidy(rest) /\ w = GroupAppends(rest)[<<v, x>>]
    BY <2>1, <2>4, FoldsToAppend
  <2>6. w = GroupAppend(v, x) /\ w \in Tidy(rest)
    BY <2>5, GroupAppendsIs
  <2>7. ASSUME NEW T, NEW F, Additive(rest, T, F) PROVE Held(F, w) = Total(SaysOf(rest, F), t)
    <3>1. Held(F, w) = Held(F, v) \o Says(F, x)
      <4>1. \A D, f : Additive(rest, D, f) =>
              Held(f, GroupAppend(v, x)) = Held(f, v) \o Says(f, x)
        BY <2>5, GroupAppendIn
      <4>2. QED
        BY <2>6, <2>7, <4>1, Zenon
    <3>2. Held(F, v) = Total(SaysOf(rest, F), r)
      BY <1>2, <2>2, <2>7
    <3>3. PICK G : G = SaysOf(rest, F)
      OBVIOUS
    <3>4. Maps(Given(rest), T, G) /\ G[x] = Says(F, x)
      BY <2>7, <3>3, SaysIn DEF Maps, SaysOf
    <3>5. Total(G, t) = Total(G, r) \o G[x]
      <4>1. PICK D : D = Given(rest)
        OBVIOUS
      <4>2. PICK q \in Seq(D), y \in D : q = r /\ y = x
        BY <4>1
      <4>3. Maps(D, T, G)
        BY <3>4, <4>1
      <4>4. Total(G, Append(q, y)) = Total(G, q) \o G[y]
        BY <4>3, TotalAppend
      <4>5. QED
        BY <2>1, <4>2, <4>4, Zenon
    <3>6. QED
      BY <3>1, <3>2, <3>3, <3>4, <3>5
  <2>8. QED
    BY <2>1, <2>3, <2>6, <2>7
<1>3. Seq(Given(rest)) \subseteq P
  <2> HIDE DEF P
  <2>1. QED
    BY <1>1, <1>2, EverySequence
<1>4. QED
  BY <1>3

\* Finish changes nothing, and leaves nothing that can be merged.
LEMMA FinishIs ==
  ASSUME NEW rest, Rest(rest), NEW g \in Tidy(rest)
  PROVE  /\ Finish(g) \in Statements(rest)
         /\ Compact(Finish(g))
         /\ \A T, F : Additive(rest, T, F) => Says(F, Finish(g)) = Held(F, g)
<1>1. PICK s \in Seq(Flat(rest)) : s = Flushed(g).s /\ Loose(s)
  BY FlushedIn DEF GroupState
<1>2. PICK n \in Nat : n = Len(s) /\ DOMAIN s = 1 .. n
  BY LenProperties
<1>3. \A i \in 1 .. n : s[i] \in Flat(rest)
  BY <1>2, ElementOfSeq
<1>4. \A T, F : Additive(rest, T, F) => Held(F, g) = Total(F, s)
  BY <1>1, HeldFlushed
<1>5. PICK f : f = Finish(g)
  OBVIOUS
<1>6. CASE n = 0
  <2>1. f = [op |-> "empty"] /\ f.op = "empty"
    BY <1>1, <1>2, <1>5, <1>6 DEF Finish
  <2>2. f \in Statements(rest) /\ Compact(f)
    BY <2>1 DEF Statements, Compact
  <2>3. ASSUME NEW T, NEW F, Additive(rest, T, F) PROVE Says(F, f) = Held(F, g)
    <3>1. s = << >>
      BY <1>2, <1>6, EmptySeq
    <3>2. Total(F, s) = << >>
      BY <3>1, TotalEmpty
    <3>3. QED
      BY <1>4, <2>1, <2>3, <3>2 DEF Says
  <2>4. QED
    BY <1>5, <2>2, <2>3
<1>7. CASE n = 1
  <2>1. f = s[1] /\ f \in Flat(rest)
    BY <1>1, <1>2, <1>3, <1>5, <1>7 DEF Finish
  <2>2. f \in Statements(rest) /\ f # Nil
    BY <2>1, NotNil DEF Statements
  <2>3. f.op \notin {"empty", "group"} /\ (f.op = "str" => f.s # << >>)
    BY <1>1, <1>2, <1>7, <2>1, FlatKind DEF Loose
  <2>4. Compact(f)
    BY <2>3 DEF Compact
  <2>5. ASSUME NEW T, NEW F, Additive(rest, T, F) PROVE Says(F, f) = Held(F, g)
    <3>1. s = <<f>>
      BY <1>2, <1>7, <2>1
    <3>2. Total(F, <<f>>) = F[f]
      BY <2>1, <2>5, TotalOne DEF Additive
    <3>3. QED
      BY <1>4, <2>2, <2>3, <2>5, <3>1, <3>2 DEF Says
  <2>6. QED
    BY <1>5, <2>2, <2>4, <2>5
<1>8. CASE n \notin {0, 1}
  <2>1. f = [op |-> "group", s |-> s] /\ f.op = "group" /\ f.s = s
    BY <1>1, <1>2, <1>5, <1>8 DEF Finish
  <2>2. f \in Statements(rest)
    BY <2>1 DEF Statements
  <2>3. Compact(f)
    <3>1. n > 1
      BY <1>8
    <3>2. \A i \in 1 .. n : s[i].op \notin {"empty", "group"} /\ (s[i].op = "str" => s[i].s # << >>)
      BY <1>1, <1>2, <1>3, FlatKind DEF Loose
    <3>3. \A i \in 1 .. n - 1 : s[i].op = "str" => s[i + 1].op # "str"
      BY <1>1, <1>2 DEF Loose
    <3>4. QED
      BY <1>2, <2>1, <3>1, <3>2, <3>3 DEF Compact
  <2>4. ASSUME NEW T, NEW F, Additive(rest, T, F) PROVE Says(F, f) = Held(F, g)
    BY <1>4, <2>1, <2>2, <2>4, NotNil DEF Says
  <2>5. QED
    BY <1>5, <2>2, <2>3, <2>4
<1>9. QED
  BY <1>6, <1>7, <1>8

\* A group says what the statements say that it is made of, and nothing in it can be merged.
LEMMA GroupIs ==
  ASSUME NEW rest, Rest(rest), NEW sts \in Seq(Given(rest))
  PROVE  /\ Group(sts) \in Statements(rest)
         /\ Compact(Group(sts))
         /\ \A T, F : Additive(rest, T, F) => Says(F, Group(sts)) = Total(SaysOf(rest, F), sts)
<1>1. PICK g \in Tidy(rest) : g = Fold(GroupAppend, EmptyGroup, sts)
  BY GroupOfAll
<1>2. Group(sts) = Finish(g)
  BY <1>1 DEF Group
<1>3. ASSUME NEW T, NEW F, Additive(rest, T, F)
      PROVE  Says(F, Finish(g)) = Total(SaysOf(rest, F), sts)
  BY <1>1, <1>3, GroupOfAll, FinishIs
<1>4. QED
  BY <1>2, <1>3, FinishIs

\* A group of texts is one text, or empty.
LEMMA TextStatements ==
  ASSUME NEW sts \in Seq(Given({}))
  PROVE  Group(sts).op \in {"str", "empty"} /\ Group(sts) \in Statements({})
<1>1. Rest({})
  BY DEF Rest
<1>2. PICK g \in Tidy({}) : g = Fold(GroupAppend, EmptyGroup, sts)
  BY <1>1, GroupOfAll
<1>3. PICK f : f = Group(sts)
  OBVIOUS
<1>4. f \in Statements({})
  BY <1>1, <1>3, GroupIs
<1>5. PICK s \in Seq(Flat({})), p \in Seq(Piece) : s = g.s /\ p = g.buf
  BY DEF Tidy, GroupState
<1>6. s = << >>
  <2>1. ASSUME s # << >> PROVE FALSE
    <3>1. Len(s) \in 1 .. Len(s)
      BY <2>1, EmptySeq
    <3>2. s[Len(s)] \in Flat({})
      BY <3>1, ElementOfSeq
    <3>3. s[Len(s)].op = "str"
      BY <3>2 DEF Flat, Strs
    <3>4. QED
      BY <1>5, <2>1, <3>3 DEF Tidy, EndsInText
  <2>2. QED
    BY <2>1
<1>7. Flushed(g).s = IF p = << >> THEN << >> ELSE <<Str(p)>>
  BY <1>5, <1>6 DEF Flushed
<1>8. f = IF p = << >> THEN [op |-> "empty"] ELSE Str(p)
  BY <1>2, <1>3, <1>7 DEF Group, Finish
<1>9. QED
  BY <1>3, <1>4, <1>8, StrIs

-----------------------------------------------------------------------------
(* Split *)

\* What Split returns: one part or more.
Partss == {p \in Seq(Seq(Token)) : p # << >>}

\* How Split recurs.
SplitUpTo(mark, s, u) ==
  u = [i \in 0 .. Len(s) |-> IF i = 0 THEN << << >> >> ELSE Cut(mark, u[i - 1], s[i])]

\* The step of Split, for pairs.
Cuts(mark) == [p \in Partss \X Token |-> Cut(mark, p[1], p[2])]

\* s is r and then x.
Ends(s, r, x) == s = Append(r, x)

LEMMA EndReplaced ==
  ASSUME NEW S, NEW f \in Seq(S), NEW p \in S, NEW q \in S, NEW a, Ends(a, f, p),
         NEW b, Ends(b, f, q)
  PROVE  /\ a \in Seq(S) /\ b \in Seq(S) /\ a # << >> /\ b # << >>
         /\ a[Len(a)] = p /\ [a EXCEPT ![Len(a)] = q] = b
<1>1. PICK n \in Nat : n = Len(f)
  BY LenProperties
<1>2. PICK c \in Seq(S) : c = Append(f, p) /\ Len(c) = n + 1 /\ c[n + 1] = p /\ c # << >>
                           /\ \A i \in 1 .. n : c[i] = f[i]
  <2>1. /\ Append(f, p) \in Seq(S) /\ Append(f, p) # << >>
        /\ Len(Append(f, p)) = Len(f) + 1 /\ Append(f, p)[Len(f) + 1] = p
        /\ \A i \in 1 .. Len(f) : Append(f, p)[i] = f[i]
    BY AppendProperties
  <2>2. QED
    BY <1>1, <2>1
<1>3. PICK d \in Seq(S) : d = Append(f, q) /\ Len(d) = n + 1 /\ d[n + 1] = q /\ d # << >>
                           /\ \A i \in 1 .. n : d[i] = f[i]
  <2>1. /\ Append(f, q) \in Seq(S) /\ Append(f, q) # << >>
        /\ Len(Append(f, q)) = Len(f) + 1 /\ Append(f, q)[Len(f) + 1] = q
        /\ \A i \in 1 .. Len(f) : Append(f, q)[i] = f[i]
    BY AppendProperties
  <2>2. QED
    BY <1>1, <2>1
<1>4. PICK m \in 1 .. Len(c) : m = n + 1 /\ m = Len(c)
  BY <1>1, <1>2
<1>5. PICK r \in Seq(S) : r = [c EXCEPT ![m] = q] /\ Len(r) = n + 1
                           /\ \A i \in 1 .. Len(c) : r[i] = IF i = m THEN q ELSE c[i]
  <2>1. /\ [c EXCEPT ![m] = q] \in Seq(S) /\ Len([c EXCEPT ![m] = q]) = Len(c)
        /\ \A i \in 1 .. Len(c) : [c EXCEPT ![m] = q][i] = IF i = m THEN q ELSE c[i]
    BY ExceptSeq
  <2>2. QED
    BY <1>2, <2>1
<1>6. \A i \in 1 .. n + 1 : r[i] = d[i]
  BY <1>1, <1>2, <1>3, <1>4, <1>5
<1>7. r = d
  BY <1>3, <1>5, <1>6, SeqEqual
<1>8. a = c /\ b = d
  BY <1>2, <1>3 DEF Ends
<1>9. QED
  BY <1>2, <1>3, <1>4, <1>5, <1>7, <1>8

\* A word is put behind the last part.
LEMMA CutWord ==
  ASSUME NEW mark, NEW f \in Seq(Seq(Token)), NEW p \in Seq(Token), NEW w \in Token, w # mark,
         NEW a, Ends(a, f, p), NEW q, Ends(q, p, w), NEW b, Ends(b, f, q)
  PROVE  Cut(mark, a, w) = b /\ a \in Partss /\ b \in Partss /\ q \in Seq(Token)
<1>1. q \in Seq(Token)
  BY AppendProperties DEF Ends
<1>2. PICK S : S = Seq(Token)
  OBVIOUS
<1>3. f \in Seq(S) /\ p \in S /\ q \in S
  BY <1>1, <1>2
<1>4. a \in Seq(S) /\ b \in Seq(S) /\ a # << >> /\ b # << >>
      /\ a[Len(a)] = p /\ [a EXCEPT ![Len(a)] = q] = b
  BY <1>3, EndReplaced
<1>5. Append(a[Len(a)], w) = q
  BY <1>4 DEF Ends
<1>6. Cut(mark, a, w) = [a EXCEPT ![Len(a)] = q]
  BY <1>5, Zenon DEF Cut
<1>7. QED
  BY <1>1, <1>2, <1>4, <1>6 DEF Partss

\* A mark begins a part.
LEMMA CutMark ==
  ASSUME NEW mark, NEW a \in Partss
  PROVE  Cut(mark, a, mark) = Append(a, << >>) /\ Append(a, << >>) \in Partss
<1>1. PICK e \in Seq(Token) : e = << >>
  BY EmptySeq
<1>2. Append(a, e) \in Seq(Seq(Token)) /\ Append(a, e) # << >>
  BY AppendProperties DEF Partss
<1>3. QED
  BY <1>1, <1>2 DEF Cut, Partss

LEMMA CutIn ==
  ASSUME NEW mark, NEW p \in Partss, NEW w \in Token
  PROVE  Cut(mark, p, w) \in Partss
<1>1. CASE w = mark
  BY <1>1, CutMark
<1>2. CASE w # mark
  <2>1. PICK f \in Seq(Seq(Token)), q \in Seq(Token) : p = Append(f, q)
    BY SequenceEmptyOrAppend DEF Partss
  <2>2. PICK r, b : r = Append(q, w) /\ b = Append(f, r)
    OBVIOUS
  <2>3. Ends(p, f, q) /\ Ends(r, q, w) /\ Ends(b, f, r)
    BY <2>1, <2>2 DEF Ends
  <2>4. QED
    BY <1>2, <2>3, CutWord
<1>3. QED
  BY <1>1, <1>2

LEMMA CutIs ==
  /\ << << >> >> \in Partss
  /\ \A mark : \A p \in Partss, w \in Token :
       Cuts(mark)[<<p, w>>] = Cut(mark, p, w) /\ Cuts(mark)[<<p, w>>] \in Partss
<1>1. PICK e \in Seq(Token) : e = << >>
  BY EmptySeq
<1>2. <<e>> \in Partss
  BY DEF Partss
<1>3. QED
  BY <1>1, <1>2, CutIn DEF Cuts

\* Split is a fold of Cut.
LEMMA SplitFold ==
  ASSUME NEW mark, NEW s \in Seq(Token)
  PROVE  FoldsTo(Partss, Cuts(mark), << << >> >>, s, Split(s, mark))
<1>1. PICK n \in Nat : n = Len(s)
  BY LenProperties
<1>2. PICK A : A = Partss
  OBVIOUS
<1>3. PICK S : S = Token
  OBVIOUS
<1>4. PICK b \in A : b = << << >> >>
  BY <1>2, CutIs
<1>5. PICK F : F = Cuts(mark)
  OBVIOUS
<1>6. \A i \in 1 .. n : s[i] \in S
  BY <1>1, <1>3, ElementOfSeq
<1>7. \A a \in A, x \in S : F[<<a, x>>] = Cut(mark, a, x) /\ F[<<a, x>>] \in A
  BY <1>2, <1>3, <1>5, CutIs
<1>8. PairsIn(A, S, F) /\ s \in Seq(S)
  BY <1>3, <1>7 DEF PairsIn
<1>9. PICK u \in [0 .. n -> A] : u[0] = b /\ Pairwise(n, F, s, u)
  <2>1. \E u \in [0 .. Len(s) -> A] : u[0] = b /\ Pairwise(Len(s), F, s, u)
    BY <1>4, <1>8, FoldsToExists
  <2>2. QED
    BY <1>1, <2>1, Zenon
<1>10. ASSUME NEW i \in 0 .. n PROVE u[i] = IF i = 0 THEN << << >> >> ELSE Cut(mark, u[i - 1], s[i])
  <2>1. CASE i = 0
    BY <1>4, <1>9, <2>1, Zenon
  <2>2. CASE i # 0
    <3>1. i \in 1 .. n /\ i - 1 \in 0 .. n
      BY <1>1, <2>2
    <3>2. u[i - 1] \in A /\ s[i] \in S
      BY <1>6, <3>1
    <3>3. u[i] = F[<<u[i - 1], s[i]>>]
      BY <1>9, <3>1, Zenon DEF Pairwise
    <3>4. QED
      BY <1>7, <2>2, <3>2, <3>3, Zenon
  <2>3. QED
    BY <2>1, <2>2, Zenon
<1>11. u = [i \in 0 .. n |-> IF i = 0 THEN << << >> >> ELSE Cut(mark, u[i - 1], s[i])]
  <2>1. u = [i \in 0 .. n |-> u[i]]
    OBVIOUS
  <2>2. QED
    BY <1>10, <2>1, Zenon
<1> DEFINE X == CHOOSE w : SplitUpTo(mark, s, w)
<1>12. SplitUpTo(mark, s, X)
  BY <1>1, <1>11, Zenon DEF SplitUpTo
<1>13. Split(s, mark) = X[n]
  BY <1>1 DEF Split, Fold, SplitUpTo
<1> HIDE DEF X
<1>14. PICK y : y = X
  OBVIOUS
<1>15. y = [i \in 0 .. n |-> IF i = 0 THEN << << >> >> ELSE Cut(mark, y[i - 1], s[i])]
  BY <1>1, <1>12, <1>14, Zenon DEF SplitUpTo
<1>16. y[0] = b
  BY <1>4, <1>15
<1>17. y = [i \in 0 .. n |-> y[i]]
  BY <1>15
<1>18. ASSUME NEW i \in 1 .. n, y[i - 1] \in A PROVE y[i] = F[<<y[i - 1], s[i]>>]
  <2>1. i \in 0 .. n /\ i # 0
    BY <1>1
  <2>2. y[i] = Cut(mark, y[i - 1], s[i])
    BY <1>15, <2>1
  <2>3. QED
    BY <1>6, <1>7, <1>18, <2>2, Zenon
<1>19. FoldsTo(A, F, b, s, y[n])
  <2>1. y = [i \in 0 .. Len(s) |-> y[i]]
        /\ \A i \in 1 .. Len(s) : y[i - 1] \in A => y[i] = F[<<y[i - 1], s[i]>>]
    BY <1>1, <1>17, <1>18, Zenon
  <2>2. FoldsTo(A, F, b, s, y[Len(s)])
    BY <1>4, <1>8, <1>16, <2>1, FoldFrom, Zenon
  <2>3. QED
    BY <1>1, <2>2, Zenon
<1>20. QED
  BY <1>2, <1>4, <1>5, <1>13, <1>14, <1>19, Zenon

LEMMA SplitEmpty ==
  ASSUME NEW mark
  PROVE  Split(<< >>, mark) = Append(<< >>, << >>)
<1>1. << >> \in Seq(Token)
  BY EmptySeq
<1>2. PICK e : e = << >>
  OBVIOUS
<1>3. FoldsTo(Partss, Cuts(mark), <<e>>, e, Split(e, mark))
  BY <1>1, <1>2, SplitFold
<1>4. Split(e, mark) = <<e>>
  BY <1>2, <1>3, FoldsToEmpty
<1>5. QED
  BY <1>2, <1>4

LEMMA SplitAppend ==
  ASSUME NEW mark, NEW t \in Seq(Token), NEW w \in Token
  PROVE  Split(t, mark) \in Partss /\ Split(Append(t, w), mark) = Cut(mark, Split(t, mark), w)
<1>1. PICK r \in Seq(Token) : r = Append(t, w)
  BY AppendProperties
<1>2. PICK v : v = Split(t, mark)
  OBVIOUS
<1>3. PICK y : y = Split(r, mark)
  OBVIOUS
<1>4. PICK b : b = << << >> >>
  OBVIOUS
<1>5. FoldsTo(Partss, Cuts(mark), b, t, v) /\ FoldsTo(Partss, Cuts(mark), b, r, y)
  BY <1>2, <1>3, <1>4, SplitFold
<1>6. v \in Partss /\ y = Cuts(mark)[<<v, w>>]
  BY <1>1, <1>5, FoldsToAppend
<1>7. QED
  BY <1>1, <1>2, <1>3, <1>6, CutIs

\* The parts of a text: the last, and those before.
LEMMA SplitParts ==
  ASSUME NEW mark, NEW t \in Seq(Token)
  PROVE  \E f \in Seq(Seq(Token)), p \in Seq(Token) : Split(t, mark) = Append(f, p)
<1>1. CASE t = << >>
  BY <1>1, SplitEmpty, EmptySeq
<1>2. CASE t # << >>
  <2>1. PICK r \in Seq(Token), w \in Token : t = Append(r, w)
    BY <1>2, SequenceEmptyOrAppend
  <2>2. Split(t, mark) \in Partss
    BY <2>1, SplitAppend, CutIn
  <2>3. QED
    BY <2>2, SequenceEmptyOrAppend DEF Partss
<1>3. QED
  BY <1>1, <1>2

\* A text without the mark is one part.
LEMMA SplitWithout ==
  ASSUME NEW mark, NEW S, S \subseteq Token, mark \notin S, NEW t \in Seq(S)
  PROVE  Split(t, mark) = Append(<< >>, t) /\ t \in Seq(Token)
<1> DEFINE P == {r \in Seq(S) : Split(r, mark) = Append(<< >>, r)}
<1>1. << >> \in P
  BY EmptySeq, SplitEmpty
<1>2. ASSUME NEW r \in Seq(S), NEW w \in S, r \in P PROVE Append(r, w) \in P
  <2>1. PICK q \in Seq(Token) : q = r
    BY SeqMonotonic
  <2>2. PICK f \in Seq(Seq(Token)) : f = << >>
    BY EmptySeq
  <2>3. Append(r, w) \in Seq(S) /\ w \in Token /\ w # mark
    BY AppendProperties
  <2>4. Split(Append(q, w), mark) = Cut(mark, Split(q, mark), w)
    BY <2>3, SplitAppend
  <2>5. Split(q, mark) = Append(f, q)
    BY <1>2, <2>1, <2>2
  <2>6. PICK y, z, b : y = Append(f, q) /\ z = Append(q, w) /\ b = Append(f, z)
    OBVIOUS
  <2>7. Ends(y, f, q) /\ Ends(z, q, w) /\ Ends(b, f, z)
    BY <2>6 DEF Ends
  <2>8. Cut(mark, y, w) = b
    BY <2>3, <2>7, CutWord
  <2>9. QED
    BY <2>1, <2>2, <2>3, <2>4, <2>5, <2>6, <2>8
<1>3. Seq(S) \subseteq P
  <2> HIDE DEF P
  <2>1. QED
    BY <1>1, <1>2, EverySequence
<1>4. QED
  BY <1>3, SeqMonotonic

-----------------------------------------------------------------------------
(* Texts *)

LEMMA PieceIs ==
  ASSUME NEW kind \in {"text", "comment", "open", "close", "value", "call", "return", "slot", "panic"},
         NEW x \in Payload
  PROVE  <<kind, x>> \in Piece /\ <<<<kind, x>>>> \in Seq(Piece)
BY DEF Piece

LEMMA TokenPayload ==
  /\ Token \subseteq Payload /\ Seq(Token) \subseteq Payload /\ SlotName \subseteq Payload
  /\ "nil" \in Payload /\ \A node \in Elements : node.tag \in Payload
BY DEF Payload

\* One word as a piece.
PieceOf(kind) == [w \in Token |-> <<kind, w>>]

LEMMA PiecesEach ==
  ASSUME NEW kind \in {"text", "comment"}, NEW s \in Seq(Token)
  PROVE  /\ PieceOf(kind) \in [Token -> Piece]
         /\ Pieces(kind, s) = Each(PieceOf(kind), s)
         /\ Pieces(kind, s) \in Seq(Piece)
         /\ Len(Pieces(kind, s)) = Len(s)
         /\ \A i \in 1 .. Len(s) : Pieces(kind, s)[i] = <<kind, s[i]>>
<1>1. PieceOf(kind) \in [Token -> Piece]
  BY PieceIs, TokenPayload DEF PieceOf
<1>2. PICK n \in Nat : n = Len(s) /\ DOMAIN s = 1 .. n
  BY LenProperties
<1>3. \A i \in 1 .. n : s[i] \in Token
  BY <1>2, ElementOfSeq
<1>4. Pieces(kind, s) = [i \in 1 .. n |-> <<kind, s[i]>>]
  BY <1>2 DEF Pieces
<1>5. Each(PieceOf(kind), s) = [i \in 1 .. n |-> <<kind, s[i]>>]
  BY <1>2, <1>3 DEF Each, PieceOf
<1>6. PICK F \in [Token -> Piece] : F = PieceOf(kind)
  BY <1>1
<1>7. Each(F, s) \in Seq(Piece) /\ Len(Each(F, s)) = Len(s)
  BY EachIn
<1>8. \A i \in 1 .. n : Pieces(kind, s)[i] = <<kind, s[i]>>
  BY <1>4
<1>9. QED
  BY <1>1, <1>2, <1>4, <1>5, <1>6, <1>7, <1>8

LEMMA TextIn ==
  ASSUME NEW s \in Seq(Token)
  PROVE  Text(s) \in Seq(Piece)
BY PiecesEach DEF Text

LEMMA TextEmpty == Text(<< >>) = << >>
BY DEF Text, Pieces

LEMMA TextAppend ==
  ASSUME NEW s \in Seq(Token), NEW w \in Token, NEW t, Ends(t, s, w)
  PROVE  Text(t) = Text(s) \o <<<<"text", w>>>> /\ t \in Seq(Token)
<1>1. t = Append(s, w) /\ t \in Seq(Token)
  BY AppendProperties DEF Ends
<1>2. PICK F \in [Token -> Piece] : F = PieceOf("text") /\ F[w] = <<"text", w>>
  BY PiecesEach, EmptySeq DEF PieceOf
<1>3. Text(t) = Each(F, t) /\ Text(s) = Each(F, s)
  BY <1>1, <1>2, PiecesEach DEF Text
<1>4. Each(F, Append(s, w)) = Append(Each(F, s), F[w])
  BY EachAppend
<1>5. PICK a \in Seq(Piece), b \in Piece : a = Each(F, s) /\ b = F[w]
  BY EachIn
<1>6. Append(a, b) = a \o <<b>>
  BY AppendIsConcat
<1>7. QED
  BY <1>1, <1>2, <1>3, <1>4, <1>5, <1>6

-----------------------------------------------------------------------------
(* What is read *)

\* The states of the reader.
ReadState == [shown : Seq(Piece), code : Seq(Token), open : BOOLEAN, ok : BOOLEAN]

\* How Read recurs.
ReadUpTo(s, u) ==
  u = [i \in 0 .. Len(s) |-> IF i = 0 THEN NothingRead ELSE ReadOn(u[i - 1], s[i])]

\* The step of the reader, for pairs.
Reads == [p \in ReadState \X Token |-> ReadOn(p[1], p[2])]

LEMMA ReadOnIn ==
  ASSUME NEW r \in ReadState, NEW w \in Token
  PROVE  ReadOn(r, w) \in ReadState
<1>1. r.shown \in Seq(Piece) /\ r.code \in Seq(Token) /\ r.open \in BOOLEAN /\ r.ok \in BOOLEAN
  BY DEF ReadState
<1>2. PICK e \in Seq(Token) : e = << >>
  BY EmptySeq
<1>3. PICK s \in Seq(Piece) : s = Append(r.shown, <<"value", r.code>>)
  <2>1. <<"value", r.code>> \in Piece
    BY <1>1, PieceIs, TokenPayload
  <2>2. QED
    BY <1>1, <2>1, AppendProperties
<1>4. PICK c \in Seq(Token) : c = Append(r.code, w)
  BY <1>1, AppendProperties
<1>5. PICK t \in Seq(Piece) : t = Append(r.shown, <<"text", w>>)
  <2>1. <<"text", w>> \in Piece
    BY PieceIs, TokenPayload
  <2>2. QED
    BY <1>1, <2>1, AppendProperties
<1>6. CASE w = "{{"
  <2>1. ReadOn(r, w) = [shown |-> r.shown, code |-> e, open |-> TRUE, ok |-> r.ok /\ ~ r.open]
    BY <1>2, <1>6 DEF ReadOn
  <2>2. (r.ok /\ ~ r.open) \in BOOLEAN
    OBVIOUS
  <2>3. QED
    BY <2>1, <2>2 DEF ReadState
<1>7. CASE w = "}}"
  <2>1. ReadOn(r, w) = [shown |-> s, code |-> e, open |-> FALSE,
                        ok |-> r.ok /\ r.open /\ r.code # << >>]
    BY <1>2, <1>3, <1>7 DEF ReadOn
  <2>2. (r.ok /\ r.open /\ r.code # << >>) \in BOOLEAN
    OBVIOUS
  <2>3. QED
    BY <2>1, <2>2 DEF ReadState
<1>8. CASE w \notin {"{{", "}}"} /\ r.open
  <2>1. ReadOn(r, w) = [r EXCEPT !.code = c]
    BY <1>4, <1>8 DEF ReadOn
  <2>2. QED
    BY <2>1 DEF ReadState
<1>9. CASE w \notin {"{{", "}}"} /\ ~ r.open
  <2>1. ReadOn(r, w) = [r EXCEPT !.shown = t]
    BY <1>5, <1>9 DEF ReadOn
  <2>2. QED
    BY <2>1 DEF ReadState
<1>10. QED
  BY <1>6, <1>7, <1>8, <1>9

LEMMA ReadsIs ==
  /\ NothingRead \in ReadState
  /\ \A r \in ReadState, w \in Token :
       Reads[<<r, w>>] = ReadOn(r, w) /\ Reads[<<r, w>>] \in ReadState
<1>1. NothingRead \in ReadState
  BY EmptySeq DEF NothingRead, ReadState
<1>2. QED
  BY <1>1, ReadOnIn DEF Reads

\* Read is a fold of ReadOn.
LEMMA ReadFold ==
  ASSUME NEW s \in Seq(Token)
  PROVE  FoldsTo(ReadState, Reads, NothingRead, s, Read(s))
<1>1. PICK n \in Nat : n = Len(s)
  BY LenProperties
<1>2. PICK A : A = ReadState
  OBVIOUS
<1>3. PICK S : S = Token
  OBVIOUS
<1>4. PICK b \in A : b = NothingRead
  BY <1>2, ReadsIs
<1>5. PICK F : F = Reads
  OBVIOUS
<1>6. \A i \in 1 .. n : s[i] \in S
  BY <1>1, <1>3, ElementOfSeq
<1>7. \A a \in A, x \in S : F[<<a, x>>] = ReadOn(a, x) /\ F[<<a, x>>] \in A
  BY <1>2, <1>3, <1>5, ReadsIs
<1>8. PairsIn(A, S, F) /\ s \in Seq(S)
  BY <1>3, <1>7 DEF PairsIn
<1>9. PICK u \in [0 .. n -> A] : u[0] = b /\ Pairwise(n, F, s, u)
  <2>1. \E u \in [0 .. Len(s) -> A] : u[0] = b /\ Pairwise(Len(s), F, s, u)
    BY <1>4, <1>8, FoldsToExists
  <2>2. QED
    BY <1>1, <2>1, Zenon
<1>10. ASSUME NEW i \in 0 .. n PROVE u[i] = IF i = 0 THEN NothingRead ELSE ReadOn(u[i - 1], s[i])
  <2>1. CASE i = 0
    BY <1>4, <1>9, <2>1, Zenon
  <2>2. CASE i # 0
    <3>1. i \in 1 .. n /\ i - 1 \in 0 .. n
      BY <1>1, <2>2
    <3>2. u[i - 1] \in A /\ s[i] \in S
      BY <1>6, <3>1
    <3>3. u[i] = F[<<u[i - 1], s[i]>>]
      BY <1>9, <3>1, Zenon DEF Pairwise
    <3>4. QED
      BY <1>7, <2>2, <3>2, <3>3, Zenon
  <2>3. QED
    BY <2>1, <2>2, Zenon
<1>11. u = [i \in 0 .. n |-> IF i = 0 THEN NothingRead ELSE ReadOn(u[i - 1], s[i])]
  <2>1. u = [i \in 0 .. n |-> u[i]]
    OBVIOUS
  <2>2. QED
    BY <1>10, <2>1, Zenon
<1> DEFINE X == CHOOSE w : ReadUpTo(s, w)
<1>12. ReadUpTo(s, X)
  BY <1>1, <1>11, Zenon DEF ReadUpTo
<1>13. Read(s) = X[n]
  BY <1>1 DEF Read, Fold, ReadUpTo
<1> HIDE DEF X
<1>14. PICK y : y = X
  OBVIOUS
<1>15. y = [i \in 0 .. n |-> IF i = 0 THEN NothingRead ELSE ReadOn(y[i - 1], s[i])]
  BY <1>1, <1>12, <1>14, Zenon DEF ReadUpTo
<1>16. y[0] = b
  BY <1>4, <1>15
<1>17. y = [i \in 0 .. n |-> y[i]]
  BY <1>15
<1>18. ASSUME NEW i \in 1 .. n, y[i - 1] \in A PROVE y[i] = F[<<y[i - 1], s[i]>>]
  <2>1. i \in 0 .. n /\ i # 0
    BY <1>1
  <2>2. y[i] = ReadOn(y[i - 1], s[i])
    BY <1>15, <2>1
  <2>3. QED
    BY <1>6, <1>7, <1>18, <2>2, Zenon
<1>19. FoldsTo(A, F, b, s, y[n])
  <2>1. y = [i \in 0 .. Len(s) |-> y[i]]
        /\ \A i \in 1 .. Len(s) : y[i - 1] \in A => y[i] = F[<<y[i - 1], s[i]>>]
    BY <1>1, <1>17, <1>18, Zenon
  <2>2. FoldsTo(A, F, b, s, y[Len(s)])
    BY <1>4, <1>8, <1>16, <2>1, FoldFrom, Zenon
  <2>3. QED
    BY <1>1, <2>2, Zenon
<1>20. QED
  BY <1>2, <1>4, <1>5, <1>13, <1>14, <1>19, Zenon

LEMMA ReadEmpty == Read(<< >>) = NothingRead
<1>1. PICK e \in Seq(Token) : e = << >>
  BY EmptySeq
<1>2. FoldsTo(ReadState, Reads, NothingRead, e, Read(e))
  BY ReadFold
<1>3. QED
  BY <1>1, <1>2, FoldsToEmpty

LEMMA ReadAppend ==
  ASSUME NEW s \in Seq(Token), NEW w \in Token, NEW t, Ends(t, s, w)
  PROVE  Read(s) \in ReadState /\ Read(t) = ReadOn(Read(s), w)
<1>1. PICK r \in Seq(Token) : r = Append(s, w)
  BY AppendProperties
<1>2. PICK v, y : v = Read(s) /\ y = Read(r)
  OBVIOUS
<1>3. FoldsTo(ReadState, Reads, NothingRead, s, v) /\ FoldsTo(ReadState, Reads, NothingRead, r, y)
  BY <1>2, ReadFold
<1>4. v \in ReadState /\ y = Reads[<<v, w>>]
  BY <1>1, <1>3, FoldsToAppend
<1>5. QED
  BY <1>1, <1>2, <1>4, ReadsIs DEF Ends

-----------------------------------------------------------------------------
(* What statements write *)

\* All statements that are no texts.
Others == Exps \cup Holders

\* What the holders may write.
Runs == [Holders -> Seq(Piece)]

\* Item, as a function.
ItemOf(run) == [st \in Flat(Others) |-> Item(st, run)]

LEMMA ItemIs ==
  ASSUME NEW run \in Runs
  PROVE  /\ Rest(Others)
         /\ \A p \in Seq(Piece) : Str(p) \in Flat(Others) /\ ItemOf(run)[Str(p)] = p
         /\ \A code \in Seq(Token) : [op |-> "exp", code |-> code] \in Flat(Others)
              /\ ItemOf(run)[[op |-> "exp", code |-> code]] = <<<<"value", code>>>>
         /\ \A h \in Holders : h \in Flat(Others) /\ ItemOf(run)[h] = run[h]
<1>1. Rest(Others)
  BY DEF Rest, Others
<1>2. ASSUME NEW p \in Seq(Piece) PROVE Str(p) \in Flat(Others) /\ ItemOf(run)[Str(p)] = p
  BY StrIs DEF ItemOf, Item
<1>3. ASSUME NEW code \in Seq(Token)
      PROVE  [op |-> "exp", code |-> code] \in Flat(Others)
             /\ ItemOf(run)[[op |-> "exp", code |-> code]] = <<<<"value", code>>>>
  <2>1. PICK x : x = [op |-> "exp", code |-> code]
    OBVIOUS
  <2>2. x \in Flat(Others) /\ x.op = "exp" /\ x.code = code
    BY <2>1 DEF Flat, Others, Exps
  <2>3. Item(x, run) = <<<<"value", code>>>>
    BY <2>2 DEF Item
  <2>4. QED
    BY <2>1, <2>2, <2>3 DEF ItemOf
<1>4. ASSUME NEW h \in Holders PROVE h \in Flat(Others) /\ ItemOf(run)[h] = run[h]
  <2>1. h \in Flat(Others) /\ h.op \notin {"empty", "str", "exp"}
    BY DEF Flat, Others, Holders
  <2>2. Item(h, run) = run[h]
    BY <2>1 DEF Item
  <2>3. QED
    BY <2>1, <2>2 DEF ItemOf
<1>5. QED
  BY <1>1, <1>2, <1>3, <1>4

\* What is written of two texts is written of the text they are merged to.
LEMMA ItemAdditive ==
  ASSUME NEW run \in Runs
  PROVE  Additive(Others, Piece, ItemOf(run))
<1>1. ASSUME NEW st \in Flat(Others) PROVE Item(st, run) \in Seq(Piece)
  <2>1. CASE st \in Strs
    BY <2>1 DEF Strs, Item
  <2>2. CASE st \in Exps
    <3>1. st.op = "exp" /\ st.code \in Payload
      BY <2>2, TokenPayload DEF Exps
    <3>2. Item(st, run) = <<<<"value", st.code>>>>
      BY <3>1 DEF Item
    <3>3. QED
      BY <3>1, <3>2, PieceIs
  <2>3. CASE st \in Holders
    <3>1. st.op \notin {"empty", "str", "exp"}
      BY <2>3 DEF Holders
    <3>2. QED
      BY <2>3, <3>1 DEF Item, Runs
  <2>4. QED
    BY <2>1, <2>2, <2>3 DEF Flat, Others
<1>2. Maps(Flat(Others), Piece, ItemOf(run))
  BY <1>1 DEF Maps, ItemOf
<1>3. ItemOf(run)[Str(<< >>)] = << >>
  BY ItemIs, EmptySeq
<1>4. ASSUME NEW a \in Seq(Piece), NEW b \in Seq(Piece)
      PROVE  ItemOf(run)[Str(a \o b)] = ItemOf(run)[Str(a)] \o ItemOf(run)[Str(b)]
  <2>1. PICK c \in Seq(Piece) : c = a \o b
    BY ConcatProperties
  <2>2. ItemOf(run)[Str(c)] = c /\ ItemOf(run)[Str(a)] = a /\ ItemOf(run)[Str(b)] = b
    BY ItemIs
  <2>3. QED
    BY <2>1, <2>2
<1>5. QED
  BY <1>2, <1>3, <1>4 DEF Additive

\* Statements write what they say.
LEMMA WritesIs ==
  ASSUME NEW run \in Runs, NEW st \in Statements(Others)
  PROVE  Writes(st, run) = Says(ItemOf(run), st) /\ Writes(st, run) \in Seq(Piece)
<1>1. Rest(Others) /\ st # Nil
  BY NotNil DEF Rest, Others
<1>2. Says(ItemOf(run), st) \in Seq(Piece)
  BY <1>1, ItemAdditive, SaysIn DEF Given
<1>3. CASE st.op = "group"
  <2>1. PICK s \in Seq(Flat(Others)) : s = st.s
    BY <1>1, <1>3, StatementKind
  <2>2. PICK n \in Nat : n = Len(s) /\ DOMAIN s = 1 .. n
    BY LenProperties
  <2>3. \A i \in 1 .. n : s[i] \in Flat(Others)
    BY <2>2, ElementOfSeq
  <2>4. [i \in DOMAIN s |-> Item(s[i], run)] = Each(ItemOf(run), s)
    BY <2>2, <2>3 DEF Each, ItemOf
  <2>5. Writes(st, run) = Concat([i \in DOMAIN s |-> Item(s[i], run)])
    BY <1>1, <1>3, <2>1 DEF Writes
  <2>6. Says(ItemOf(run), st) = Total(ItemOf(run), s)
    BY <1>1, <1>3, <2>1 DEF Says
  <2>7. QED
    BY <1>2, <2>4, <2>5, <2>6 DEF Total
<1>4. CASE st.op = "empty"
  BY <1>1, <1>2, <1>4 DEF Writes, Says, Item
<1>5. CASE st.op \notin {"group", "empty"}
  <2>1. st \in Flat(Others)
    BY <1>1, <1>5, StatementKind
  <2>2. QED
    BY <1>1, <1>2, <1>5, <2>1 DEF Writes, Says, ItemOf
<1>6. QED
  BY <1>3, <1>4, <1>5

\* A group writes what is in it, one after the other.
LEMMA GroupWrites ==
  ASSUME NEW run \in Runs, NEW sts \in Seq(Given(Others))
  PROVE  Writes(Group(sts), run)
           = Concat([i \in DOMAIN sts |-> IF sts[i] = Nil THEN << >> ELSE Writes(sts[i], run)])
<1>1. Rest(Others)
  BY DEF Rest, Others
<1>2. PICK g : g = Group(sts) /\ g \in Statements(Others)
  BY <1>1, GroupIs
<1>3. PICK F : F = ItemOf(run) /\ Additive(Others, Piece, F)
  BY ItemAdditive
<1>4. Says(F, g) = Total(SaysOf(Others, F), sts)
  BY <1>1, <1>2, <1>3, GroupIs
<1>5. Writes(g, run) = Says(F, g)
  BY <1>2, <1>3, WritesIs
<1>6. PICK n \in Nat : n = Len(sts) /\ DOMAIN sts = 1 .. n
  BY LenProperties
<1>7. ASSUME NEW i \in 1 .. n
      PROVE  SaysOf(Others, F)[sts[i]] = IF sts[i] = Nil THEN << >> ELSE Writes(sts[i], run)
  <2>1. PICK x \in Given(Others) : x = sts[i]
    BY <1>6, ElementOfSeq
  <2>2. SaysOf(Others, F)[x] = Says(F, x)
    BY DEF SaysOf
  <2>3. CASE x = Nil
    BY <2>1, <2>2, <2>3 DEF Says
  <2>4. CASE x # Nil
    <3>1. x \in Statements(Others)
      BY <2>4 DEF Given
    <3>2. QED
      BY <1>3, <2>1, <2>2, <2>4, <3>1, WritesIs
  <2>5. QED
    BY <2>3, <2>4
<1>8. Each(SaysOf(Others, F), sts)
        = [i \in DOMAIN sts |-> IF sts[i] = Nil THEN << >> ELSE Writes(sts[i], run)]
  BY <1>6, <1>7 DEF Each
<1>9. QED
  BY <1>2, <1>4, <1>5, <1>8 DEF Total

-----------------------------------------------------------------------------
(* The statements of a text *)

\* The statements of one part of a text, and of all parts.
Bit(n, part) == IF part = << >> THEN << >> ELSE BeardPart(n, part)

BitsOf(parts) == [n \in DOMAIN parts |-> Bit(n, parts[n])]

BeardsOf(parts) == Concat(BitsOf(parts))

\* parseBeard is that of the parts at "{{".
LEMMA BeardsAre ==
  ASSUME NEW t
  PROVE  Beards(t) = BeardsOf(Split(t, "{{"))
BY DEF Beards, BeardsOf, BitsOf, Bit

LEMMA TextStr ==
  ASSUME NEW part \in Seq(Token)
  PROVE  \A rest : Str(Text(part)) \in Flat(rest) /\ <<Str(Text(part))>> \in Seq(Flat(rest))
BY TextIn, StrIs

\* The parts of a split of two.
LEMMA SplitTwo ==
  ASSUME NEW mark, NEW part \in Seq(Token), Len(Split(part, mark)) = 2
  PROVE  \E c \in Seq(Token), d \in Seq(Token), f \in Seq(Seq(Token)) :
           /\ Split(part, mark)[1] = c /\ Split(part, mark)[2] = d
           /\ Ends(Split(part, mark), f, d) /\ Ends(f, << >>, c)
<1>1. PICK f \in Seq(Seq(Token)), d \in Seq(Token) : Split(part, mark) = Append(f, d)
  BY SplitParts
<1>2. PICK n \in Nat : n = Len(f)
  BY LenProperties
<1>3. PICK S : S = Seq(Token)
  OBVIOUS
<1>4. f \in Seq(S) /\ d \in S
  BY <1>3
<1>5. PICK a \in Seq(S) : a = Append(f, d) /\ Len(a) = n + 1 /\ a[n + 1] = d
                           /\ \A i \in 1 .. n : a[i] = f[i]
  <2>1. Append(f, d) \in Seq(S) /\ Len(Append(f, d)) = Len(f) + 1 /\ Append(f, d)[Len(f) + 1] = d
        /\ \A i \in 1 .. Len(f) : Append(f, d)[i] = f[i]
    BY <1>4, AppendProperties
  <2>2. QED
    BY <1>2, <2>1
<1>6. n = 1 /\ Len(a) = 2
  BY <1>1, <1>2, <1>5
<1>7. PICK c \in S : c = a[1] /\ c = f[1]
  BY <1>5, <1>6, ElementOfSeq
<1>8. f = Append(<< >>, c)
  <2>1. Len(f) = 1 /\ f[1] = c /\ f \in Seq(S)
    BY <1>2, <1>4, <1>6, <1>7
  <2>2. f = <<c>>
    BY <2>1
  <2>3. QED
    BY <2>2
<1>9. PICK b : b = Split(part, mark)
  OBVIOUS
<1>10. b[1] = c /\ b[2] = d /\ Ends(b, f, d) /\ Ends(f, << >>, c)
  BY <1>1, <1>5, <1>6, <1>7, <1>8, <1>9 DEF Ends
<1>11. c \in Seq(Token)
  BY <1>3
<1>12. QED
  BY <1>9, <1>10, <1>11, Zenon

\* A part is made to texts and expressions; the first part is a text.
LEMMA BitIn ==
  ASSUME NEW n, NEW part \in Seq(Token)
  PROVE  Bit(n, part) \in Seq(Flat(Exps)) /\ Bit(1, part) \in Seq(Flat({}))
<1>1. \A rest : << >> \in Seq(Flat(rest))
  BY EmptySeq
<1>2. Bit(1, part) \in Seq(Flat({}))
  BY <1>1, TextStr DEF Bit, BeardPart
<1>3. CASE part = << >> \/ n = 1 \/ Len(Split(part, "}}")) # 2
  BY <1>1, <1>3, TextStr DEF Bit, BeardPart
<1>4. CASE part # << >> /\ n # 1 /\ Len(Split(part, "}}")) = 2
  <2>1. PICK c \in Seq(Token), d \in Seq(Token) :
          Split(part, "}}")[1] = c /\ Split(part, "}}")[2] = d
    BY <1>4, SplitTwo
  <2>2. PICK x : x = IF c = << >> THEN << >> ELSE <<[op |-> "exp", code |-> c]>>
    OBVIOUS
  <2>3. PICK y : y = IF d = << >> THEN << >> ELSE <<Str(Text(d))>>
    OBVIOUS
  <2>4. Bit(n, part) = x \o y
    BY <1>4, <2>1, <2>2, <2>3 DEF Bit, BeardPart
  <2>5. x \in Seq(Flat(Exps))
    <3>1. [op |-> "exp", code |-> c] \in Flat(Exps)
      BY DEF Exps, Flat
    <3>2. QED
      BY <1>1, <2>2, <3>1
  <2>6. y \in Seq(Flat(Exps))
    BY <1>1, <2>3, TextStr
  <2>7. QED
    BY <1>2, <2>4, <2>5, <2>6, ConcatProperties
<1>5. QED
  BY <1>2, <1>3, <1>4

LEMMA BitsIn ==
  ASSUME NEW parts \in Seq(Seq(Token))
  PROVE  BitsOf(parts) \in Seq(Seq(Flat(Exps))) /\ Len(BitsOf(parts)) = Len(parts)
         /\ \A i \in 1 .. Len(parts) : BitsOf(parts)[i] = Bit(i, parts[i])
<1>1. PICK n \in Nat : n = Len(parts) /\ DOMAIN parts = 1 .. n
  BY LenProperties
<1>2. \A i \in 1 .. n : parts[i] \in Seq(Token)
  BY <1>1, ElementOfSeq
<1>3. \A i \in 1 .. n : Bit(i, parts[i]) \in Seq(Flat(Exps))
  BY <1>2, BitIn
<1>4. BitsOf(parts) = [i \in 1 .. n |-> Bit(i, parts[i])]
  BY <1>1 DEF BitsOf
<1>5. PICK S : S = Seq(Flat(Exps))
  OBVIOUS
<1>6. [i \in 1 .. n |-> Bit(i, parts[i])] \in Seq(S)
  BY <1>3, <1>5
<1>7. QED
  BY <1>1, <1>4, <1>5, <1>6

\* One more part adds its statements.
LEMMA BeardsAppend ==
  ASSUME NEW f \in Seq(Seq(Token)), NEW p \in Seq(Token), NEW a, Ends(a, f, p)
  PROVE  /\ BeardsOf(f) \in Seq(Flat(Exps))
         /\ BeardsOf(a) = BeardsOf(f) \o Bit(Len(f) + 1, p)
         /\ BeardsOf(a) \in Seq(Flat(Exps)) /\ Bit(Len(f) + 1, p) \in Seq(Flat(Exps))
<1>1. PICK n \in Nat : n = Len(f)
  BY LenProperties
<1>2. PICK S : S = Seq(Token)
  OBVIOUS
<1>3. f \in Seq(S) /\ p \in S
  BY <1>2
<1>4. a \in Seq(S) /\ Len(a) = n + 1 /\ a[n + 1] = p /\ \A i \in 1 .. n : a[i] = f[i]
  <2>1. Append(f, p) \in Seq(S) /\ Len(Append(f, p)) = Len(f) + 1 /\ Append(f, p)[Len(f) + 1] = p
        /\ \A i \in 1 .. Len(f) : Append(f, p)[i] = f[i]
    BY <1>3, AppendProperties
  <2>2. QED
    BY <1>1, <2>1 DEF Ends
<1>5. PICK V : V = Seq(Flat(Exps))
  OBVIOUS
<1>6. PICK b \in Seq(V) : b = BitsOf(f) /\ Len(b) = n /\ \A i \in 1 .. n : b[i] = Bit(i, f[i])
  <2>1. BitsOf(f) \in Seq(V) /\ Len(BitsOf(f)) = Len(f)
        /\ \A i \in 1 .. Len(f) : BitsOf(f)[i] = Bit(i, f[i])
    BY <1>5, BitsIn
  <2>2. QED
    BY <1>1, <2>1
<1>7. PICK c \in Seq(V) :
        c = BitsOf(a) /\ Len(c) = n + 1 /\ \A i \in 1 .. n + 1 : c[i] = Bit(i, a[i])
  <2>1. BitsOf(a) \in Seq(V) /\ Len(BitsOf(a)) = Len(a)
        /\ \A i \in 1 .. Len(a) : BitsOf(a)[i] = Bit(i, a[i])
    BY <1>2, <1>4, <1>5, BitsIn
  <2>2. QED
    BY <1>4, <2>1
<1>8. PICK x \in V : x = Bit(n + 1, p)
  BY <1>2, <1>3, <1>5, BitIn
<1>9. PICK d \in Seq(V) : d = Append(b, x) /\ Len(d) = n + 1 /\ d[n + 1] = x
                           /\ \A i \in 1 .. n : d[i] = b[i]
  <2>1. Append(b, x) \in Seq(V) /\ Len(Append(b, x)) = Len(b) + 1 /\ Append(b, x)[Len(b) + 1] = x
        /\ \A i \in 1 .. Len(b) : Append(b, x)[i] = b[i]
    BY AppendProperties
  <2>2. QED
    BY <1>6, <2>1
<1>10. ASSUME NEW i \in 1 .. n + 1 PROVE c[i] = d[i]
  <2>1. CASE i = n + 1
    BY <1>4, <1>7, <1>8, <1>9, <2>1
  <2>2. CASE i \in 1 .. n
    BY <1>4, <1>6, <1>7, <1>9, <2>2
  <2>3. QED
    BY <1>1, <2>1, <2>2
<1>11. c = d
  BY <1>7, <1>9, <1>10, SeqEqual
<1>12. b \in Seq(Seq(Flat(Exps))) /\ x \in Seq(Flat(Exps))
  BY <1>5
<1>13. Concat(Append(b, x)) = Concat(b) \o x /\ Concat(b) \in Seq(Flat(Exps))
  BY <1>12, ConcatAppend
<1>14. Concat(b) \o x \in Seq(Flat(Exps))
  BY <1>12, <1>13, ConcatProperties
<1>15. QED
  BY <1>1, <1>6, <1>7, <1>8, <1>9, <1>11, <1>12, <1>13, <1>14 DEF BeardsOf

LEMMA BeardsEmpty == BeardsOf(<< >>) = << >>
<1>1. BitsOf(<< >>) = << >>
  BY DEF BitsOf
<1>2. QED
  BY <1>1, ConcatEmpty DEF BeardsOf

LEMMA BeardsIn ==
  ASSUME NEW t \in Seq(Token)
  PROVE  Beards(t) \in Seq(Flat(Exps))
<1>1. PICK f \in Seq(Seq(Token)), p \in Seq(Token) : Split(t, "{{") = Append(f, p)
  BY SplitParts
<1>2. PICK a : a = Split(t, "{{") /\ Ends(a, f, p)
  BY <1>1 DEF Ends
<1>3. BeardsOf(a) \in Seq(Flat(Exps))
  BY <1>2, BeardsAppend
<1>4. QED
  BY <1>2, <1>3, BeardsAre

\* A text without "{{" has no statement but a text.
Plain(t) == \A i \in DOMAIN t : t[i] # "{{"

LEMMA PlainBeards ==
  ASSUME NEW t \in Seq(Token), Plain(t)
  PROVE  Beards(t) \in Seq(Flat({}))
<1>1. PICK S : S = Token \ {"{{"}
  OBVIOUS
<1>2. Range(t) \subseteq S
  <2>1. Range(t) = {t[i] : i \in 1 .. Len(t)}
    BY RangeEquality
  <2>2. DOMAIN t = 1 .. Len(t) /\ \A i \in 1 .. Len(t) : t[i] \in Token
    BY LenProperties, ElementOfSeq
  <2>3. QED
    BY <1>1, <2>1, <2>2 DEF Plain
<1>3. t \in Seq(Range(t))
  BY SeqOfRange
<1>4. t \in Seq(S) /\ S \subseteq Token /\ "{{" \notin S
  BY <1>1, <1>2, <1>3, SeqMonotonic
<1>6. Split(t, "{{") = Append(<< >>, t)
  BY <1>4, SplitWithout
<1>7. PICK f \in Seq(Seq(Token)) : f = << >> /\ Len(f) = 0
  BY EmptySeq
<1>8. Ends(Split(t, "{{"), f, t)
  BY <1>6, <1>7 DEF Ends
<1>9. BeardsOf(Split(t, "{{")) = BeardsOf(f) \o Bit(Len(f) + 1, t)
  BY <1>8, BeardsAppend
<1>10. PICK b \in Seq(Flat({})) : b = Bit(1, t)
  BY BitIn
<1>11. BeardsOf(Split(t, "{{")) = << >> \o b
  <2>1. Len(f) + 1 = 1
    BY <1>7
  <2>2. QED
    BY <1>7, <1>9, <1>10, <2>1, BeardsEmpty, Zenon
<1>12. QED
  BY <1>10, <1>11, BeardsAre, ConcatEmptySeq

\* F is what statements write.
Writer(F) == \E run \in Runs : F = ItemOf(run)

LEMMA WriterIs ==
  ASSUME NEW F, Writer(F)
  PROVE  /\ Maps(Flat(Others), Piece, F) /\ Additive(Others, Piece, F)
         /\ \A p \in Seq(Piece) : Str(p) \in Flat(Others) /\ F[Str(p)] = p
         /\ \A code \in Seq(Token) : [op |-> "exp", code |-> code] \in Flat(Others)
              /\ F[[op |-> "exp", code |-> code]] = <<<<"value", code>>>>
<1>1. PICK run \in Runs : F = ItemOf(run)
  BY DEF Writer
<1>2. QED
  BY <1>1, ItemIs, ItemAdditive DEF Additive

LEMMA FlatGrows ==
  ASSUME NEW rest, NEW more, rest \subseteq more
  PROVE  Flat(rest) \subseteq Flat(more) /\ Seq(Flat(rest)) \subseteq Seq(Flat(more))
<1>1. Flat(rest) \subseteq Flat(more)
  BY DEF Flat
<1>2. QED
  BY <1>1, SeqMonotonic

\* One more part adds what it comes to.
LEMMA TotalBeards ==
  ASSUME NEW F, Writer(F), NEW f \in Seq(Seq(Token)), NEW p \in Seq(Token), NEW a, Ends(a, f, p)
  PROVE  /\ Total(F, BeardsOf(a)) = Total(F, BeardsOf(f)) \o Total(F, Bit(Len(f) + 1, p))
         /\ Total(F, BeardsOf(f)) \in Seq(Piece) /\ Total(F, Bit(Len(f) + 1, p)) \in Seq(Piece)
<1>1. Seq(Flat(Exps)) \subseteq Seq(Flat(Others)) /\ Maps(Flat(Others), Piece, F)
  BY FlatGrows, WriterIs DEF Others
<1>2. PICK b \in Seq(Flat(Others)), x \in Seq(Flat(Others)) :
        b = BeardsOf(f) /\ x = Bit(Len(f) + 1, p) /\ BeardsOf(a) = b \o x
  BY <1>1, BeardsAppend
<1>3. Total(F, b \o x) = Total(F, b) \o Total(F, x)
  BY <1>1, TotalConcat
<1>4. Total(F, b) \in Seq(Piece) /\ Total(F, x) \in Seq(Piece)
  BY <1>1, TotalIn
<1>5. QED
  BY <1>2, <1>3, <1>4, Zenon

\* The first part is shown as it is.
LEMMA BitPlain ==
  ASSUME NEW F, Writer(F), NEW p \in Seq(Token)
  PROVE  Total(F, Bit(1, p)) = Text(p)
<1>1. CASE p = << >>
  BY <1>1, TotalEmpty, TextEmpty DEF Bit
<1>2. CASE p # << >>
  <2>1. PICK q \in Seq(Piece) : q = Text(p)
    BY TextIn
  <2>2. PICK x \in Flat(Others) : x = Str(q) /\ F[x] = q
    BY WriterIs
  <2>3. Bit(1, p) = <<x>>
    BY <1>2, <2>1, <2>2 DEF Bit, BeardPart
  <2>4. Total(F, <<x>>) = F[x]
    BY WriterIs, TotalOne
  <2>5. QED
    BY <2>1, <2>2, <2>3, <2>4
<1>3. QED
  BY <1>1, <1>2

\* The part p is code c with d behind it.
CodePart(p, c, d) ==
  /\ c \in Seq(Token) /\ d \in Seq(Token) /\ c # << >>
  /\ \E g \in Seq(Seq(Token)) : Ends(g, << >>, c) /\ Ends(Split(p, "}}"), g, d)

\* What has the two parts c and d is those.
LEMMA TwoParts ==
  ASSUME NEW c \in Seq(Token), NEW d \in Seq(Token), NEW g \in Seq(Seq(Token)), NEW a,
         Ends(g, << >>, c), Ends(a, g, d)
  PROVE  Len(a) = 2 /\ a[1] = c /\ a[2] = d
<1>1. PICK S : S = Seq(Token)
  OBVIOUS
<1>2. g \in Seq(S) /\ d \in S /\ c \in S
  BY <1>1
<1>3. g = <<c>>
  BY DEF Ends
<1>4. Len(g) = 1 /\ g[1] = c
  BY <1>3
<1>5. Len(Append(g, d)) = Len(g) + 1 /\ Append(g, d)[Len(g) + 1] = d
      /\ \A i \in 1 .. Len(g) : Append(g, d)[i] = g[i]
  BY <1>2, AppendProperties
<1>6. PICK b : b = Append(g, d)
  OBVIOUS
<1>7. Len(b) = 2 /\ b[1] = c /\ b[2] = d
  BY <1>4, <1>5, <1>6
<1>8. QED
  BY <1>6, <1>7 DEF Ends

LEMMA SplitOfNone ==
  ASSUME NEW mark
  PROVE  Len(Split(<< >>, mark)) = 1
<1>1. Split(<< >>, mark) = <<<< >>>>
  BY SplitEmpty
<1>2. QED
  BY <1>1

\* Such a part writes the value of c, and d.
LEMMA BitCode ==
  ASSUME NEW F, Writer(F), NEW p \in Seq(Token), NEW c, NEW d, CodePart(p, c, d), NEW n, n # 1
  PROVE  Total(F, Bit(n, p)) = <<<<"value", c>>>> \o Text(d)
<1>1. c \in Seq(Token) /\ d \in Seq(Token) /\ c # << >>
  BY DEF CodePart
<1>2. PICK a : a = Split(p, "}}")
  OBVIOUS
<1>3. Len(a) = 2 /\ a[1] = c /\ a[2] = d
  <2>1. PICK g \in Seq(Seq(Token)) : Ends(g, << >>, c) /\ Ends(a, g, d)
    BY <1>2, Zenon DEF CodePart
  <2>2. QED
    BY <1>1, <2>1, TwoParts
<1>4. p # << >>
  <2>1. ASSUME p = << >> PROVE FALSE
    <3>1. PICK e : e = Split(<< >>, "}}") /\ Len(e) = 1
      BY SplitOfNone
    <3>2. a = e
      BY <1>2, <2>1, <3>1, Zenon
    <3>3. PICK k : k = Len(a)
      OBVIOUS
    <3>4. k = 2 /\ k = 1
      BY <1>3, <3>1, <3>2, <3>3, Zenon
    <3>5. 1 # 2
      OBVIOUS
    <3>6. QED
      BY <3>4, <3>5, Zenon
  <2>2. QED
    BY <2>1
<1>5. PICK x \in Flat(Others) : x = [op |-> "exp", code |-> c] /\ F[x] = <<<<"value", c>>>>
  BY <1>1, WriterIs
<1>6. PICK y : y = IF d = << >> THEN << >> ELSE <<Str(Text(d))>>
  OBVIOUS
<1>7. Bit(n, p) = <<x>> \o y
  BY <1>1, <1>2, <1>3, <1>4, <1>5, <1>6 DEF Bit, BeardPart
<1>8. y \in Seq(Flat(Others)) /\ Total(F, y) = Text(d)
  <2>1. CASE d = << >>
    BY <1>6, <2>1, EmptySeq, TotalEmpty, TextEmpty
  <2>2. CASE d # << >>
    <3>1. PICK q \in Seq(Piece) : q = Text(d)
      BY <1>1, TextIn
    <3>2. PICK z \in Flat(Others) : z = Str(q) /\ F[z] = q
      BY WriterIs
    <3>3. y = <<z>>
      BY <1>6, <2>2, <3>1, <3>2
    <3>4. Total(F, <<z>>) = F[z]
      BY WriterIs, TotalOne
    <3>5. QED
      BY <3>1, <3>2, <3>3, <3>4
  <2>3. QED
    BY <2>1, <2>2
<1>9. PICK u \in Seq(Flat(Others)), v \in Seq(Flat(Others)) : u = <<x>> /\ v = y
  <2>1. PICK S : S = Flat(Others)
    OBVIOUS
  <2>2. x \in S
    BY <2>1
  <2>3. <<x>> \in Seq(S)
    BY <2>2
  <2>4. QED
    BY <1>8, <2>1, <2>3, Zenon
<1>10. Total(F, u \o v) = Total(F, u) \o Total(F, v)
  BY WriterIs, TotalConcat
<1>11. Total(F, u) = F[x]
  BY <1>9, WriterIs, TotalOne
<1>12. QED
  BY <1>5, <1>7, <1>8, <1>9, <1>10, <1>11, Zenon

\* What is read of a text whose last part, behind the parts f, is p: behind a "{{"...
InCode(F, f, p, r) ==
  r.open /\ f # << >> /\ p \in Seq(Word) /\ r.code = p /\ r.shown = Total(F, BeardsOf(f))

\* ... and elsewhere.
InText(F, f, p, r) ==
  /\ ~ r.open
  /\ r.shown = Total(F, BeardsOf(f)) \o Total(F, Bit(Len(f) + 1, p))
  /\ f = << >> \/ (f # << >> /\ \E c, d : CodePart(p, c, d))

\* The marks, by names the provers do not look into.
CodeMark == "{{"

EndMark == "}}"

\* As long as the marks come in pairs, the reader and the compiler agree on what is read.
Follows(F, t) ==
  \E f \in Seq(Seq(Token)), p \in Seq(Token) :
    /\ Ends(Split(t, CodeMark), f, p)
    /\ Read(t).ok => InCode(F, f, p, Read(t)) \/ InText(F, f, p, Read(t))

LEMMA NotFirst ==
  ASSUME NEW S, NEW f \in Seq(S), f # << >>
  PROVE  \E n : n = Len(f) + 1 /\ n # 1
<1>1. PICK k \in Nat : k = Len(f)
  BY LenProperties
<1>2. k # 0
  BY <1>1, EmptySeq
<1>3. k + 1 # 1
  BY <1>1, <1>2
<1>4. QED
  BY <1>1, <1>3, Zenon

LEMMA OneConcat ==
  ASSUME NEW S, NEW s \in Seq(S), NEW x \in S
  PROVE  /\ <<x>> \in Seq(S) /\ <<x>> \o << >> = <<x>>
         /\ Append(s, x) = s \o <<x>> /\ << >> \o s = s
<1>1. <<x>> \in Seq(S)
  OBVIOUS
<1>2. QED
  BY <1>1, ConcatEmptySeq, AppendIsConcat

LEMMA CodeSays ==
  ASSUME NEW F, Writer(F), NEW S, NEW f \in Seq(S), f # << >>, NEW q \in Seq(Token), NEW c, NEW d,
         CodePart(q, c, d)
  PROVE  Total(F, Bit(Len(f) + 1, q)) = <<<<"value", c>>>> \o Text(d)
<1>1. PICK n : n = Len(f) + 1 /\ n # 1
  BY NotFirst
<1>2. Total(F, Bit(n, q)) = <<<<"value", c>>>> \o Text(d)
  BY <1>1, BitCode
<1>3. QED
  BY <1>1, <1>2, Zenon

LEMMA SplitOn ==
  ASSUME NEW mark, NEW t \in Seq(Token), NEW w \in Token, NEW u, Ends(u, t, w)
  PROVE  Split(t, mark) \in Partss /\ Split(u, mark) = Cut(mark, Split(t, mark), w)
BY SplitAppend DEF Ends

LEMMA SplitWord ==
  ASSUME NEW mark, NEW t \in Seq(Token), NEW w \in Token, w # mark, NEW u, Ends(u, t, w),
         NEW f \in Seq(Seq(Token)), NEW p \in Seq(Token), Ends(Split(t, mark), f, p),
         NEW q, Ends(q, p, w)
  PROVE  Ends(Split(u, mark), f, q) /\ q \in Seq(Token)
<1>1. PICK a : a = Split(t, mark)
  OBVIOUS
<1>2. PICK b : b = Append(f, q)
  OBVIOUS
<1>3. Ends(b, f, q) /\ Ends(a, f, p)
  BY <1>1, <1>2 DEF Ends
<1>4. Cut(mark, a, w) = b /\ q \in Seq(Token)
  BY <1>3, CutWord
<1>5. Split(u, mark) = Cut(mark, a, w)
  BY <1>1, SplitOn
<1>6. QED
  BY <1>3, <1>4, <1>5

LEMMA SplitMark ==
  ASSUME NEW mark \in Token, NEW t \in Seq(Token), NEW u, Ends(u, t, mark), NEW e, e = << >>
  PROVE  Split(t, mark) \in Seq(Seq(Token)) /\ Split(t, mark) # << >>
         /\ Ends(Split(u, mark), Split(t, mark), e)
<1>1. PICK a \in Partss : a = Split(t, mark)
  BY SplitOn
<1>2. Split(u, mark) = Cut(mark, a, mark)
  BY <1>1, SplitOn
<1>3. Cut(mark, a, mark) = Append(a, e)
  BY CutMark
<1>4. QED
  BY <1>1, <1>2, <1>3 DEF Partss, Ends

LEMMA WordsAreTokens ==
  /\ Word \subseteq Token /\ CodeMark \in Token /\ EndMark \in Token
  /\ CodeMark \notin Word /\ EndMark \notin Word /\ CodeMark # EndMark
  /\ \A w \in Token : w \in Word \/ w = CodeMark \/ w = EndMark
BY NameAssumption DEF Token, CodeMark, EndMark

LEMMA CodePartIs ==
  ASSUME NEW p, NEW c, NEW d
  PROVE  CodePart(p, c, d) <=>
           /\ c \in Seq(Token) /\ d \in Seq(Token) /\ c # << >>
           /\ \E g \in Seq(Seq(Token)) : Ends(g, << >>, c) /\ Ends(Split(p, EndMark), g, d)
BY Zenon DEF CodePart, EndMark

LEMMA ReadOnIs ==
  ASSUME NEW r \in ReadState, NEW w \in Token
  PROVE  /\ w = CodeMark =>
               ReadOn(r, w) = [shown |-> r.shown, code |-> << >>, open |-> TRUE,
                               ok |-> r.ok /\ ~ r.open]
         /\ w = EndMark =>
               ReadOn(r, w) = [shown |-> Append(r.shown, <<"value", r.code>>), code |-> << >>,
                               open |-> FALSE, ok |-> r.ok /\ r.open /\ r.code # << >>]
         /\ w \in Word /\ r.open =>
               ReadOn(r, w) = [shown |-> r.shown, code |-> Append(r.code, w), open |-> r.open,
                               ok |-> r.ok]
         /\ w \in Word /\ ~ r.open =>
               ReadOn(r, w) = [shown |-> Append(r.shown, <<"text", w>>), code |-> r.code,
                               open |-> r.open, ok |-> r.ok]
<1>1. r = [shown |-> r.shown, code |-> r.code, open |-> r.open, ok |-> r.ok]
  BY DEF ReadState
<1>2. \A x : ReadOn(r, x) =
        IF x = CodeMark
        THEN [shown |-> r.shown, code |-> << >>, open |-> TRUE, ok |-> r.ok /\ ~ r.open]
        ELSE IF x = EndMark
        THEN [shown |-> Append(r.shown, <<"value", r.code>>), code |-> << >>, open |-> FALSE,
              ok |-> r.ok /\ r.open /\ r.code # << >>]
        ELSE IF r.open THEN [r EXCEPT !.code = Append(@, x)]
        ELSE [r EXCEPT !.shown = Append(@, <<"text", x>>)]
  BY Zenon DEF ReadOn, CodeMark, EndMark
<1>3. w \in Word => w # CodeMark /\ w # EndMark
  BY WordsAreTokens
<1>4. PICK sh, co, op, ok : r = [shown |-> sh, code |-> co, open |-> op, ok |-> ok]
        /\ sh = r.shown /\ co = r.code /\ op = r.open /\ ok = r.ok
  BY <1>1
<1>5. CodeMark # EndMark /\ ok \in BOOLEAN /\ op \in BOOLEAN
  BY <1>4, WordsAreTokens DEF ReadState
<1>6. CASE w = CodeMark
  <2>1. ReadOn(r, w) = [shown |-> r.shown, code |-> << >>, open |-> TRUE, ok |-> r.ok /\ ~ r.open]
    BY <1>2, <1>6, Zenon
  <2>2. QED
    BY <1>3, <1>5, <1>6, <2>1, Zenon
<1>7. CASE w = EndMark
  <2>1. ReadOn(r, w) = [shown |-> Append(r.shown, <<"value", r.code>>), code |-> << >>, open |-> FALSE,
                        ok |-> r.ok /\ r.open /\ r.code # << >>]
    BY <1>2, <1>5, <1>7, Zenon
  <2>2. QED
    BY <1>3, <1>5, <1>7, <2>1, Zenon
<1>8. CASE w \in Word /\ r.open
  <2>1. ReadOn(r, w) = [r EXCEPT !.code = Append(@, w)]
    BY <1>2, <1>3, <1>8, Zenon
  <2>2. [r EXCEPT !.code = Append(@, w)] = [shown |-> sh, code |-> Append(co, w), open |-> op, ok |-> ok]
    BY <1>4
  <2>3. QED
    BY <1>3, <1>4, <1>8, <2>1, <2>2, Zenon
<1>9. CASE w \in Word /\ ~ r.open
  <2>1. ReadOn(r, w) = [r EXCEPT !.shown = Append(@, <<"text", w>>)]
    BY <1>2, <1>3, <1>9, Zenon
  <2>2. [r EXCEPT !.shown = Append(@, <<"text", w>>)]
          = [shown |-> Append(sh, <<"text", w>>), code |-> co, open |-> op, ok |-> ok]
    BY <1>4
  <2>3. QED
    BY <1>3, <1>4, <1>9, <2>1, <2>2, Zenon
<1>10. QED
  BY <1>6, <1>7, <1>8, <1>9, WordsAreTokens, Zenon

\* They do so behind a "{{".
LEMMA FollowsMark ==
  ASSUME NEW F, Writer(F), NEW t \in Seq(Token), Follows(F, t), NEW u, Ends(u, t, CodeMark)
  PROVE  Follows(F, u)
<1>1. PICK f \in Seq(Seq(Token)), p \in Seq(Token) :
        /\ Ends(Split(t, CodeMark), f, p)
        /\ Read(t).ok => InCode(F, f, p, Read(t)) \/ InText(F, f, p, Read(t))
  BY DEF Follows
<1>2. PICK e \in Seq(Token) : e = << >> /\ e \in Seq(Word)
  BY EmptySeq
<1>3. CodeMark \in Token
  BY WordsAreTokens
<1>4. PICK a \in Seq(Seq(Token)) : a = Split(t, CodeMark) /\ a # << >> /\ Ends(Split(u, CodeMark), a, e)
                                  /\ Ends(a, f, p)
  BY <1>1, <1>2, <1>3, SplitMark
<1>5. PICK r \in ReadState : r = Read(t) /\ Read(u) = ReadOn(r, CodeMark)
  BY <1>3, ReadAppend
<1>6. PICK r2 : r2 = ReadOn(r, CodeMark)
  OBVIOUS
<1>7. r2.code = e /\ r2.open /\ r2.shown = r.shown /\ (r2.ok => r.ok /\ ~ r.open)
  <2>1. r2 = [shown |-> r.shown, code |-> e, open |-> TRUE, ok |-> r.ok /\ ~ r.open]
    BY <1>2, <1>3, <1>6, ReadOnIs
  <2>2. QED
    BY <2>1
<1>8. ASSUME r2.ok PROVE InCode(F, a, e, r2)
  <2>1. InText(F, f, p, r)
    BY <1>1, <1>5, <1>7, <1>8 DEF InCode
  <2>2. r.shown = Total(F, BeardsOf(a))
    BY <1>4, <2>1, TotalBeards DEF InText
  <2>3. QED
    BY <1>2, <1>4, <1>7, <2>2 DEF InCode
<1>9. QED
  BY <1>4, <1>5, <1>6, <1>8, Zenon DEF Follows

\* Behind a "}}".
LEMMA FollowsEnd ==
  ASSUME NEW F, Writer(F), NEW t \in Seq(Token), Follows(F, t), NEW u, Ends(u, t, EndMark)
  PROVE  Follows(F, u)
<1>1. PICK f \in Seq(Seq(Token)), p \in Seq(Token) :
        /\ Ends(Split(t, CodeMark), f, p)
        /\ Read(t).ok => InCode(F, f, p, Read(t)) \/ InText(F, f, p, Read(t))
  BY DEF Follows
<1>2. PICK e \in Seq(Token) : e = << >>
  BY EmptySeq
<1>3. EndMark \in Token /\ EndMark # CodeMark
  BY WordsAreTokens
<1>4. PICK q : Ends(q, p, EndMark)
  BY DEF Ends
<1>5. Ends(Split(u, CodeMark), f, q) /\ q \in Seq(Token)
  BY <1>1, <1>3, <1>4, SplitWord
<1>6. PICK r \in ReadState : r = Read(t) /\ Read(u) = ReadOn(r, EndMark)
  BY <1>3, ReadAppend
<1>7. PICK r2 : r2 = ReadOn(r, EndMark)
  OBVIOUS
<1>8. ~ r2.open /\ r2.shown = Append(r.shown, <<"value", r.code>>)
      /\ (r2.ok => r.ok /\ r.open /\ r.code # << >>)
  <2>1. r2 = [shown |-> Append(r.shown, <<"value", r.code>>), code |-> << >>, open |-> FALSE,
              ok |-> r.ok /\ r.open /\ r.code # << >>]
    BY <1>3, <1>7, ReadOnIs
  <2>2. QED
    BY <2>1
<1>9. ASSUME r2.ok PROVE InText(F, f, q, r2)
  <2>1. InCode(F, f, p, r) /\ p # << >>
    BY <1>1, <1>6, <1>8, <1>9 DEF InCode, InText
  <2>2. f # << >> /\ p \in Seq(Word) /\ r.code = p /\ r.shown = Total(F, BeardsOf(f))
    BY <2>1 DEF InCode
  <2>3. PICK g \in Seq(Seq(Token)) : g = Split(p, EndMark) /\ Ends(Split(q, EndMark), g, e)
    BY <1>2, <1>3, <1>4, SplitMark
  <2>4. Ends(g, << >>, p)
    BY <2>2, <2>3, WordsAreTokens, SplitWithout DEF Ends
  <2>5. CodePart(q, p, e)
    BY <1>2, <2>1, <2>3, <2>4, CodePartIs
  <2>7. Total(F, Bit(Len(f) + 1, q)) = <<<<"value", p>>>> \o Text(e)
    BY <1>5, <2>2, <2>5, CodeSays
  <2>8. PICK v \in Piece : v = <<"value", p>>
    BY TokenPayload, PieceIs
  <2>10. PICK s \in Seq(Piece) : s = r.shown
    BY DEF ReadState
  <2>11. Append(s, v) = s \o <<v>> /\ <<v>> \o << >> = <<v>>
    BY OneConcat
  <2>12. r2.shown = Total(F, BeardsOf(f)) \o Total(F, Bit(Len(f) + 1, q))
    BY <1>2, <1>8, <2>2, <2>7, <2>8, <2>10, <2>11, TextEmpty, Zenon
  <2>13. QED
    BY <1>8, <2>2, <2>5, <2>12, Zenon DEF InText
<1>10. QED
  BY <1>5, <1>6, <1>7, <1>9, Zenon DEF Follows

\* Behind a word in code.
LEMMA FollowsCode ==
  ASSUME NEW F, Writer(F), NEW t \in Seq(Token), Follows(F, t), NEW w \in Word, NEW u, Ends(u, t, w),
         Read(t).open
  PROVE  Follows(F, u)
<1>1. PICK f \in Seq(Seq(Token)), p \in Seq(Token) :
        /\ Ends(Split(t, CodeMark), f, p)
        /\ Read(t).ok => InCode(F, f, p, Read(t)) \/ InText(F, f, p, Read(t))
  BY DEF Follows
<1>3. w \in Token /\ w # CodeMark
  BY WordsAreTokens
<1>4. PICK q : q = Append(p, w) /\ Ends(q, p, w)
  BY DEF Ends
<1>5. Ends(Split(u, CodeMark), f, q) /\ q \in Seq(Token)
  BY <1>1, <1>3, <1>4, SplitWord
<1>6. PICK r \in ReadState : r = Read(t) /\ Read(u) = ReadOn(r, w)
  BY <1>3, ReadAppend
<1>7. PICK r2 : r2 = ReadOn(r, w)
  OBVIOUS
<1>8. r2.open /\ r2.shown = r.shown /\ r2.code = Append(r.code, w) /\ (r2.ok => r.ok)
  <2>1. r2 = [shown |-> r.shown, code |-> Append(r.code, w), open |-> r.open, ok |-> r.ok]
    BY <1>3, <1>6, <1>7, ReadOnIs
  <2>2. QED
    BY <1>6, <2>1
<1>9. ASSUME r2.ok PROVE InCode(F, f, q, r2)
  <2>1. InCode(F, f, p, r)
    BY <1>1, <1>6, <1>8, <1>9 DEF InText
  <2>2. p \in Seq(Word) /\ r.code = p
    BY <2>1 DEF InCode
  <2>3. q \in Seq(Word)
    BY <1>4, <2>2, AppendProperties
  <2>4. QED
    BY <1>4, <1>8, <2>1, <2>2, <2>3 DEF InCode
<1>10. QED
  BY <1>5, <1>6, <1>7, <1>9, Zenon DEF Follows

\* A part that goes on.
LEMMA CodePartOn ==
  ASSUME NEW p \in Seq(Token), NEW c, NEW d, CodePart(p, c, d), NEW w \in Word, NEW q, Ends(q, p, w)
  PROVE  \E d2 : Ends(d2, d, w) /\ CodePart(q, c, d2)
<1>1. PICK g \in Seq(Seq(Token)) : Ends(g, << >>, c) /\ Ends(Split(p, EndMark), g, d)
  BY CodePartIs, Zenon
<1>2. c \in Seq(Token) /\ d \in Seq(Token) /\ c # << >>
  BY CodePartIs, Zenon
<1>3. PICK d2 : Ends(d2, d, w)
  BY DEF Ends
<1>4. w \in Token /\ w # EndMark
  BY WordsAreTokens
<1>5. Ends(Split(q, EndMark), g, d2) /\ d2 \in Seq(Token)
  BY <1>1, <1>2, <1>3, <1>4, SplitWord
<1>6. QED
  BY <1>1, <1>2, <1>3, <1>5, CodePartIs, Zenon

\* What a part says that goes on.
LEMMA BitOn ==
  ASSUME NEW F, Writer(F), NEW f \in Seq(Seq(Token)), NEW p \in Seq(Token), NEW w \in Word,
         NEW q, Ends(q, p, w), f = << >> \/ (f # << >> /\ \E c, d : CodePart(p, c, d))
  PROVE  /\ Total(F, Bit(Len(f) + 1, q)) = Total(F, Bit(Len(f) + 1, p)) \o <<<<"text", w>>>>
         /\ f = << >> \/ (f # << >> /\ \E c, d : CodePart(q, c, d))
<1>1. w \in Token /\ <<"text", w>> \in Piece /\ <<<<"text", w>>>> \in Seq(Piece)
  BY WordsAreTokens, TokenPayload, PieceIs
<1>2. PICK x \in Seq(Piece) : x = <<<<"text", w>>>>
  BY <1>1
<1>3. q \in Seq(Token)
  BY <1>1, AppendProperties DEF Ends
<1>4. CASE f = << >>
  <2>1. Len(f) + 1 = 1
    BY <1>4
  <2>2. Total(F, Bit(1, q)) = Text(q) /\ Total(F, Bit(1, p)) = Text(p)
    BY <1>3, BitPlain
  <2>3. Text(q) = Text(p) \o x
    BY <1>1, <1>2, TextAppend
  <2>4. QED
    BY <1>2, <1>4, <2>1, <2>2, <2>3, Zenon
<1>5. CASE f # << >>
  <2>1. PICK c, d : CodePart(p, c, d)
    BY <1>5
  <2>2. PICK d2 : Ends(d2, d, w) /\ CodePart(q, c, d2)
    BY <2>1, CodePartOn, Zenon
  <2>3. c \in Seq(Token) /\ d \in Seq(Token)
    BY <2>1, CodePartIs, Zenon
  <2>4. Total(F, Bit(Len(f) + 1, q)) = <<<<"value", c>>>> \o Text(d2)
    BY <1>3, <1>5, <2>2, CodeSays
  <2>5. Total(F, Bit(Len(f) + 1, p)) = <<<<"value", c>>>> \o Text(d)
    BY <1>5, <2>1, CodeSays
  <2>6. Text(d2) = Text(d) \o x
    BY <1>1, <1>2, <2>2, <2>3, TextAppend
  <2>7. PICK v \in Seq(Piece), y \in Seq(Piece) : v = <<<<"value", c>>>> /\ y = Text(d)
    BY <2>3, TokenPayload, PieceIs, TextIn
  <2>8. (v \o y) \o x = v \o (y \o x)
    BY ConcatAssociative
  <2>9. Total(F, Bit(Len(f) + 1, q)) = Total(F, Bit(Len(f) + 1, p)) \o <<<<"text", w>>>>
    BY <1>2, <2>4, <2>5, <2>6, <2>7, <2>8, Zenon
  <2>10. QED
    BY <1>5, <2>2, <2>9, Zenon
<1>6. QED
  BY <1>4, <1>5

\* Behind a word in text.
LEMMA FollowsWord ==
  ASSUME NEW F, Writer(F), NEW t \in Seq(Token), Follows(F, t), NEW w \in Word, NEW u, Ends(u, t, w),
         ~ Read(t).open
  PROVE  Follows(F, u)
<1>1. PICK f \in Seq(Seq(Token)), p \in Seq(Token) :
        /\ Ends(Split(t, CodeMark), f, p)
        /\ Read(t).ok => InCode(F, f, p, Read(t)) \/ InText(F, f, p, Read(t))
  BY DEF Follows
<1>3. w \in Token /\ w # CodeMark
  BY WordsAreTokens
<1>4. PICK q : q = Append(p, w) /\ Ends(q, p, w)
  BY DEF Ends
<1>5. Ends(Split(u, CodeMark), f, q) /\ q \in Seq(Token)
  BY <1>1, <1>3, <1>4, SplitWord
<1>6. PICK r \in ReadState : r = Read(t) /\ Read(u) = ReadOn(r, w)
  BY <1>3, ReadAppend
<1>7. PICK r2 : r2 = ReadOn(r, w)
  OBVIOUS
<1>8. PICK v \in Piece : v = <<"text", w>>
  BY <1>3, PieceIs, TokenPayload
<1>9. ~ r2.open /\ r2.shown = Append(r.shown, v) /\ (r2.ok => r.ok)
  <2>1. r2 = [shown |-> Append(r.shown, v), code |-> r.code, open |-> r.open, ok |-> r.ok]
    BY <1>3, <1>6, <1>7, <1>8, ReadOnIs
  <2>2. QED
    BY <1>6, <2>1
<1>10. ASSUME r2.ok PROVE InText(F, f, q, r2)
  <2>1. InText(F, f, p, r)
    BY <1>1, <1>6, <1>9, <1>10 DEF InCode
  <2>2. PICK s \in Seq(Piece) : s = r.shown
    BY DEF ReadState
  <2>3. Append(s, v) = s \o <<v>> /\ <<v>> \in Seq(Piece)
    BY OneConcat
  <2>4. PICK a \in Seq(Piece), b \in Seq(Piece) :
          a = Total(F, BeardsOf(f)) /\ b = Total(F, Bit(Len(f) + 1, p))
    BY <1>1, TotalBeards
  <2>5. Total(F, Bit(Len(f) + 1, q)) = b \o <<v>>
        /\ (f = << >> \/ (f # << >> /\ \E c, d : CodePart(q, c, d)))
    BY <1>4, <1>8, <2>1, <2>4, BitOn DEF InText
  <2>6. s = a \o b
    BY <2>1, <2>2, <2>4 DEF InText
  <2>7. (a \o b) \o <<v>> = a \o (b \o <<v>>)
    BY <2>3, ConcatAssociative
  <2>8. r2.shown = a \o (b \o <<v>>)
    BY <1>9, <2>2, <2>3, <2>6, <2>7, Zenon
  <2>9. QED
    BY <1>9, <2>4, <2>5, <2>8, Zenon DEF InText
<1>11. QED
  BY <1>5, <1>6, <1>7, <1>10, Zenon DEF Follows

\* So they agree on every text.
LEMMA FollowsAll ==
  ASSUME NEW F, Writer(F)
  PROVE  \A t \in Seq(Token) : Follows(F, t)
<1> DEFINE P == {t \in Seq(Token) : Follows(F, t)}
<1>1. << >> \in P
  <2>1. PICK t \in Seq(Token) : t = << >>
    BY EmptySeq
  <2>2. PICK f \in Seq(Seq(Token)) : f = << >> /\ Len(f) = 0
    BY EmptySeq
  <2>3. Ends(Split(t, CodeMark), f, t)
    BY <2>1, <2>2, SplitEmpty DEF Ends
  <2>4. Read(t) = NothingRead
    BY <2>1, ReadEmpty
  <2>5. ~ NothingRead.open /\ NothingRead.shown = << >>
    BY DEF NothingRead
  <2>6. Bit(Len(f) + 1, t) = << >> /\ BeardsOf(f) = << >>
    BY <2>1, <2>2, BeardsEmpty, Zenon DEF Bit
  <2>7. Total(F, << >>) = << >>
    BY TotalEmpty
  <2>8. << >> \o << >> = << >>
    BY EmptySeq, ConcatEmptySeq
  <2>9. InText(F, f, t, NothingRead)
    BY <2>2, <2>5, <2>6, <2>7, <2>8, Zenon DEF InText
  <2>10. QED
    BY <2>1, <2>3, <2>4, <2>9, Zenon DEF Follows
<1>2. ASSUME NEW t \in Seq(Token), NEW w \in Token, t \in P PROVE Append(t, w) \in P
  <2>1. PICK u \in Seq(Token) : u = Append(t, w) /\ Ends(u, t, w)
    BY AppendProperties DEF Ends
  <2>2. Follows(F, t)
    BY <1>2
  <2>3. CASE w = CodeMark
    BY <2>1, <2>2, <2>3, FollowsMark
  <2>4. CASE w = EndMark
    BY <2>1, <2>2, <2>4, FollowsEnd
  <2>5. CASE w \in Word
    BY <2>1, <2>2, <2>5, FollowsCode, FollowsWord
  <2>6. QED
    BY <2>1, <2>3, <2>4, <2>5, WordsAreTokens
<1>3. QED
  <2> HIDE DEF P
  <2>1. Seq(Token) \subseteq P
    BY <1>1, <1>2, EverySequence
  <2>2. QED
    BY <2>1 DEF P

\* The statements of a text with its marks in pairs say what the text shows.
LEMMA TextSays ==
  ASSUME NEW F, Writer(F), NEW t \in Seq(Token), WellFormed(t)
  PROVE  Total(F, Beards(t)) = TextShown(t)
<1>1. PICK f \in Seq(Seq(Token)), p \in Seq(Token) :
        /\ Ends(Split(t, CodeMark), f, p)
        /\ Read(t).ok => InCode(F, f, p, Read(t)) \/ InText(F, f, p, Read(t))
  BY FollowsAll DEF Follows
<1>2. Read(t).ok /\ ~ Read(t).open
  BY DEF WellFormed
<1>3. InText(F, f, p, Read(t))
  BY <1>1, <1>2 DEF InCode
<1>4. PICK a : a = Split(t, CodeMark) /\ Ends(a, f, p)
  BY <1>1
<1>5. Total(F, BeardsOf(a)) = Total(F, BeardsOf(f)) \o Total(F, Bit(Len(f) + 1, p))
  BY <1>4, TotalBeards
<1>6. Beards(t) = BeardsOf(Split(t, CodeMark))
  BY BeardsAre, Zenon DEF CodeMark
<1>7. QED
  BY <1>3, <1>4, <1>5, <1>6, Zenon DEF InText, TextShown

\* Flat statements are themselves for a group.
LEMMA FlatTotal ==
  ASSUME NEW rest, Rest(rest), NEW T, NEW F, Additive(rest, T, F), NEW s \in Seq(Flat(rest))
  PROVE  s \in Seq(Given(rest)) /\ Total(SaysOf(rest, F), s) = Total(F, s)
<1>1. Flat(rest) \subseteq Given(rest)
  BY DEF Given, Statements
<1>2. s \in Seq(Given(rest))
  BY <1>1, SeqMonotonic
<1>3. PICK n \in Nat : n = Len(s) /\ DOMAIN s = 1 .. n
  BY LenProperties
<1>4. ASSUME NEW i \in 1 .. n PROVE SaysOf(rest, F)[s[i]] = F[s[i]]
  <2>1. PICK x \in Flat(rest) : x = s[i]
    BY <1>3, ElementOfSeq
  <2>2. x # Nil /\ x.op \notin {"empty", "group"}
    BY NotNil, FlatKind DEF Statements
  <2>3. SaysOf(rest, F)[x] = Says(F, x)
    BY <1>1 DEF SaysOf
  <2>4. Says(F, x) = F[x]
    BY <2>2, Zenon DEF Says
  <2>5. QED
    BY <2>1, <2>3, <2>4
<1>5. Each(SaysOf(rest, F), s) = Each(F, s)
  BY <1>3, <1>4 DEF Each
<1>6. QED
  BY <1>2, <1>5 DEF Total

\* A group of one.
LEMMA GroupOfOne ==
  ASSUME NEW rest, Rest(rest), NEW st \in Given(rest), NEW sts, sts = <<st>>
  PROVE  /\ sts \in Seq(Given(rest)) /\ Group(sts) \in Statements(rest)
         /\ \A T, F : Additive(rest, T, F) => Says(F, Group(sts)) = Says(F, st)
<1>1. sts \in Seq(Given(rest))
  OBVIOUS
<1>2. Group(sts) \in Statements(rest)
  BY <1>1, GroupIs
<1>3. ASSUME NEW T, NEW F, Additive(rest, T, F) PROVE Says(F, Group(sts)) = Says(F, st)
  <2>1. Says(F, Group(sts)) = Total(SaysOf(rest, F), sts)
    BY <1>1, <1>3, GroupIs
  <2>2. PICK S : S = SaysOf(rest, F)
    OBVIOUS
  <2>3. S[st] = Says(F, st)
    BY <2>2 DEF SaysOf
  <2>4. Maps(Given(rest), T, S)
    BY <1>3, <2>2, SaysIn DEF Maps, SaysOf
  <2>5. Total(S, <<st>>) = S[st]
    BY <2>4, TotalOne
  <2>6. QED
    BY <2>1, <2>2, <2>3, <2>5
<1>4. QED
  BY <1>1, <1>2, <1>3

-----------------------------------------------------------------------------
(* The words of a text *)

\* A word, and nothing for a mark.
WordOf == [x \in Payload |-> IF x \in Word THEN <<x>> ELSE << >>]

LEMMA WordOfIs ==
  /\ Maps(Payload, Word, WordOf)
  /\ \A x \in Payload : x \notin Word => WordOf[x] = << >>
<1>1. ASSUME NEW x \in Payload PROVE (IF x \in Word THEN <<x>> ELSE << >>) \in Seq(Word)
  <2>1. CASE x \in Word
    <3>1. <<x>> \in Seq(Word)
      BY <2>1
    <3>2. QED
      BY <2>1, <3>1
  <2>2. CASE x \notin Word
    BY <2>2, EmptySeq
  <2>3. QED
    BY <2>1, <2>2
<1>2. QED
  BY <1>1 DEF WordOf, Maps

\* WordsIn is a total.
LEMMA WordsInIs ==
  ASSUME NEW s \in Seq(Payload)
  PROVE  WordsIn(s) = Total(WordOf, s)
<1>1. PICK n \in Nat : n = Len(s) /\ DOMAIN s = 1 .. n
  BY LenProperties
<1>2. \A i \in 1 .. n : s[i] \in Payload
  BY <1>1, ElementOfSeq
<1>3. \A i \in 1 .. n : WordOf[s[i]] = IF s[i] \in Word THEN <<s[i]>> ELSE << >>
  BY <1>2 DEF WordOf
<1>4. Each(WordOf, s) = [i \in 1 .. n |-> WordOf[s[i]]]
  BY <1>1 DEF Each
<1>5. WordsIn(s) = Concat([i \in 1 .. n |-> IF s[i] \in Word THEN <<s[i]>> ELSE << >>])
  BY <1>1 DEF WordsIn
<1>6. QED
  BY <1>3, <1>4, <1>5 DEF Total

LEMMA TokenSeq ==
  ASSUME NEW t \in Seq(Token)
  PROVE  t \in Seq(Payload) /\ Total(WordOf, t) \in Seq(Word)
<1>1. t \in Seq(Payload)
  BY TokenPayload, SeqMonotonic
<1>2. QED
  BY <1>1, WordOfIs, TotalIn

LEMMA WordOn ==
  ASSUME NEW t \in Seq(Token), NEW w \in Token, NEW u, Ends(u, t, w)
  PROVE  Total(WordOf, u) = Total(WordOf, t) \o WordOf[w] /\ Total(WordOf, t) \in Seq(Word)
         /\ WordOf[w] \in Seq(Word)
<1>1. t \in Seq(Payload) /\ w \in Payload
  BY TokenSeq, TokenPayload
<1>2. Total(WordOf, Append(t, w)) = Total(WordOf, t) \o WordOf[w] /\ Total(WordOf, t) \in Seq(Word)
  BY <1>1, WordOfIs, TotalAppend
<1>3. QED
  BY <1>1, <1>2, WordOfIs DEF Ends, Maps

\* The words of a text.
WordsOf == [t \in Seq(Token) |-> Total(WordOf, t)]

LEMMA WordsOfIs == Maps(Seq(Token), Word, WordsOf)
BY TokenSeq DEF WordsOf, Maps

\* A split at a mark keeps the words.
LEMMA SplitWords ==
  ASSUME NEW mark \in Token, mark \notin Word
  PROVE  \A t \in Seq(Token) : Total(WordsOf, Split(t, mark)) = Total(WordOf, t)
<1> DEFINE P == {t \in Seq(Token) : Total(WordsOf, Split(t, mark)) = Total(WordOf, t)}
<1>1. << >> \in P
  <2>1. PICK e \in Seq(Token) : e = << >>
    BY EmptySeq
  <2>2. Split(e, mark) = <<e>>
    BY <2>1, SplitEmpty
  <2>3. Total(WordsOf, <<e>>) = WordsOf[e]
    BY WordsOfIs, TotalOne
  <2>4. WordsOf[e] = Total(WordOf, e)
    BY DEF WordsOf
  <2>5. QED
    BY <2>1, <2>2, <2>3, <2>4
<1>2. ASSUME NEW text \in Seq(Token), NEW w \in Token, text \in P PROVE Append(text, w) \in P
  <2>1. PICK longer \in Seq(Token) : longer = Append(text, w) /\ Ends(longer, text, w)
    BY AppendProperties DEF Ends
  <2>2. PICK before \in Seq(Word), more \in Seq(Word) :
          before = Total(WordOf, text) /\ more = WordOf[w] /\ Total(WordOf, longer) = before \o more
    BY <2>1, WordOn
  <2>3. PICK f \in Seq(Seq(Token)), p \in Seq(Token), a \in {Split(text, mark)} :
          a = Split(text, mark) /\ Ends(a, f, p)
    BY SplitParts DEF Ends
  <2>4. Total(WordsOf, a) = before
    BY <1>2, <2>2, <2>3
  <2>5. CASE w = mark
    <3>1. PICK e \in Seq(Token) : e = << >>
      BY EmptySeq
    <3>2. a \in Seq(Seq(Token)) /\ Ends(Split(longer, mark), a, e)
      BY <2>1, <2>3, <2>5, <3>1, SplitMark
    <3>3. Total(WordsOf, Append(a, e)) = Total(WordsOf, a) \o WordsOf[e]
      <4>1. PICK c \in Seq(Seq(Token)) : c = a
        BY <3>2
      <4>2. Total(WordsOf, Append(c, e)) = Total(WordsOf, c) \o WordsOf[e]
        <5>1. PICK S : S = Seq(Token)
          OBVIOUS
        <5>2. Maps(S, Word, WordsOf) /\ c \in Seq(S) /\ e \in S
          BY <5>1, WordsOfIs
        <5>3. QED
          BY <5>2, TotalAppend
      <4>3. QED
        BY <4>1, <4>2
    <3>4. WordsOf[e] = << >>
      BY <3>1, TotalEmpty DEF WordsOf
    <3>5. more = << >>
      BY <2>2, <2>5, TokenPayload, WordOfIs
    <3>6. QED
      BY <2>1, <2>2, <2>4, <3>2, <3>3, <3>4, <3>5 DEF Ends
  <2>6. CASE w # mark
    <3>1. PICK q : q = Append(p, w) /\ Ends(q, p, w)
      BY DEF Ends
    <3>2. Ends(Split(longer, mark), f, q) /\ q \in Seq(Token)
      BY <2>1, <2>3, <2>6, <3>1, SplitWord
    <3>3. PICK c \in Seq(Word) : c = Total(WordsOf, f) /\ Total(WordsOf, Append(f, q)) = c \o WordsOf[q]
      BY <3>2, WordsOfIs, TotalAppend
    <3>4. Total(WordsOf, Append(f, p)) = Total(WordsOf, f) \o WordsOf[p]
      BY WordsOfIs, TotalAppend
    <3>5. PICK d \in Seq(Word) : d = Total(WordOf, p) /\ Total(WordOf, q) = d \o more
      BY <2>2, <3>1, WordOn
    <3>6. WordsOf[p] = d /\ WordsOf[q] = d \o more
      BY <3>2, <3>5 DEF WordsOf
    <3>7. (c \o d) \o more = c \o (d \o more)
      BY ConcatAssociative
    <3>8. before = c \o d
      BY <2>3, <2>4, <3>3, <3>4, <3>6, Zenon DEF Ends
    <3>9. Total(WordsOf, Split(longer, mark)) = before \o more
      BY <3>2, <3>3, <3>6, <3>7, <3>8, Zenon DEF Ends
    <3>10. QED
      BY <2>1, <2>2, <3>9, Zenon
  <2>7. QED
    BY <2>5, <2>6
<1>3. QED
  <2> HIDE DEF P
  <2>1. Seq(Token) \subseteq P
    BY <1>1, <1>2, EverySequence
  <2>2. QED
    BY <2>1 DEF P

\* H is F of all that G makes.
Through(A, F, G, H) == \A a \in A : H[a] = Total(F, G[a])

\* A total of totals is a total.
LEMMA TotalThrough ==
  ASSUME NEW S, NEW T, NEW A, NEW F, NEW G, NEW H, Maps(S, T, F), Maps(A, S, G), Maps(A, T, H),
         Through(A, F, G, H)
  PROVE  \A s \in Seq(A) : Total(F, Total(G, s)) = Total(H, s)
<1> DEFINE P == {s \in Seq(A) : Total(F, Total(G, s)) = Total(H, s)}
<1>1. << >> \in P
  <2>1. Total(G, << >>) = << >> /\ Total(F, << >>) = << >> /\ Total(H, << >>) = << >>
    BY TotalEmpty
  <2>2. << >> \in Seq(A)
    BY EmptySeq
  <2>3. Total(F, Total(G, << >>)) = Total(H, << >>)
    BY <2>1
  <2>4. QED
    BY <2>2, <2>3
<1>2. ASSUME NEW t \in Seq(A), NEW a \in A, t \in P PROVE Append(t, a) \in P
  <2>1. Total(F, Total(G, t)) = Total(H, t)
    BY <1>2
  <2>2. PICK b \in Seq(S) : b = Total(G, t) /\ Total(G, Append(t, a)) = b \o G[a]
    BY TotalAppend
  <2>3. PICK c \in Seq(S) : c = G[a]
    BY DEF Maps
  <2>4. Total(F, b \o c) = Total(F, b) \o Total(F, c)
    BY TotalConcat
  <2>5. Total(H, Append(t, a)) = Total(H, t) \o H[a]
    BY TotalAppend
  <2>6. H[a] = Total(F, G[a])
    BY DEF Through
  <2>7. Total(F, Total(G, Append(t, a))) = Total(H, Append(t, a))
    BY <2>1, <2>2, <2>3, <2>4, <2>5, <2>6, Zenon
  <2>8. Append(t, a) \in Seq(A)
    BY AppendProperties
  <2>9. QED
    BY <2>7, <2>8, Zenon
<1>3. QED
  <2> HIDE DEF P
  <2>1. Seq(A) \subseteq P
    BY <1>1, <1>2, EverySequence
  <2>2. QED
    BY <2>1 DEF P

\* The words of a piece.
PieceWord == [x \in Piece |-> WordOf[x[2]]]

LEMMA PieceWordIs == Maps(Piece, Word, PieceWord)
<1>1. \A x \in Piece : x[2] \in Payload
  BY DEF Piece
<1>2. \A x \in Piece : WordOf[x[2]] \in Seq(Word)
  BY <1>1, WordOfIs DEF Maps
<1>3. QED
  BY <1>2 DEF Maps, PieceWord

LEMMA StrSpelled ==
  ASSUME NEW p \in Seq(Piece)
  PROVE  Spelled(Str(p)) \in Seq(Payload) /\ Total(WordOf, Spelled(Str(p))) = Total(PieceWord, p)
<1>1. PICK n \in Nat : n = Len(p) /\ DOMAIN p = 1 .. n
  BY LenProperties
<1>2. \A i \in 1 .. n : p[i] \in Piece
  BY <1>1, ElementOfSeq
<1>3. \A i \in 1 .. n : p[i][2] \in Payload
  BY <1>2 DEF Piece
<1>4. Spelled(Str(p)) = [i \in 1 .. n |-> p[i][2]]
  BY <1>1, StrIs DEF Spelled
<1>5. PICK q : q = [i \in 1 .. n |-> p[i][2]]
  OBVIOUS
<1>6. q \in Seq(Payload)
  BY <1>3, <1>5
<1>7. Each(WordOf, q) = [i \in 1 .. n |-> WordOf[p[i][2]]]
  BY <1>5 DEF Each
<1>8. Each(PieceWord, p) = [i \in 1 .. n |-> WordOf[p[i][2]]]
  BY <1>1, <1>2 DEF Each, PieceWord
<1>9. QED
  BY <1>4, <1>5, <1>6, <1>7, <1>8, Zenon DEF Total

\* What a statement without holders spells, and its words.
Spells == [st \in Flat(Exps) |-> Spelled(st)]

SpelledWords == [st \in Flat(Exps) |-> Total(WordOf, Spelled(st))]

LEMMA ExpSpelled ==
  ASSUME NEW st \in Exps
  PROVE  st.code \in Seq(Token) /\ Spelled(st) = st.code /\ Spelled(st) \in Seq(Payload)
<1>1. st.op = "exp" /\ st.code \in Seq(Token)
  BY DEF Exps
<1>2. Spelled(st) = st.code
  BY <1>1 DEF Spelled
<1>3. QED
  BY <1>1, <1>2, TokenSeq

LEMMA SpellsIs ==
  /\ Maps(Flat(Exps), Payload, Spells) /\ Maps(Flat(Exps), Word, SpelledWords)
  /\ Through(Flat(Exps), WordOf, Spells, SpelledWords)
<1>1. ASSUME NEW st \in Flat(Exps) PROVE Spelled(st) \in Seq(Payload)
  <2>1. CASE st \in Strs
    <3>1. st.s \in Seq(Piece) /\ st = Str(st.s)
      BY <2>1 DEF Strs, Str
    <3>2. QED
      BY <3>1, StrSpelled
  <2>2. CASE st \in Exps
    BY <2>2, ExpSpelled
  <2>3. QED
    BY <2>1, <2>2 DEF Flat
<1>2. ASSUME NEW st \in Flat(Exps) PROVE Total(WordOf, Spelled(st)) \in Seq(Word)
  BY <1>1, WordOfIs, TotalIn
<1>3. QED
  BY <1>1, <1>2 DEF Maps, Through, Spells, SpelledWords

\* Merging texts loses no word.
LEMMA SpelledAdditive == Additive(Exps, Word, SpelledWords)
<1>1. ASSUME NEW p \in Seq(Piece)
      PROVE  Str(p) \in Flat(Exps) /\ SpelledWords[Str(p)] = Total(PieceWord, p)
  BY StrIs, StrSpelled DEF SpelledWords
<1>2. SpelledWords[Str(<< >>)] = << >>
  BY <1>1, EmptySeq, TotalEmpty
<1>3. ASSUME NEW a \in Seq(Piece), NEW b \in Seq(Piece)
      PROVE  SpelledWords[Str(a \o b)] = SpelledWords[Str(a)] \o SpelledWords[Str(b)]
  <2>1. a \o b \in Seq(Piece)
    BY ConcatProperties
  <2>2. Total(PieceWord, a \o b) = Total(PieceWord, a) \o Total(PieceWord, b)
    BY PieceWordIs, TotalConcat
  <2>3. QED
    BY <1>1, <2>1, <2>2, Zenon
<1>4. QED
  BY <1>2, <1>3, SpellsIs DEF Additive

LEMMA TextSpelled ==
  ASSUME NEW t \in Seq(Token)
  PROVE  /\ Str(Text(t)) \in Flat(Exps) /\ SpelledWords[Str(Text(t))] = Total(WordOf, t)
<1>1. PICK p \in Seq(Piece) : p = Text(t) /\ Len(p) = Len(t) /\ \A i \in 1 .. Len(t) : p[i] = <<"text", t[i]>>
  BY PiecesEach DEF Text
<1>2. PICK n \in Nat : n = Len(p) /\ n = Len(t) /\ DOMAIN p = 1 .. n /\ DOMAIN t = 1 .. n
  BY <1>1, LenProperties
<1>3. \A i \in 1 .. n : t[i] \in Token /\ WordOf[p[i][2]] = WordOf[t[i]] /\ p[i] \in Piece
  BY <1>1, <1>2, ElementOfSeq
<1>4. Each(WordOf, t) = [i \in 1 .. n |-> WordOf[t[i]]]
  BY <1>2 DEF Each
<1>5. Each(PieceWord, p) = [i \in 1 .. n |-> WordOf[p[i][2]]]
  BY <1>2, <1>3 DEF Each, PieceWord
<1>6. Total(PieceWord, p) = Total(WordOf, t)
  BY <1>3, <1>4, <1>5 DEF Total
<1>7. Str(p) \in Flat(Exps) /\ SpelledWords[Str(p)] = Total(PieceWord, p)
  BY StrIs, StrSpelled DEF SpelledWords
<1>8. QED
  BY <1>1, <1>6, <1>7

LEMMA CodeSpelled ==
  ASSUME NEW c \in Seq(Token), NEW x, x = [op |-> "exp", code |-> c]
  PROVE  x \in Flat(Exps) /\ SpelledWords[x] = Total(WordOf, c)
<1>1. x \in Exps /\ x.code = c
  BY DEF Exps
<1>2. x \in Flat(Exps) /\ Spelled(x) = c
  BY <1>1, ExpSpelled DEF Flat
<1>3. QED
  BY <1>2 DEF SpelledWords

\* One statement for a text, or none.
LEMMA SpelledUnless ==
  ASSUME NEW t \in Seq(Token), NEW x \in Flat(Exps), SpelledWords[x] = Total(WordOf, t),
         NEW y, y = IF t = << >> THEN << >> ELSE <<x>>
  PROVE  y \in Seq(Flat(Exps)) /\ Total(SpelledWords, y) = Total(WordOf, t)
<1>1. CASE t = << >>
  BY <1>1, TotalEmpty, EmptySeq
<1>2. CASE t # << >>
  <2>1. PICK S : S = Flat(Exps)
    OBVIOUS
  <2>2. <<x>> \in Seq(S)
    BY <2>1
  <2>3. Total(SpelledWords, <<x>>) = SpelledWords[x]
    BY SpellsIs, TotalOne
  <2>4. QED
    BY <1>2, <2>1, <2>2, <2>3
<1>3. QED
  BY <1>1, <1>2

\* No word of a part is lost.
LEMMA BitWords ==
  ASSUME NEW n, NEW p \in Seq(Token)
  PROVE  Total(SpelledWords, Bit(n, p)) = Total(WordOf, p)
<1>1. PICK x \in Flat(Exps) : x = Str(Text(p)) /\ SpelledWords[x] = Total(WordOf, p)
  BY TextSpelled
<1>2. PICK m : m = EndMark
  OBVIOUS
<1>3. CASE p = << >> \/ n = 1 \/ Len(Split(p, m)) # 2
  <2>1. Bit(n, p) = IF p = << >> THEN << >> ELSE <<x>>
    BY <1>1, <1>2, <1>3, Zenon DEF Bit, BeardPart, EndMark
  <2>2. QED
    BY <1>1, <2>1, SpelledUnless
<1>4. CASE p # << >> /\ n # 1 /\ Len(Split(p, m)) = 2
  <2>1. PICK c \in Seq(Token), d \in Seq(Token), f \in Seq(Seq(Token)) :
          /\ Split(p, m)[1] = c /\ Split(p, m)[2] = d
          /\ Ends(Split(p, m), f, d) /\ Ends(f, << >>, c)
    BY <1>4, SplitTwo
  <2>2. PICK z \in Flat(Exps) : z = [op |-> "exp", code |-> c] /\ SpelledWords[z] = Total(WordOf, c)
    BY CodeSpelled
  <2>3. PICK u : u = IF c = << >> THEN << >> ELSE <<z>>
    OBVIOUS
  <2>4. PICK w \in Flat(Exps) : w = Str(Text(d)) /\ SpelledWords[w] = Total(WordOf, d)
    BY TextSpelled
  <2>5. PICK v : v = IF d = << >> THEN << >> ELSE <<w>>
    OBVIOUS
  <2>6. Bit(n, p) = u \o v
    BY <1>2, <1>4, <2>1, <2>2, <2>3, <2>4, <2>5, Zenon DEF Bit, BeardPart, EndMark
  <2>7. u \in Seq(Flat(Exps)) /\ Total(SpelledWords, u) = Total(WordOf, c)
    BY <2>2, <2>3, SpelledUnless
  <2>8. v \in Seq(Flat(Exps)) /\ Total(SpelledWords, v) = Total(WordOf, d)
    BY <2>4, <2>5, SpelledUnless
  <2>9. Total(SpelledWords, u \o v) = Total(SpelledWords, u) \o Total(SpelledWords, v)
    BY <2>7, <2>8, SpellsIs, TotalConcat
  <2>10. Total(WordOf, p) = Total(WordOf, c) \o Total(WordOf, d)
    <3>1. m \in Token /\ m \notin Word
      BY <1>2, WordsAreTokens
    <3>2. PICK a : a = Split(p, m) /\ Ends(a, f, d)
      BY <2>1
    <3>3. Total(WordsOf, a) = Total(WordOf, p)
      BY <3>1, <3>2, SplitWords
    <3>4. PICK S : S = Seq(Token)
      OBVIOUS
    <3>5. f \in Seq(S) /\ c \in S /\ d \in S /\ Maps(S, Word, WordsOf)
      BY <3>4, WordsOfIs
    <3>6. Total(WordsOf, Append(f, d)) = Total(WordsOf, f) \o WordsOf[d]
      BY <3>5, TotalAppend
    <3>7. f = <<c>>
      BY <2>1 DEF Ends
    <3>8. Total(WordsOf, <<c>>) = WordsOf[c]
      BY <3>5, TotalOne
    <3>9. WordsOf[c] = Total(WordOf, c) /\ WordsOf[d] = Total(WordOf, d)
      BY DEF WordsOf
    <3>10. QED
      BY <3>2, <3>3, <3>6, <3>7, <3>8, <3>9, Zenon DEF Ends
  <2>11. QED
    BY <2>6, <2>7, <2>8, <2>9, <2>10, Zenon
<1>5. QED
  BY <1>3, <1>4

\* No word of a text is lost.
LEMMA BeardWords ==
  ASSUME NEW t \in Seq(Token)
  PROVE  Total(SpelledWords, Beards(t)) = Total(WordOf, t)
<1> DEFINE P == {a \in Seq(Seq(Token)) : Total(SpelledWords, BeardsOf(a)) = Total(WordsOf, a)}
<1>1. << >> \in P
  <2>1. Total(SpelledWords, BeardsOf(<< >>)) = Total(WordsOf, << >>)
    BY BeardsEmpty, TotalEmpty, Zenon
  <2>2. << >> \in Seq(Seq(Token))
    BY EmptySeq
  <2>3. QED
    BY <2>1, <2>2, Zenon
<1>2. PICK S : S = Seq(Token)
  OBVIOUS
<1>3. ASSUME NEW f \in Seq(S), NEW p \in S, f \in P PROVE Append(f, p) \in P
  <2>1. PICK a \in Seq(S) : a = Append(f, p) /\ Ends(a, f, p)
    BY AppendProperties DEF Ends
  <2>2. f \in Seq(Seq(Token)) /\ p \in Seq(Token) /\ a \in Seq(Seq(Token))
    BY <1>2
  <2>3. PICK b \in Seq(Flat(Exps)), x \in Seq(Flat(Exps)) :
          b = BeardsOf(f) /\ x = Bit(Len(f) + 1, p) /\ BeardsOf(a) = b \o x
    BY <2>1, <2>2, BeardsAppend
  <2>4. Total(SpelledWords, b \o x) = Total(SpelledWords, b) \o Total(SpelledWords, x)
    BY SpellsIs, TotalConcat
  <2>5. Total(SpelledWords, x) = Total(WordOf, p)
    BY <2>2, <2>3, BitWords
  <2>6. Total(SpelledWords, b) = Total(WordsOf, f)
    BY <1>3, <2>3, Zenon
  <2>7. Total(WordsOf, Append(f, p)) = Total(WordsOf, f) \o WordsOf[p]
    BY <1>2, WordsOfIs, TotalAppend
  <2>8. WordsOf[p] = Total(WordOf, p)
    BY <2>2 DEF WordsOf
  <2>9. Total(SpelledWords, BeardsOf(a)) = Total(WordsOf, a)
    BY <2>1, <2>3, <2>4, <2>5, <2>6, <2>7, <2>8, Zenon
  <2>10. QED
    BY <2>1, <2>2, <2>9, Zenon
<1>4. Seq(Seq(Token)) \subseteq P
  <2> HIDE DEF P
  <2>1. Seq(S) \subseteq P
    BY <1>1, <1>3, EverySequence
  <2>2. QED
    BY <1>2, <2>1
<1>5. PICK m : m = CodeMark
  OBVIOUS
<1>6. PICK f \in Seq(Seq(Token)), p \in Seq(Token), a \in {Split(t, m)} :
        a = Split(t, m) /\ Ends(a, f, p)
  BY SplitParts DEF Ends
<1>7. a \in Seq(Seq(Token))
  <2>1. f \in Seq(S) /\ p \in S
    BY <1>2
  <2>2. Append(f, p) \in Seq(S)
    BY <2>1, AppendProperties
  <2>3. QED
    BY <1>2, <1>6, <2>2 DEF Ends
<1>8. Total(SpelledWords, BeardsOf(a)) = Total(WordsOf, a)
  BY <1>4, <1>7, Zenon
<1>9. Total(WordsOf, a) = Total(WordOf, t)
  BY <1>5, <1>6, WordsAreTokens, SplitWords
<1>10. Beards(t) = BeardsOf(Split(t, CodeMark))
  BY BeardsAre, Zenon DEF CodeMark
<1>11. QED
  BY <1>5, <1>6, <1>8, <1>9, <1>10, Zenon

\* The statement of a text keeps its words.
LEMMA StatementWords ==
  ASSUME NEW st \in Statements(Exps), NEW sts, sts = IF st.op = "group" THEN st.s ELSE <<st>>
  PROVE  WordsIn(Concat([i \in DOMAIN sts |-> Spelled(sts[i])])) = Says(SpelledWords, st)
<1>1. Rest(Exps) /\ st # Nil
  BY NotNil DEF Rest
<1>2. CASE st.op = "empty"
  <2>1. sts = <<st>>
    BY <1>2
  <2>2. Spelled(st) = << >>
    BY <1>2 DEF Spelled
  <2>3. [i \in DOMAIN sts |-> Spelled(sts[i])] = <<<< >>>>
    BY <2>1, <2>2
  <2>4. PICK e \in Seq(Payload) : e = << >>
    BY EmptySeq
  <2>5. Concat(<<e>>) = e
    <3>1. << >> \in Seq(Seq(Payload))
      BY EmptySeq
    <3>2. Concat(Append(<< >>, e)) = Concat(<< >>) \o e
      BY <3>1, ConcatAppend
    <3>3. Append(<< >>, e) = <<e>>
      OBVIOUS
    <3>4. << >> \o e = e
      BY ConcatEmptySeq
    <3>5. QED
      BY <3>2, <3>3, <3>4, ConcatEmpty, Zenon
  <2>6. WordsIn(e) = << >>
    BY <2>4, WordsInIs, TotalEmpty
  <2>7. Says(SpelledWords, st) = << >>
    BY <1>2, Zenon DEF Says
  <2>8. QED
    BY <2>3, <2>4, <2>5, <2>6, <2>7, Zenon
<1>3. CASE st.op # "empty"
  <2>1. sts \in Seq(Flat(Exps)) /\ Says(SpelledWords, st) = Total(SpelledWords, sts)
    <3>1. CASE st.op = "group"
      BY <1>1, <3>1, StatementKind DEF Says
    <3>2. CASE st.op # "group"
      <4>1. PICK S : S = Flat(Exps)
        OBVIOUS
      <4>2. st \in S
        BY <1>1, <1>3, <3>2, <4>1, StatementKind
      <4>3. <<st>> \in Seq(S)
        BY <4>2
      <4>4. Total(SpelledWords, <<st>>) = SpelledWords[st]
        BY <4>1, <4>2, SpellsIs, TotalOne
      <4>5. Says(SpelledWords, st) = SpelledWords[st]
        BY <1>1, <1>3, <3>2, Zenon DEF Says
      <4>6. QED
        BY <3>2, <4>1, <4>3, <4>4, <4>5, Zenon
    <3>3. QED
      BY <3>1, <3>2
  <2>2. PICK n \in Nat : n = Len(sts) /\ DOMAIN sts = 1 .. n
    BY <2>1, LenProperties
  <2>3. \A i \in 1 .. n : sts[i] \in Flat(Exps)
    BY <2>1, <2>2, ElementOfSeq
  <2>4. [i \in DOMAIN sts |-> Spelled(sts[i])] = Each(Spells, sts)
    BY <2>2, <2>3 DEF Each, Spells
  <2>5. PICK a \in Seq(Payload) : a = Total(Spells, sts)
    BY <2>1, SpellsIs, TotalIn
  <2>6. WordsIn(a) = Total(WordOf, a)
    BY WordsInIs
  <2>7. Total(WordOf, Total(Spells, sts)) = Total(SpelledWords, sts)
    <3>1. \A s \in Seq(Flat(Exps)) : Total(WordOf, Total(Spells, s)) = Total(SpelledWords, s)
      BY WordOfIs, SpellsIs, TotalThrough
    <3>2. QED
      BY <2>1, <3>1, Zenon
  <2>8. QED
    BY <2>1, <2>4, <2>5, <2>6, <2>7, Zenon DEF Total
<1>4. QED
  BY <1>2, <1>3

-----------------------------------------------------------------------------
(* The first and the last *)

\* What holds somewhere up to n holds somewhere for the last time.
LEMMA Greatest ==
  ASSUME NEW n \in Nat, NEW S, S # {}, S \subseteq 1 .. n
  PROVE  \E i \in S : \A j \in S : j <= i
<1> DEFINE Q == {m \in Nat : \A U \in SUBSET (1 .. m) : U # {} => \E i \in U : \A j \in U : j <= i}
<1>1. 0 \in Q
  <2>1. 1 .. 0 = {}
    OBVIOUS
  <2>2. QED
    BY <2>1
<1>2. ASSUME NEW m \in Nat, m \in Q PROVE m + 1 \in Q
  <2>1. ASSUME NEW U \in SUBSET (1 .. m + 1), U # {} PROVE \E i \in U : \A j \in U : j <= i
    <3>1. CASE m + 1 \in U
      BY <3>1
    <3>2. CASE m + 1 \notin U
      <4>1. U \in SUBSET (1 .. m)
        BY <3>2
      <4>2. QED
        BY <1>2, <2>1, <4>1
    <3>3. QED
      BY <3>1, <3>2
  <2>2. QED
    BY <2>1
<1>3. Nat \subseteq Q
  <2> HIDE DEF Q
  <2>1. QED
    BY <1>1, <1>2, UpFromZero
<1>4. QED
  BY <1>3

LEMMA FirstIs ==
  ASSUME NEW n \in Nat, NEW S, S # {}, S \subseteq 1 .. n
  PROVE  First(S) \in S
<1> DEFINE U == {n + 1 - i : i \in S}
<1>1. U # {} /\ U \subseteq 1 .. n
  <2>1. \A i \in S : n + 1 - i \in 1 .. n
    OBVIOUS
  <2>2. QED
    BY <2>1
<1>2. PICK u \in U : \A j \in U : j <= u
  <2> HIDE DEF U
  <2>1. QED
    BY <1>1, Greatest
<1>3. PICK i \in S : u = n + 1 - i
  BY <1>2
<1>4. ASSUME NEW j \in S PROVE i <= j
  <2>1. n + 1 - j \in U
    OBVIOUS
  <2>2. QED
    BY <1>2, <1>3, <2>1
<1>5. QED
  BY <1>4, Zenon DEF First

\* v is the last of xs up to n that is not nil.
IsLast(n, xs, v) ==
  \/ v = Nil /\ \A i \in 1 .. n : xs[i] = Nil
  \/ v # Nil /\ \E i \in 1 .. n : v = xs[i] /\ \A j \in 1 .. n : j > i => xs[j] = Nil

\* LastOf is that, and the only one.
LEMMA LastOfIs ==
  ASSUME NEW n \in Nat, NEW xs, DOMAIN xs = 1 .. n
  PROVE  IsLast(n, xs, LastOf(xs))
<1> DEFINE some == {i \in 1 .. n : xs[i] # Nil}
           last == CHOOSE i \in some : \A j \in some : j <= i
<1>1. LastOf(xs) = IF some = {} THEN Nil ELSE xs[last]
  BY DEF LastOf
<1>2. CASE some = {}
  BY <1>1, <1>2 DEF IsLast
<1>3. CASE some # {}
  <2>1. \E i \in some : \A j \in some : j <= i
    <3>1. some \subseteq 1 .. n
      OBVIOUS
    <3> HIDE DEF some
    <3>2. QED
      BY <1>3, <3>1, Greatest
  <2>2. last \in some /\ \A j \in some : j <= last
    <3> HIDE DEF some
    <3>1. QED
      BY <2>1, Zenon
  <2> HIDE DEF last
  <2>3. LastOf(xs) = xs[last] /\ last \in 1 .. n /\ xs[last] # Nil
    BY <1>1, <1>3, <2>2
  <2>4. ASSUME NEW j \in 1 .. n, j > last PROVE xs[j] = Nil
    BY <2>2, <2>3, <2>4
  <2>5. QED
    BY <2>3, <2>4 DEF IsLast
<1>4. QED
  BY <1>2, <1>3

LEMMA LastUnique ==
  ASSUME NEW n \in Nat, NEW xs, NEW v, NEW w, IsLast(n, xs, v), IsLast(n, xs, w)
  PROVE  v = w
BY DEF IsLast

\* What the last is made into.
LEMMA LastMapped ==
  ASSUME NEW n \in Nat, NEW xs, NEW ys, NEW v, IsLast(n, xs, v), NEW M,
         \A i \in 1 .. n : xs[i] = Nil => ys[i] = Nil,
         \A i \in 1 .. n : xs[i] # Nil => ys[i] # Nil /\ ys[i] = M[xs[i]]
  PROVE  IsLast(n, ys, IF v = Nil THEN Nil ELSE M[v])
<1>1. CASE v = Nil
  BY <1>1 DEF IsLast
<1>2. CASE v # Nil
  <2>1. PICK i \in 1 .. n : v = xs[i] /\ \A j \in 1 .. n : j > i => xs[j] = Nil
    BY <1>2 DEF IsLast
  <2>2. ys[i] # Nil /\ ys[i] = M[v] /\ \A j \in 1 .. n : j > i => ys[j] = Nil
    BY <1>2, <2>1
  <2>3. QED
    BY <1>2, <2>2 DEF IsLast
<1>3. QED
  BY <1>1, <1>2

\* The last of two sequences is in the second, unless that has none.
LEMMA LastJoined ==
  ASSUME NEW n \in Nat, NEW m \in Nat, NEW xs, NEW ys, NEW zs, NEW v, NEW w,
         IsLast(n, xs, v), IsLast(m, ys, w),
         \A i \in 1 .. n : zs[i] = xs[i],
         \A i \in 1 .. m : zs[n + i] = ys[i]
  PROVE  IsLast(n + m, zs, IF w = Nil THEN v ELSE w)
<1>1. ASSUME NEW j \in 1 .. n + m
      PROVE  (j \in 1 .. n /\ zs[j] = xs[j]) \/ \E k \in 1 .. m : j = n + k /\ zs[j] = ys[k]
  <2>1. CASE j <= n
    BY <2>1
  <2>2. CASE j > n
    <3>1. j - n \in 1 .. m /\ j = n + (j - n)
      BY <2>2
    <3>2. QED
      BY <3>1
  <2>3. QED
    BY <2>1, <2>2
<1>2. CASE w = Nil /\ v = Nil
  <2>1. \A j \in 1 .. n + m : zs[j] = Nil
    BY <1>1, <1>2 DEF IsLast
  <2>2. QED
    BY <1>2, <2>1 DEF IsLast
<1>3. CASE w = Nil /\ v # Nil
  <2>1. PICK i \in 1 .. n : v = xs[i] /\ \A j \in 1 .. n : j > i => xs[j] = Nil
    BY <1>3 DEF IsLast
  <2>2. \A k \in 1 .. m : ys[k] = Nil
    BY <1>3 DEF IsLast
  <2>3. ASSUME NEW j \in 1 .. n + m, j > i PROVE zs[j] = Nil
    BY <1>1, <2>1, <2>2, <2>3
  <2>4. i \in 1 .. n + m /\ v = zs[i]
    BY <2>1
  <2>5. QED
    BY <1>3, <2>3, <2>4 DEF IsLast
<1>4. CASE w # Nil
  <2>1. PICK i \in 1 .. m : w = ys[i] /\ \A j \in 1 .. m : j > i => ys[j] = Nil
    BY <1>4 DEF IsLast
  <2>2. ASSUME NEW j \in 1 .. n + m, j > n + i PROVE zs[j] = Nil
    BY <1>1, <2>1, <2>2
  <2>3. n + i \in 1 .. n + m /\ w = zs[n + i]
    BY <2>1
  <2>4. QED
    BY <1>4, <2>2, <2>3 DEF IsLast
<1>5. QED
  BY <1>2, <1>3, <1>4

LEMMA LastIn ==
  ASSUME NEW n \in Nat, NEW xs, NEW v, IsLast(n, xs, v), NEW S, \A i \in 1 .. n : xs[i] \in S \cup {Nil}
  PROVE  v \in S \cup {Nil}
BY DEF IsLast

-----------------------------------------------------------------------------
(* What nodes are compiled to *)

\* What a node is compiled to, as far as its parent is concerned.
ResultIn(rest, r) ==
  r.st \in Given(rest) /\ r.slots \in [Slot -> Given(rest)] /\ r.err \in BOOLEAN

\* The same for a sequence of nodes.
ResultsIn(rest, n, rs) == DOMAIN rs = 1 .. n /\ \A i \in 1 .. n : ResultIn(rest, rs[i])

\* The statements for one slot.
SlotsAt(slotss, s) == [i \in DOMAIN slotss |-> slotss[i][s]]

LEMMA NoSlotsIn ==
  ASSUME NEW rest
  PROVE  NoSlots \in [Slot -> Given(rest)] /\ \A s \in Slot : NoSlots[s] = Nil
BY DEF NoSlots, Given

\* SlotsC.marge keeps the last statement for a slot.
LEMMA MargedIs ==
  ASSUME NEW n \in Nat, NEW slotss, DOMAIN slotss = 1 .. n, NEW s \in Slot
  PROVE  IsLast(n, SlotsAt(slotss, s), Marged(slotss)[s])
<1>1. DOMAIN SlotsAt(slotss, s) = 1 .. n
  BY DEF SlotsAt
<1>2. Marged(slotss)[s] = LastOf(SlotsAt(slotss, s))
  BY DEF Marged, SlotsAt
<1>3. QED
  BY <1>1, <1>2, LastOfIs

LEMMA MargedIn ==
  ASSUME NEW rest, NEW n \in Nat, NEW slotss, DOMAIN slotss = 1 .. n,
         \A i \in 1 .. n : slotss[i] \in [Slot -> Given(rest)]
  PROVE  Marged(slotss) \in [Slot -> Given(rest)]
<1>1. ASSUME NEW s \in Slot PROVE Marged(slotss)[s] \in Given(rest)
  <2>1. IsLast(n, SlotsAt(slotss, s), Marged(slotss)[s])
    BY MargedIs
  <2>2. \A i \in 1 .. n : SlotsAt(slotss, s)[i] \in Statements(rest) \cup {Nil}
    BY DEF SlotsAt, Given
  <2>3. Marged(slotss)[s] \in Statements(rest) \cup {Nil}
    BY <2>1, <2>2, LastIn
  <2>4. QED
    BY <2>3 DEF Given
<1>2. Marged(slotss) = [s \in Slot |-> Marged(slotss)[s]]
  BY DEF Marged
<1>3. QED
  BY <1>1, <1>2

\* The children of a node become one compact statement.
LEMMA ChildrenIn ==
  ASSUME NEW rest, Rest(rest), NEW n \in Nat, NEW rs, ResultsIn(rest, n, rs)
  PROVE  /\ ResultIn(rest, Children(rs)) /\ Children(rs).st \in Statements(rest)
         /\ Compact(Children(rs).st)
<1>1. DOMAIN rs = 1 .. n /\ \A i \in 1 .. n : ResultIn(rest, rs[i])
  BY DEF ResultsIn
<1>2. PICK sts : sts = [i \in 1 .. n |-> rs[i].st]
  OBVIOUS
<1>3. sts \in Seq(Given(rest))
  BY <1>1, <1>2 DEF ResultIn
<1>4. Group(sts) \in Statements(rest) /\ Compact(Group(sts))
  BY <1>3, GroupIs
<1>5. PICK slotss : slotss = [i \in 1 .. n |-> rs[i].slots]
  OBVIOUS
<1>6. Marged(slotss) \in [Slot -> Given(rest)]
  <2>1. DOMAIN slotss = 1 .. n /\ \A i \in 1 .. n : slotss[i] \in [Slot -> Given(rest)]
    BY <1>1, <1>5 DEF ResultIn
  <2>2. QED
    BY <2>1, MargedIn
<1>7. (\E i \in DOMAIN rs : rs[i].err) \in BOOLEAN
  OBVIOUS
<1>8. Children(rs) = [st |-> Group(sts), slots |-> Marged(slotss), err |-> \E i \in DOMAIN rs : rs[i].err]
  BY <1>1, <1>2, <1>5, Zenon DEF Children
<1>9. PICK e \in BOOLEAN : e = \E i \in DOMAIN rs : rs[i].err
  BY <1>7
<1>10. PICK c : c = Children(rs) /\ c.st = Group(sts) /\ c.slots = Marged(slotss) /\ c.err = e
  <2>1. Children(rs) = [st |-> Group(sts), slots |-> Marged(slotss), err |-> e]
    BY <1>8, <1>9, Zenon
  <2>2. QED
    BY <2>1
<1>11. QED
  BY <1>4, <1>6, <1>10 DEF ResultIn, Given

\* The statements that a node may be made of: r0 in it, r1 as it, r2 and r3 around it.
Allows(node, r0, r1, r2, r3) ==
  /\ r0 \subseteq r1 /\ r1 \subseteq r2 /\ r2 \subseteq r3 /\ Rest(r3)
  /\ node.type = "text" => Beards(node.text) \in Seq(Flat(r0))
  /\ node.type = "element" =>
       /\ node.code # Nil => Exps \subseteq r0
       /\ ~ (node.tag \in HtmlTag /\ CanBeStr(node)) =>
            Holder("tag", node) \in r1 /\ Holder("component", node) \in r1
       /\ node.cond # Nil => Holder("if", node) \in r2
       /\ node.loop => Holder("for", node) \in r3

LEMMA AllowsRest ==
  ASSUME NEW node, NEW r0, NEW r1, NEW r2, NEW r3, Allows(node, r0, r1, r2, r3)
  PROVE  /\ Rest(r0) /\ Rest(r1) /\ Rest(r2) /\ Rest(r3)
         /\ Statements(r0) \subseteq Statements(r1) /\ Statements(r1) \subseteq Statements(r2)
         /\ Statements(r2) \subseteq Statements(r3)
BY StatementsGrow DEF Allows, Rest

LEMMA HolderIn ==
  ASSUME NEW rest, Rest(rest), NEW h \in rest
  PROVE  h \in Flat(rest) /\ h \in Statements(rest) /\ h \in Given(rest)
BY DEF Flat, Statements, Given

LEMMA HolderIs ==
  ASSUME NEW op \in {"tag", "component", "if", "for"}, NEW node \in Elements
  PROVE  /\ Holder(op, node) \in Holders /\ Holder(op, node).op = op /\ Holder(op, node).of = node
         /\ Compact(Holder(op, node))
BY DEF Holder, Holders, Compact

LEMMA ElementIs ==
  ASSUME NEW node \in Elements
  PROVE  /\ node \in Node /\ node.type = "element" /\ node.tag \in Payload
         /\ node.kids \in Seq(Node) /\ node.elses \in Seq([cond : Cond \cup {Nil}, el : Elements])
         /\ node.cond \in Cond \cup {Nil} /\ node.code \in Word \cup {Nil} /\ node.slot \in Slot \cup {Nil}
         /\ node.loop \in BOOLEAN /\ node.static \in BOOLEAN /\ node.dirs \in BOOLEAN
BY NodeAssumption, TokenPayload DEF Elements

LEMMA TagStr ==
  ASSUME NEW node \in Elements, NEW kind \in {"open", "close"}, NEW rest
  PROVE  /\ <<<<kind, node.tag>>>> \in Seq(Piece)
         /\ Str(<<<<kind, node.tag>>>>) \in Flat(rest) /\ Str(<<<<kind, node.tag>>>>) \in Given(rest)
<1>1. <<<<kind, node.tag>>>> \in Seq(Piece)
  BY ElementIs, PieceIs
<1>2. QED
  BY <1>1, StrIs DEF Given, Statements

\* A static tag is texts around its body.
LEMMA StaticTagIn ==
  ASSUME NEW node \in Elements, NEW rest, Rest(rest), NEW body \in Given(rest)
  PROVE  StaticTag(node, body) \in Statements(rest) /\ Compact(StaticTag(node, body))
<1>1. PICK a \in Given(rest) : a = Str(<<<<"open", node.tag>>>>)
  BY TagStr
<1>2. PICK b \in Given(rest) : b = IF node.tag \in Void THEN Nil ELSE Str(<<<<"close", node.tag>>>>)
  BY TagStr DEF Given
<1>3. PICK sts : sts = <<a, body, b>>
  OBVIOUS
<1>4. sts \in Seq(Given(rest))
  <2>1. PICK S : S = Given(rest) /\ a \in S /\ body \in S /\ b \in S
    OBVIOUS
  <2>2. <<a, body, b>> \in Seq(S)
    BY <2>1
  <2>3. QED
    BY <1>3, <2>1, <2>2
<1>5. StaticTag(node, body) = Group(sts)
  BY <1>1, <1>2, <1>3, Zenon DEF StaticTag
<1>6. QED
  BY <1>4, <1>5, GroupIs

\* The own statement of an element is in r1, and compact.
LEMMA OwnIn ==
  ASSUME NEW node \in Elements, NEW r0, NEW r1, NEW r2, NEW r3, Allows(node, r0, r1, r2, r3),
         NEW body \in Statements(r0), Compact(body)
  PROVE  Own(node, body) \in Statements(r1) /\ Compact(Own(node, body))
<1>1. Rest(r1) /\ body \in Statements(r1)
  BY AllowsRest
<1>2. CASE node.tag \in HtmlTag /\ CanBeStr(node)
  <2>1. Own(node, body) = StaticTag(node, body)
    <3>1. node.tag # "template"
      BY <1>2, NameAssumption
    <3>2. QED
      BY <1>2, <3>1, Zenon DEF Own
  <2>2. QED
    BY <1>1, <2>1, StaticTagIn DEF Given
<1>3. CASE ~ (node.tag \in HtmlTag /\ CanBeStr(node))
  <2>1. Holder("tag", node) \in r1 /\ Holder("component", node) \in r1
    BY <1>3, ElementIs DEF Allows
  <2>2. CASE node.tag \in HtmlTag /\ ~ CanBeStr(node)
    <3>0. node.tag # "template"
      BY <2>2, NameAssumption
    <3>1. Own(node, body) = Group(<<Holder("tag", node)>>)
      BY <2>2, <3>0, Zenon DEF Own
    <3>2. PICK h \in r1 : h = Holder("tag", node)
      BY <2>1
    <3>3. PICK sts : sts = <<h>>
      OBVIOUS
    <3>4. h \in Given(r1)
      BY <1>1, HolderIn
    <3>5. sts \in Seq(Given(r1))
      BY <1>1, <3>3, <3>4, GroupOfOne
    <3>6. QED
      BY <1>1, <3>1, <3>2, <3>3, <3>5, GroupIs
  <2>3. CASE node.tag = "template" /\ ~ node.dirs
    <3>1. node.tag \notin HtmlTag
      BY <2>3, NameAssumption
    <3>2. Own(node, body) = body
      BY <2>3, <3>1, Zenon DEF Own
    <3>3. QED
      BY <1>1, <3>2
  <2>4. CASE node.tag \notin HtmlTag /\ ~ (node.tag = "template" /\ ~ node.dirs)
    <3>1. Own(node, body) = Holder("component", node)
      BY <2>4, Zenon DEF Own
    <3>2. QED
      BY <1>1, <2>1, <3>1, HolderIn, HolderIs, ElementIs
  <2>5. QED
    BY <1>3, <2>2, <2>3, <2>4
<1>4. QED
  BY <1>2, <1>3

\* What an element is compiled to.
ElementIn(node, r0, r1, r2, r3, e) ==
  /\ e.body \in Statements(r0) /\ Compact(e.body)
  /\ e.given \in [Slot -> Given(r0)] /\ e.given["default"] = e.body
  /\ e.own \in Statements(r1)
  /\ e.once \in Statements(r2)
  /\ e.made \in Statements(r3) /\ Compact(e.made)
  /\ e.st = IF node.slot = Nil THEN e.made ELSE Nil
  /\ e.slots \in [Slot -> Given(r3)]
  /\ e.err \in BOOLEAN

\* The content of an element is in r0, and compact.
LEMMA ContentIn ==
  ASSUME NEW node \in Elements, NEW rest, Rest(rest), node.code # Nil => Exps \subseteq rest,
         NEW n \in Nat, NEW rs, ResultsIn(rest, n, rs)
  PROVE  /\ ResultIn(rest, Content(node, rs)) /\ Content(node, rs).st \in Statements(rest)
         /\ Compact(Content(node, rs).st)
<1>1. CASE node.code = Nil
  <2>1. Content(node, rs) = Children(rs)
    BY <1>1, Zenon DEF Content
  <2>2. QED
    BY <2>1, ChildrenIn
<1>2. CASE node.code # Nil
  <2>1. PICK code \in Seq(Token) : code = <<node.code>>
    <3>1. node.code \in Token
      BY <1>2, ElementIs, WordsAreTokens
    <3>2. <<node.code>> \in Seq(Token)
      BY <3>1
    <3>3. QED
      BY <3>2
  <2>2. PICK x \in Exps : x = [op |-> "exp", code |-> code]
    BY DEF Exps
  <2>3. x \in rest
    BY <1>2
  <2>4. PICK b \in BOOLEAN : b = BadCode(code)
    BY DEF BadCode
  <2>5. Content(node, rs) = [st |-> x, slots |-> NoSlots, err |-> b]
    BY <1>2, <2>1, <2>2, <2>4, Zenon DEF Content
  <2>6. PICK c : c = Content(node, rs) /\ c.st = x /\ c.slots = NoSlots /\ c.err = b
    BY <2>5
  <2>7. Compact(x)
    <3>1. x.op = "exp"
      BY DEF Exps
    <3>2. QED
      BY <3>1 DEF Compact
  <2>8. QED
    BY <2>3, <2>6, <2>7, HolderIn, NoSlotsIn DEF ResultIn
<1>3. QED
  BY <1>1, <1>2

\* The slots around an element.
Around(node, content, es) ==
  Marged(<<OutOf(node, content.slots)>> \o [i \in DOMAIN es |-> es[i].slots])

AroundList(node, content, es) ==
  <<OutOf(node, content.slots)>> \o [i \in DOMAIN es |-> es[i].slots]

LEMMA AroundIs ==
  ASSUME NEW node, NEW content, NEW n \in Nat, NEW es, DOMAIN es = 1 .. n
  PROVE  /\ DOMAIN AroundList(node, content, es) = 1 .. n + 1
         /\ AroundList(node, content, es)[1] = OutOf(node, content.slots)
         /\ \A i \in 1 .. n : AroundList(node, content, es)[i + 1] = es[i].slots
         /\ Around(node, content, es) = Marged(AroundList(node, content, es))
<1>0. PICK o : o = OutOf(node, content.slots)
  OBVIOUS
<1>1. PICK a : a = <<OutOf(node, content.slots)>> /\ Len(a) = 1 /\ a[1] = OutOf(node, content.slots)
                /\ a = <<a[1]>>
  <2>1. <<o>>[1] = o /\ Len(<<o>>) = 1
    OBVIOUS
  <2>2. QED
    BY <1>0, <2>1, Zenon
<1>2. PICK b : b = [i \in 1 .. n |-> es[i].slots]
  OBVIOUS
<1>3. Len(b) = n /\ DOMAIN b = 1 .. n
  BY <1>2
<1>4. PICK S : S = {a[1]} \cup {b[i] : i \in 1 .. n}
  OBVIOUS
<1>5. a \in Seq(S) /\ b \in Seq(S)
  <2>1. a[1] \in S
    BY <1>4
  <2>2. a = <<a[1]>>
    BY <1>1
  <2>3. <<a[1]>> \in Seq(S)
    BY <2>1
  <2>4. \A i \in 1 .. n : b[i] \in S
    BY <1>4
  <2>5. b \in [1 .. n -> S]
    BY <1>2, <2>4
  <2>6. b \in Seq(S)
    BY <2>5
  <2>7. QED
    BY <2>2, <2>3, <2>6, Zenon
<1>6. PICK c : c = a \o b
  OBVIOUS
<1>7. c \in Seq(S) /\ Len(c) = 1 + n
      /\ \A i \in 1 .. 1 + n : c[i] = IF i <= 1 THEN a[i] ELSE b[i - 1]
  <2>1. a \o b \in Seq(S) /\ Len(a \o b) = Len(a) + Len(b)
        /\ \A i \in 1 .. Len(a) + Len(b) : (a \o b)[i] = IF i <= Len(a) THEN a[i] ELSE b[i - Len(a)]
    BY <1>5, ConcatProperties
  <2>2. QED
    BY <1>1, <1>3, <1>6, <2>1
<1>8. DOMAIN c = 1 .. n + 1 /\ c[1] = a[1] /\ \A i \in 1 .. n : c[i + 1] = b[i]
  BY <1>7, LenProperties
<1>9. AroundList(node, content, es) = c
  BY <1>1, <1>2, <1>6 DEF AroundList
<1>10. \A i \in 1 .. n : b[i] = es[i].slots
  BY <1>2
<1>11. QED
  BY <1>1, <1>8, <1>9, <1>10, Zenon DEF Around, AroundList

LEMMA RecordOf ==
  ASSUME NEW a, NEW b, NEW c, NEW d, NEW f, NEW g, NEW k, NEW l, NEW e,
         e = [body |-> a, given |-> b, own |-> c, once |-> d, made |-> f, st |-> g, slots |-> k, err |-> l]
  PROVE  e = [body |-> e.body, given |-> e.given, own |-> e.own, once |-> e.once,
              made |-> e.made, st |-> e.st, slots |-> e.slots, err |-> e.err]
OBVIOUS

LEMMA ElementRecord ==
  ASSUME NEW node, NEW rs, NEW es, NEW e, e = ElementStatement(node, rs, es)
  PROVE  e = [body |-> e.body, given |-> e.given, own |-> e.own, once |-> e.once,
              made |-> e.made, st |-> e.st, slots |-> e.slots, err |-> e.err]
<1>1. \E a, b, c, d, f, g, k, l :
        e = [body |-> a, given |-> b, own |-> c, once |-> d, made |-> f, st |-> g, slots |-> k, err |-> l]
  BY Zenon DEF ElementStatement
<1>2. QED
  BY <1>1, RecordOf

\* What ElementStatement returns, field by field.
LEMMA ElementFields ==
  ASSUME NEW node, NEW rs, NEW es, NEW content, content = Content(node, rs),
         NEW e, e = ElementStatement(node, rs, es)
  PROVE  /\ e.body = content.st
         /\ e.given = [content.slots EXCEPT !["default"] = content.st]
         /\ e.own = Own(node, e.body)
         /\ e.once = If(node, e.own)
         /\ e.made = For(node, e.once)
         /\ e.st = IF node.slot = Nil THEN e.made ELSE Nil
         /\ e.slots = IF node.slot = Nil THEN Around(node, content, es)
                      ELSE [Around(node, content, es) EXCEPT ![node.slot] = e.made]
         /\ e.err \in BOOLEAN
<1>1. PICK own : own = Own(node, content.st)
  OBVIOUS
<1>2. PICK once : once = If(node, own)
  OBVIOUS
<1>3. PICK made : made = For(node, once)
  OBVIOUS
<1>4. PICK around : around = Around(node, content, es)
  OBVIOUS
<1>5. PICK given : given = [content.slots EXCEPT !["default"] = content.st]
  OBVIOUS
<1>6. PICK st : st = IF node.slot = Nil THEN made ELSE Nil
  OBVIOUS
<1>7. PICK slots : slots = IF node.slot = Nil THEN around ELSE [around EXCEPT ![node.slot] = made]
  OBVIOUS
<1>8. PICK body : body = content.st
  OBVIOUS
<1>14. PICK err \in BOOLEAN : err = (content.err \/ \E i \in DOMAIN es : es[i].err)
  <2>1. (content.err \/ \E i \in DOMAIN es : es[i].err) \in BOOLEAN
    OBVIOUS
  <2>2. QED
    BY <2>1
<1>9. e = [body |-> body, given |-> given, own |-> own, once |-> once, made |-> made, st |-> st,
           slots |-> slots, err |-> err]
  BY <1>1, <1>2, <1>3, <1>4, <1>5, <1>6, <1>7, <1>8, <1>14, Zenon DEF ElementStatement, Around
<1>10. e.body = body /\ e.given = given /\ e.own = own /\ e.once = once /\ e.made = made
       /\ e.st = st /\ e.slots = slots /\ e.err = err
  BY <1>9
<1>16. e.err \in BOOLEAN
  BY <1>10
<1>11. QED
  BY <1>1, <1>2, <1>3, <1>4, <1>5, <1>6, <1>7, <1>8, <1>10, <1>16, Zenon

\* Every statement of an element is where it may be.
LEMMA ElementStatementIn ==
  ASSUME NEW node \in Elements, NEW r0, NEW r1, NEW r2, NEW r3, Allows(node, r0, r1, r2, r3),
         NEW n \in Nat, NEW rs, ResultsIn(r0, n, rs), NEW m \in Nat, NEW es, ResultsIn(r0, m, es),
         NEW e, e = ElementStatement(node, rs, es)
  PROVE  ElementIn(node, r0, r1, r2, r3, e)
<1>0. Rest(r0) /\ Rest(r1) /\ Rest(r2) /\ Rest(r3)
  BY AllowsRest
<1>1. node.code # Nil => Exps \subseteq r0
  BY ElementIs DEF Allows
<1>2. PICK c : c = Content(node, rs) /\ ResultIn(r0, c) /\ c.st \in Statements(r0) /\ Compact(c.st)
  BY <1>0, <1>1, ContentIn
<1>3. /\ e.body = c.st
      /\ e.given = [c.slots EXCEPT !["default"] = c.st]
      /\ e.own = Own(node, e.body)
      /\ e.once = If(node, e.own)
      /\ e.made = For(node, e.once)
      /\ e.st = IF node.slot = Nil THEN e.made ELSE Nil
      /\ e.slots = IF node.slot = Nil THEN Around(node, c, es)
                   ELSE [Around(node, c, es) EXCEPT ![node.slot] = e.made]
  BY <1>2, ElementFields
<1>4. e.body \in Statements(r0) /\ Compact(e.body)
  BY <1>2, <1>3
<1>5. e.given \in [Slot -> Given(r0)] /\ e.given["default"] = e.body
  <2>1. c.slots \in [Slot -> Given(r0)] /\ c.st \in Given(r0) /\ "default" \in Slot
    BY <1>2 DEF ResultIn, Slot
  <2>2. QED
    BY <1>3, <2>1
<1>6. e.own \in Statements(r1) /\ Compact(e.own)
  BY <1>3, <1>4, OwnIn
<1>7. e.once \in Statements(r2) /\ Compact(e.once)
  <2>1. CASE node.cond = Nil
    <3>1. e.once = e.own
      BY <1>3, <2>1 DEF If
    <3>2. QED
      BY <1>6, <3>1, AllowsRest
  <2>2. CASE node.cond # Nil
    <3>1. e.once = Holder("if", node)
      BY <1>3, <2>2 DEF If
    <3>2. Holder("if", node) \in r2
      BY <2>2, ElementIs DEF Allows
    <3>3. QED
      BY <1>0, <3>1, <3>2, HolderIn, HolderIs, ElementIs
  <2>3. QED
    BY <2>1, <2>2
<1>8. e.made \in Statements(r3) /\ Compact(e.made)
  <2>1. CASE ~ node.loop
    <3>1. e.made = e.once
      BY <1>3, <2>1 DEF For
    <3>2. QED
      BY <1>7, <3>1, AllowsRest
  <2>2. CASE node.loop
    <3>1. e.made = Holder("for", node)
      BY <1>3, <2>2 DEF For
    <3>2. Holder("for", node) \in r3
      BY <2>2, ElementIs DEF Allows
    <3>3. QED
      BY <1>0, <3>1, <3>2, HolderIn, HolderIs, ElementIs
  <2>3. QED
    BY <2>1, <2>2
<1>9. Around(node, c, es) \in [Slot -> Given(r3)]
  <2>1. PICK a : a = AroundList(node, c, es)
    OBVIOUS
  <2>2. DOMAIN es = 1 .. m /\ \A i \in 1 .. m : es[i].slots \in [Slot -> Given(r0)]
    BY DEF ResultsIn, ResultIn
  <2>3. OutOf(node, c.slots) \in [Slot -> Given(r0)]
    BY <1>2, NoSlotsIn DEF OutOf, ResultIn
  <2>4. DOMAIN a = 1 .. m + 1 /\ a[1] = OutOf(node, c.slots) /\ (\A i \in 1 .. m : a[i + 1] = es[i].slots)
        /\ Around(node, c, es) = Marged(a)
    BY <2>1, <2>2, AroundIs
  <2>5. ASSUME NEW i \in 1 .. m + 1 PROVE a[i] \in [Slot -> Given(r0)]
    <3>1. CASE i = 1
      BY <2>3, <2>4, <3>1
    <3>2. CASE i # 1
      <4>1. PICK j \in 1 .. m : i = j + 1
        <5>1. i - 1 \in 1 .. m /\ i = (i - 1) + 1
          BY <3>2
        <5>2. QED
          BY <5>1
      <4>2. QED
        BY <2>2, <2>4, <4>1
    <3>3. QED
      BY <3>1, <3>2
  <2>6. PICK k \in Nat : k = m + 1
    OBVIOUS
  <2>7. DOMAIN a = 1 .. k /\ \A i \in 1 .. k : a[i] \in [Slot -> Given(r0)]
    BY <2>4, <2>5, <2>6
  <2>8. Marged(a) \in [Slot -> Given(r0)]
    BY <2>7, MargedIn
  <2>9. Given(r0) \subseteq Given(r3)
    BY AllowsRest DEF Given
  <2>10. QED
    BY <2>4, <2>8, <2>9
<1>10. e.slots \in [Slot -> Given(r3)]
  <2>1. e.made \in Given(r3) /\ node.slot \in Slot \cup {Nil}
    BY <1>8, ElementIs DEF Given
  <2>2. QED
    BY <1>3, <1>9, <2>1
<1>11. e.err \in BOOLEAN
  BY <1>2, ElementFields
<1>12. e.st = IF node.slot = Nil THEN e.made ELSE Nil
  BY <1>3
<1>13. QED
  BY <1>4, <1>5, <1>6, <1>7, <1>8, <1>10, <1>11, <1>12 DEF ElementIn

\* The same for any node.
CodeIn(node, r0, r1, r2, r3, e) ==
  IF node.type = "element" THEN ElementIn(node, r0, r1, r2, r3, e)
  ELSE e.st \in Statements(r0) /\ e.slots = NoSlots /\ e.err \in BOOLEAN

\* What nodes may be compiled to.
Codes ==
  [st : Statements(Others), slots : [Slot -> Given(Others)], err : BOOLEAN]
    \cup [body : Statements(Others), given : [Slot -> Given(Others)], own : Statements(Others),
          once : Statements(Others), made : Statements(Others), st : Given(Others),
          slots : [Slot -> Given(Others)], err : BOOLEAN]

\* What the parts of a node are compiled to.
PartsIn(node, rest, code) == \A x \in Parts(node) : ResultIn(rest, code[x])

\* What its children and its v-else elements are compiled to.
KidsOf(node, code) == [i \in DOMAIN node.kids |-> code[node.kids[i]]]

ElsesOf(node, code) == [i \in DOMAIN node.elses |-> code[node.elses[i].el]]

LEMMA ElementParts ==
  ASSUME NEW node \in Elements
  PROVE  /\ node.type = "element"
         /\ \E n \in Nat : DOMAIN node.kids = 1 .. n /\ n = Len(node.kids)
              /\ \A i \in 1 .. n : node.kids[i] \in Parts(node) /\ node.kids[i] \in Node
         /\ \E m \in Nat : DOMAIN node.elses = 1 .. m /\ m = Len(node.elses)
              /\ \A i \in 1 .. m : /\ node.elses[i].el \in Parts(node)
                                    /\ node.elses[i].el \in Elements
                                    /\ node.elses[i].cond \in Cond \cup {Nil}
         /\ Parts(node) \subseteq Node
<1>1. node.type = "element"
  BY DEF Elements
<1>2. PICK n \in Nat : n = Len(node.kids) /\ DOMAIN node.kids = 1 .. n
  BY ElementIs, LenProperties
<1>3. \A i \in 1 .. n : node.kids[i] \in Node
  BY <1>2, ElementIs, ElementOfSeq
<1>4. PICK m \in Nat : m = Len(node.elses) /\ DOMAIN node.elses = 1 .. m
  BY ElementIs, LenProperties
<1>5. PICK R : R = [cond : Cond \cup {Nil}, el : Elements]
  OBVIOUS
<1>6. \A i \in 1 .. m : node.elses[i] \in R
  BY <1>4, <1>5, ElementIs, ElementOfSeq
<1>7. \A i \in 1 .. m : node.elses[i].el \in Elements /\ node.elses[i].cond \in Cond \cup {Nil}
  BY <1>5, <1>6
<1>8. Parts(node) = {node.kids[i] : i \in 1 .. n} \cup {node.elses[i].el : i \in 1 .. m}
  BY <1>1, <1>2, <1>4 DEF Parts
<1>9. \A i \in 1 .. n : node.kids[i] \in Parts(node)
  BY <1>8
<1>10. \A i \in 1 .. m : node.elses[i].el \in Parts(node)
  BY <1>8
<1>11. Elements \subseteq Node
  BY DEF Elements
<1>12. Parts(node) \subseteq Node
  BY <1>3, <1>7, <1>8, <1>11
<1>13. QED
  BY <1>1, <1>2, <1>3, <1>4, <1>7, <1>9, <1>10, <1>12

LEMMA NodeKinds ==
  ASSUME NEW node \in Node
  PROVE  /\ node.type \in {"text", "comment", "element"}
         /\ node.type # "element" => node.text \in Seq(Token) /\ Parts(node) = {}
         /\ node.type = "element" => node \in Elements
         /\ Parts(node) \subseteq Node
<1>1. node.type # "element" => node.text \in Seq(Token)
  BY NodeAssumption
<1>2. node.type \in {"text", "comment", "element"}
  BY NodeAssumption
<1>3. node.type # "element" => Parts(node) = {}
  BY DEF Parts
<1>4. node.type = "element" => node \in Elements
  BY DEF Elements
<1>5. Parts(node) \subseteq Node
  BY <1>3, <1>4, ElementParts
<1>6. QED
  BY <1>1, <1>2, <1>3, <1>4, <1>5

LEMMA CompiledText ==
  ASSUME NEW node \in Node, node.type = "text", NEW code, NEW rest, Rest(rest),
         Beards(node.text) \in Seq(Flat(rest)), NEW e, e = Compiled(node, code)
  PROVE  /\ e.st = Group(Beards(node.text)) /\ e.st \in Statements(rest) /\ Compact(e.st)
         /\ e.slots = NoSlots /\ e.err \in BOOLEAN
         /\ e = [st |-> e.st, slots |-> e.slots, err |-> e.err]
<1>1. PICK all : all = Beards(node.text)
  OBVIOUS
<1>2. all \in Seq(Given(rest))
  <2>1. Flat(rest) \subseteq Given(rest)
    BY DEF Given, Statements
  <2>2. QED
    BY <1>1, <2>1, SeqMonotonic
<1>3. PICK g : g = Group(all) /\ g \in Statements(rest) /\ Compact(g)
  BY <1>2, GroupIs
<1>4. PICK b \in BOOLEAN : b = \E i \in DOMAIN all : all[i].op = "exp" /\ BadCode(all[i].code)
  <2>1. (\E i \in DOMAIN all : all[i].op = "exp" /\ BadCode(all[i].code)) \in BOOLEAN
    OBVIOUS
  <2>2. QED
    BY <2>1
<1>5. ParseBeard(node.text) = [st |-> g, err |-> b]
  BY <1>1, <1>3, <1>4, Zenon DEF ParseBeard
<1>6. ParseBeard(node.text).st = g /\ ParseBeard(node.text).err = b
  BY <1>5
<1>7. e = [st |-> g, slots |-> NoSlots, err |-> b]
  <2>1. e = [st |-> ParseBeard(node.text).st, slots |-> NoSlots, err |-> ParseBeard(node.text).err]
    BY Zenon DEF Compiled
  <2>2. QED
    BY <1>6, <2>1, Zenon
<1>8. e.st = g /\ e.slots = NoSlots /\ e.err = b
  BY <1>7
<1>9. QED
  BY <1>1, <1>3, <1>7, <1>8

LEMMA CompiledComment ==
  ASSUME NEW node \in Node, node.type = "comment", NEW code, NEW rest, NEW e, e = Compiled(node, code)
  PROVE  /\ e.st = Str(Pieces("comment", node.text)) /\ e.st \in Statements(rest)
         /\ e.slots = NoSlots /\ e.err \in BOOLEAN
         /\ e = [st |-> e.st, slots |-> e.slots, err |-> e.err]
<1>1. PICK p \in Seq(Piece) : p = Pieces("comment", node.text)
  BY NodeKinds, PiecesEach
<1>2. Str(p) \in Statements(rest)
  BY StrIs DEF Statements
<1>3. e = [st |-> Str(p), slots |-> NoSlots, err |-> FALSE]
  BY <1>1, Zenon DEF Compiled
<1>4. e.st = Str(p) /\ e.slots = NoSlots /\ e.err = FALSE
  BY <1>3
<1>5. QED
  BY <1>1, <1>2, <1>3, <1>4

LEMMA CompiledElement ==
  ASSUME NEW node \in Elements, NEW code
  PROVE  Compiled(node, code) = ElementStatement(node, KidsOf(node, code), ElsesOf(node, code))
<1>1. node.type = "element"
  BY DEF Elements
<1>2. QED
  BY <1>1, Zenon DEF Compiled, KidsOf, ElsesOf

LEMMA PartResults ==
  ASSUME NEW node \in Elements, NEW rest, NEW code, PartsIn(node, rest, code)
  PROVE  /\ \E n \in Nat : ResultsIn(rest, n, KidsOf(node, code))
         /\ \E m \in Nat : ResultsIn(rest, m, ElsesOf(node, code))
BY ElementParts DEF PartsIn, ResultsIn, KidsOf, ElsesOf

\* A node is compiled to statements that it may be made of.
LEMMA CompiledIn ==
  ASSUME NEW node \in Node, NEW r0, NEW r1, NEW r2, NEW r3, Allows(node, r0, r1, r2, r3),
         NEW code, PartsIn(node, r0, code), NEW e, e = Compiled(node, code)
  PROVE  CodeIn(node, r0, r1, r2, r3, e)
<1>1. CASE node.type = "element"
  <2>1. node \in Elements
    BY <1>1, NodeKinds
  <2>2. PICK n \in Nat, m \in Nat :
          ResultsIn(r0, n, KidsOf(node, code)) /\ ResultsIn(r0, m, ElsesOf(node, code))
    BY <2>1, PartResults
  <2>3. ElementIn(node, r0, r1, r2, r3, e)
    BY <2>1, <2>2, CompiledElement, ElementStatementIn
  <2>4. QED
    BY <1>1, <2>3 DEF CodeIn
<1>2. CASE node.type = "text"
  <2>1. Rest(r0) /\ Beards(node.text) \in Seq(Flat(r0))
    BY <1>2, AllowsRest DEF Allows
  <2>2. QED
    BY <1>2, <2>1, CompiledText DEF CodeIn
<1>3. CASE node.type = "comment"
  BY <1>3, CompiledComment DEF CodeIn
<1>4. QED
  BY <1>1, <1>2, <1>3, NodeKinds

-----------------------------------------------------------------------------
(* ToStatement *)

LEMMA OthersRest ==
  Rest(Others) /\ Exps \subseteq Others /\ Holders \subseteq Others /\ Statement = Statements(Others)
BY DEF Rest, Others, Statement

\* Any statement may be used.
LEMMA AllowsOthers ==
  ASSUME NEW node \in Node
  PROVE  Allows(node, Others, Others, Others, Others)
<1>1. node.type = "text" => Beards(node.text) \in Seq(Flat(Others))
  <2>1. Seq(Flat(Exps)) \subseteq Seq(Flat(Others))
    BY FlatGrows, OthersRest
  <2>2. QED
    BY <2>1, NodeKinds, BeardsIn
<1>2. node.type = "element" => \A op \in {"tag", "component", "if", "for"} : Holder(op, node) \in Others
  BY NodeKinds, HolderIs, OthersRest
<1>3. QED
  BY <1>1, <1>2, OthersRest DEF Allows

LEMMA CompiledCode ==
  ASSUME NEW node \in Node, NEW code, PartsIn(node, Others, code)
  PROVE  Compiled(node, code) \in Codes /\ ResultIn(Others, Compiled(node, code))
<1>1. PICK e : e = Compiled(node, code)
  OBVIOUS
<1>2. CodeIn(node, Others, Others, Others, Others, e)
  BY <1>1, AllowsOthers, CompiledIn
<1>3. CASE node.type = "element"
  <2>1. ElementIn(node, Others, Others, Others, Others, e)
    BY <1>2, <1>3 DEF CodeIn
  <2>2. e.st \in Given(Others)
    BY <2>1 DEF ElementIn, Given
  <2>3. e = [body |-> e.body, given |-> e.given, own |-> e.own, once |-> e.once,
             made |-> e.made, st |-> e.st, slots |-> e.slots, err |-> e.err]
    <3>1. PICK rs, es : e = ElementStatement(node, rs, es)
      BY <1>1, <1>3, NodeKinds, CompiledElement
    <3>2. QED
      BY <3>1, ElementRecord
  <2>4. e.body \in Statements(Others) /\ e.given \in [Slot -> Given(Others)] /\ e.own \in Statements(Others)
        /\ e.once \in Statements(Others) /\ e.made \in Statements(Others)
        /\ e.slots \in [Slot -> Given(Others)] /\ e.err \in BOOLEAN
    BY <2>1 DEF ElementIn
  <2>5. QED
    BY <1>1, <2>2, <2>3, <2>4 DEF ResultIn, Codes
<1>4. CASE node.type # "element"
  <2>1. e.st \in Statements(Others) /\ e.slots = NoSlots /\ e.err \in BOOLEAN
    BY <1>2, <1>4 DEF CodeIn
  <2>2. e = [st |-> e.st, slots |-> e.slots, err |-> e.err]
    <3>1. CASE node.type = "text"
      BY <1>1, <3>1, AllowsOthers, OthersRest, CompiledText DEF Allows
    <3>2. CASE node.type = "comment"
      BY <1>1, <3>2, CompiledComment
    <3>3. QED
      BY <1>4, <3>1, <3>2, NodeKinds
  <2>3. NoSlots \in [Slot -> Given(Others)]
    BY NoSlotsIn
  <2>4. e.st \in Given(Others)
    BY <2>1 DEF Given
  <2>5. QED
    BY <1>1, <2>1, <2>2, <2>3, <2>4 DEF ResultIn, Codes
<1>5. QED
  BY <1>3, <1>4

\* Only the parts of a node matter.
LEMMA CompiledSame ==
  ASSUME NEW node \in Node, NEW code, NEW other, \A x \in Parts(node) : code[x] = other[x]
  PROVE  Compiled(node, code) = Compiled(node, other)
<1>1. CASE node.type = "element"
  <2>1. node \in Elements
    BY <1>1, NodeKinds
  <2>2. KidsOf(node, code) = KidsOf(node, other)
    BY <2>1, ElementParts DEF KidsOf
  <2>3. ElsesOf(node, code) = ElsesOf(node, other)
    BY <2>1, ElementParts DEF ElsesOf
  <2>4. QED
    BY <2>1, <2>2, <2>3, CompiledElement
<1>2. CASE node.type = "text"
  BY <1>2, Zenon DEF Compiled
<1>3. CASE node.type = "comment"
  BY <1>3, Zenon DEF Compiled
<1>4. QED
  BY <1>1, <1>2, <1>3, NodeKinds

\* All is compiled.
CodesIn(code) == \A x \in DOMAIN code : code[x] \in Codes

LEMMA CodesAre ==
  ASSUME NEW x \in Codes
  PROVE  ResultIn(Others, x)
<1>1. PICK S, T : S = Statements(Others) /\ T = Given(Others) /\ S \subseteq T
  BY DEF Given
<1>2. x.st \in T /\ x.slots \in [Slot -> T] /\ x.err \in BOOLEAN
  BY <1>1 DEF Codes
<1>3. QED
  BY <1>1, <1>2 DEF ResultIn

\* ToStatement is what its definition says.
LEMMA ToStatementIs ==
  ASSUME NEW h, Trees(h)
  PROVE  /\ \A node \in Node : ToStatement[node] = Compiled(node, ToStatement)
         /\ ToStatement = [node \in Node |-> ToStatement[node]]
<1> DEFINE G == [node \in Node |-> [r \in [Parts(node) -> Codes] |-> Compiled(node, r)]]
           K == [node \in Node |-> Parts(node)]
           X == CHOOSE u : u = [node \in Node |-> Compiled(node, u)]
<1>1. ASSUME NEW node \in Node, NEW r \in [Parts(node) -> Codes]
      PROVE  Compiled(node, r) \in Codes
  <2>1. PartsIn(node, Others, r)
    BY CodesAre DEF PartsIn
  <2>2. QED
    BY <2>1, CompiledCode
<1>2. PICK f \in [Node -> Codes] : \A node \in Node : f[node] = G[node][[k \in K[node] |-> f[k]]]
  <2>1. Codes # {}
    <3>1. PICK s \in Statements(Others) : TRUE
      <4>1. [op |-> "empty"] \in Statements(Others)
        BY DEF Statements
      <4>2. QED
        BY <4>1
    <3>2. [st |-> s, slots |-> NoSlots, err |-> FALSE] \in Codes
      BY NoSlotsIn DEF Codes
    <3>3. QED
      BY <3>2
  <2>2. h \in [Node -> Nat] /\ \A node \in Node : \A k \in K[node] : k \in Node /\ h[k] < h[node]
    BY NodeKinds DEF Trees
  <2>3. \A node \in Node : \A r \in [K[node] -> Codes] : G[node][r] \in Codes
    BY <1>1
  <2> HIDE DEF G, K
  <2>4. Lower(Node, h, K) /\ Makes(Node, Codes, K, G)
    BY <2>2, <2>3 DEF Lower, Makes
  <2>5. \E f \in [Node -> Codes] : MadeBy(Node, K, G, f)
    BY <2>1, <2>2, <2>4, Recursion
  <2>6. QED
    BY <2>5, Zenon DEF MadeBy
<1>3. ASSUME NEW node \in Node PROVE f[node] = Compiled(node, f)
  <2>1. PICK r : r = [k \in Parts(node) |-> f[k]]
    OBVIOUS
  <2>2. r \in [Parts(node) -> Codes] /\ \A x \in Parts(node) : r[x] = f[x]
    BY <1>2, <2>1, NodeKinds
  <2>3. f[node] = Compiled(node, r)
    BY <1>2, <2>1, <2>2
  <2>4. Compiled(node, r) = Compiled(node, f)
    BY <2>2, CompiledSame
  <2>5. QED
    BY <2>3, <2>4
<1>4. f = [node \in Node |-> Compiled(node, f)]
  BY <1>2, <1>3
<1>5. X = [node \in Node |-> Compiled(node, X)]
  BY <1>4, Zenon
<1>6. ToStatement = X
  BY DEF ToStatement
<1> HIDE DEF X
<1>7. PICK Y : Y = X
  OBVIOUS
<1>8. Y = [node \in Node |-> Compiled(node, Y)]
  BY <1>5, <1>7, Zenon
<1>9. (\A node \in Node : Y[node] = Compiled(node, Y)) /\ Y = [node \in Node |-> Y[node]]
  BY <1>8
<1>10. QED
  BY <1>6, <1>7, <1>9, Zenon

\* The rank of a holder: those of a node are above those of its parts.
Rank(h, x) == 3 * h[x.of] + (CASE x.op = "if" -> 1 [] x.op = "for" -> 2 [] OTHER -> 0)

\* The holders of a rank below m, and what is no holder.
Below(h, m) == Exps \cup {x \in Holders : Rank(h, x) < m}

LEMMA RankIs ==
  ASSUME NEW h, Trees(h), NEW node \in Node
  PROVE  /\ h[node] \in Nat
         /\ node \in Elements =>
              /\ Rank(h, Holder("tag", node)) = 3 * h[node]
              /\ Rank(h, Holder("component", node)) = 3 * h[node]
              /\ Rank(h, Holder("if", node)) = 3 * h[node] + 1
              /\ Rank(h, Holder("for", node)) = 3 * h[node] + 2
<1>1. h[node] \in Nat
  BY DEF Trees
<1>2. node \in Elements =>
        \A op \in {"tag", "component", "if", "for"} : Holder(op, node).op = op /\ Holder(op, node).of = node
  BY HolderIs
<1>3. PICK n \in Nat : n = 3 * h[node] /\ n + 0 = n
  BY <1>1
<1>4. QED
  BY <1>1, <1>2, <1>3 DEF Rank

LEMMA RankIn ==
  ASSUME NEW h, Trees(h), NEW x \in Holders
  PROVE  Rank(h, x) \in Nat
<1>1. x.of \in Elements /\ x.of \in Node /\ x.op \in {"tag", "component", "if", "for"}
  BY DEF Holders, Elements
<1>2. h[x.of] \in Nat
  BY <1>1 DEF Trees
<1>3. QED
  BY <1>1, <1>2 DEF Rank

LEMMA BelowIs ==
  ASSUME NEW h, NEW m
  PROVE  /\ Rest(Below(h, m)) /\ Exps \subseteq Below(h, m) /\ Below(h, m) \subseteq Others
         /\ \A x \in Holders : x \in Below(h, m) <=> Rank(h, x) < m
<1>1. \A x \in Holders : x \notin Exps
  BY DEF Holders, Exps
<1>2. QED
  BY <1>1 DEF Below, Rest, Others

LEMMA BelowGrows ==
  ASSUME NEW h, Trees(h), NEW m \in Int, NEW k \in Int, m <= k
  PROVE  Below(h, m) \subseteq Below(h, k)
BY RankIn DEF Below

\* A node may be made of what is below it.
LEMMA AllowsBelow ==
  ASSUME NEW h, Trees(h), NEW node \in Node, NEW n \in Nat, n = 3 * h[node]
  PROVE  Allows(node, Below(h, n), Below(h, n + 1), Below(h, n + 2), Below(h, n + 3))
<1>1. Below(h, n) \subseteq Below(h, n + 1) /\ Below(h, n + 1) \subseteq Below(h, n + 2)
      /\ Below(h, n + 2) \subseteq Below(h, n + 3)
  BY BelowGrows
<1>2. node.type = "element" =>
        /\ Holder("tag", node) \in Below(h, n + 1) /\ Holder("component", node) \in Below(h, n + 1)
        /\ Holder("if", node) \in Below(h, n + 2) /\ Holder("for", node) \in Below(h, n + 3)
  BY NodeKinds, RankIs, HolderIs, BelowIs
<1>3. node.type = "text" => Beards(node.text) \in Seq(Flat(Below(h, n)))
  <2>1. Seq(Flat(Exps)) \subseteq Seq(Flat(Below(h, n)))
    BY FlatGrows, BelowIs
  <2>2. QED
    BY <2>1, NodeKinds, BeardsIn
<1>4. Rest(Below(h, n + 3)) /\ Exps \subseteq Below(h, n)
  BY BelowIs
<1>5. QED
  BY <1>1, <1>2, <1>3, <1>4 DEF Allows

LEMMA ResultGrows ==
  ASSUME NEW rest, NEW more, rest \subseteq more, NEW r, ResultIn(rest, r)
  PROVE  ResultIn(more, r)
<1>1. Given(rest) \subseteq Given(more)
  BY StatementsGrow DEF Given
<1>2. QED
  BY <1>1 DEF ResultIn

LEMMA CodeResult ==
  ASSUME NEW node \in Node, NEW r0, NEW r1, NEW r2, NEW r3, Allows(node, r0, r1, r2, r3), NEW e,
         CodeIn(node, r0, r1, r2, r3, e)
  PROVE  ResultIn(r3, e)
<1>1. Statements(r0) \subseteq Statements(r3) /\ Statements(r3) \subseteq Given(r3) /\ Nil \in Given(r3)
  BY AllowsRest DEF Given
<1>2. CASE node.type = "element"
  <2>1. e.made \in Statements(r3) /\ (e.st = IF node.slot = Nil THEN e.made ELSE Nil)
        /\ e.slots \in [Slot -> Given(r3)] /\ e.err \in BOOLEAN
    BY <1>2 DEF CodeIn, ElementIn
  <2>2. QED
    BY <1>1, <2>1 DEF ResultIn
<1>3. CASE node.type # "element"
  <2>1. e.st \in Statements(r0) /\ e.slots = NoSlots /\ e.err \in BOOLEAN
    BY <1>3 DEF CodeIn
  <2>2. NoSlots \in [Slot -> Given(r3)]
    BY NoSlotsIn
  <2>3. QED
    BY <1>1, <2>1, <2>2 DEF ResultIn
<1>4. QED
  BY <1>2, <1>3

\* The statements of a node hold statements of lower ranks only.
Ranked(h, node) ==
  CodeIn(node, Below(h, 3 * h[node]), Below(h, 3 * h[node] + 1), Below(h, 3 * h[node] + 2),
         Below(h, 3 * h[node] + 3), ToStatement[node])

\* A statement holds what is lower.
LEMMA AllRanked ==
  ASSUME NEW h, Trees(h)
  PROVE  \A node \in Node : Ranked(h, node)
<1> DEFINE P == {node \in Node : Ranked(h, node)}
<1>1. ASSUME NEW node \in Node, \A x \in Node : h[x] < h[node] => x \in P PROVE node \in P
  <2>1. PICK n \in Nat : n = 3 * h[node]
    BY RankIs
  <2>2. Allows(node, Below(h, n), Below(h, n + 1), Below(h, n + 2), Below(h, n + 3))
    BY <2>1, AllowsBelow
  <2>3. ASSUME NEW x \in Parts(node) PROVE ResultIn(Below(h, n), ToStatement[x])
    <3>1. x \in Node /\ h[x] < h[node]
      BY NodeKinds DEF Trees
    <3>2. PICK m \in Nat : m = 3 * h[x] /\ m + 3 <= n
      <4>1. h[x] \in Nat /\ h[node] \in Nat
        BY <3>1, RankIs
      <4>2. PICK a \in Nat, b \in Nat : a = h[x] /\ b = h[node] /\ a < b
        BY <3>1, <4>1
      <4>3. 3 * a \in Nat /\ 3 * a + 3 <= 3 * b
        BY <4>2
      <4>4. QED
        BY <2>1, <4>2, <4>3
    <3>3. CodeIn(x, Below(h, m), Below(h, m + 1), Below(h, m + 2), Below(h, m + 3), ToStatement[x])
      BY <1>1, <3>1, <3>2, Zenon DEF Ranked
    <3>4. Allows(x, Below(h, m), Below(h, m + 1), Below(h, m + 2), Below(h, m + 3))
      BY <3>1, <3>2, AllowsBelow
    <3>5. ResultIn(Below(h, m + 3), ToStatement[x])
      BY <3>1, <3>3, <3>4, CodeResult
    <3>6. Below(h, m + 3) \subseteq Below(h, n)
      BY <3>2, BelowGrows
    <3>7. QED
      BY <3>5, <3>6, ResultGrows
  <2>4. PartsIn(node, Below(h, n), ToStatement)
    BY <2>3 DEF PartsIn
  <2>5. PICK e : e = Compiled(node, ToStatement) /\ e = ToStatement[node]
    BY ToStatementIs
  <2>6. CodeIn(node, Below(h, n), Below(h, n + 1), Below(h, n + 2), Below(h, n + 3), e)
    BY <2>2, <2>4, <2>5, CompiledIn
  <2>7. QED
    BY <2>1, <2>5, <2>6, Zenon DEF Ranked
<1>2. Node \subseteq P
  <2> HIDE DEF P
  <2>1. h \in [Node -> Nat]
    BY DEF Trees
  <2>2. QED
    BY <1>1, <2>1, ByHeight
<1>3. QED
  BY <1>2

\* How Within recurs.
WithinOf(node, within) == {node} \cup UNION {within[x] : x \in Parts(node)}

\* Within recurs to the end.
LEMMA WithinIs ==
  ASSUME NEW h, Trees(h)
  PROVE  \A node \in Node : /\ Within[node] \subseteq Node
                            /\ Within[node] = {node} \cup UNION {Within[x] : x \in Parts(node)}
<1> DEFINE G == [node \in Node |-> [r \in [Parts(node) -> SUBSET Node] |->
                   {node} \cup UNION {r[x] : x \in Parts(node)}]]
           K == [node \in Node |-> Parts(node)]
           X == CHOOSE u : u = [node \in Node |-> WithinOf(node, u)]
<1>1. PICK f \in [Node -> SUBSET Node] : MadeBy(Node, K, G, f)
  <2>1. SUBSET Node # {}
    OBVIOUS
  <2>2. h \in [Node -> Nat] /\ Lower(Node, h, K)
    BY NodeKinds DEF Trees, Lower
  <2>3. ASSUME NEW node \in Node, NEW r \in [Parts(node) -> SUBSET Node]
        PROVE  {node} \cup UNION {r[x] : x \in Parts(node)} \in SUBSET Node
    <3>1. \A x \in Parts(node) : r[x] \subseteq Node
      OBVIOUS
    <3>2. QED
      BY <3>1
  <2>4. \A node \in Node : \A r \in [K[node] -> SUBSET Node] : G[node][r] \in SUBSET Node
    BY <2>3
  <2>5. Makes(Node, SUBSET Node, K, G)
    <3> HIDE DEF G, K
    <3>1. QED
      BY <2>4 DEF Makes
  <2> HIDE DEF G, K
  <2>6. QED
    BY <2>1, <2>2, <2>5, Recursion
<1>2. ASSUME NEW node \in Node PROVE f[node] = {node} \cup UNION {f[x] : x \in Parts(node)}
  <2>1. PICK r : r = [k \in Parts(node) |-> f[k]]
    OBVIOUS
  <2>2. r \in [Parts(node) -> SUBSET Node] /\ \A x \in Parts(node) : r[x] = f[x]
    BY <2>1, NodeKinds
  <2>3. f[node] = G[node][r]
    BY <1>1, <2>1 DEF MadeBy
  <2>4. G[node][r] = {node} \cup UNION {r[x] : x \in Parts(node)}
    BY <2>2
  <2>5. {r[x] : x \in Parts(node)} = {f[x] : x \in Parts(node)}
    BY <2>2
  <2>6. QED
    BY <2>3, <2>4, <2>5
<1>3. f = [node \in Node |-> WithinOf(node, f)]
  BY <1>2 DEF WithinOf
<1>4. X = [node \in Node |-> WithinOf(node, X)]
  BY <1>3, Zenon
<1>5. Within = X
  BY Zenon DEF Within, WithinOf
<1> HIDE DEF X, G, K
<1>6. PICK Y : Y = X
  OBVIOUS
<1>7. Y = [node \in Node |-> WithinOf(node, Y)]
  BY <1>4, <1>6, Zenon
<1>8. \A node \in Node : Y[node] = {node} \cup UNION {Y[x] : x \in Parts(node)}
  BY <1>7 DEF WithinOf
<1> DEFINE P == {node \in Node : Y[node] \subseteq Node}
<1>9. ASSUME NEW node \in Node, \A x \in Node : h[x] < h[node] => x \in P PROVE node \in P
  <2>1. \A x \in Parts(node) : Y[x] \subseteq Node
    BY <1>9, NodeKinds DEF Trees
  <2>2. QED
    BY <1>8, <2>1
<1>10. Node \subseteq P
  <2> HIDE DEF P
  <2>1. h \in [Node -> Nat]
    BY DEF Trees
  <2>2. QED
    BY <1>9, <2>1, ByHeight
<1>11. QED
  BY <1>5, <1>6, <1>8, <1>10, Zenon

\* What is within a node has what is within it.
LEMMA WithinPart ==
  ASSUME NEW h, Trees(h), NEW node \in Node, NEW x \in Parts(node)
  PROVE  Within[x] \subseteq Within[node] /\ node \in Within[node] /\ x \in Node /\ h[x] < h[node]
         /\ h[x] \in Nat /\ h[node] \in Nat
<1>1. Within[node] = {node} \cup UNION {Within[k] : k \in Parts(node)}
  BY WithinIs
<1>2. x \in Node /\ h[x] < h[node] /\ h[x] \in Nat /\ h[node] \in Nat
  BY NodeKinds DEF Trees
<1>3. QED
  BY <1>1, <1>2

\* A node that is within is no higher, and so are its parts.
LEMMA WithinWithin ==
  ASSUME NEW h, Trees(h)
  PROVE  \A node \in Node : \A y \in Within[node] :
           y \in Node /\ h[y] <= h[node] /\ Within[y] \subseteq Within[node]
<1> DEFINE P == {node \in Node : \A y \in Within[node] :
                   y \in Node /\ h[y] <= h[node] /\ Within[y] \subseteq Within[node]}
<1>1. ASSUME NEW node \in Node, \A x \in Node : h[x] < h[node] => x \in P PROVE node \in P
  <2>1. ASSUME NEW y \in Within[node]
        PROVE  y \in Node /\ h[y] <= h[node] /\ Within[y] \subseteq Within[node]
    <3>1. CASE y = node
      BY <3>1 DEF Trees
    <3>2. CASE y # node
      <4>1. PICK x \in Parts(node) : y \in Within[x]
        BY <3>2, WithinIs
      <4>2. x \in Node /\ h[x] < h[node] /\ Within[x] \subseteq Within[node]
            /\ h[x] \in Nat /\ h[node] \in Nat
        BY WithinPart
      <4>3. y \in Node /\ h[y] <= h[x] /\ Within[y] \subseteq Within[x]
        BY <1>1, <4>1, <4>2
      <4>4. h[y] \in Nat
        BY <4>3 DEF Trees
      <4>5. h[y] <= h[node]
        BY <4>2, <4>3, <4>4
      <4>6. QED
        BY <4>2, <4>3, <4>5
    <3>3. QED
      BY <3>1, <3>2
  <2>2. QED
    BY <2>1
<1>2. Node \subseteq P
  <2> HIDE DEF P
  <2>1. h \in [Node -> Nat]
    BY DEF Trees
  <2>2. QED
    BY <1>1, <2>1, ByHeight
<1>3. QED
  BY <1>2

-----------------------------------------------------------------------------
(* Static nodes *)

\* A static node is made of texts only.
LEMMA StaticAllows ==
  ASSUME NEW node \in Node, Static(node)
  PROVE  Allows(node, {}, {}, {}, {})
<1>1. CASE node.type = "element"
  <2>1. node.tag \in HtmlTag /\ CanBeStr(node) /\ node.cond = Nil /\ ~ node.loop
    BY <1>1, Zenon DEF Static
  <2>2. node.code = Nil
    BY <2>1 DEF CanBeStr
  <2>3. QED
    BY <1>1, <2>1, <2>2 DEF Allows, Rest
<1>2. CASE node.type = "text"
  <2>1. Plain(node.text)
    BY <1>2, Zenon DEF Static, Plain
  <2>2. Beards(node.text) \in Seq(Flat({}))
    BY <1>2, <2>1, NodeKinds, PlainBeards
  <2>3. QED
    BY <1>2, <2>2 DEF Allows, Rest
<1>3. CASE node.type = "comment"
  BY <1>3 DEF Allows, Rest
<1>4. QED
  BY <1>1, <1>2, <1>3, NodeKinds

\* All of a node is static.
AllStatic(node) == \A x \in Within[node] : Static(x)

\* Then its statement is a text.
LEMMA StaticResult ==
  ASSUME NEW h, Trees(h)
  PROVE  \A node \in Node : AllStatic(node) => ResultIn({}, ToStatement[node])
<1> DEFINE P == {node \in Node : AllStatic(node) => ResultIn({}, ToStatement[node])}
<1>1. ASSUME NEW node \in Node, \A x \in Node : h[x] < h[node] => x \in P PROVE node \in P
  <2>1. SUFFICES ASSUME AllStatic(node) PROVE ResultIn({}, ToStatement[node])
    OBVIOUS
  <2>2. ASSUME NEW x \in Parts(node) PROVE ResultIn({}, ToStatement[x])
    <3>1. x \in Node /\ h[x] < h[node] /\ AllStatic(x)
      BY <2>1, WithinPart DEF AllStatic
    <3>2. QED
      BY <1>1, <3>1
  <2>3. Static(node)
    BY <2>1, WithinIs DEF AllStatic
  <2>4. Allows(node, {}, {}, {}, {})
    BY <2>3, StaticAllows
  <2>5. PICK e : e = Compiled(node, ToStatement) /\ e = ToStatement[node]
    BY ToStatementIs
  <2>6. PartsIn(node, {}, ToStatement)
    BY <2>2 DEF PartsIn
  <2>7. CodeIn(node, {}, {}, {}, {}, e)
    BY <2>4, <2>5, <2>6, CompiledIn
  <2>8. QED
    BY <2>4, <2>5, <2>7, CodeResult
<1>2. Node \subseteq P
  <2> HIDE DEF P
  <2>1. h \in [Node -> Nat]
    BY DEF Trees
  <2>2. QED
    BY <1>1, <2>1, ByHeight
<1>3. QED
  BY <1>2

-----------------------------------------------------------------------------
(* Documents *)

\* What the nodes of a document are compiled to.
CodesOf(nodes) == [i \in DOMAIN nodes |-> ToStatement[nodes[i]]]

LEMMA NodesAre ==
  ASSUME NEW nodes \in Seq(Node)
  PROVE  \E n \in Nat : /\ n = Len(nodes) /\ DOMAIN nodes = 1 .. n
                        /\ DOMAIN CodesOf(nodes) = 1 .. n
                        /\ \A i \in 1 .. n : /\ nodes[i] \in Node
                                             /\ CodesOf(nodes)[i] = ToStatement[nodes[i]]
<1>1. PICK n \in Nat : n = Len(nodes) /\ DOMAIN nodes = 1 .. n
  BY LenProperties
<1>2. \A i \in 1 .. n : nodes[i] \in Node
  BY <1>1, ElementOfSeq
<1>3. DOMAIN CodesOf(nodes) = 1 .. n /\ \A i \in 1 .. n : CodesOf(nodes)[i] = ToStatement[nodes[i]]
  BY <1>1 DEF CodesOf
<1>4. QED
  BY <1>1, <1>2, <1>3

LEMMA NodesOfIs ==
  ASSUME NEW h, Trees(h), NEW nodes \in Seq(Node)
  PROVE  /\ NodesOf(nodes) \subseteq Node
         /\ \A i \in DOMAIN nodes : Within[nodes[i]] \subseteq NodesOf(nodes)
         /\ \A x \in NodesOf(nodes) : \A y \in Parts(x) : y \in NodesOf(nodes)
<1>1. PICK n \in Nat : DOMAIN nodes = 1 .. n /\ \A i \in 1 .. n : nodes[i] \in Node
  BY NodesAre
<1>2. NodesOf(nodes) \subseteq Node
  BY <1>1, WithinIs DEF NodesOf
<1>3. \A i \in DOMAIN nodes : Within[nodes[i]] \subseteq NodesOf(nodes)
  BY DEF NodesOf
<1>4. ASSUME NEW x \in NodesOf(nodes), NEW y \in Parts(x) PROVE y \in NodesOf(nodes)
  <2>1. PICK i \in 1 .. n : x \in Within[nodes[i]]
    BY <1>1 DEF NodesOf
  <2>2. x \in Node /\ Within[x] \subseteq Within[nodes[i]]
    BY <1>1, <2>1, WithinWithin
  <2>3. Within[y] \subseteq Within[x] /\ y \in Node
    BY <2>2, WithinPart
  <2>4. y \in Within[y]
    BY <2>3, WithinIs
  <2>5. QED
    BY <1>1, <1>3, <2>2, <2>3, <2>4
<1>5. QED
  BY <1>2, <1>3, <1>4

\* A statement may have what its nodes may have.
LEMMA ChildrenOf ==
  ASSUME NEW nodes \in Seq(Node), NEW rest, Rest(rest),
         \A i \in DOMAIN nodes : ResultIn(rest, ToStatement[nodes[i]]),
         NEW r, r = Children(CodesOf(nodes))
  PROVE  r.st \in Statements(rest) /\ Compact(r.st) /\ ResultIn(rest, r)
<1>1. PICK n \in Nat : /\ DOMAIN nodes = 1 .. n /\ DOMAIN CodesOf(nodes) = 1 .. n
                       /\ \A i \in 1 .. n : CodesOf(nodes)[i] = ToStatement[nodes[i]]
  BY NodesAre
<1>2. ResultsIn(rest, n, CodesOf(nodes))
  BY <1>1 DEF ResultsIn
<1>3. QED
  BY <1>2, ChildrenIn

LEMMA RankedIs ==
  ASSUME NEW h, Trees(h), NEW node \in Node
  PROVE  \E n \in Nat :
           /\ n = 3 * h[node]
           /\ CodeIn(node, Below(h, n), Below(h, n + 1), Below(h, n + 2), Below(h, n + 3), ToStatement[node])
           /\ ResultIn(Below(h, n + 3), ToStatement[node])
<1>1. PICK n \in Nat : n = 3 * h[node]
  BY RankIs
<1>2. CodeIn(node, Below(h, n), Below(h, n + 1), Below(h, n + 2), Below(h, n + 3), ToStatement[node])
  BY <1>1, AllRanked, Zenon DEF Ranked
<1>3. Allows(node, Below(h, n), Below(h, n + 1), Below(h, n + 2), Below(h, n + 3))
  BY <1>1, AllowsBelow
<1>4. ResultIn(Below(h, n + 3), ToStatement[node])
  BY <1>2, <1>3, CodeResult
<1>5. QED
  BY <1>1, <1>2, <1>4

LEMMA AnyResult ==
  ASSUME NEW h, Trees(h), NEW node \in Node
  PROVE  ResultIn(Others, ToStatement[node])
<1>1. PICK rest : ResultIn(rest, ToStatement[node]) /\ rest \subseteq Others
  BY RankedIs, BelowIs
<1>2. QED
  BY <1>1, ResultGrows

\* What the invariant says of an element.
LEMMA ElementCompact ==
  ASSUME NEW h, Trees(h), NEW node \in Elements
  PROVE  Compact(ToStatement[node].body) /\ Compact(ToStatement[node].made)
<1>1. node \in Node /\ node.type = "element"
  BY ElementIs
<1>2. PICK r0, r1, r2, r3 : CodeIn(node, r0, r1, r2, r3, ToStatement[node])
  BY <1>1, RankedIs
<1>3. QED
  BY <1>1, <1>2 DEF CodeIn, ElementIn

\* A static document is a text.
LEMMA StaticStatement ==
  ASSUME NEW h, Trees(h), NEW nodes \in Seq(Node), \A x \in NodesOf(nodes) : Static(x)
  PROVE  Children(CodesOf(nodes)).st.op \in {"str", "empty"}
<1>1. PICK n \in Nat : /\ DOMAIN nodes = 1 .. n /\ DOMAIN CodesOf(nodes) = 1 .. n
                       /\ \A i \in 1 .. n : /\ nodes[i] \in Node
                                             /\ CodesOf(nodes)[i] = ToStatement[nodes[i]]
  BY NodesAre
<1>2. ASSUME NEW i \in 1 .. n PROVE ResultIn({}, ToStatement[nodes[i]])
  <2>1. AllStatic(nodes[i])
    BY <1>1, NodesOfIs DEF AllStatic
  <2>2. QED
    BY <1>1, <2>1, StaticResult
<1>3. PICK sts : sts = [i \in DOMAIN CodesOf(nodes) |-> CodesOf(nodes)[i].st]
  OBVIOUS
<1>4. \A i \in 1 .. n : CodesOf(nodes)[i].st \in Given({})
  BY <1>1, <1>2 DEF ResultIn
<1>5. sts \in Seq(Given({}))
  BY <1>1, <1>3, <1>4, IsASeq
<1>6. Children(CodesOf(nodes)).st = Group(sts)
  BY <1>3 DEF Children
<1>7. QED
  BY <1>5, <1>6, TextStatements

\* What is known of a run of toStatement.
DocInv ==
  /\ doc \in Seq(Node)
  /\ truth \in [Cond -> BOOLEAN]
  /\ stage \in {"source", "compiled", "error", "done"}
  /\ stage \in {"compiled", "done"} => statement = Children(CodesOf(doc)).st
  /\ stage = "done" => out = Writes(statement, Exec(truth))

LEMMA DocInvInit == DocInit => DocInv
BY NodeAssumption DEF DocInit, DocInv

LEMMA DocInvNext == DocInv /\ [DocNext]_docVars => DocInv'
<1>1. SUFFICES ASSUME DocInv, [DocNext]_docVars PROVE DocInv'
  OBVIOUS
<1>2. CASE Compile
  <2>1. PICK r : r = Children(CodesOf(doc))
    OBVIOUS
  <2>2. /\ stage' = IF r.err THEN "error" ELSE "compiled"
        /\ statement' = IF r.err THEN Nil ELSE r.st
        /\ UNCHANGED <<doc, truth, out>>
    BY <1>2, <2>1 DEF Compile, CodesOf
  <2>3. doc' \in Seq(Node) /\ truth' \in [Cond -> BOOLEAN]
        /\ stage' \in {"compiled", "error"} /\ (stage' = "compiled" => statement' = r.st)
    BY <1>1, <2>2 DEF DocInv
  <2>4. Children(CodesOf(doc)') = r
    BY <2>1, <2>2 DEF CodesOf
  <2>5. QED
    BY <2>3, <2>4 DEF DocInv
<1>3. CASE Render
  <2>1. doc' = doc /\ truth' = truth /\ statement' = statement /\ stage' = "done"
        /\ out' = Writes(statement, Exec(truth)) /\ stage = "compiled"
    BY <1>3 DEF Render
  <2>2. statement' = Children(CodesOf(doc)).st
    BY <1>1, <2>1 DEF DocInv
  <2>3. (CodesOf(doc))' = CodesOf(doc)
    BY <2>1 DEF CodesOf
  <2>4. (Exec(truth))' = Exec(truth)
    BY <2>1 DEF Exec, Executed
  <2>5. QED
    BY <1>1, <2>1, <2>2, <2>3, <2>4 DEF DocInv
<1>4. CASE UNCHANGED docVars
  BY <1>1, <1>4 DEF DocInv, docVars, CodesOf, Exec
<1>5. QED
  BY <1>1, <1>2, <1>3, <1>4 DEF DocNext, Ended

\* The statement that is rendered is that of the document (ParseHtmlToStatement, Exec).
THEOREM DocInvariant == DocSpec => []DocInv
BY DocInvInit, DocInvNext, PTL DEF DocSpec

-----------------------------------------------------------------------------
(* TextsMerged *)

\* What is compiled is merged.
LEMMA DocMerged ==
  ASSUME NEW h, Trees(h)
  PROVE  DocInv => TextsMerged
<1>1. SUFFICES ASSUME DocInv, stage = "compiled"
      PROVE  /\ Compact(statement)
             /\ \A x \in NodesOf(doc) :
                  x.type = "element" => Compact(ToStatement[x].body) /\ Compact(ToStatement[x].made)
             /\ (\A x \in NodesOf(doc) : Static(x)) => statement.op \in {"str", "empty"}
  BY DEF TextsMerged
<1>2. doc \in Seq(Node) /\ statement = Children(CodesOf(doc)).st
  BY <1>1 DEF DocInv
<1>3. \A i \in DOMAIN doc : ResultIn(Others, ToStatement[doc[i]])
  BY <1>2, NodesAre, AnyResult
<1>4. Compact(statement)
  BY <1>2, <1>3, OthersRest, ChildrenOf
<1>5. \A x \in NodesOf(doc) : x.type = "element" => x \in Elements
  BY <1>2, NodesOfIs, NodeKinds
<1>6. (\A x \in NodesOf(doc) : Static(x)) => statement.op \in {"str", "empty"}
  BY <1>2, StaticStatement
<1>7. QED
  BY <1>4, <1>5, <1>6, ElementCompact

\* In the statement of a document, and in all it holds, no two texts are next to each other
\* and none is empty; a document without variables and calls is one text (groupStatement).
THEOREM TextsAreMerged ==
  ASSUME NEW h, Trees(h)
  PROVE  DocSpec => []TextsMerged
<1>1. DocInv => TextsMerged
  BY DocMerged
<1>2. QED
  BY <1>1, DocInvariant, PTL

-----------------------------------------------------------------------------
(* WordsKept *)

\* The statements of a text.
LEMMA TextCompiled ==
  ASSUME NEW h, Trees(h), NEW node \in Node, node.type = "text"
  PROVE  /\ Beards(node.text) \in Seq(Flat(Exps)) /\ node.text \in Seq(Token)
         /\ ToStatement[node].st = Group(Beards(node.text))
         /\ ToStatement[node].st \in Statements(Exps)
         /\ ResultIn(Exps, ToStatement[node])
<1>1. PICK e : e = Compiled(node, ToStatement) /\ e = ToStatement[node]
  BY ToStatementIs
<1>2. node.text \in Seq(Token) /\ Rest(Exps)
  BY NodeKinds DEF Rest
<1>3. Beards(node.text) \in Seq(Flat(Exps))
  BY <1>2, BeardsIn
<1>4. /\ e.st = Group(Beards(node.text)) /\ e.st \in Statements(Exps)
      /\ e.slots = NoSlots /\ e.err \in BOOLEAN
  BY <1>1, <1>2, <1>3, CompiledText
<1>5. ResultIn(Exps, e)
  BY <1>4, NoSlotsIn DEF ResultIn, Given
<1>6. QED
  BY <1>1, <1>2, <1>3, <1>4, <1>5

\* What is compiled of a text has its words.
LEMMA DocWords ==
  ASSUME NEW h, Trees(h)
  PROVE  DocInv => WordsKept
<1>1. SUFFICES ASSUME DocInv, stage = "compiled", Len(doc) = 1, doc[1].type = "text",
                      NEW sts, sts = IF statement.op = "group" THEN statement.s ELSE <<statement>>
      PROVE  WordsIn(Concat([i \in DOMAIN sts |-> Spelled(sts[i])])) = WordsIn(doc[1].text)
  BY DEF WordsKept
<1>2. doc \in Seq(Node) /\ statement = Children(CodesOf(doc)).st
  BY <1>1 DEF DocInv
<1>3. doc[1] \in Node /\ DOMAIN CodesOf(doc) = 1 .. 1 /\ CodesOf(doc)[1] = ToStatement[doc[1]]
  BY <1>1, <1>2, NodesAre
<1>4. PICK t \in Seq(Token), st \in Statements(Exps) :
        /\ t = doc[1].text /\ st = ToStatement[doc[1]].st /\ st = Group(Beards(t))
        /\ Beards(t) \in Seq(Flat(Exps))
  BY <1>1, <1>3, TextCompiled
<1>5. statement = Group(<<st>>)
  <2>1. PICK ss : ss = [i \in DOMAIN CodesOf(doc) |-> CodesOf(doc)[i].st]
    OBVIOUS
  <2>2. DOMAIN ss = 1 .. 1 /\ ss[1] = st /\ ss = [i \in 1 .. 1 |-> ss[i]]
    <3>1. PICK c : c = CodesOf(doc)
      OBVIOUS
    <3>2. ss = [i \in 1 .. 1 |-> c[i].st] /\ c[1].st = st
      BY <1>3, <1>4, <2>1, <3>1, Zenon
    <3>3. QED
      BY <3>2
  <2>3. ss = <<st>>
    BY <2>2
  <2>4. QED
    BY <1>2, <2>1, <2>3 DEF Children
<1>6. Rest(Exps) /\ st \in Given(Exps)
  BY DEF Rest, Given
<1>7. statement \in Statements(Exps) /\ Says(SpelledWords, statement) = Says(SpelledWords, st)
  <2>1. PICK one : one = <<st>>
    OBVIOUS
  <2>2. statement = Group(one)
    BY <1>5, <2>1
  <2>3. QED
    BY <1>6, <2>1, <2>2, GroupOfOne, SpelledAdditive
<1>8. Says(SpelledWords, st) = Total(SpelledWords, Beards(t))
  <2>1. Beards(t) \in Seq(Given(Exps))
        /\ Total(SaysOf(Exps, SpelledWords), Beards(t)) = Total(SpelledWords, Beards(t))
    BY <1>4, <1>6, SpelledAdditive, FlatTotal
  <2>2. Says(SpelledWords, Group(Beards(t))) = Total(SaysOf(Exps, SpelledWords), Beards(t))
    BY <1>6, <2>1, SpelledAdditive, GroupIs
  <2>3. QED
    BY <1>4, <2>1, <2>2
<1>9. Total(SpelledWords, Beards(t)) = Total(WordOf, t)
  BY BeardWords
<1>10. WordsIn(t) = Total(WordOf, t)
  BY TokenSeq, WordsInIs
<1>11. WordsIn(Concat([i \in DOMAIN sts |-> Spelled(sts[i])])) = Says(SpelledWords, statement)
  BY <1>1, <1>7, StatementWords
<1>12. QED
  BY <1>4, <1>7, <1>8, <1>9, <1>10, <1>11

\* No word of a text is lost, whatever marks it has (parseBeard).
THEOREM WordsAreKept ==
  ASSUME NEW h, Trees(h)
  PROVE  DocSpec => []WordsKept
<1>1. DocInv => WordsKept
  BY DocWords
<1>2. QED
  BY <1>1, DocInvariant, PTL

-----------------------------------------------------------------------------
(* Exec *)

\* Two runs agree on K.
SameOn(K, run, other) == \A x \in K : run[x] = other[x]

\* What a statement writes is given by what it holds.
LEMMA WritesSame ==
  ASSUME NEW K, K \subseteq Holders, NEW st \in Given(Exps \cup K), NEW run, NEW other, SameOn(K, run, other)
  PROVE  Writes(st, run) = Writes(st, other)
<1>1. Rest(Exps \cup K)
  BY DEF Rest
<1>2. ASSUME NEW x \in Flat(Exps \cup K) PROVE Item(x, run) = Item(x, other)
  <2>1. CASE x \in K
    <3>1. run[x] = other[x]
      BY <2>1 DEF SameOn
    <3>2. QED
      BY <3>1, Zenon DEF Item
  <2>2. CASE x \notin K
    <3>1. x.op \in {"str", "exp"}
      BY <2>2 DEF Flat, Strs, Exps
    <3>2. QED
      BY <3>1 DEF Item
  <2>3. QED
    BY <2>1, <2>2
<1>3. CASE st = Nil
  BY <1>3 DEF Writes
<1>4. CASE st # Nil /\ st.op = "group"
  <2>1. PICK s \in Seq(Flat(Exps \cup K)) : s = st.s
    BY <1>1, <1>4, StatementKind DEF Given
  <2>2. PICK n \in Nat : n = Len(s) /\ DOMAIN s = 1 .. n
    BY LenProperties
  <2>3. \A i \in 1 .. n : s[i] \in Flat(Exps \cup K)
    BY <2>2, ElementOfSeq
  <2>4. [i \in DOMAIN s |-> Item(s[i], run)] = [i \in DOMAIN s |-> Item(s[i], other)]
    BY <1>2, <2>2, <2>3
  <2>5. QED
    BY <1>4, <2>1, <2>4, Zenon DEF Writes
<1>5. CASE st # Nil /\ st.op = "empty"
  BY <1>5 DEF Writes, Item
<1>6. CASE st # Nil /\ st.op \notin {"group", "empty"}
  <2>1. st \in Flat(Exps \cup K)
    BY <1>1, <1>6, StatementKind DEF Given
  <2>2. QED
    BY <1>2, <1>6, <2>1, Zenon DEF Writes
<1>7. QED
  BY <1>3, <1>4, <1>5, <1>6

\* The holders of lower ranks.
Lesser(h, x) == {k \in Holders : Rank(h, k) < Rank(h, x)}

\* A holder has what is lower.
LEMMA HolderParts ==
  ASSUME NEW h, Trees(h), NEW x \in Holders
  PROVE  /\ x.of \in Elements /\ x.op \in {"tag", "component", "if", "for"}
         /\ Lesser(h, x) \subseteq Holders
         /\ x.op = "tag" => ToStatement[x.of].body \in Given(Exps \cup Lesser(h, x))
         /\ x.op = "for" => ToStatement[x.of].once \in Given(Exps \cup Lesser(h, x))
         /\ x.op = "if" =>
              /\ ToStatement[x.of].own \in Given(Exps \cup Lesser(h, x))
              /\ \A i \in DOMAIN x.of.elses :
                   ToStatement[x.of.elses[i].el].st \in Given(Exps \cup Lesser(h, x))
         /\ x.op = "component" => ToStatement[x.of].given \in [Slot -> Given(Exps \cup Lesser(h, x))]
<1>1. x.of \in Elements /\ x.of \in Node /\ x.of.type = "element" /\ x.op \in {"tag", "component", "if", "for"}
  BY ElementIs DEF Holders
<1>2. PICK node \in Elements : node = x.of
  BY <1>1
<1>3. PICK n \in Nat :
        /\ n = 3 * h[node]
        /\ CodeIn(node, Below(h, n), Below(h, n + 1), Below(h, n + 2), Below(h, n + 3), ToStatement[node])
  BY <1>1, <1>2, RankedIs
<1>4. PICK e : e = ToStatement[node]
  OBVIOUS
<1>5. ElementIn(node, Below(h, n), Below(h, n + 1), Below(h, n + 2), Below(h, n + 3), e)
  BY <1>1, <1>2, <1>3, <1>4 DEF CodeIn
<1>6. Below(h, Rank(h, x)) = Exps \cup Lesser(h, x) /\ Lesser(h, x) \subseteq Holders
  BY DEF Below, Lesser
<1>7. x.op \in {"tag", "component"} => Rank(h, x) = n
  BY <1>2, <1>3 DEF Rank
<1>8. x.op = "if" => Rank(h, x) = n + 1
  BY <1>2, <1>3 DEF Rank
<1>9. x.op = "for" => Rank(h, x) = n + 2
  BY <1>2, <1>3 DEF Rank
<1>10. /\ e.body \in Given(Below(h, n)) /\ e.given \in [Slot -> Given(Below(h, n))]
       /\ e.own \in Given(Below(h, n + 1)) /\ e.once \in Given(Below(h, n + 2))
  BY <1>5 DEF ElementIn, Given
<1>11. ASSUME NEW i \in DOMAIN node.elses, x.op = "if"
       PROVE  ToStatement[node.elses[i].el].st \in Given(Exps \cup Lesser(h, x))
  <2>1. PICK y \in Node : y = node.elses[i].el /\ y \in Parts(node)
    BY ElementParts
  <2>2. PICK a \in Nat, b \in Nat : a = h[y] /\ b = h[node] /\ a < b
    BY <1>1, <1>2, <2>1 DEF Trees
  <2>3. 3 * a \in Nat /\ 3 * a + 3 <= 3 * b
    BY <2>2
  <2>4. PICK m \in Nat : m = 3 * h[y] /\ m + 3 <= n
    BY <1>3, <2>2, <2>3
  <2>5. ResultIn(Below(h, m + 3), ToStatement[y])
    BY <2>4, RankedIs
  <2>6. Below(h, m + 3) \subseteq Below(h, n + 1)
    BY <2>4, BelowGrows
  <2>7. ToStatement[y].st \in Given(Below(h, n + 1))
    <3>1. ResultIn(Below(h, n + 1), ToStatement[y])
      BY <2>5, <2>6, ResultGrows
    <3>2. QED
      BY <3>1 DEF ResultIn
  <2>8. QED
    BY <1>6, <1>8, <1>11, <2>1, <2>7
<1>12. x.op = "tag" => ToStatement[node].body \in Given(Exps \cup Lesser(h, x))
  BY <1>4, <1>6, <1>7, <1>10
<1>13. x.op = "for" => ToStatement[node].once \in Given(Exps \cup Lesser(h, x))
  BY <1>4, <1>6, <1>9, <1>10
<1>14. x.op = "if" => ToStatement[node].own \in Given(Exps \cup Lesser(h, x))
  BY <1>4, <1>6, <1>8, <1>10
<1>15. x.op = "component" => ToStatement[node].given \in [Slot -> Given(Exps \cup Lesser(h, x))]
  BY <1>4, <1>6, <1>7, <1>10
<1>16. QED
  BY <1>1, <1>2, <1>6, <1>11, <1>12, <1>13, <1>14, <1>15

LEMMA ConcatIn ==
  ASSUME NEW T, NEW n \in Nat, NEW ss, DOMAIN ss = 1 .. n, ss = [i \in 1 .. n |-> ss[i]],
         \A i \in 1 .. n : ss[i] \in Seq(T)
  PROVE  Concat(ss) \in Seq(T) /\ ss \in Seq(Seq(T)) /\ Len(ss) = n
<1>1. PICK S : S = Seq(T)
  OBVIOUS
<1>2. ss \in Seq(S) /\ Len(ss) = n
  BY <1>1, IsASeq
<1>3. ss \in Seq(Seq(T))
  BY <1>1, <1>2, Zenon
<1>4. PICK s \in Seq(T) : TRUE
  BY EmptySeq
<1>5. Concat(ss) \in Seq(T)
  BY <1>3, ConcatAppend
<1>6. QED
  BY <1>2, <1>3, <1>5

LEMMA NamesAre ==
  \E n \in Nat : /\ n = Len(SlotNames) /\ DOMAIN SlotNames = 1 .. n
                 /\ \A i \in 1 .. n : SlotNames[i] \in SlotName /\ SlotNames[i] \in Slot
<1>1. PICK n \in Nat : n = Len(SlotNames) /\ DOMAIN SlotNames = 1 .. n
  BY NameAssumption, LenProperties
<1>2. \A i \in 1 .. n : SlotNames[i] \in SlotName
  BY <1>1 DEF SlotName
<1>3. QED
  BY <1>1, <1>2 DEF Slot

\* What is written for one slot, or for one that is offered.
SlotPart(given, run, i) ==
  IF given[SlotNames[i]] = Nil THEN << >>
  ELSE <<<<"slot", SlotNames[i]>>>> \o Writes(given[SlotNames[i]], run)

LEMMA SlotsWrittenIs ==
  ASSUME NEW given, NEW run
  PROVE  SlotsWritten(given, run) = Concat([i \in DOMAIN SlotNames |-> SlotPart(given, run, i)])
BY Zenon DEF SlotsWritten, SlotPart

LEMMA WritesGiven ==
  ASSUME NEW run \in Runs, NEW st \in Given(Others)
  PROVE  Writes(st, run) \in Seq(Piece)
<1>1. CASE st = Nil
  <2>1. <<<<"panic", "nil">>>> \in Seq(Piece)
    BY PieceIs, TokenPayload
  <2>2. QED
    BY <1>1, <2>1 DEF Writes
<1>2. CASE st # Nil
  BY <1>2, WritesIs DEF Given
<1>3. QED
  BY <1>1, <1>2

LEMMA SlotsWrittenIn ==
  ASSUME NEW run \in Runs, NEW given \in [Slot -> Given(Others)]
  PROVE  SlotsWritten(given, run) \in Seq(Piece)
<1>1. PICK n \in Nat : DOMAIN SlotNames = 1 .. n
                       /\ \A i \in 1 .. n : SlotNames[i] \in SlotName /\ SlotNames[i] \in Slot
  BY NamesAre
<1>2. ASSUME NEW i \in 1 .. n PROVE SlotPart(given, run, i) \in Seq(Piece)
  <2>1. PICK a \in Seq(Piece) : a = <<<<"slot", SlotNames[i]>>>>
    BY <1>1, PieceIs, TokenPayload
  <2>2. PICK b \in Seq(Piece) : b = Writes(given[SlotNames[i]], run)
    BY <1>1, WritesGiven
  <2>3. a \o b \in Seq(Piece)
    BY ConcatProperties
  <2>4. QED
    BY <2>1, <2>2, <2>3, EmptySeq DEF SlotPart
<1>3. PICK ss : ss = [i \in 1 .. n |-> SlotPart(given, run, i)]
  OBVIOUS
<1>4. Concat(ss) \in Seq(Piece)
  <2>1. DOMAIN ss = 1 .. n /\ ss = [i \in 1 .. n |-> ss[i]] /\ \A i \in 1 .. n : ss[i] \in Seq(Piece)
    BY <1>2, <1>3
  <2>2. QED
    BY <2>1, ConcatIn
<1>5. QED
  BY <1>1, <1>3, <1>4, SlotsWrittenIs

LEMMA SlotsWrittenSame ==
  ASSUME NEW K, K \subseteq Holders, NEW given \in [Slot -> Given(Exps \cup K)],
         NEW run, NEW other, SameOn(K, run, other)
  PROVE  SlotsWritten(given, run) = SlotsWritten(given, other)
<1>1. PICK n \in Nat : DOMAIN SlotNames = 1 .. n
                       /\ \A i \in 1 .. n : SlotNames[i] \in SlotName /\ SlotNames[i] \in Slot
  BY NamesAre
<1>2. ASSUME NEW i \in 1 .. n PROVE SlotPart(given, run, i) = SlotPart(given, other, i)
  <2>1. given[SlotNames[i]] \in Given(Exps \cup K)
    BY <1>1
  <2>2. Writes(given[SlotNames[i]], run) = Writes(given[SlotNames[i]], other)
    BY <2>1, WritesSame
  <2>3. QED
    BY <2>2, Zenon DEF SlotPart
<1>3. [i \in DOMAIN SlotNames |-> SlotPart(given, run, i)]
        = [i \in DOMAIN SlotNames |-> SlotPart(given, other, i)]
  BY <1>1, <1>2
<1>4. QED
  BY <1>3, SlotsWrittenIs

\* The branch that is taken.
TakenEl(node, conds) == node.elses[First(Taken(node, conds))].el

LEMMA TakenIs ==
  ASSUME NEW node \in Elements, NEW conds, Taken(node, conds) # {}
  PROVE  First(Taken(node, conds)) \in DOMAIN node.elses
         /\ TakenEl(node, conds) \in Parts(node) /\ TakenEl(node, conds) \in Elements
<1>1. PICK m \in Nat : DOMAIN node.elses = 1 .. m
        /\ \A i \in 1 .. m : node.elses[i].el \in Parts(node) /\ node.elses[i].el \in Elements
  BY ElementParts
<1>2. Taken(node, conds) \subseteq 1 .. m
  BY <1>1 DEF Taken
<1>3. First(Taken(node, conds)) \in 1 .. m
  BY <1>2, FirstIs
<1>4. QED
  BY <1>1, <1>3 DEF TakenEl

\* What the holders write, one kind after the other.
LEMMA ExecutedOps ==
  ASSUME NEW x \in Holders, NEW conds, NEW run
  PROVE  /\ x.op = "tag" => Executed(x, conds, run)
              = <<<<"open", x.of.tag>>>> \o Writes(ToStatement[x.of].body, run) \o <<<<"close", x.of.tag>>>>
         /\ x.op = "for" => Executed(x, conds, run)
              = Writes(ToStatement[x.of].once, run) \o Writes(ToStatement[x.of].once, run)
         /\ x.op = "if" => Executed(x, conds, run)
              = IF conds[x.of.cond] THEN Writes(ToStatement[x.of].own, run)
                ELSE IF Taken(x.of, conds) = {} THEN << >>
                ELSE Writes(ToStatement[TakenEl(x.of, conds)].st, run)
         /\ x.op = "component" => Executed(x, conds, run)
              = <<<<"call", x.of.tag>>>> \o Writes(ToStatement[x.of].given["default"], run)
                  \o SlotsWritten(ToStatement[x.of].given, run) \o <<<<"return", x.of.tag>>>>
<1>1. CASE x.op = "tag"
  BY <1>1, Zenon DEF Executed
<1>2. CASE x.op = "for"
  BY <1>2, Zenon DEF Executed
<1>3. CASE x.op = "if"
  BY <1>3, Zenon DEF Executed, TakenEl
<1>4. CASE x.op = "component"
  BY <1>4, Zenon DEF Executed
<1>5. QED
  BY <1>1, <1>2, <1>3, <1>4

LEMMA ExecutedIf ==
  ASSUME NEW x \in Holders, x.op = "if", NEW conds, NEW run
  PROVE  Executed(x, conds, run)
           = IF conds[x.of.cond] THEN Writes(ToStatement[x.of].own, run)
             ELSE IF Taken(x.of, conds) = {} THEN << >>
             ELSE Writes(ToStatement[TakenEl(x.of, conds)].st, run)
BY ExecutedOps

\* It depends on lesser holders only.
LEMMA ExecutedSame ==
  ASSUME NEW h, Trees(h), NEW x \in Holders, NEW conds, NEW run, NEW other,
         SameOn(Lesser(h, x), run, other)
  PROVE  Executed(x, conds, run) = Executed(x, conds, other)
<1>1. PICK K : K = Lesser(h, x)
  OBVIOUS
<1>2. K \subseteq Holders /\ SameOn(K, run, other) /\ x.of \in Elements
      /\ x.op \in {"tag", "component", "if", "for"}
  BY <1>1, HolderParts
<1>3. \A st \in Given(Exps \cup K) : Writes(st, run) = Writes(st, other)
  BY <1>2, WritesSame
<1>4. CASE x.op = "tag"
  <2>1. Writes(ToStatement[x.of].body, run) = Writes(ToStatement[x.of].body, other)
    BY <1>1, <1>3, <1>4, HolderParts
  <2>2. QED
    BY <1>4, <2>1, ExecutedOps
<1>5. CASE x.op = "for"
  <2>1. Writes(ToStatement[x.of].once, run) = Writes(ToStatement[x.of].once, other)
    BY <1>1, <1>3, <1>5, HolderParts
  <2>2. \A r : Executed(x, conds, r)
                = Writes(ToStatement[x.of].once, r) \o Writes(ToStatement[x.of].once, r)
    BY <1>5, ExecutedOps
  <2>3. QED
    BY <2>1, <2>2
<1>6. CASE x.op = "if"
  <2>1. Writes(ToStatement[x.of].own, run) = Writes(ToStatement[x.of].own, other)
    BY <1>1, <1>3, <1>6, HolderParts
  <2>2. Taken(x.of, conds) # {} =>
          Writes(ToStatement[TakenEl(x.of, conds)].st, run)
            = Writes(ToStatement[TakenEl(x.of, conds)].st, other)
    <3>1. ASSUME Taken(x.of, conds) # {}
          PROVE  ToStatement[TakenEl(x.of, conds)].st \in Given(Exps \cup K)
      BY <1>1, <1>2, <1>6, <3>1, TakenIs, HolderParts DEF TakenEl
    <3>2. QED
      BY <1>3, <3>1
  <2>3. /\ Executed(x, conds, run)
             = IF conds[x.of.cond] THEN Writes(ToStatement[x.of].own, run)
               ELSE IF Taken(x.of, conds) = {} THEN << >>
               ELSE Writes(ToStatement[TakenEl(x.of, conds)].st, run)
        /\ Executed(x, conds, other)
             = IF conds[x.of.cond] THEN Writes(ToStatement[x.of].own, other)
               ELSE IF Taken(x.of, conds) = {} THEN << >>
               ELSE Writes(ToStatement[TakenEl(x.of, conds)].st, other)
    BY <1>6, ExecutedOps
  <2>4. CASE conds[x.of.cond]
    BY <2>1, <2>3, <2>4, Zenon
  <2>5. CASE ~ conds[x.of.cond] /\ Taken(x.of, conds) = {}
    BY <2>3, <2>5, Zenon
  <2>6. CASE ~ conds[x.of.cond] /\ Taken(x.of, conds) # {}
    BY <2>2, <2>3, <2>6, Zenon
  <2>7. QED
    BY <2>4, <2>5, <2>6
<1>7. CASE x.op = "component"
  <2>1. ToStatement[x.of].given \in [Slot -> Given(Exps \cup K)]
    BY <1>1, <1>7, HolderParts
  <2>2. SlotsWritten(ToStatement[x.of].given, run) = SlotsWritten(ToStatement[x.of].given, other)
    BY <1>2, <2>1, SlotsWrittenSame
  <2>3. Writes(ToStatement[x.of].given["default"], run) = Writes(ToStatement[x.of].given["default"], other)
    BY <1>3, <2>1 DEF Slot
  <2>4. /\ Executed(x, conds, run)
             = <<<<"call", x.of.tag>>>> \o Writes(ToStatement[x.of].given["default"], run)
                 \o SlotsWritten(ToStatement[x.of].given, run) \o <<<<"return", x.of.tag>>>>
        /\ Executed(x, conds, other)
             = <<<<"call", x.of.tag>>>> \o Writes(ToStatement[x.of].given["default"], other)
                 \o SlotsWritten(ToStatement[x.of].given, other) \o <<<<"return", x.of.tag>>>>
    BY <1>7, ExecutedOps
  <2>5. QED
    BY <2>2, <2>3, <2>4, Zenon
<1>8. QED
  BY <1>2, <1>4, <1>5, <1>6, <1>7

LEMMA ThreeIn ==
  ASSUME NEW T, NEW a \in Seq(T), NEW b \in Seq(T), NEW c \in Seq(T)
  PROVE  a \o b \o c \in Seq(T)
BY ConcatProperties

LEMMA ExecutedIn ==
  ASSUME NEW h, Trees(h), NEW x \in Holders, NEW conds, NEW run \in Runs
  PROVE  Executed(x, conds, run) \in Seq(Piece)
<1>1. PICK K : K = Lesser(h, x) /\ K \subseteq Holders
  BY HolderParts
<1>2. Given(Exps \cup K) \subseteq Given(Others)
  BY <1>1, StatementsGrow DEF Given, Others
<1>3. \A st \in Given(Exps \cup K) : Writes(st, run) \in Seq(Piece)
  BY <1>2, WritesGiven
<1>4. x.of \in Elements /\ x.op \in {"tag", "component", "if", "for"}
  BY HolderParts
<1>5. CASE x.op = "tag"
  <2>1. PICK a \in Seq(Piece), b \in Seq(Piece), c \in Seq(Piece) :
          a = <<<<"open", x.of.tag>>>> /\ b = Writes(ToStatement[x.of].body, run) /\ c = <<<<"close", x.of.tag>>>>
    <3>1. ToStatement[x.of].body \in Given(Exps \cup K)
      BY <1>1, <1>5, HolderParts
    <3>2. QED
      BY <1>3, <1>4, <3>1, TagStr
  <2>2. a \o b \o c \in Seq(Piece)
    BY ThreeIn
  <2>3. QED
    BY <1>5, <2>1, <2>2, ExecutedOps
<1>6. CASE x.op = "for"
  <2>1. PICK a \in Seq(Piece) : a = Writes(ToStatement[x.of].once, run)
    BY <1>1, <1>3, <1>6, HolderParts
  <2>2. a \o a \in Seq(Piece)
    BY ConcatProperties
  <2>3. QED
    BY <1>6, <2>1, <2>2, ExecutedOps
<1>7. CASE x.op = "if"
  <2>1. Writes(ToStatement[x.of].own, run) \in Seq(Piece)
    BY <1>1, <1>3, <1>7, HolderParts
  <2>2. Taken(x.of, conds) # {} => Writes(ToStatement[TakenEl(x.of, conds)].st, run) \in Seq(Piece)
    <3>1. ASSUME Taken(x.of, conds) # {}
          PROVE  ToStatement[TakenEl(x.of, conds)].st \in Given(Exps \cup K)
      BY <1>1, <1>4, <1>7, <3>1, TakenIs, HolderParts DEF TakenEl
    <3>2. QED
      BY <1>3, <3>1
  <2>3. QED
    BY <1>7, <2>1, <2>2, ExecutedOps, EmptySeq
<1>8. CASE x.op = "component"
  <2>1. ToStatement[x.of].given \in [Slot -> Given(Exps \cup K)]
    BY <1>1, <1>8, HolderParts
  <2>2. PICK c \in Seq(Piece) : c = SlotsWritten(ToStatement[x.of].given, run)
    BY <1>2, <2>1, SlotsWrittenIn
  <2>3. PICK b \in Seq(Piece) : b = Writes(ToStatement[x.of].given["default"], run)
    BY <1>3, <2>1 DEF Slot
  <2>4. PICK a \in Seq(Piece), d \in Seq(Piece) :
          a = <<<<"call", x.of.tag>>>> /\ d = <<<<"return", x.of.tag>>>>
    BY <1>4, ElementIs, PieceIs
  <2>5. a \o b \o c \o d \in Seq(Piece)
    <3>1. PICK abc \in Seq(Piece) : abc = a \o b \o c
      BY ThreeIn
    <3>2. QED
      BY <3>1, ConcatProperties
  <2>6. QED
    BY <1>8, <2>2, <2>3, <2>4, <2>5, ExecutedOps
<1>9. QED
  BY <1>4, <1>5, <1>6, <1>7, <1>8

\* Exec is what its definition says.
LEMMA ExecIs ==
  ASSUME NEW h, Trees(h), NEW conds
  PROVE  /\ Exec(conds) \in Runs
         /\ \A x \in Holders : Exec(conds)[x] = Executed(x, conds, Exec(conds))
<1> DEFINE G == [x \in Holders |-> [r \in [Lesser(h, x) -> Seq(Piece)] |-> Executed(x, conds, r)]]
           K == [x \in Holders |-> Lesser(h, x)]
           R == [x \in Holders |-> Rank(h, x)]
           X == CHOOSE u : u = [x \in Holders |-> Executed(x, conds, u)]
<1>1. ASSUME NEW x \in Holders, NEW r \in [Lesser(h, x) -> Seq(Piece)]
      PROVE  Executed(x, conds, r) \in Seq(Piece)
  <2>1. PICK run : run = [k \in Holders |-> IF k \in Lesser(h, x) THEN r[k] ELSE << >>]
    OBVIOUS
  <2>2. run \in Runs /\ SameOn(Lesser(h, x), r, run)
    BY <2>1, EmptySeq, HolderParts DEF Runs, SameOn
  <2>3. Executed(x, conds, r) = Executed(x, conds, run)
    BY <2>2, ExecutedSame
  <2>4. QED
    BY <2>2, <2>3, ExecutedIn
<1>2. PICK f \in [Holders -> Seq(Piece)] : MadeBy(Holders, K, G, f)
  <2>1. Seq(Piece) # {}
    BY EmptySeq
  <2>2. R \in [Holders -> Nat]
    BY RankIn
  <2>3. \A x \in Holders : \A k \in K[x] : k \in Holders /\ R[k] < R[x]
    BY DEF Lesser
  <2>4. \A x \in Holders : \A r \in [K[x] -> Seq(Piece)] : G[x][r] \in Seq(Piece)
    BY <1>1
  <2> HIDE DEF G, K, R
  <2>5. Lower(Holders, R, K) /\ Makes(Holders, Seq(Piece), K, G)
    BY <2>3, <2>4 DEF Lower, Makes
  <2>6. QED
    BY <2>1, <2>2, <2>5, Recursion
<1>3. ASSUME NEW x \in Holders PROVE f[x] = Executed(x, conds, f)
  <2>1. PICK r : r = [k \in Lesser(h, x) |-> f[k]]
    OBVIOUS
  <2>2. r \in [Lesser(h, x) -> Seq(Piece)] /\ SameOn(Lesser(h, x), r, f)
    BY <2>1, HolderParts DEF SameOn
  <2>3. f[x] = G[x][r]
    BY <1>2, <2>1 DEF MadeBy
  <2>4. G[x][r] = Executed(x, conds, r)
    BY <2>2
  <2>5. Executed(x, conds, r) = Executed(x, conds, f)
    BY <2>2, ExecutedSame
  <2>6. QED
    BY <2>3, <2>4, <2>5
<1>4. f = [x \in Holders |-> Executed(x, conds, f)]
  BY <1>3
<1>5. X = [x \in Holders |-> Executed(x, conds, X)]
  BY <1>4, Zenon
<1>6. Exec(conds) = X
  BY DEF Exec
<1> HIDE DEF X, G, K, R
<1>7. PICK Y : Y = X
  OBVIOUS
<1>8. Y = [x \in Holders |-> Executed(x, conds, Y)]
  BY <1>5, <1>7, Zenon
<1>9. \A x \in Holders : Y[x] = Executed(x, conds, Y)
  BY <1>8
<1> DEFINE P == {x \in Holders : Y[x] \in Seq(Piece)}
<1>10. ASSUME NEW x \in Holders, \A k \in Holders : R[k] < R[x] => k \in P PROVE x \in P
  <2>1. PICK run : run = [k \in Holders |-> IF k \in Lesser(h, x) THEN Y[k] ELSE << >>]
    OBVIOUS
  <2>2. \A k \in Lesser(h, x) : k \in Holders /\ R[k] < R[x]
    BY DEF Lesser, R
  <2>3. \A k \in Lesser(h, x) : Y[k] \in Seq(Piece)
    BY <1>10, <2>2
  <2>4. run \in Runs /\ SameOn(Lesser(h, x), Y, run)
    BY <2>1, <2>2, <2>3, EmptySeq DEF Runs, SameOn
  <2>5. Executed(x, conds, Y) = Executed(x, conds, run)
    BY <2>4, ExecutedSame
  <2>6. Executed(x, conds, run) \in Seq(Piece)
    BY <2>4, ExecutedIn
  <2>7. QED
    BY <1>9, <2>5, <2>6
<1>11. Holders \subseteq P
  <2> HIDE DEF P
  <2>1. R \in [Holders -> Nat]
    BY RankIn DEF R
  <2>2. QED
    BY <1>10, <2>1, ByHeight
<1>12. Y \in Runs
  BY <1>8, <1>11 DEF Runs
<1>13. QED
  BY <1>6, <1>7, <1>9, <1>12, Zenon

-----------------------------------------------------------------------------
(* Slots *)

LEMMA LastConcat ==
  ASSUME NEW S, NEW a \in Seq(S), NEW b \in Seq(S)
  PROVE  LastOf(a \o b) = IF LastOf(b) = Nil THEN LastOf(a) ELSE LastOf(b)
<1>1. PICK n \in Nat, m \in Nat : n = Len(a) /\ DOMAIN a = 1 .. n /\ m = Len(b) /\ DOMAIN b = 1 .. m
  BY LenProperties
<1>2. PICK c : c = a \o b
  OBVIOUS
<1>3. c \in Seq(S) /\ Len(c) = n + m
      /\ \A i \in 1 .. n + m : c[i] = IF i <= n THEN a[i] ELSE b[i - n]
  <2>1. a \o b \in Seq(S) /\ Len(a \o b) = Len(a) + Len(b)
        /\ \A i \in 1 .. Len(a) + Len(b) : (a \o b)[i] = IF i <= Len(a) THEN a[i] ELSE b[i - Len(a)]
    BY ConcatProperties
  <2>2. QED
    BY <1>1, <1>2, <2>1
<1>4. DOMAIN c = 1 .. n + m /\ (\A i \in 1 .. n : c[i] = a[i]) /\ \A i \in 1 .. m : c[n + i] = b[i]
  BY <1>3, LenProperties
<1>5. PICK v : v = LastOf(a)
  OBVIOUS
<1>6. PICK w : w = LastOf(b)
  OBVIOUS
<1>7. IsLast(n, a, v) /\ IsLast(m, b, w) /\ IsLast(n + m, c, LastOf(c))
  <2>1. IsLast(n, a, v)
    BY <1>1, <1>5, LastOfIs
  <2>2. IsLast(m, b, w)
    BY <1>1, <1>6, LastOfIs
  <2>3. n + m \in Nat
    OBVIOUS
  <2>4. IsLast(n + m, c, LastOf(c))
    BY <1>4, <2>3, LastOfIs
  <2>5. QED
    BY <2>1, <2>2, <2>4
<1>8. IsLast(n + m, c, IF w = Nil THEN v ELSE w)
  BY <1>4, <1>7, LastJoined
<1>9. n + m \in Nat
  OBVIOUS
<1>10. LastOf(c) = IF w = Nil THEN v ELSE w
  BY <1>7, <1>8, <1>9, LastUnique
<1>11. QED
  BY <1>2, <1>5, <1>6, <1>10

LEMMA LastOne ==
  ASSUME NEW c
  PROVE  LastOf(<<c>>) = c
<1>1. PICK xs : xs = <<c>>
  OBVIOUS
<1>2. DOMAIN xs = 1 .. 1 /\ xs[1] = c
  BY <1>1
<1>3. IsLast(1, xs, LastOf(xs))
  BY <1>2, LastOfIs
<1>4. LastOf(xs) = c
  BY <1>2, <1>3 DEF IsLast
<1>5. QED
  BY <1>1, <1>4

LEMMA LastOfMapped ==
  ASSUME NEW n \in Nat, NEW xs, NEW ys, DOMAIN xs = 1 .. n, DOMAIN ys = 1 .. n, NEW M,
         \A i \in 1 .. n : xs[i] = Nil => ys[i] = Nil,
         \A i \in 1 .. n : xs[i] # Nil => ys[i] # Nil /\ ys[i] = M[xs[i]]
  PROVE  LastOf(ys) = IF LastOf(xs) = Nil THEN Nil ELSE M[LastOf(xs)]
<1>1. PICK v : v = LastOf(xs)
  OBVIOUS
<1>2. IsLast(n, xs, v)
  BY <1>1, LastOfIs
<1>3. IsLast(n, ys, IF v = Nil THEN Nil ELSE M[v])
  BY <1>2, LastMapped
<1>4. IsLast(n, ys, LastOf(ys))
  BY LastOfIs
<1>5. LastOf(ys) = IF v = Nil THEN Nil ELSE M[v]
  BY <1>3, <1>4, LastUnique
<1>6. QED
  BY <1>1, <1>5

LEMMA LastOfIn ==
  ASSUME NEW n \in Nat, NEW xs, DOMAIN xs = 1 .. n, NEW S, \A i \in 1 .. n : xs[i] \in S \cup {Nil}
  PROVE  LastOf(xs) \in S \cup {Nil}
<1>1. IsLast(n, xs, LastOf(xs))
  BY LastOfIs
<1>2. QED
  BY <1>1, LastIn

\* What the children and the branches of an element offer.
KidOffer(node, s, offered) == LastOf([i \in DOMAIN node.kids |-> offered[node.kids[i]][s]])

ElseOffer(node, s, offered) == LastOf([i \in DOMAIN node.elses |-> offered[node.elses[i].el][s]])

\* The parts of the node have their offers.
OfferedIn(node, offered) == \A x \in Parts(node) : offered[x] \in [Slot -> Node \cup {Nil}]

\* The last offer: the node itself, else a v-else element, else a child.
LEMMA OfferedOfIs ==
  ASSUME NEW node \in Elements, NEW s \in Slot, NEW offered, OfferedIn(node, offered)
  PROVE  OfferedOf(node, s, offered)
           = IF node.slot = s THEN node
             ELSE IF ElseOffer(node, s, offered) # Nil THEN ElseOffer(node, s, offered)
             ELSE IF node.code = Nil /\ ~ IsCall(node) THEN KidOffer(node, s, offered)
             ELSE Nil
<1>1. PICK n \in Nat, m \in Nat :
        /\ DOMAIN node.kids = 1 .. n /\ \A i \in 1 .. n : node.kids[i] \in Parts(node)
        /\ DOMAIN node.elses = 1 .. m /\ \A i \in 1 .. m : node.elses[i].el \in Parts(node)
  BY ElementParts
<1>2. PICK S : S = Node \cup {Nil}
  OBVIOUS
<1>3. \A x \in Parts(node) : offered[x][s] \in S
  BY <1>2 DEF OfferedIn
<1>4. PICK k : k = [i \in 1 .. n |-> offered[node.kids[i]][s]]
  OBVIOUS
<1>5. PICK b : b = [i \in 1 .. m |-> offered[node.elses[i].el][s]]
  OBVIOUS
<1>6. PICK a : a = IF node.code = Nil /\ ~ IsCall(node) THEN k ELSE << >>
  OBVIOUS
<1>7. PICK c : c = IF node.slot = s THEN node ELSE Nil
  OBVIOUS
<1>8. k \in Seq(S) /\ b \in Seq(S)
  BY <1>1, <1>3, <1>4, <1>5
<1>9. a \in Seq(S)
  BY <1>6, <1>8, EmptySeq
<1>10. c \in S /\ node # Nil
  BY <1>2, <1>7, ElementIs, NameAssumption
<1>11. OfferedOf(node, s, offered) = LastOf(a \o b \o <<c>>)
  <2>1. node.type = "element"
    BY ElementIs
  <2>2. a = [i \in DOMAIN (IF node.code = Nil /\ ~ IsCall(node) THEN node.kids ELSE << >>) |->
              offered[(IF node.code = Nil /\ ~ IsCall(node) THEN node.kids ELSE << >>)[i]][s]]
    BY <1>1, <1>4, <1>6
  <2>3. b = [i \in DOMAIN node.elses |-> offered[node.elses[i].el][s]]
    BY <1>1, <1>5
  <2>4. QED
    BY <1>7, <2>1, <2>2, <2>3, Zenon DEF OfferedOf
<1>12. PICK ab \in Seq(S) : ab = a \o b
  BY <1>9, <1>8, ConcatProperties
<1>13. LastOf(a \o b \o <<c>>) = IF c = Nil THEN LastOf(ab) ELSE c
  <2>1. <<c>> \in Seq(S)
    BY <1>10
  <2>2. LastOf(ab \o <<c>>) = IF LastOf(<<c>>) = Nil THEN LastOf(ab) ELSE LastOf(<<c>>)
    BY <2>1, LastConcat
  <2>3. QED
    BY <1>12, <2>2, LastOne, Zenon
<1>14. LastOf(ab) = IF LastOf(b) = Nil THEN LastOf(a) ELSE LastOf(b)
  BY <1>8, <1>9, <1>12, LastConcat
<1>15. LastOf(b) = ElseOffer(node, s, offered) /\ LastOf(k) = KidOffer(node, s, offered)
  BY <1>1, <1>4, <1>5, Zenon DEF ElseOffer, KidOffer
<1>16. LastOf(a) = IF node.code = Nil /\ ~ IsCall(node) THEN LastOf(k) ELSE Nil
  <2>1. LastOf(<< >>) = Nil
    BY DEF LastOf
  <2>2. QED
    BY <1>6, <2>1, Zenon
<1>17. QED
  BY <1>7, <1>10, <1>11, <1>13, <1>14, <1>15, <1>16

\* What a node may offer for each slot.
Offers == [Slot -> Node \cup {Nil}]

\* How Offered recurs.
OffersOf(node, offered) == [s \in Slot |-> OfferedOf(node, s, offered)]

LEMMA OffersIn ==
  ASSUME NEW node \in Node, NEW offered, OfferedIn(node, offered)
  PROVE  OffersOf(node, offered) \in Offers
<1>1. ASSUME NEW s \in Slot PROVE OfferedOf(node, s, offered) \in Node \cup {Nil}
  <2>1. CASE node.type # "element"
    BY <2>1 DEF OfferedOf
  <2>2. CASE node.type = "element"
    <3>1. PICK n \in Nat, m \in Nat :
            /\ DOMAIN node.kids = 1 .. n /\ \A i \in 1 .. n : node.kids[i] \in Parts(node)
            /\ DOMAIN node.elses = 1 .. m /\ \A i \in 1 .. m : node.elses[i].el \in Parts(node)
      BY <2>2, NodeKinds, ElementParts
    <3>2. \A x \in Parts(node) : offered[x][s] \in Node \cup {Nil}
      BY DEF OfferedIn
    <3>3. KidOffer(node, s, offered) \in Node \cup {Nil}
      <4>1. PICK k : k = [i \in DOMAIN node.kids |-> offered[node.kids[i]][s]]
        OBVIOUS
      <4>2. DOMAIN k = 1 .. n /\ \A i \in 1 .. n : k[i] \in Node \cup {Nil}
        BY <3>1, <3>2, <4>1
      <4>3. QED
        BY <4>1, <4>2, LastOfIn DEF KidOffer
    <3>4. ElseOffer(node, s, offered) \in Node \cup {Nil}
      <4>1. PICK k : k = [i \in DOMAIN node.elses |-> offered[node.elses[i].el][s]]
        OBVIOUS
      <4>2. DOMAIN k = 1 .. m /\ \A i \in 1 .. m : k[i] \in Node \cup {Nil}
        BY <3>1, <3>2, <4>1
      <4>3. QED
        BY <4>1, <4>2, LastOfIn DEF ElseOffer
    <3>5. node \in Elements
      BY <2>2, NodeKinds
    <3>6. QED
      BY <3>3, <3>4, <3>5, OfferedOfIs
  <2>3. QED
    BY <2>1, <2>2
<1>2. QED
  BY <1>1 DEF OffersOf, Offers

LEMMA OffersSame ==
  ASSUME NEW node \in Node, NEW offered, NEW other, \A x \in Parts(node) : offered[x] = other[x]
  PROVE  OffersOf(node, offered) = OffersOf(node, other)
<1>1. ASSUME NEW s \in Slot PROVE OfferedOf(node, s, offered) = OfferedOf(node, s, other)
  <2>1. CASE node.type # "element"
    BY <2>1 DEF OfferedOf
  <2>2. CASE node.type = "element"
    <3>1. PICK n \in Nat, m \in Nat :
            /\ DOMAIN node.kids = 1 .. n /\ \A i \in 1 .. n : node.kids[i] \in Parts(node)
            /\ DOMAIN node.elses = 1 .. m /\ \A i \in 1 .. m : node.elses[i].el \in Parts(node)
      BY <2>2, NodeKinds, ElementParts
    <3>2. PICK under : under = IF node.code = Nil /\ ~ IsCall(node) THEN node.kids ELSE << >>
      OBVIOUS
    <3>3. \A i \in DOMAIN under : under[i] \in Parts(node)
      BY <3>1, <3>2
    <3>4. PICK a : a = [i \in DOMAIN under |-> offered[under[i]][s]]
                   /\ a = [i \in DOMAIN under |-> other[under[i]][s]]
      BY <3>3
    <3>5. PICK b : b = [i \in DOMAIN node.elses |-> offered[node.elses[i].el][s]]
                   /\ b = [i \in DOMAIN node.elses |-> other[node.elses[i].el][s]]
      BY <3>1
    <3>6. OfferedOf(node, s, offered) = LastOf(a \o b \o <<IF node.slot = s THEN node ELSE Nil>>)
      BY <2>2, <3>2, <3>4, <3>5, Zenon DEF OfferedOf
    <3>7. OfferedOf(node, s, other) = LastOf(a \o b \o <<IF node.slot = s THEN node ELSE Nil>>)
      BY <2>2, <3>2, <3>4, <3>5, Zenon DEF OfferedOf
    <3>8. QED
      BY <3>6, <3>7
  <2>3. QED
    BY <2>1, <2>2
<1>2. QED
  BY <1>1 DEF OffersOf

\* Offered recurs to the end.
LEMMA OfferedIs ==
  ASSUME NEW h, Trees(h)
  PROVE  /\ \A node \in Node : Offered[node] = OffersOf(node, Offered) /\ Offered[node] \in Offers
<1> DEFINE G == [node \in Node |-> [r \in [Parts(node) -> Offers] |-> OffersOf(node, r)]]
           K == [node \in Node |-> Parts(node)]
           X == CHOOSE u : u = [node \in Node |-> OffersOf(node, u)]
<1>1. ASSUME NEW node \in Node, NEW r \in [Parts(node) -> Offers]
      PROVE  OffersOf(node, r) \in Offers
  <2>1. OfferedIn(node, r)
    BY DEF OfferedIn, Offers
  <2>2. QED
    BY <2>1, OffersIn
<1>2. PICK f \in [Node -> Offers] : MadeBy(Node, K, G, f)
  <2>1. Offers # {}
    <3>1. [s \in Slot |-> Nil] \in Offers
      BY DEF Offers
    <3>2. QED
      BY <3>1
  <2>2. h \in [Node -> Nat] /\ Lower(Node, h, K)
    BY NodeKinds DEF Trees, Lower
  <2>3. \A node \in Node : \A r \in [K[node] -> Offers] : G[node][r] \in Offers
    BY <1>1
  <2> HIDE DEF G, K
  <2>4. Makes(Node, Offers, K, G)
    BY <2>3 DEF Makes
  <2>5. QED
    BY <2>1, <2>2, <2>4, Recursion
<1>3. ASSUME NEW node \in Node PROVE f[node] = OffersOf(node, f)
  <2>1. PICK r : r = [k \in Parts(node) |-> f[k]]
    OBVIOUS
  <2>2. r \in [Parts(node) -> Offers] /\ \A x \in Parts(node) : r[x] = f[x]
    BY <2>1, NodeKinds
  <2>3. f[node] = G[node][r]
    BY <1>2, <2>1 DEF MadeBy
  <2>4. G[node][r] = OffersOf(node, r)
    BY <2>2
  <2>5. OffersOf(node, r) = OffersOf(node, f)
    BY <2>2, OffersSame
  <2>6. QED
    BY <2>3, <2>4, <2>5
<1>4. f = [node \in Node |-> OffersOf(node, f)]
  BY <1>3
<1>5. X = [node \in Node |-> OffersOf(node, X)]
  BY <1>4, Zenon
<1>6. Offered = X
  BY Zenon DEF Offered, OffersOf
<1> HIDE DEF X, G, K
<1>7. PICK Y : Y = X
  OBVIOUS
<1>8. Y = [node \in Node |-> OffersOf(node, Y)]
  BY <1>5, <1>7, Zenon
<1>9. \A node \in Node : Y[node] = OffersOf(node, Y)
  BY <1>8
<1> DEFINE P == {node \in Node : Y[node] \in Offers}
<1>10. ASSUME NEW node \in Node, \A x \in Node : h[x] < h[node] => x \in P PROVE node \in P
  <2>1. \A x \in Parts(node) : Y[x] \in Offers
    BY <1>10, NodeKinds DEF Trees
  <2>2. OfferedIn(node, Y)
    BY <2>1 DEF OfferedIn, Offers
  <2>3. QED
    BY <1>9, <2>2, OffersIn
<1>11. Node \subseteq P
  <2> HIDE DEF P
  <2>1. h \in [Node -> Nat]
    BY DEF Trees
  <2>2. QED
    BY <1>10, <2>1, ByHeight
<1>12. \A node \in Node : Y[node] \in Offers
  BY <1>11
<1>13. QED
  BY <1>6, <1>7, <1>9, <1>12, Zenon

\* What is offered for a slot.
LEMMA OfferedCases ==
  ASSUME NEW h, Trees(h), NEW s \in Slot, NEW node \in Node
  PROVE  /\ Offered[node][s] \in Node \cup {Nil}
         /\ OfferedIn(node, Offered)
         /\ node.type # "element" => Offered[node][s] = Nil
         /\ node.type = "element" => Offered[node][s]
              = IF node.slot = s THEN node
                ELSE IF ElseOffer(node, s, Offered) # Nil THEN ElseOffer(node, s, Offered)
                ELSE IF node.code = Nil /\ ~ IsCall(node) THEN KidOffer(node, s, Offered)
                ELSE Nil
<1>1. Offered[node] = OffersOf(node, Offered) /\ Offered[node] \in Offers
  BY OfferedIs
<1>2. Offered[node][s] = OfferedOf(node, s, Offered)
  BY <1>1 DEF OffersOf
<1>3. OfferedIn(node, Offered)
  BY OfferedIs, NodeKinds DEF OfferedIn, Offers
<1>4. node.type # "element" => OfferedOf(node, s, Offered) = Nil
  BY DEF OfferedOf
<1>5. node.type = "element" => OfferedOf(node, s, Offered)
              = IF node.slot = s THEN node
                ELSE IF ElseOffer(node, s, Offered) # Nil THEN ElseOffer(node, s, Offered)
                ELSE IF node.code = Nil /\ ~ IsCall(node) THEN KidOffer(node, s, Offered)
                ELSE Nil
  BY <1>3, NodeKinds, OfferedOfIs
<1>6. QED
  BY <1>1, <1>2, <1>3, <1>4, <1>5 DEF Offers

\* The elements within a node that are lower.
InElement(h, node) == {x \in Elements : x \in Within[node] /\ h[x] < h[node]}

\* What is offered for a slot is inside.
LEMMA PartOffers ==
  ASSUME NEW h, Trees(h), NEW node \in Elements, NEW s \in Slot,
         \A x \in Parts(node) : Offered[x][s] \in (Elements \cap Within[x]) \cup {Nil}
  PROVE  /\ KidOffer(node, s, Offered) \in InElement(h, node) \cup {Nil}
         /\ ElseOffer(node, s, Offered) \in InElement(h, node) \cup {Nil}
<1>1. PICK n \in Nat, m \in Nat :
        /\ DOMAIN node.kids = 1 .. n /\ \A i \in 1 .. n : node.kids[i] \in Parts(node)
        /\ DOMAIN node.elses = 1 .. m /\ \A i \in 1 .. m : node.elses[i].el \in Parts(node)
  BY ElementParts
<1>2. ASSUME NEW x \in Parts(node) PROVE Offered[x][s] \in InElement(h, node) \cup {Nil}
  <2>1. node \in Node
    BY ElementIs
  <2>2. x \in Node /\ h[x] < h[node] /\ Within[x] \subseteq Within[node] /\ h[x] \in Nat /\ h[node] \in Nat
    BY <2>1, WithinPart
  <2>3. PICK y : y = Offered[x][s] /\ y \in (Elements \cap Within[x]) \cup {Nil}
    OBVIOUS
  <2>4. CASE y # Nil
    <3>1. h[y] <= h[x] /\ y \in Node /\ y \in Within[node] /\ y \in Elements
      BY <2>2, <2>3, <2>4, WithinWithin
    <3>2. h[y] \in Nat
      BY <3>1 DEF Trees
    <3>3. h[y] < h[node]
      BY <2>2, <3>1, <3>2
    <3>4. QED
      BY <2>3, <3>1, <3>3 DEF InElement
  <2>5. QED
    BY <2>3, <2>4
<1>3. KidOffer(node, s, Offered) \in InElement(h, node) \cup {Nil}
  <2>1. PICK k : k = [i \in DOMAIN node.kids |-> Offered[node.kids[i]][s]]
    OBVIOUS
  <2>2. DOMAIN k = 1 .. n /\ \A i \in 1 .. n : k[i] \in InElement(h, node) \cup {Nil}
    BY <1>1, <1>2, <2>1
  <2>3. QED
    BY <2>1, <2>2, LastOfIn DEF KidOffer
<1>4. ElseOffer(node, s, Offered) \in InElement(h, node) \cup {Nil}
  <2>1. PICK k : k = [i \in DOMAIN node.elses |-> Offered[node.elses[i].el][s]]
    OBVIOUS
  <2>2. DOMAIN k = 1 .. m /\ \A i \in 1 .. m : k[i] \in InElement(h, node) \cup {Nil}
    BY <1>1, <1>2, <2>1
  <2>3. QED
    BY <2>1, <2>2, LastOfIn DEF ElseOffer
<1>5. QED
  BY <1>3, <1>4

\* What is offered is within.
LEMMA OfferedWithin ==
  ASSUME NEW h, Trees(h), NEW s \in Slot
  PROVE  \A node \in Node : Offered[node][s] \in (Elements \cap Within[node]) \cup {Nil}
<1> DEFINE P == {node \in Node : Offered[node][s] \in (Elements \cap Within[node]) \cup {Nil}}
<1>1. ASSUME NEW node \in Node, \A x \in Node : h[x] < h[node] => x \in P PROVE node \in P
  <2>1. CASE node.type # "element"
    BY <2>1, OfferedCases
  <2>2. CASE node.type = "element"
    <3>1. node \in Elements /\ node \in Within[node]
      BY <2>2, NodeKinds, WithinIs
    <3>2. \A x \in Parts(node) : Offered[x][s] \in (Elements \cap Within[x]) \cup {Nil}
      BY <1>1, NodeKinds DEF Trees
    <3>3. /\ KidOffer(node, s, Offered) \in InElement(h, node) \cup {Nil}
          /\ ElseOffer(node, s, Offered) \in InElement(h, node) \cup {Nil}
      BY <3>1, <3>2, PartOffers
    <3>4. InElement(h, node) \subseteq Elements \cap Within[node]
      BY DEF InElement
    <3>5. Offered[node][s] \in {node, Nil, KidOffer(node, s, Offered), ElseOffer(node, s, Offered)}
      BY <2>2, OfferedCases
    <3>6. QED
      BY <3>1, <3>3, <3>4, <3>5
  <2>3. QED
    BY <2>1, <2>2
<1>2. Node \subseteq P
  <2> HIDE DEF P
  <2>1. h \in [Node -> Nat]
    BY DEF Trees
  <2>2. QED
    BY <1>1, <2>1, ByHeight
<1>3. QED
  BY <1>2

LEMMA OffersInner ==
  ASSUME NEW h, Trees(h), NEW node \in Elements, NEW s \in Slot
  PROVE  /\ KidOffer(node, s, Offered) \in InElement(h, node) \cup {Nil}
         /\ ElseOffer(node, s, Offered) \in InElement(h, node) \cup {Nil}
<1>1. \A x \in Parts(node) : Offered[x][s] \in (Elements \cap Within[x]) \cup {Nil}
  BY OfferedWithin, ElementParts
<1>2. QED
  BY <1>1, PartOffers

LEMMA OfferIs ==
  ASSUME NEW h, Trees(h), NEW node \in Elements, NEW s \in Slot
  PROVE  /\ Offer(node, s) = IF node.code = Nil THEN KidOffer(node, s, Offered) ELSE Nil
         /\ Offer(node, s) \in InElement(h, node) \cup {Nil}
<1>1. Offer(node, s) = IF node.code = Nil THEN KidOffer(node, s, Offered) ELSE Nil
  BY Zenon DEF Offer, KidOffer
<1>2. QED
  BY <1>1, OffersInner

\* No template in the node has anything for a slot of the call around it.
TemplatesEmpty(node) ==
  \A x \in Within[node] \cap Elements :
    IsTemplate(x) => \A n \in Slot : Offer(x, n) = Nil

LEMMA EmptyWithin ==
  ASSUME NEW h, Trees(h), NEW node \in Node, TemplatesEmpty(node)
  PROVE  \A x \in Parts(node) : TemplatesEmpty(x)
BY WithinPart DEF TemplatesEmpty

-----------------------------------------------------------------------------
(* The slots of what is compiled *)

\* What is made of an element that is offered.
MadeOf(x) == IF x = Nil THEN Nil ELSE ToStatement[x].made

LEMMA MadeIs ==
  ASSUME NEW h, Trees(h), NEW x \in Elements
  PROVE  ToStatement[x].made \in Statements(Others) /\ ToStatement[x].made # Nil
         /\ x # Nil /\ MadeOf(x) = ToStatement[x].made
<1>1. x \in Node /\ x.type = "element" /\ x # Nil
  BY ElementIs, NameAssumption
<1>2. PICK r0, r1, r2, m : r2 = Below(h, m + 2)
                           /\ CodeIn(x, r0, r1, r2, Below(h, m + 3), ToStatement[x])
  BY <1>1, RankedIs
<1>3. ToStatement[x].made \in Statements(Below(h, m + 3))
  BY <1>1, <1>2 DEF CodeIn, ElementIn
<1>4. Below(h, m + 3) \subseteq Others
  BY BelowIs
<1>5. ToStatement[x].made \in Statements(Others)
  BY <1>3, <1>4, StatementsGrow
<1>6. QED
  BY <1>1, <1>5, OthersRest, NotNil DEF MadeOf

\* The compiled slots of the children are those of what they offer.
KidSlot(node, s) == LastOf([i \in DOMAIN node.kids |-> ToStatement[node.kids[i]].slots[s]])

ElseSlot(node, s) == LastOf([i \in DOMAIN node.elses |-> ToStatement[node.elses[i].el].slots[s]])

\* The slots in the content of an element.
LEMMA ContentSlots ==
  ASSUME NEW node \in Elements, NEW s \in SlotName,
         NEW content, content = Content(node, KidsOf(node, ToStatement))
  PROVE  content.slots[s] = IF node.code = Nil THEN KidSlot(node, s) ELSE Nil
<1>1. s \in Slot
  BY DEF Slot
<1>2. CASE node.code = Nil
  <2>1. PICK rs : rs = KidsOf(node, ToStatement)
    OBVIOUS
  <2>2. PICK slotss : slotss = [i \in DOMAIN rs |-> rs[i].slots]
    OBVIOUS
  <2>3. content.slots = Marged(slotss)
    <3>1. content = Children(rs)
      BY <1>2, <2>1 DEF Content
    <3>2. Children(rs).slots = Marged(slotss)
      BY <2>2 DEF Children
    <3>3. QED
      BY <3>1, <3>2
  <2>4. Marged(slotss)[s] = LastOf([i \in DOMAIN slotss |-> slotss[i][s]])
    BY <1>1 DEF Marged
  <2>5. [i \in DOMAIN slotss |-> slotss[i][s]] = [i \in DOMAIN node.kids |-> ToStatement[node.kids[i]].slots[s]]
    <3>1. DOMAIN rs = DOMAIN node.kids /\ \A i \in DOMAIN node.kids : rs[i] = ToStatement[node.kids[i]]
      BY <2>1 DEF KidsOf
    <3>2. DOMAIN slotss = DOMAIN node.kids /\ \A i \in DOMAIN node.kids : slotss[i] = rs[i].slots
      BY <2>2, <3>1
    <3>3. QED
      BY <3>1, <3>2
  <2>6. QED
    BY <1>2, <2>3, <2>4, <2>5 DEF KidSlot
<1>3. CASE node.code # Nil
  <2>1. content.slots = NoSlots
    BY <1>3 DEF Content
  <2>2. QED
    BY <1>1, <1>3, <2>1, NoSlotsIn
<1>4. QED
  BY <1>2, <1>3

\* The slots around an element.
LEMMA AroundSlots ==
  ASSUME NEW node \in Elements, NEW s \in SlotName, NEW content
  PROVE  Around(node, content, ElsesOf(node, ToStatement))[s]
           = IF ElseSlot(node, s) # Nil THEN ElseSlot(node, s) ELSE OutOf(node, content.slots)[s]
<1>1. PICK m \in Nat : DOMAIN node.elses = 1 .. m
  BY ElementParts
<1>2. PICK es : es = ElsesOf(node, ToStatement)
  OBVIOUS
<1>3. DOMAIN es = 1 .. m /\ \A i \in 1 .. m : es[i] = ToStatement[node.elses[i].el]
  BY <1>1, <1>2 DEF ElsesOf
<1>4. PICK l : l = AroundList(node, content, es)
  OBVIOUS
<1>5. /\ DOMAIN l = 1 .. m + 1 /\ l[1] = OutOf(node, content.slots)
      /\ \A i \in 1 .. m : l[i + 1] = es[i].slots
      /\ Around(node, content, es) = Marged(l)
  BY <1>3, <1>4, AroundIs
<1>6. PICK zs : zs = [i \in 1 .. m + 1 |-> l[i][s]]
  OBVIOUS
<1>7. PICK ys : ys = [i \in 1 .. m |-> ToStatement[node.elses[i].el].slots[s]]
  OBVIOUS
<1>8. PICK xs : xs = [i \in 1 .. 1 |-> OutOf(node, content.slots)[s]]
  OBVIOUS
<1>9. Around(node, content, es)[s] = LastOf(zs)
  BY <1>5, <1>6 DEF Marged, Slot
<1>10. LastOf(ys) = ElseSlot(node, s)
  BY <1>1, <1>7, Zenon DEF ElseSlot
<1>11. (\A i \in 1 .. 1 : zs[i] = xs[i]) /\ (\A i \in 1 .. m : zs[1 + i] = ys[i]) /\ DOMAIN zs = 1 .. m + 1
       /\ DOMAIN ys = 1 .. m /\ xs[1] = OutOf(node, content.slots)[s]
  BY <1>3, <1>5, <1>6, <1>7, <1>8
<1>12. PICK v, w : v = xs[1] /\ w = LastOf(ys)
  OBVIOUS
<1>13. IsLast(1, xs, v)
  BY <1>12 DEF IsLast
<1>14. IsLast(m, ys, w)
  BY <1>11, <1>12, LastOfIs
<1>15. IsLast(1 + m, zs, IF w = Nil THEN v ELSE w)
  BY <1>11, <1>13, <1>14, LastJoined
<1>16. 1 + m \in Nat /\ IsLast(1 + m, zs, LastOf(zs))
  BY <1>11, LastOfIs
<1>17. LastOf(zs) = IF w = Nil THEN v ELSE w
  BY <1>15, <1>16, LastUnique
<1>18. QED
  BY <1>2, <1>9, <1>10, <1>11, <1>12, <1>17

LEMMA ElementSlots ==
  ASSUME NEW h, Trees(h), NEW node \in Elements, NEW s \in SlotName
  PROVE  /\ ToStatement[node].given[s] = IF node.code = Nil THEN KidSlot(node, s) ELSE Nil
         /\ ToStatement[node].slots[s]
              = IF node.slot = s THEN ToStatement[node].made
                ELSE IF ElseSlot(node, s) # Nil THEN ElseSlot(node, s)
                ELSE IF node.tag \in HtmlTag /\ node.code = Nil THEN KidSlot(node, s)
                ELSE Nil
<1>1. node \in Node /\ s \in Slot /\ s # "default" /\ node.slot \in Slot \cup {Nil}
  BY ElementIs, NameAssumption DEF Slot
<1>2. PICK rs : rs = KidsOf(node, ToStatement)
  OBVIOUS
<1>3. PICK es : es = ElsesOf(node, ToStatement)
  OBVIOUS
<1>4. PICK content : content = Content(node, rs)
  OBVIOUS
<1>5. PICK e : e = ElementStatement(node, rs, es) /\ e = ToStatement[node]
  BY <1>1, <1>2, <1>3, ToStatementIs, CompiledElement
<1>6. /\ e.body = content.st
      /\ e.given = [content.slots EXCEPT !["default"] = content.st]
      /\ e.own = Own(node, e.body)
      /\ e.once = If(node, e.own)
      /\ e.made = For(node, e.once)
      /\ e.st = IF node.slot = Nil THEN e.made ELSE Nil
      /\ e.slots = IF node.slot = Nil THEN Around(node, content, es)
                   ELSE [Around(node, content, es) EXCEPT ![node.slot] = e.made]
  <2>1. e = ElementStatement(node, rs, es)
    BY <1>5
  <2>2. QED
    BY <1>4, <2>1, ElementFields
<1>7. content.slots[s] = IF node.code = Nil THEN KidSlot(node, s) ELSE Nil
  BY <1>2, <1>4, ContentSlots
<1>8. DOMAIN content.slots = Slot
  <2>1. CASE node.code = Nil
    BY <1>4, <2>1 DEF Content, Children, Marged
  <2>2. CASE node.code # Nil
    BY <1>4, <2>2 DEF Content, NoSlots
  <2>3. QED
    BY <2>1, <2>2
<1>9. e.given[s] = content.slots[s]
  BY <1>1, <1>6, <1>8
<1>10. PICK a : a = Around(node, content, es)
  OBVIOUS
<1>11. DOMAIN a = Slot
  BY <1>10 DEF Around, Marged
<1>12. a[s] = IF ElseSlot(node, s) # Nil THEN ElseSlot(node, s) ELSE OutOf(node, content.slots)[s]
  BY <1>3, <1>10, AroundSlots
<1>13. e.slots[s] = IF node.slot = s THEN e.made ELSE a[s]
  BY <1>1, <1>6, <1>10, <1>11, NameAssumption
<1>14. OutOf(node, content.slots)[s]
         = IF node.tag \in HtmlTag /\ node.code = Nil THEN KidSlot(node, s) ELSE Nil
  BY <1>1, <1>7, NoSlotsIn DEF OutOf
<1>15. QED
  BY <1>5, <1>7, <1>9, <1>12, <1>13, <1>14

MadeOfAll == [x \in Elements |-> ToStatement[x].made]

\* The slots a node hands on are made of what it offers.
LEMMA SlotsMade ==
  ASSUME NEW h, Trees(h), NEW n \in Nat, NEW xs, NEW ys, DOMAIN xs = 1 .. n, DOMAIN ys = 1 .. n,
         \A i \in 1 .. n : xs[i] \in Elements \cup {Nil} /\ ys[i] = MadeOf(xs[i])
  PROVE  LastOf(ys) = MadeOf(LastOf(xs))
<1>1. PICK M : M = MadeOfAll
  OBVIOUS
<1>2. \A x \in Elements : M[x] = ToStatement[x].made
  BY <1>1 DEF MadeOfAll
<1>3. ASSUME NEW i \in 1 .. n
      PROVE  /\ xs[i] = Nil => ys[i] = Nil
             /\ xs[i] # Nil => ys[i] # Nil /\ ys[i] = M[xs[i]]
  <2>1. CASE xs[i] = Nil
    BY <2>1 DEF MadeOf
  <2>2. CASE xs[i] # Nil
    <3>1. PICK x \in Elements : x = xs[i]
      BY <2>2
    <3>2. ToStatement[x].made # Nil /\ MadeOf(x) = ToStatement[x].made
      BY MadeIs
    <3>3. QED
      BY <1>2, <2>2, <3>1, <3>2
  <2>3. QED
    BY <2>1, <2>2
<1>4. LastOf(ys) = IF LastOf(xs) = Nil THEN Nil ELSE M[LastOf(xs)]
  BY <1>3, LastOfMapped
<1>5. LastOf(xs) \in Elements \cup {Nil}
  BY LastOfIn
<1>6. QED
  BY <1>2, <1>4, <1>5 DEF MadeOf

LEMMA PartSlots ==
  ASSUME NEW h, Trees(h), NEW node \in Elements, NEW s \in SlotName,
         \A x \in Parts(node) : ToStatement[x].slots[s] = MadeOf(Offered[x][s])
  PROVE  /\ KidSlot(node, s) = MadeOf(KidOffer(node, s, Offered))
         /\ ElseSlot(node, s) = MadeOf(ElseOffer(node, s, Offered))
<1>1. PICK n \in Nat, m \in Nat :
        /\ DOMAIN node.kids = 1 .. n /\ \A i \in 1 .. n : node.kids[i] \in Parts(node)
        /\ DOMAIN node.elses = 1 .. m /\ \A i \in 1 .. m : node.elses[i].el \in Parts(node)
  BY ElementParts
<1>2. \A x \in Parts(node) : Offered[x][s] \in Elements \cup {Nil}
  BY OfferedWithin, ElementParts DEF Slot
<1>3. KidSlot(node, s) = MadeOf(KidOffer(node, s, Offered))
  <2>1. PICK xs : xs = [i \in DOMAIN node.kids |-> Offered[node.kids[i]][s]]
    OBVIOUS
  <2>2. PICK ys : ys = [i \in DOMAIN node.kids |-> ToStatement[node.kids[i]].slots[s]]
    OBVIOUS
  <2>3. DOMAIN xs = 1 .. n /\ DOMAIN ys = 1 .. n
        /\ \A i \in 1 .. n : xs[i] \in Elements \cup {Nil} /\ ys[i] = MadeOf(xs[i])
    BY <1>1, <1>2, <2>1, <2>2
  <2>4. LastOf(ys) = MadeOf(LastOf(xs))
    BY <2>3, SlotsMade
  <2>5. QED
    BY <2>1, <2>2, <2>4, Zenon DEF KidSlot, KidOffer
<1>4. ElseSlot(node, s) = MadeOf(ElseOffer(node, s, Offered))
  <2>1. PICK xs : xs = [i \in DOMAIN node.elses |-> Offered[node.elses[i].el][s]]
    OBVIOUS
  <2>2. PICK ys : ys = [i \in DOMAIN node.elses |-> ToStatement[node.elses[i].el].slots[s]]
    OBVIOUS
  <2>3. DOMAIN xs = 1 .. m /\ DOMAIN ys = 1 .. m
        /\ \A i \in 1 .. m : xs[i] \in Elements \cup {Nil} /\ ys[i] = MadeOf(xs[i])
    BY <1>1, <1>2, <2>1, <2>2
  <2>4. LastOf(ys) = MadeOf(LastOf(xs))
    BY <2>3, SlotsMade
  <2>5. QED
    BY <2>1, <2>2, <2>4, Zenon DEF ElseSlot, ElseOffer
<1>5. QED
  BY <1>3, <1>4

\* A slot has what is made of the element that is offered for it.
LEMMA SlotsOffered ==
  ASSUME NEW h, Trees(h), NEW s \in SlotName
  PROVE  \A node \in Node :
           TemplatesEmpty(node) => ToStatement[node].slots[s] = MadeOf(Offered[node][s])
<1> DEFINE P == {node \in Node :
                   TemplatesEmpty(node) => ToStatement[node].slots[s] = MadeOf(Offered[node][s])}
<1>s. s \in Slot
  BY DEF Slot
<1>1. ASSUME NEW node \in Node, \A x \in Node : h[x] < h[node] => x \in P, TemplatesEmpty(node)
      PROVE  ToStatement[node].slots[s] = MadeOf(Offered[node][s])
  <2>1. CASE node.type # "element"
    <3>1. Offered[node][s] = Nil
      BY <1>s, <2>1, OfferedCases
    <3>2. ToStatement[node].slots = NoSlots
      BY <2>1, RankedIs DEF CodeIn
    <3>3. QED
      BY <3>1, <3>2, NoSlotsIn DEF MadeOf, Slot
  <2>2. CASE node.type = "element"
    <3>1. node \in Elements
      BY <2>2, NodeKinds
    <3>2. \A x \in Parts(node) : ToStatement[x].slots[s] = MadeOf(Offered[x][s])
      BY <1>1, NodeKinds, EmptyWithin DEF Trees
    <3>3. PICK k, b : /\ k = KidOffer(node, s, Offered) /\ b = ElseOffer(node, s, Offered)
                      /\ KidSlot(node, s) = MadeOf(k) /\ ElseSlot(node, s) = MadeOf(b)
      BY <3>1, <3>2, PartSlots
    <3>4. k \in Elements \cup {Nil} /\ b \in Elements \cup {Nil}
      BY <1>s, <3>1, <3>3, OffersInner DEF InElement
    <3>5. MadeOf(b) = Nil <=> b = Nil
      BY <3>4, MadeIs DEF MadeOf
    <3>6. MadeOf(node) = ToStatement[node].made
      BY <3>1, MadeIs
    <3>7. Offered[node][s]
              = IF node.slot = s THEN node
                ELSE IF b # Nil THEN b
                ELSE IF node.tag \in HtmlTag /\ node.code = Nil THEN k
                ELSE Nil
      <4>1. Offered[node][s]
              = IF node.slot = s THEN node
                ELSE IF b # Nil THEN b
                ELSE IF node.code = Nil /\ ~ IsCall(node) THEN k
                ELSE Nil
        BY <1>s, <2>2, <3>3, OfferedCases
      <4>2. node.code = Nil /\ IsTemplate(node) => k = Nil
        <5>1. node \in Within[node]
          BY WithinIs
        <5>2. IsTemplate(node) => Offer(node, s) = Nil
          BY <1>s, <1>1, <3>1, <5>1 DEF TemplatesEmpty
        <5>3. QED
          BY <1>s, <3>1, <3>3, <5>2, OfferIs
      <4>3. node.tag \in HtmlTag => ~ IsCall(node)
        BY DEF IsCall
      <4>4. node.tag \notin HtmlTag /\ ~ IsCall(node) => IsTemplate(node)
        BY DEF IsCall
      <4>5. QED
        BY <4>1, <4>2, <4>3, <4>4
    <3>8. ToStatement[node].slots[s]
              = IF node.slot = s THEN ToStatement[node].made
                ELSE IF MadeOf(b) # Nil THEN MadeOf(b)
                ELSE IF node.tag \in HtmlTag /\ node.code = Nil THEN MadeOf(k)
                ELSE Nil
      <4>1. PICK p, q : p = KidSlot(node, s) /\ q = ElseSlot(node, s)
        OBVIOUS
      <4>2. ToStatement[node].slots[s]
              = IF node.slot = s THEN ToStatement[node].made
                ELSE IF q # Nil THEN q
                ELSE IF node.tag \in HtmlTag /\ node.code = Nil THEN p
                ELSE Nil
        BY <3>1, <4>1, ElementSlots
      <4>3. QED
        BY <3>3, <4>1, <4>2
    <3>9. MadeOf(Nil) = Nil
      BY DEF MadeOf
    <3>10. QED
      BY <3>5, <3>6, <3>7, <3>8, <3>9
  <2>3. QED
    BY <2>1, <2>2
<1>2. Node \subseteq P
  <2>1. ASSUME NEW node \in Node, \A x \in Node : h[x] < h[node] => x \in P PROVE node \in P
    BY <1>1, <2>1
  <2> HIDE DEF P
  <2>2. h \in [Node -> Nat]
    BY DEF Trees
  <2>3. QED
    BY <2>1, <2>2, ByHeight
<1>3. QED
  BY <1>2

\* The slots a component is given are made of what is offered to it.
LEMMA GivenOffered ==
  ASSUME NEW h, Trees(h), NEW node \in Elements, NEW s \in SlotName, TemplatesEmpty(node)
  PROVE  /\ ToStatement[node].given[s] = MadeOf(Offer(node, s))
         /\ Offer(node, s) \in InElement(h, node) \cup {Nil}
<1>1. s \in Slot /\ node \in Node
  BY ElementIs DEF Slot
<1>2. \A x \in Parts(node) : ToStatement[x].slots[s] = MadeOf(Offered[x][s])
  BY <1>1, SlotsOffered, ElementParts, EmptyWithin
<1>3. KidSlot(node, s) = MadeOf(KidOffer(node, s, Offered))
  BY <1>2, PartSlots
<1>4. ToStatement[node].given[s] = IF node.code = Nil THEN KidSlot(node, s) ELSE Nil
  BY ElementSlots
<1>5. MadeOf(Nil) = Nil
  BY DEF MadeOf
<1>6. QED
  BY <1>1, <1>3, <1>4, <1>5, OfferIs

-----------------------------------------------------------------------------
(* What nodes show *)

\* The nodes that are lower.
Under(h, node) == {x \in Node : h[x] < h[node]}

\* What one node writes at its place, and one offer in a call.
PlacePart(nodes, whole, i) ==
  IF nodes[i].type = "element" /\ nodes[i].slot # Nil THEN << >> ELSE whole[nodes[i]]

OfferPart(node, whole, i) ==
  IF Offer(node, SlotNames[i]) = Nil THEN << >>
  ELSE <<<<"slot", SlotNames[i]>>>> \o whole[Offer(node, SlotNames[i])]

\* What is shown inside an element.
InnerOf(node, whole) ==
  IF node.code = Nil THEN Place(node.kids, whole) ELSE <<<<"value", <<node.code>>>>>>

\* What is shown in the slots of a call.
Offering(node, whole) == Concat([i \in DOMAIN SlotNames |-> OfferPart(node, whole, i)])

LEMMA PlaceIs ==
  ASSUME NEW nodes, NEW whole
  PROVE  Place(nodes, whole) = Concat([i \in DOMAIN nodes |-> PlacePart(nodes, whole, i)])
BY Zenon DEF Place, PlacePart

\* What is shown for the default slot of a call.
DefaultPart(node, inner, whole) ==
  IF Offer(node, "default") = Nil THEN inner ELSE whole[Offer(node, "default")]

LEMMA CallIs ==
  ASSUME NEW node, NEW inner, NEW whole
  PROVE  Call(node, inner, whole)
           = <<<<"call", node.tag>>>> \o DefaultPart(node, inner, whole) \o Offering(node, whole)
               \o <<<<"return", node.tag>>>>
BY Zenon DEF Call, DefaultPart, Offering, OfferPart

LEMMA Kinds ==
  ASSUME NEW node
  PROVE  /\ IsTemplate(node) <=> node.tag = "template" /\ ~ node.dirs
         /\ node.tag \in HtmlTag => ~ IsTemplate(node) /\ ~ IsCall(node)
         /\ node.tag \notin HtmlTag => (IsCall(node) <=> ~ IsTemplate(node))
BY NameAssumption DEF IsTemplate, IsCall

\* The end of a tag.
EndPart(node, ends) ==
  IF node.tag \in Void /\ node \notin ends THEN << >> ELSE <<<<"close", node.tag>>>>

\* What an element shows.
LEMMA ElementCases ==
  ASSUME NEW node, NEW ends, NEW whole
  PROVE  /\ node.tag \in HtmlTag => Element(node, ends, whole)
              = <<<<"open", node.tag>>>> \o InnerOf(node, whole)
                  \o EndPart(node, ends)
         /\ node.tag \notin HtmlTag /\ node.tag = "template" /\ ~ node.dirs
              => Element(node, ends, whole) = InnerOf(node, whole)
         /\ node.tag \notin HtmlTag /\ ~ (node.tag = "template" /\ ~ node.dirs)
              => Element(node, ends, whole) = Call(node, InnerOf(node, whole), whole)
<1>1. CASE node.tag \in HtmlTag
  <2>1. ~ IsTemplate(node)
    BY <1>1, Kinds
  <2>2. QED
    BY <1>1, <2>1, Zenon DEF Element, InnerOf, IsTemplate, EndPart
<1>2. CASE node.tag \notin HtmlTag /\ node.tag = "template" /\ ~ node.dirs
  BY <1>2, Zenon DEF Element, InnerOf, IsTemplate, EndPart
<1>3. CASE node.tag \notin HtmlTag /\ ~ (node.tag = "template" /\ ~ node.dirs)
  BY <1>3, Zenon DEF Element, InnerOf, IsTemplate, EndPart
<1>4. QED
  BY <1>1, <1>2, <1>3

LEMMA PlaceSame ==
  ASSUME NEW nodes, NEW K, NEW whole, NEW other, SameOn(K, whole, other),
         \A i \in DOMAIN nodes : nodes[i] \in K
  PROVE  Place(nodes, whole) = Place(nodes, other)
<1>1. \A i \in DOMAIN nodes : PlacePart(nodes, whole, i) = PlacePart(nodes, other, i)
  BY DEF PlacePart, SameOn
<1>2. [i \in DOMAIN nodes |-> PlacePart(nodes, whole, i)] = [i \in DOMAIN nodes |-> PlacePart(nodes, other, i)]
  BY <1>1
<1>3. QED
  BY <1>2, PlaceIs

LEMMA PlaceIn ==
  ASSUME NEW nodes \in Seq(Node), NEW whole \in [Node -> Seq(Piece)]
  PROVE  Place(nodes, whole) \in Seq(Piece)
<1>1. PICK n \in Nat : DOMAIN nodes = 1 .. n /\ \A i \in 1 .. n : nodes[i] \in Node
  BY NodesAre
<1>2. \A i \in 1 .. n : PlacePart(nodes, whole, i) \in Seq(Piece)
  BY <1>1, EmptySeq DEF PlacePart
<1>3. PICK ss : ss = [i \in DOMAIN nodes |-> PlacePart(nodes, whole, i)]
  OBVIOUS
<1>4. DOMAIN ss = 1 .. n /\ ss = [i \in 1 .. n |-> ss[i]] /\ \A i \in 1 .. n : ss[i] \in Seq(Piece)
  BY <1>1, <1>2, <1>3
<1>5. Concat(ss) \in Seq(Piece)
  BY <1>4, ConcatIn
<1>6. QED
  BY <1>3, <1>5, PlaceIs

\* All that is shown in an element is lower.
LEMMA LowerParts ==
  ASSUME NEW h, Trees(h), NEW node \in Elements
  PROVE  /\ \A x \in Parts(node) : x \in Under(h, node)
         /\ \A i \in DOMAIN node.kids : node.kids[i] \in Under(h, node)
         /\ \A s \in Slot : Offer(node, s) \in Under(h, node) \cup {Nil}
<1>1. node \in Node
  BY ElementIs
<1>2. \A x \in Parts(node) : x \in Under(h, node)
  BY <1>1, NodeKinds DEF Trees, Under
<1>3. \A i \in DOMAIN node.kids : node.kids[i] \in Under(h, node)
  BY <1>2, ElementParts
<1>4. InElement(h, node) \subseteq Under(h, node)
  BY DEF InElement, Under, Elements
<1>5. \A s \in Slot : Offer(node, s) \in Under(h, node) \cup {Nil}
  BY <1>4, OfferIs
<1>6. QED
  BY <1>2, <1>3, <1>5

LEMMA OfferingSame ==
  ASSUME NEW h, Trees(h), NEW node \in Elements, NEW whole, NEW other, SameOn(Under(h, node), whole, other)
  PROVE  Offering(node, whole) = Offering(node, other)
<1>1. PICK n \in Nat : DOMAIN SlotNames = 1 .. n /\ \A i \in 1 .. n : SlotNames[i] \in SlotName
  BY NamesAre
<1>2. ASSUME NEW i \in 1 .. n PROVE OfferPart(node, whole, i) = OfferPart(node, other, i)
  <2>1. PICK x : x = Offer(node, SlotNames[i])
    OBVIOUS
  <2>2. x = Nil \/ x \in Under(h, node)
    BY <1>1, <2>1, LowerParts DEF Slot
  <2>3. x # Nil => whole[x] = other[x]
    BY <2>2 DEF SameOn
  <2>4. QED
    BY <2>1, <2>3, Zenon DEF OfferPart
<1>3. [i \in DOMAIN SlotNames |-> OfferPart(node, whole, i)] = [i \in DOMAIN SlotNames |-> OfferPart(node, other, i)]
  BY <1>1, <1>2
<1>4. QED
  BY <1>3, Zenon DEF Offering

LEMMA OfferingIn ==
  ASSUME NEW h, Trees(h), NEW node \in Elements, NEW whole \in [Node -> Seq(Piece)]
  PROVE  Offering(node, whole) \in Seq(Piece)
<1>1. PICK n \in Nat : DOMAIN SlotNames = 1 .. n /\ \A i \in 1 .. n : SlotNames[i] \in SlotName
  BY NamesAre
<1>2. ASSUME NEW i \in 1 .. n PROVE OfferPart(node, whole, i) \in Seq(Piece)
  <2>1. PICK x : x = Offer(node, SlotNames[i])
    OBVIOUS
  <2>2. x = Nil \/ x \in Node
    BY <1>1, <2>1, LowerParts DEF Under, Slot
  <2>3. PICK a \in Seq(Piece) : a = <<<<"slot", SlotNames[i]>>>>
    BY <1>1, PieceIs, TokenPayload
  <2>4. x # Nil => a \o whole[x] \in Seq(Piece)
    BY <2>2, ConcatProperties
  <2>5. QED
    BY <2>1, <2>3, <2>4, EmptySeq DEF OfferPart
<1>3. PICK ss : ss = [i \in DOMAIN SlotNames |-> OfferPart(node, whole, i)]
  OBVIOUS
<1>4. DOMAIN ss = 1 .. n /\ ss = [i \in 1 .. n |-> ss[i]] /\ \A i \in 1 .. n : ss[i] \in Seq(Piece)
  BY <1>1, <1>2, <1>3
<1>5. Concat(ss) \in Seq(Piece)
  BY <1>4, ConcatIn
<1>6. QED
  BY <1>3, <1>5 DEF Offering

\* What an element shows depends on lower nodes only.
LEMMA InnerSame ==
  ASSUME NEW h, Trees(h), NEW node \in Elements, NEW ends, NEW whole, NEW other,
         SameOn(Under(h, node), whole, other)
  PROVE  InnerOf(node, whole) = InnerOf(node, other) /\ Element(node, ends, whole) = Element(node, ends, other)
<1>1. Place(node.kids, whole) = Place(node.kids, other)
  BY LowerParts, PlaceSame
<1>2. PICK inner : inner = InnerOf(node, whole) /\ inner = InnerOf(node, other)
  BY <1>1 DEF InnerOf
<1>3. PICK o : o = Offering(node, whole) /\ o = Offering(node, other)
  BY OfferingSame
<1>4. Call(node, inner, whole) = Call(node, inner, other)
  <2>1. PICK x : x = Offer(node, "default") /\ (x = Nil \/ x \in Under(h, node))
    BY LowerParts DEF Slot
  <2>2. x # Nil => whole[x] = other[x]
    BY <2>1 DEF SameOn
  <2>3. PICK d : d = DefaultPart(node, inner, whole) /\ d = DefaultPart(node, inner, other)
    BY <2>1, <2>2, Zenon DEF DefaultPart
  <2>4. QED
    BY <1>3, <2>3, CallIs
<1>5. CASE node.tag \in HtmlTag
  BY <1>2, <1>5, ElementCases
<1>6. CASE node.tag \notin HtmlTag /\ node.tag = "template" /\ ~ node.dirs
  BY <1>2, <1>6, ElementCases
<1>7. CASE node.tag \notin HtmlTag /\ ~ (node.tag = "template" /\ ~ node.dirs)
  BY <1>2, <1>4, <1>7, ElementCases
<1>8. QED
  BY <1>2, <1>5, <1>6, <1>7

LEMMA InnerIn ==
  ASSUME NEW h, Trees(h), NEW node \in Elements, NEW ends, NEW whole \in [Node -> Seq(Piece)]
  PROVE  InnerOf(node, whole) \in Seq(Piece) /\ Element(node, ends, whole) \in Seq(Piece)
<1>1. PICK inner \in Seq(Piece) : inner = InnerOf(node, whole)
  <2>1. CASE node.code = Nil
    BY <2>1, ElementIs, PlaceIn DEF InnerOf
  <2>2. CASE node.code # Nil
    <3>1. node.code \in Token
      BY <2>2, ElementIs DEF Token
    <3>2. <<node.code>> \in Payload
      <4>1. PICK t \in Seq(Token) : t = <<node.code>>
        <5>1. PICK T : T = Token
          OBVIOUS
        <5>2. PICK c : c = node.code /\ c \in T
          BY <3>1, <5>1
        <5>3. <<c>> \in Seq(T)
          BY <5>2
        <5>4. QED
          BY <5>1, <5>2, <5>3, Zenon
      <4>2. t \in Payload
        BY TokenPayload
      <4>3. QED
        BY <4>1, <4>2
    <3>3. <<<<"value", <<node.code>>>>>> \in Seq(Piece)
      BY <3>2, PieceIs
    <3>4. QED
      BY <2>2, <3>3 DEF InnerOf
  <2>3. QED
    BY <2>1, <2>2
<1>2. PICK a \in Seq(Piece), b \in Seq(Piece) : a = <<<<"open", node.tag>>>> /\ b = <<<<"close", node.tag>>>>
  BY TagStr
<1>3. PICK c \in Seq(Piece), d \in Seq(Piece) : c = <<<<"call", node.tag>>>> /\ d = <<<<"return", node.tag>>>>
  BY ElementIs, PieceIs
<1>4. PICK o \in Seq(Piece) : o = Offering(node, whole)
  BY OfferingIn
<1>5. CASE node.tag \in HtmlTag
  <2>1. PICK e \in Seq(Piece) : e = EndPart(node, ends)
    BY <1>2, EmptySeq DEF EndPart
  <2>2. a \o inner \o e \in Seq(Piece)
    BY ThreeIn
  <2>3. Element(node, ends, whole) = a \o inner \o e
    BY <1>1, <1>2, <1>5, <2>1, ElementCases
  <2>4. QED
    BY <1>1, <2>2, <2>3
<1>6. CASE node.tag \notin HtmlTag /\ node.tag = "template" /\ ~ node.dirs
  BY <1>1, <1>6, ElementCases
<1>7. CASE node.tag \notin HtmlTag /\ ~ (node.tag = "template" /\ ~ node.dirs)
  <2>1. PICK f \in Seq(Piece), cio \in Seq(Piece) :
          f = DefaultPart(node, inner, whole) /\ cio = c \o f \o o
    <3>1. Offer(node, "default") \in Node \cup {Nil}
      BY LowerParts DEF Slot, Under
    <3>2. PICK f \in Seq(Piece) : f = DefaultPart(node, inner, whole)
      BY <3>1 DEF DefaultPart
    <3>3. QED
      BY <3>2, ThreeIn
  <2>2. cio \o d \in Seq(Piece)
    BY ConcatProperties
  <2>3. Element(node, ends, whole) = Call(node, inner, whole)
    BY <1>1, <1>7, ElementCases
  <2>4. Call(node, inner, whole) = c \o f \o o \o d
    BY <1>3, <1>4, <2>1, CallIs
  <2>5. QED
    BY <1>1, <2>1, <2>2, <2>3, <2>4
<1>8. QED
  BY <1>5, <1>6, <1>7

\* An element, without its v-for.
One(node, conds, ends, whole) ==
  IF node.cond = Nil \/ conds[node.cond] THEN Element(node, ends, whole)
  ELSE IF Taken(node, conds) = {} THEN << >>
  ELSE whole[TakenEl(node, conds)]

LEMMA ShownCases ==
  ASSUME NEW node \in Node, NEW conds, NEW ends, NEW whole
  PROVE  /\ node.type = "text" => Shown(node, conds, ends, whole) = TextShown(node.text)
         /\ node.type = "comment" => Shown(node, conds, ends, whole) = Pieces("comment", node.text)
         /\ node.type = "element" => Shown(node, conds, ends, whole)
              = IF node.loop THEN One(node, conds, ends, whole) \o One(node, conds, ends, whole)
                ELSE One(node, conds, ends, whole)
<1>1. CASE node.type = "text"
  BY <1>1, Zenon DEF Shown
<1>2. CASE node.type = "comment"
  BY <1>2, Zenon DEF Shown
<1>3. CASE node.type = "element"
  BY <1>3, Zenon DEF Shown, One, TakenEl
<1>4. QED
  BY <1>1, <1>2, <1>3, NodeKinds

LEMMA ShownSame ==
  ASSUME NEW h, Trees(h), NEW node \in Node, NEW conds, NEW ends, NEW whole, NEW other,
         SameOn(Under(h, node), whole, other)
  PROVE  Shown(node, conds, ends, whole) = Shown(node, conds, ends, other)
<1>1. CASE node.type = "text"
  BY <1>1, ShownCases
<1>2. CASE node.type = "comment"
  BY <1>2, ShownCases
<1>3. CASE node.type = "element"
  <2>1. node \in Elements
    BY <1>3, NodeKinds
  <2>2. PICK e : e = Element(node, ends, whole) /\ e = Element(node, ends, other)
    BY <2>1, InnerSame
  <2>3. Taken(node, conds) # {} => whole[TakenEl(node, conds)] = other[TakenEl(node, conds)]
    BY <2>1, TakenIs, LowerParts DEF SameOn
  <2>4. PICK one : one = One(node, conds, ends, whole) /\ one = One(node, conds, ends, other)
    <3>1. CASE node.cond = Nil \/ conds[node.cond]
      BY <2>2, <3>1, Zenon DEF One
    <3>2. CASE ~ (node.cond = Nil \/ conds[node.cond]) /\ Taken(node, conds) = {}
      BY <3>2, Zenon DEF One
    <3>3. CASE ~ (node.cond = Nil \/ conds[node.cond]) /\ Taken(node, conds) # {}
      BY <2>3, <3>3, Zenon DEF One
    <3>4. QED
      BY <3>1, <3>2, <3>3
  <2>5. QED
    BY <1>3, <2>4, ShownCases
<1>4. QED
  BY <1>1, <1>2, <1>3, NodeKinds

LEMMA ShownIn ==
  ASSUME NEW h, Trees(h), NEW node \in Node, NEW conds, NEW ends, NEW whole \in [Node -> Seq(Piece)]
  PROVE  Shown(node, conds, ends, whole) \in Seq(Piece)
<1>1. CASE node.type = "text"
  <2>1. node.text \in Seq(Token)
    BY <1>1, NodeKinds
  <2>2. TextShown(node.text) \in Seq(Piece)
    <3>1. PICK w, t : w \in Token /\ Ends(t, node.text, w)
      <4>1. "{{" \in Token
        BY DEF Token
      <4>2. QED
        BY <4>1 DEF Ends
    <3>2. Read(node.text) \in ReadState
      BY <2>1, <3>1, ReadAppend
    <3>3. QED
      BY <3>2 DEF TextShown, ReadState
  <2>3. QED
    BY <1>1, <2>2, ShownCases
<1>2. CASE node.type = "comment"
  <2>1. Pieces("comment", node.text) \in Seq(Piece)
    BY <1>2, NodeKinds, PiecesEach
  <2>2. QED
    BY <1>2, <2>1, ShownCases
<1>3. CASE node.type = "element"
  <2>1. node \in Elements
    BY <1>3, NodeKinds
  <2>2. Element(node, ends, whole) \in Seq(Piece)
    BY <2>1, InnerIn
  <2>3. Taken(node, conds) # {} => whole[TakenEl(node, conds)] \in Seq(Piece)
    BY <2>1, TakenIs, ElementIs
  <2>4. PICK one \in Seq(Piece) : one = One(node, conds, ends, whole)
    BY <2>2, <2>3, EmptySeq DEF One
  <2>5. one \o one \in Seq(Piece)
    BY ConcatProperties
  <2>6. QED
    BY <1>3, <2>4, <2>5, ShownCases
<1>4. QED
  BY <1>1, <1>2, <1>3, NodeKinds

\* Whole is what its definition says.
LEMMA WholeIs ==
  ASSUME NEW h, Trees(h), NEW conds, NEW ends
  PROVE  /\ Whole(conds, ends) \in [Node -> Seq(Piece)]
         /\ \A node \in Node : Whole(conds, ends)[node] = Shown(node, conds, ends, Whole(conds, ends))
<1> DEFINE G == [node \in Node |-> [r \in [Under(h, node) -> Seq(Piece)] |-> Shown(node, conds, ends, r)]]
           K == [node \in Node |-> Under(h, node)]
           X == CHOOSE u : u = [node \in Node |-> Shown(node, conds, ends, u)]
<1>1. ASSUME NEW node \in Node, NEW r, \A x \in Under(h, node) : r[x] \in Seq(Piece)
      PROVE  Shown(node, conds, ends, r) \in Seq(Piece)
  <2>1. PICK w : w = [x \in Node |-> IF x \in Under(h, node) THEN r[x] ELSE << >>]
    OBVIOUS
  <2>2. w \in [Node -> Seq(Piece)] /\ SameOn(Under(h, node), r, w)
    BY <1>1, <2>1, EmptySeq DEF SameOn, Under
  <2>3. Shown(node, conds, ends, r) = Shown(node, conds, ends, w)
    BY <2>2, ShownSame
  <2>4. QED
    BY <2>2, <2>3, ShownIn
<1>2. PICK f \in [Node -> Seq(Piece)] : MadeBy(Node, K, G, f)
  <2>1. Seq(Piece) # {}
    BY EmptySeq
  <2>2. h \in [Node -> Nat]
    BY DEF Trees
  <2>3. \A node \in Node : \A k \in K[node] : k \in Node /\ h[k] < h[node]
    BY DEF Under
  <2>4. \A node \in Node : \A r \in [K[node] -> Seq(Piece)] : G[node][r] \in Seq(Piece)
    BY <1>1
  <2> HIDE DEF G, K
  <2>5. Lower(Node, h, K) /\ Makes(Node, Seq(Piece), K, G)
    BY <2>3, <2>4 DEF Lower, Makes
  <2>6. QED
    BY <2>1, <2>2, <2>5, Recursion
<1>3. ASSUME NEW node \in Node PROVE f[node] = Shown(node, conds, ends, f)
  <2>1. PICK r : r = [k \in Under(h, node) |-> f[k]]
    OBVIOUS
  <2>2. r \in [Under(h, node) -> Seq(Piece)] /\ SameOn(Under(h, node), r, f)
    BY <2>1 DEF SameOn, Under
  <2>3. f[node] = G[node][r]
    BY <1>2, <2>1 DEF MadeBy
  <2>4. G[node][r] = Shown(node, conds, ends, r)
    BY <2>2
  <2>5. Shown(node, conds, ends, r) = Shown(node, conds, ends, f)
    BY <2>2, ShownSame
  <2>6. QED
    BY <2>3, <2>4, <2>5
<1>4. f = [node \in Node |-> Shown(node, conds, ends, f)]
  BY <1>3
<1>5. X = [node \in Node |-> Shown(node, conds, ends, X)]
  BY <1>4, Zenon
<1>6. Whole(conds, ends) = X
  BY DEF Whole
<1> HIDE DEF X, G, K
<1>7. PICK Y : Y = X
  OBVIOUS
<1>8. Y = [node \in Node |-> Shown(node, conds, ends, Y)]
  BY <1>5, <1>7, Zenon
<1>9. \A node \in Node : Y[node] = Shown(node, conds, ends, Y)
  BY <1>8
<1> DEFINE P == {node \in Node : Y[node] \in Seq(Piece)}
<1>10. ASSUME NEW node \in Node, \A x \in Node : h[x] < h[node] => x \in P PROVE node \in P
  <2>1. \A x \in Under(h, node) : Y[x] \in Seq(Piece)
    BY <1>10 DEF Under
  <2>2. QED
    BY <1>1, <1>9, <2>1
<1>11. Node \subseteq P
  <2> HIDE DEF P
  <2>1. h \in [Node -> Nat]
    BY DEF Trees
  <2>2. QED
    BY <1>10, <2>1, ByHeight
<1>12. Y \in [Node -> Seq(Piece)]
  BY <1>8, <1>11
<1>13. QED
  BY <1>6, <1>7, <1>9, <1>12, Zenon

-----------------------------------------------------------------------------
(* What holders write *)

\* A holder writes what it executes to.
LEMMA HolderWrites ==
  ASSUME NEW h, Trees(h), NEW conds, NEW op \in {"tag", "component", "if", "for"}, NEW node \in Elements
  PROVE  Writes(Holder(op, node), Exec(conds)) = Executed(Holder(op, node), conds, Exec(conds))
<1>1. PICK x \in Holders : x = Holder(op, node) /\ x.op = op
  BY HolderIs
<1>2. PICK run : run = Exec(conds) /\ run[x] = Executed(x, conds, run)
  BY ExecIs
<1>3. x # Nil
  <2>1. Holders \subseteq Statement
    BY DEF Statement, Statements, Flat
  <2>2. QED
    BY <2>1, NilAssumption
<1>4. Writes(x, run) = Item(x, run)
  BY <1>1, <1>3 DEF Writes
<1>5. Item(x, run) = run[x]
  BY <1>1 DEF Item
<1>6. QED
  BY <1>1, <1>2, <1>4, <1>5

LEMMA TagWrites ==
  ASSUME NEW h, Trees(h), NEW conds, NEW node \in Elements
  PROVE  Writes(Holder("tag", node), Exec(conds))
           = <<<<"open", node.tag>>>> \o Writes(ToStatement[node].body, Exec(conds))
               \o <<<<"close", node.tag>>>>
<1>1. PICK x \in Holders : x = Holder("tag", node) /\ x.op = "tag" /\ x.of = node
  BY HolderIs
<1>2. Writes(x, Exec(conds)) = Executed(x, conds, Exec(conds))
  BY <1>1, HolderWrites
<1>3. Executed(x, conds, Exec(conds))
        = <<<<"open", x.of.tag>>>> \o Writes(ToStatement[x.of].body, Exec(conds)) \o <<<<"close", x.of.tag>>>>
  BY <1>1, ExecutedOps
<1>4. QED
  BY <1>1, <1>2, <1>3, Zenon

LEMMA ForWrites ==
  ASSUME NEW h, Trees(h), NEW conds, NEW node \in Elements
  PROVE  Writes(Holder("for", node), Exec(conds))
           = Writes(ToStatement[node].once, Exec(conds)) \o Writes(ToStatement[node].once, Exec(conds))
<1>1. PICK x \in Holders : x = Holder("for", node) /\ x.op = "for" /\ x.of = node
  BY HolderIs
<1>2. Writes(x, Exec(conds)) = Executed(x, conds, Exec(conds))
  BY <1>1, HolderWrites
<1>3. Executed(x, conds, Exec(conds))
        = Writes(ToStatement[x.of].once, Exec(conds)) \o Writes(ToStatement[x.of].once, Exec(conds))
  <2>1. PICK run : run = Exec(conds)
    OBVIOUS
  <2>2. x.op = "for" => Executed(x, conds, run)
           = Writes(ToStatement[x.of].once, run) \o Writes(ToStatement[x.of].once, run)
    BY ExecutedOps
  <2>3. QED
    BY <1>1, <2>1, <2>2, Zenon
<1>4. QED
  BY <1>1, <1>2, <1>3, Zenon

LEMMA IfWrites ==
  ASSUME NEW h, Trees(h), NEW conds, NEW node \in Elements
  PROVE  Writes(Holder("if", node), Exec(conds))
           = IF conds[node.cond] THEN Writes(ToStatement[node].own, Exec(conds))
             ELSE IF Taken(node, conds) = {} THEN << >>
             ELSE Writes(ToStatement[TakenEl(node, conds)].st, Exec(conds))
<1>1. PICK x \in Holders : x = Holder("if", node) /\ x.op = "if" /\ x.of = node
  BY HolderIs
<1>2. Writes(x, Exec(conds)) = Executed(x, conds, Exec(conds))
  BY <1>1, HolderWrites
<1>3. Executed(x, conds, Exec(conds))
        = IF conds[x.of.cond] THEN Writes(ToStatement[x.of].own, Exec(conds))
          ELSE IF Taken(x.of, conds) = {} THEN << >>
          ELSE Writes(ToStatement[TakenEl(x.of, conds)].st, Exec(conds))
  BY <1>1, ExecutedIf, Zenon
<1>4. QED
  BY <1>1, <1>2, <1>3, Zenon

LEMMA ComponentWrites ==
  ASSUME NEW h, Trees(h), NEW conds, NEW node \in Elements
  PROVE  Writes(Holder("component", node), Exec(conds))
           = <<<<"call", node.tag>>>> \o Writes(ToStatement[node].given["default"], Exec(conds))
               \o SlotsWritten(ToStatement[node].given, Exec(conds)) \o <<<<"return", node.tag>>>>
<1>1. PICK x \in Holders : x = Holder("component", node) /\ x.op = "component" /\ x.of = node
  BY HolderIs
<1>2. Writes(x, Exec(conds)) = Executed(x, conds, Exec(conds))
  BY <1>1, HolderWrites
<1>3. Executed(x, conds, Exec(conds))
        = <<<<"call", x.of.tag>>>> \o Writes(ToStatement[x.of].given["default"], Exec(conds))
            \o SlotsWritten(ToStatement[x.of].given, Exec(conds)) \o <<<<"return", x.of.tag>>>>
  <2>1. PICK run : run = Exec(conds)
    OBVIOUS
  <2>2. x.op = "component" => Executed(x, conds, run)
          = <<<<"call", x.of.tag>>>> \o Writes(ToStatement[x.of].given["default"], run)
               \o SlotsWritten(ToStatement[x.of].given, run) \o <<<<"return", x.of.tag>>>>
    BY ExecutedOps
  <2>3. QED
    BY <1>1, <2>1, <2>2, Zenon
<1>4. QED
  BY <1>1, <1>2, <1>3, Zenon

-----------------------------------------------------------------------------
(* What nodes write *)

\* The statement of a node, wherever it is shown.
MadeFor(node) == IF node.type = "element" THEN ToStatement[node].made ELSE ToStatement[node].st

\* It writes what the node shows.
Faithful(conds, ends, node) == Writes(MadeFor(node), Exec(conds)) = Whole(conds, ends)[node]

\* What OutputAsWritten asks of a node: its marks come in pairs, no v-else has a v-slot, a
\* call has no v-slot:default, and a template nothing for a slot.  A void tag has an end
\* unless it is static.
WellMadeNode(ends, x) ==
  /\ x.type = "text" => WellFormed(x.text)
  /\ x.type = "element" =>
       /\ \A i \in DOMAIN x.elses : x.elses[i].el.slot = Nil
       /\ IsCall(x) => Offer(x, "default") = Nil
       /\ IsTemplate(x) => \A n \in Slot : Offer(x, n) = Nil
       /\ x.tag \in Void => (x \in ends <=> ~ CanBeStr(x))

\* All of the node is so.
WellMade(ends, node) == \A x \in Within[node] : WellMadeNode(ends, x)

LEMMA WellMadeEmpty ==
  ASSUME NEW ends, NEW node, WellMade(ends, node)
  PROVE  TemplatesEmpty(node)
BY ElementIs DEF WellMade, WellMadeNode, TemplatesEmpty

LEMMA MadeForIs ==
  ASSUME NEW h, Trees(h), NEW node \in Node
  PROVE  /\ MadeFor(node) \in Statements(Others) /\ MadeFor(node) # Nil
         /\ ToStatement[node].st \in Given(Others)
         /\ ToStatement[node].st
              = IF node.type = "element" /\ node.slot # Nil THEN Nil ELSE MadeFor(node)
<1>1. PICK r0, r1, r2, r3, e : /\ CodeIn(node, r0, r1, r2, r3, e) /\ e = ToStatement[node]
                               /\ r0 \subseteq Others /\ r3 \subseteq Others
  BY RankedIs, BelowIs
<1>2. Statements(r0) \subseteq Statements(Others) /\ Statements(r3) \subseteq Statements(Others)
  BY <1>1, StatementsGrow
<1>3. Nil \notin Statements(Others)
  BY OthersRest, NotNil
<1>4. CASE node.type = "element"
  <2>1. e.made \in Statements(Others) /\ e.st = IF node.slot = Nil THEN e.made ELSE Nil
    BY <1>1, <1>2, <1>4 DEF CodeIn, ElementIn
  <2>2. QED
    BY <1>1, <1>3, <1>4, <2>1 DEF MadeFor, Given
<1>5. CASE node.type # "element"
  <2>1. e.st \in Statements(Others)
    BY <1>1, <1>2, <1>5 DEF CodeIn
  <2>2. QED
    BY <1>1, <1>3, <1>5, <2>1 DEF MadeFor, Given
<1>6. QED
  BY <1>4, <1>5

\* A group of statements writes what the nodes show at their place.
LEMMA PlaceWrites ==
  ASSUME NEW h, Trees(h), NEW conds, NEW ends, NEW nodes \in Seq(Node),
         \A i \in DOMAIN nodes : Faithful(conds, ends, nodes[i])
  PROVE  Writes(Children(CodesOf(nodes)).st, Exec(conds)) = Place(nodes, Whole(conds, ends))
<1>1. PICK n \in Nat : /\ DOMAIN nodes = 1 .. n /\ DOMAIN CodesOf(nodes) = 1 .. n
                       /\ \A i \in 1 .. n : nodes[i] \in Node /\ CodesOf(nodes)[i] = ToStatement[nodes[i]]
  BY NodesAre
<1>2. PICK sts : sts = [i \in DOMAIN CodesOf(nodes) |-> CodesOf(nodes)[i].st]
  OBVIOUS
<1>3. DOMAIN sts = 1 .. n /\ \A i \in 1 .. n : sts[i] = ToStatement[nodes[i]].st
  BY <1>1, <1>2
<1>4. \A i \in 1 .. n : sts[i] \in Given(Others)
  BY <1>1, <1>3, MadeForIs
<1>5. sts \in Seq(Given(Others))
  <2>1. sts = [i \in 1 .. n |-> sts[i]]
    BY <1>1, <1>2
  <2>2. QED
    BY <1>4, <2>1, IsASeq
<1>6. PICK run \in Runs : run = Exec(conds)
  BY ExecIs
<1>7. PICK whole : whole = Whole(conds, ends)
  OBVIOUS
<1>8. ASSUME NEW i \in 1 .. n
      PROVE  (IF sts[i] = Nil THEN << >> ELSE Writes(sts[i], run)) = PlacePart(nodes, whole, i)
  <2>1. PICK node \in Node : node = nodes[i]
    BY <1>1
  <2>2. PICK made : made = MadeFor(node) /\ made # Nil /\ Writes(made, run) = whole[node]
    BY <1>1, <1>6, <1>7, <2>1, MadeForIs DEF Faithful
  <2>3. sts[i] = IF node.type = "element" /\ node.slot # Nil THEN Nil ELSE made
    BY <1>3, <2>1, <2>2, MadeForIs
  <2>4. PlacePart(nodes, whole, i) = IF node.type = "element" /\ node.slot # Nil THEN << >> ELSE whole[node]
    BY <2>1 DEF PlacePart
  <2>5. QED
    BY <2>2, <2>3, <2>4
<1>9. [i \in DOMAIN sts |-> IF sts[i] = Nil THEN << >> ELSE Writes(sts[i], run)]
        = [i \in DOMAIN nodes |-> PlacePart(nodes, whole, i)]
  BY <1>1, <1>3, <1>8
<1>10. Writes(Group(sts), run)
         = Concat([i \in DOMAIN sts |-> IF sts[i] = Nil THEN << >> ELSE Writes(sts[i], run)])
  BY <1>5, GroupWrites
<1>11. Children(CodesOf(nodes)).st = Group(sts)
  BY <1>2 DEF Children
<1>12. Place(nodes, whole) = Concat([i \in DOMAIN nodes |-> PlacePart(nodes, whole, i)])
  BY PlaceIs
<1>13. QED
  BY <1>6, <1>7, <1>9, <1>10, <1>11, <1>12, Zenon

\* What an element is compiled to.
LEMMA ElementCode ==
  ASSUME NEW h, Trees(h), NEW node \in Elements, NEW e, e = ToStatement[node]
  PROVE  /\ e.body = IF node.code = Nil THEN Children(CodesOf(node.kids)).st
                     ELSE [op |-> "exp", code |-> <<node.code>>]
         /\ e.given["default"] = e.body
         /\ e.own = Own(node, e.body)
         /\ e.once = If(node, e.own)
         /\ e.made = For(node, e.once)
         /\ e.body \in Statements(Others) /\ e.own \in Statements(Others)
         /\ e.once \in Statements(Others) /\ e.given \in [Slot -> Given(Others)]
<1>1. node \in Node /\ node.type = "element"
  BY ElementIs
<1>2. PICK rs : rs = KidsOf(node, ToStatement)
  OBVIOUS
<1>3. PICK es : es = ElsesOf(node, ToStatement)
  OBVIOUS
<1>4. PICK content : content = Content(node, rs)
  OBVIOUS
<1>5. e = ElementStatement(node, rs, es)
  BY <1>1, <1>2, <1>3, ToStatementIs, CompiledElement
<1>6. /\ e.body = content.st
      /\ e.given = [content.slots EXCEPT !["default"] = content.st]
      /\ e.own = Own(node, e.body)
      /\ e.once = If(node, e.own)
      /\ e.made = For(node, e.once)
      /\ e.st = IF node.slot = Nil THEN e.made ELSE Nil
      /\ e.slots = IF node.slot = Nil THEN Around(node, content, es)
                   ELSE [Around(node, content, es) EXCEPT ![node.slot] = e.made]
  BY <1>4, <1>5, ElementFields
<1>7. content.st = IF node.code = Nil THEN Children(CodesOf(node.kids)).st
                   ELSE [op |-> "exp", code |-> <<node.code>>]
  <2>1. rs = CodesOf(node.kids)
    BY <1>2 DEF KidsOf, CodesOf
  <2>2. CASE node.code = Nil
    BY <1>4, <2>1, <2>2 DEF Content
  <2>3. CASE node.code # Nil
    <3>1. PICK st : st = [op |-> "exp", code |-> <<node.code>>]
      OBVIOUS
    <3>2. content.st = st
      BY <1>4, <2>3, <3>1 DEF Content
    <3>3. QED
      BY <2>3, <3>1, <3>2, Zenon
  <2>4. QED
    BY <2>2, <2>3
<1>8. PICK n \in Nat :
        CodeIn(node, Below(h, n), Below(h, n + 1), Below(h, n + 2), Below(h, n + 3), e)
  BY <1>1, RankedIs
<1>9. ElementIn(node, Below(h, n), Below(h, n + 1), Below(h, n + 2), Below(h, n + 3), e)
  BY <1>1, <1>8 DEF CodeIn
<1>10. \A m : Statements(Below(h, m)) \subseteq Statements(Others)
  BY BelowIs, StatementsGrow
<1>11. e.given["default"] = e.body /\ e.body \in Statements(Others) /\ e.own \in Statements(Others)
       /\ e.once \in Statements(Others)
  BY <1>9, <1>10 DEF ElementIn
<1>12. e.given \in [Slot -> Given(Others)]
  <2>1. Given(Below(h, n)) \subseteq Given(Others)
    BY <1>10 DEF Given
  <2>2. e.given \in [Slot -> Given(Below(h, n))]
    BY <1>9 DEF ElementIn
  <2>3. QED
    BY <2>1, <2>2
<1>13. QED
  BY <1>6, <1>7, <1>11, <1>12, Zenon

\* Every part of an element writes what it shows.
PartsFaithful(h, conds, ends, node) == \A x \in Under(h, node) \cap Within[node] : Faithful(conds, ends, x)

\* Then the body of the element writes what is shown inside,
LEMMA BodyWrites ==
  ASSUME NEW h, Trees(h), NEW conds, NEW ends, NEW node \in Elements, PartsFaithful(h, conds, ends, node)
  PROVE  Writes(ToStatement[node].body, Exec(conds)) = InnerOf(node, Whole(conds, ends))
<1>1. PICK body : /\ body = ToStatement[node].body
                  /\ body = IF node.code = Nil THEN Children(CodesOf(node.kids)).st
                            ELSE [op |-> "exp", code |-> <<node.code>>]
  BY ElementCode
<1>2. CASE node.code = Nil
  <2>1. \A i \in DOMAIN node.kids : Faithful(conds, ends, node.kids[i])
    <3>1. node \in Node
      BY ElementIs
    <3>2. \A x \in Parts(node) : x \in Under(h, node) \cap Within[node]
      <4>1. ASSUME NEW x \in Parts(node) PROVE x \in Within[node] /\ x \in Under(h, node)
        <5>1. x \in Node /\ Within[x] \subseteq Within[node] /\ h[x] < h[node]
          BY <3>1, WithinPart
        <5>2. x \in Within[x]
          BY <5>1, WithinIs
        <5>3. QED
          BY <5>1, <5>2 DEF Under
      <4>2. QED
        BY <4>1
    <3>3. QED
      BY <3>2, ElementParts DEF PartsFaithful
  <2>2. Writes(Children(CodesOf(node.kids)).st, Exec(conds)) = Place(node.kids, Whole(conds, ends))
    BY <2>1, ElementIs, PlaceWrites
  <2>3. QED
    BY <1>1, <1>2, <2>2 DEF InnerOf
<1>3. CASE node.code # Nil
  <2>1. PICK code : code = <<node.code>>
    OBVIOUS
  <2>2. body = [op |-> "exp", code |-> code]
    BY <1>1, <1>3, <2>1
  <2>3. body.op = "exp" /\ body.code = code
    BY <2>2
  <2>4. body # Nil
    BY <1>1, ElementCode, OthersRest, NotNil
  <2>5. Writes(body, Exec(conds)) = <<<<"value", code>>>>
    BY <2>3, <2>4 DEF Writes, Item
  <2>6. InnerOf(node, Whole(conds, ends)) = <<<<"value", code>>>>
    BY <1>3, <2>1 DEF InnerOf
  <2>7. QED
    BY <1>1, <2>5, <2>6
<1>4. QED
  BY <1>2, <1>3

\* The slots of a call write what is offered.
LEMMA SlotsFaithful ==
  ASSUME NEW h, Trees(h), NEW conds, NEW ends, NEW node \in Elements, PartsFaithful(h, conds, ends, node),
         TemplatesEmpty(node)
  PROVE  SlotsWritten(ToStatement[node].given, Exec(conds)) = Offering(node, Whole(conds, ends))
<1>1. PICK n \in Nat : DOMAIN SlotNames = 1 .. n /\ \A i \in 1 .. n : SlotNames[i] \in SlotName
  BY NamesAre
<1>2. PICK given : given = ToStatement[node].given
  OBVIOUS
<1>3. PICK run : run = Exec(conds)
  OBVIOUS
<1>4. PICK whole : whole = Whole(conds, ends)
  OBVIOUS
<1>5. ASSUME NEW i \in 1 .. n PROVE SlotPart(given, run, i) = OfferPart(node, whole, i)
  <2>1. PICK s \in SlotName : s = SlotNames[i]
    BY <1>1
  <2>2. PICK x : x = Offer(node, s) /\ given[s] = MadeOf(x) /\ x \in InElement(h, node) \cup {Nil}
    BY <1>2, GivenOffered
  <2>3. CASE x = Nil
    <3>1. given[s] = Nil
      BY <2>2, <2>3 DEF MadeOf
    <3>2. QED
      BY <2>1, <2>2, <2>3, <3>1 DEF SlotPart, OfferPart
  <2>4. CASE x # Nil
    <3>1. x \in Elements /\ x \in Under(h, node) \cap Within[node] /\ x.type = "element"
      BY <2>2, <2>4 DEF InElement, Under, Elements
    <3>2. MadeFor(x) = ToStatement[x].made /\ given[s] = ToStatement[x].made /\ given[s] # Nil
      BY <2>2, <3>1, MadeIs DEF MadeFor
    <3>3. Writes(given[s], run) = whole[x]
      BY <1>3, <1>4, <3>1, <3>2 DEF PartsFaithful, Faithful
    <3>4. QED
      BY <2>1, <2>2, <2>4, <3>2, <3>3, Zenon DEF SlotPart, OfferPart
  <2>5. QED
    BY <2>3, <2>4
<1>6. [i \in DOMAIN SlotNames |-> SlotPart(given, run, i)] = [i \in DOMAIN SlotNames |-> OfferPart(node, whole, i)]
  BY <1>1, <1>5
<1>7. SlotsWritten(given, run) = Concat([i \in DOMAIN SlotNames |-> SlotPart(given, run, i)])
  BY SlotsWrittenIs
<1>8. QED
  BY <1>2, <1>3, <1>4, <1>6, <1>7, Zenon DEF Offering

LEMMA Pair ==
  ASSUME NEW S, NEW a \in S, NEW b \in S
  PROVE  <<a>> = Append(<< >>, a) /\ <<a, b>> = Append(<<a>>, b)
OBVIOUS

LEMMA Triple ==
  ASSUME NEW S, NEW a \in S, NEW b \in S, NEW c \in S, NEW s, s = <<a, b>>, NEW t, t = <<a, b, c>>
  PROVE  t = Append(s, c)
OBVIOUS

LEMMA ThreeConcat ==
  ASSUME NEW T, NEW ss, DOMAIN ss = 1 .. 3, ss = [i \in 1 .. 3 |-> ss[i]],
         \A i \in 1 .. 3 : ss[i] \in Seq(T)
  PROVE  Concat(ss) = ss[1] \o ss[2] \o ss[3]
<1>1. PICK a \in Seq(T), b \in Seq(T), c \in Seq(T) : a = ss[1] /\ b = ss[2] /\ c = ss[3]
  OBVIOUS
<1>2. PICK S : S = Seq(T)
  OBVIOUS
<1>3. PICK s0, s1, s2 : s0 = << >> /\ s1 = Append(s0, a) /\ s2 = Append(s1, b)
  OBVIOUS
<1>4. s0 \in Seq(S) /\ s1 \in Seq(S) /\ s2 \in Seq(S)
  BY <1>2, <1>3
<1>5. ss = Append(s2, c)
  <2>1. a \in S /\ b \in S /\ c \in S
    BY <1>2
  <2>2. s1 = <<a>> /\ s2 = <<a, b>>
    BY <1>3, <2>1, Pair
  <2>3. PICK t : t = <<a, b, c>>
    OBVIOUS
  <2>4. t = Append(s2, c)
    BY <2>1, <2>2, <2>3, Triple
  <2>5. ss = <<ss[1], ss[2], ss[3]>>
    OBVIOUS
  <2>6. QED
    BY <1>1, <2>3, <2>4, <2>5, Zenon
<1>6. s0 \in Seq(Seq(T)) /\ s1 \in Seq(Seq(T)) /\ s2 \in Seq(Seq(T))
  BY <1>2, <1>4, Zenon
<1>7. Concat(s0) = << >>
  BY <1>3, ConcatEmpty
<1>8. Concat(s1) = Concat(s0) \o a
  BY <1>3, <1>6, ConcatAppend
<1>9. Concat(s2) = Concat(s1) \o b
  BY <1>3, <1>6, ConcatAppend
<1>10. Concat(ss) = Concat(s2) \o c
  BY <1>5, <1>6, ConcatAppend
<1>11. << >> \o a = a
  OBVIOUS
<1>12. QED
  BY <1>1, <1>7, <1>8, <1>9, <1>10, <1>11

LEMMA StrWrites ==
  ASSUME NEW run, NEW p \in Seq(Piece)
  PROVE  Writes(Str(p), run) = p
<1>1. PICK st \in Statements(Others) : st = Str(p) /\ st.op = "str" /\ st.s = p
  BY StrIs DEF Statements
<1>2. st # Nil
  BY OthersRest, NotNil
<1>3. QED
  BY <1>1, <1>2 DEF Writes, Item

LEMMA StaticTagWrites ==
  ASSUME NEW run \in Runs, NEW node \in Elements, NEW body \in Statements(Others)
  PROVE  Writes(StaticTag(node, body), run)
           = <<<<"open", node.tag>>>> \o Writes(body, run)
               \o (IF node.tag \in Void THEN << >> ELSE <<<<"close", node.tag>>>>)
<1>1. PICK o \in Seq(Piece), c \in Seq(Piece) : o = <<<<"open", node.tag>>>> /\ c = <<<<"close", node.tag>>>>
  BY TagStr
<1>2. PICK so \in Statements(Others), sc \in Statements(Others) : so = Str(o) /\ sc = Str(c)
  BY StrIs DEF Statements
<1>3. \A p \in Seq(Piece) : Writes(Str(p), run) = p
  BY StrWrites
<1>4. PICK end \in Given(Others) : end = IF node.tag \in Void THEN Nil ELSE sc
  BY DEF Given
<1>5. PICK sts : sts = <<so, body, end>>
  OBVIOUS
<1>6. sts \in Seq(Given(Others)) /\ DOMAIN sts = 1 .. 3 /\ sts[1] = so /\ sts[2] = body /\ sts[3] = end
  <2>1. PICK S : S = Given(Others) /\ so \in S /\ body \in S /\ end \in S
    BY DEF Given
  <2>2. sts \in Seq(S)
    BY <1>5, <2>1
  <2>3. QED
    BY <1>5, <2>1, <2>2
<1>7. Nil \notin Statements(Others)
  BY OthersRest, NotNil
<1>8. PICK ss : ss = [i \in DOMAIN sts |-> IF sts[i] = Nil THEN << >> ELSE Writes(sts[i], run)]
  OBVIOUS
<1>9. PICK b \in Seq(Piece) : b = Writes(body, run)
  BY WritesIs
<1>10. PICK e \in Seq(Piece) : e = IF node.tag \in Void THEN << >> ELSE c
  BY EmptySeq
<1>11. Writes(so, run) = o /\ Writes(sc, run) = c
  BY <1>2, <1>3
<1>12. ss[1] = o /\ ss[2] = b /\ ss[3] = e /\ DOMAIN ss = 1 .. 3 /\ ss = [i \in 1 .. 3 |-> ss[i]]
  BY <1>4, <1>6, <1>7, <1>8, <1>9, <1>10, <1>11
<1>13. Concat(ss) = o \o b \o e
  <2>1. \A i \in 1 .. 3 : ss[i] \in Seq(Piece)
    BY <1>12
  <2>2. Concat(ss) = ss[1] \o ss[2] \o ss[3]
    BY <1>12, <2>1, ThreeConcat
  <2>3. QED
    BY <1>12, <2>2
<1>14. Writes(Group(sts), run) = Concat(ss)
  BY <1>6, <1>8, GroupWrites
<1>15. StaticTag(node, body) = Group(sts)
  BY <1>1, <1>2, <1>4, <1>5, Zenon DEF StaticTag
<1>16. QED
  BY <1>1, <1>9, <1>10, <1>13, <1>14, <1>15, Zenon

LEMMA OneWrites ==
  ASSUME NEW run \in Runs, NEW st \in Statements(Others)
  PROVE  Writes(Group(<<st>>), run) = Writes(st, run)
<1>1. PICK sts : sts = <<st>>
  OBVIOUS
<1>2. PICK F : F = ItemOf(run) /\ Additive(Others, Piece, F)
  BY ItemAdditive
<1>3. st \in Given(Others)
  BY DEF Given
<1>4. Group(sts) \in Statements(Others) /\ Says(F, Group(sts)) = Says(F, st)
  BY <1>1, <1>2, <1>3, OthersRest, GroupOfOne
<1>5. Writes(Group(sts), run) = Says(F, Group(sts)) /\ Writes(st, run) = Says(F, st)
  BY <1>2, <1>4, WritesIs
<1>6. QED
  BY <1>1, <1>4, <1>5

\* and its own statement writes what the element shows.
LEMMA OwnWrites ==
  ASSUME NEW h, Trees(h), NEW conds, NEW ends, NEW node \in Elements, PartsFaithful(h, conds, ends, node),
         TemplatesEmpty(node), WellMadeNode(ends, node)
  PROVE  Writes(ToStatement[node].own, Exec(conds)) = Element(node, ends, Whole(conds, ends))
<1>1. PICK run \in Runs : run = Exec(conds)
  BY ExecIs
<1>2. PICK whole : whole = Whole(conds, ends)
  OBVIOUS
<1>3. PICK body \in Statements(Others) : body = ToStatement[node].body /\ ToStatement[node].own = Own(node, body)
        /\ ToStatement[node].given["default"] = body
  BY ElementCode
<1>4. PICK inner : inner = InnerOf(node, whole) /\ Writes(body, run) = inner
  BY <1>1, <1>2, <1>3, BodyWrites
<1>5. CASE node.tag \in HtmlTag /\ CanBeStr(node)
  <2>1. Own(node, body) = StaticTag(node, body)
    BY <1>5, NameAssumption, Zenon DEF Own
  <2>2. Writes(StaticTag(node, body), run)
           = <<<<"open", node.tag>>>> \o inner
               \o (IF node.tag \in Void THEN << >> ELSE <<<<"close", node.tag>>>>)
    BY <1>4, StaticTagWrites
  <2>3. Element(node, ends, whole)
           = <<<<"open", node.tag>>>> \o inner
               \o (IF node.tag \in Void THEN << >> ELSE <<<<"close", node.tag>>>>)
    <3>1. node.tag \in Void => node \notin ends
      BY <1>5, ElementIs DEF WellMadeNode
    <3>2. QED
      BY <1>4, <1>5, <3>1, ElementCases DEF EndPart
  <2>4. QED
    BY <1>1, <1>2, <1>3, <2>1, <2>2, <2>3
<1>6. CASE node.tag \in HtmlTag /\ ~ CanBeStr(node)
  <2>1. PICK x \in Statements(Others) : x = Holder("tag", node)
    BY HolderIs, OthersRest, HolderIn
  <2>2. Own(node, body) = Group(<<x>>)
    <3>1. ~ (node.tag = "template" /\ ~ node.dirs)
      BY <1>6, NameAssumption
    <3>2. QED
      BY <1>6, <2>1, <3>1, Zenon DEF Own
  <2>3. Writes(Group(<<x>>), run) = Writes(x, run)
    BY OneWrites
  <2>4. Writes(x, run) = <<<<"open", node.tag>>>> \o inner \o <<<<"close", node.tag>>>>
    BY <1>1, <1>3, <1>4, <2>1, TagWrites
  <2>5. Element(node, ends, whole) = <<<<"open", node.tag>>>> \o inner \o <<<<"close", node.tag>>>>
    <3>1. node.tag \in Void => node \in ends
      BY <1>6, ElementIs DEF WellMadeNode
    <3>2. QED
      BY <1>4, <1>6, <3>1, ElementCases DEF EndPart
  <2>6. QED
    BY <1>1, <1>2, <1>3, <2>2, <2>3, <2>4, <2>5
<1>7. CASE node.tag \notin HtmlTag /\ node.tag = "template" /\ ~ node.dirs
  <2>1. Own(node, body) = body
    BY <1>7, Zenon DEF Own, IsTemplate
  <2>2. Element(node, ends, whole) = inner
    BY <1>4, <1>7, ElementCases
  <2>3. QED
    BY <1>1, <1>2, <1>3, <1>4, <2>1, <2>2
<1>8. CASE node.tag \notin HtmlTag /\ ~ (node.tag = "template" /\ ~ node.dirs)
  <2>1. Own(node, body) = Holder("component", node)
    BY <1>8, Zenon DEF Own, IsTemplate
  <2>2. PICK o : o = Offering(node, whole) /\ o = SlotsWritten(ToStatement[node].given, run)
    BY <1>1, <1>2, SlotsFaithful
  <2>3. Writes(Holder("component", node), run)
           = <<<<"call", node.tag>>>> \o Writes(ToStatement[node].given["default"], run)
               \o SlotsWritten(ToStatement[node].given, run) \o <<<<"return", node.tag>>>>
    BY <1>1, ComponentWrites
  <2>4. Writes(Holder("component", node), run)
           = <<<<"call", node.tag>>>> \o inner \o o \o <<<<"return", node.tag>>>>
    BY <1>3, <1>4, <2>2, <2>3, Zenon
  <2>5. Element(node, ends, whole) = Call(node, inner, whole)
    BY <1>4, <1>8, ElementCases
  <2>6. Call(node, inner, whole) = <<<<"call", node.tag>>>> \o inner \o o \o <<<<"return", node.tag>>>>
    <3>1. DefaultPart(node, inner, whole) = inner
      BY <1>8, ElementIs, Kinds DEF WellMadeNode, DefaultPart
    <3>2. QED
      BY <2>2, <3>1, CallIs
  <2>7. QED
    BY <1>1, <1>2, <1>3, <2>1, <2>4, <2>5, <2>6
<1>9. QED
  BY <1>5, <1>6, <1>7, <1>8

LEMMA PartFaithful ==
  ASSUME NEW h, Trees(h), NEW conds, NEW ends, NEW node \in Elements, PartsFaithful(h, conds, ends, node),
         NEW x \in Parts(node)
  PROVE  Faithful(conds, ends, x)
<1>1. node \in Node
  BY ElementIs
<1>2. x \in Node /\ h[x] < h[node] /\ Within[x] \subseteq Within[node]
  BY <1>1, WithinPart
<1>3. x \in Within[x]
  BY <1>2, WithinIs
<1>4. x \in Under(h, node) /\ x \in Within[node]
  BY <1>2, <1>3 DEF Under
<1>5. QED
  BY <1>4 DEF PartsFaithful

\* The v-if around it writes what is shown once: a v-else without v-slot has a statement.
LEMMA OnceWrites ==
  ASSUME NEW h, Trees(h), NEW conds, NEW ends, NEW node \in Elements, PartsFaithful(h, conds, ends, node),
         TemplatesEmpty(node), WellMadeNode(ends, node)
  PROVE  Writes(ToStatement[node].once, Exec(conds)) = One(node, conds, ends, Whole(conds, ends))
<1>1. PICK e : e = ToStatement[node]
  OBVIOUS
<1>2. e.once = If(node, e.own)
  BY <1>1, ElementCode
<1>3. PICK shown : shown = Element(node, ends, Whole(conds, ends)) /\ Writes(e.own, Exec(conds)) = shown
  BY <1>1, OwnWrites
<1>4. CASE node.cond = Nil
  <2>1. e.once = e.own
    BY <1>2, <1>4, Zenon DEF If
  <2>2. One(node, conds, ends, Whole(conds, ends)) = shown
    BY <1>3, <1>4, Zenon DEF One
  <2>3. QED
    BY <1>1, <1>3, <2>1, <2>2
<1>5. CASE node.cond # Nil
  <2>1. e.once = Holder("if", node)
    BY <1>2, <1>5, Zenon DEF If
  <2>2. Writes(Holder("if", node), Exec(conds))
          = IF conds[node.cond] THEN Writes(e.own, Exec(conds))
            ELSE IF Taken(node, conds) = {} THEN << >>
            ELSE Writes(ToStatement[TakenEl(node, conds)].st, Exec(conds))
    BY <1>1, IfWrites
  <2>3. CASE conds[node.cond]
    <3>1. Writes(Holder("if", node), Exec(conds)) = shown
      BY <1>3, <2>2, <2>3, Zenon
    <3>2. One(node, conds, ends, Whole(conds, ends)) = shown
      BY <1>3, <2>3, Zenon DEF One
    <3>3. QED
      BY <1>1, <2>1, <3>1, <3>2
  <2>4. CASE ~ conds[node.cond] /\ Taken(node, conds) = {}
    <3>1. Writes(Holder("if", node), Exec(conds)) = << >>
      BY <2>2, <2>4, Zenon
    <3>2. One(node, conds, ends, Whole(conds, ends)) = << >>
      BY <1>5, <2>4, Zenon DEF One
    <3>3. QED
      BY <1>1, <2>1, <3>1, <3>2
  <2>5. CASE ~ conds[node.cond] /\ Taken(node, conds) # {}
    <3>1. PICK el : /\ el = TakenEl(node, conds) /\ el \in Parts(node) /\ el \in Elements
                    /\ First(Taken(node, conds)) \in DOMAIN node.elses
      BY <2>5, TakenIs
    <3>2. el.slot = Nil
      BY <3>1, ElementIs DEF TakenEl, WellMadeNode
    <3>3. Faithful(conds, ends, el)
      BY <3>1, PartFaithful
    <3>4. ToStatement[el].st = MadeFor(el)
      BY <3>1, <3>2, ElementIs, MadeForIs
    <3>5. Writes(ToStatement[el].st, Exec(conds)) = Whole(conds, ends)[el]
      BY <3>3, <3>4 DEF Faithful
    <3>6. Writes(Holder("if", node), Exec(conds)) = Whole(conds, ends)[el]
      BY <2>2, <2>5, <3>1, <3>5, Zenon
    <3>7. One(node, conds, ends, Whole(conds, ends)) = Whole(conds, ends)[el]
      BY <1>5, <2>5, <3>1, Zenon DEF One
    <3>8. QED
      BY <1>1, <2>1, <3>6, <3>7
  <2>6. QED
    BY <2>3, <2>4, <2>5
<1>6. QED
  BY <1>4, <1>5

\* And the v-for around that writes what is shown.
LEMMA MadeWrites ==
  ASSUME NEW h, Trees(h), NEW conds, NEW ends, NEW node \in Elements, PartsFaithful(h, conds, ends, node),
         TemplatesEmpty(node), WellMadeNode(ends, node)
  PROVE  Faithful(conds, ends, node)
<1>1. PICK e : e = ToStatement[node]
  OBVIOUS
<1>2. e.made = For(node, e.once) /\ node \in Node /\ node.type = "element"
  BY <1>1, ElementCode, ElementIs
<1>3. PICK one : one = One(node, conds, ends, Whole(conds, ends)) /\ Writes(e.once, Exec(conds)) = one
  BY <1>1, OnceWrites
<1>4. PICK shown : shown = Whole(conds, ends)[node] /\ shown = IF node.loop THEN one \o one ELSE one
  <2>1. PICK whole : whole = Whole(conds, ends)
    OBVIOUS
  <2>2. whole[node] = Shown(node, conds, ends, whole)
    BY <1>2, <2>1, WholeIs
  <2>3. Shown(node, conds, ends, whole)
          = IF node.loop THEN One(node, conds, ends, whole) \o One(node, conds, ends, whole)
            ELSE One(node, conds, ends, whole)
    BY <1>2, ShownCases
  <2>4. QED
    BY <1>3, <2>1, <2>2, <2>3, Zenon
<1>5. CASE node.loop
  <2>1. e.made = Holder("for", node)
    BY <1>2, <1>5, Zenon DEF For
  <2>2. Writes(Holder("for", node), Exec(conds)) = one \o one
    BY <1>1, <1>3, ForWrites
  <2>3. Writes(e.made, Exec(conds)) = shown
    BY <1>4, <1>5, <2>1, <2>2
  <2>4. QED
    BY <1>1, <1>2, <1>4, <2>3 DEF Faithful, MadeFor
<1>6. CASE ~ node.loop
  <2>1. e.made = e.once
    BY <1>2, <1>6, Zenon DEF For
  <2>2. Writes(e.made, Exec(conds)) = shown
    BY <1>3, <1>4, <1>6, <2>1
  <2>3. QED
    BY <1>1, <1>2, <1>4, <2>2 DEF Faithful, MadeFor
<1>7. QED
  BY <1>5, <1>6

\* A text writes what it shows, if its marks come in pairs.
LEMMA TextWrites ==
  ASSUME NEW h, Trees(h), NEW conds, NEW ends, NEW node \in Node, node.type = "text", WellFormed(node.text)
  PROVE  Faithful(conds, ends, node)
<1>1. PICK run \in Runs : run = Exec(conds)
  BY ExecIs
<1>2. PICK F : F = ItemOf(run) /\ Writer(F) /\ Additive(Others, Piece, F)
  BY ItemAdditive DEF Writer
<1>3. PICK beards : beards = Beards(node.text)
  OBVIOUS
<1>4. beards \in Seq(Flat(Others))
  <2>1. beards \in Seq(Flat(Exps))
    BY <1>3, TextCompiled
  <2>2. Seq(Flat(Exps)) \subseteq Seq(Flat(Others))
    BY OthersRest, FlatGrows
  <2>3. QED
    BY <2>1, <2>2
<1>5. PICK st : st = ToStatement[node].st /\ st = Group(beards)
  BY <1>3, TextCompiled
<1>6. beards \in Seq(Given(Others)) /\ Total(SaysOf(Others, F), beards) = Total(F, beards)
  BY <1>2, <1>4, OthersRest, FlatTotal
<1>7. st \in Statements(Others) /\ Says(F, st) = Total(SaysOf(Others, F), beards)
  BY <1>2, <1>5, <1>6, OthersRest, GroupIs
<1>8. Writes(st, run) = Says(F, st)
  BY <1>2, <1>7, WritesIs
<1>9. Total(F, beards) = TextShown(node.text)
  BY <1>2, <1>3, TextCompiled, TextSays
<1>10. Whole(conds, ends)[node] = TextShown(node.text)
  BY WholeIs, ShownCases
<1>11. MadeFor(node) = st
  BY <1>5 DEF MadeFor
<1>12. Writes(MadeFor(node), Exec(conds)) = Whole(conds, ends)[node]
  BY <1>1, <1>6, <1>7, <1>8, <1>9, <1>10, <1>11
<1>13. QED
  BY <1>12 DEF Faithful

\* A comment writes itself.
LEMMA CommentWrites ==
  ASSUME NEW h, Trees(h), NEW conds, NEW ends, NEW node \in Node, node.type = "comment"
  PROVE  Faithful(conds, ends, node)
<1>1. PICK p \in Seq(Piece) : p = Pieces("comment", node.text)
  BY NodeKinds, PiecesEach
<1>2. ToStatement[node] = Compiled(node, ToStatement)
  BY ToStatementIs
<1>3. ToStatement[node].st = Str(p)
  BY <1>1, <1>2, CompiledComment
<1>4. MadeFor(node) = Str(p)
  BY <1>3 DEF MadeFor
<1>5. Writes(Str(p), Exec(conds)) = p
  BY StrWrites
<1>6. Whole(conds, ends)[node] = p
  BY <1>1, WholeIs, ShownCases
<1>7. QED
  BY <1>4, <1>5, <1>6 DEF Faithful

\* A node writes what it shows, if all inside it do.
LEMMA NodeFaithful ==
  ASSUME NEW h, Trees(h), NEW conds, NEW ends, NEW node \in Node, WellMade(ends, node),
         node \in Elements => PartsFaithful(h, conds, ends, node)
  PROVE  Faithful(conds, ends, node)
<1>1. node \in Within[node]
  BY WithinIs
<1>2. WellMadeNode(ends, node)
  BY <1>1 DEF WellMade
<1>3. node.type = "text" => WellFormed(node.text)
  BY <1>2 DEF WellMadeNode
<1>4. TemplatesEmpty(node)
  BY WellMadeEmpty
<1>5. CASE node.type = "text"
  BY <1>3, <1>5, TextWrites
<1>6. CASE node.type = "comment"
  BY <1>6, CommentWrites
<1>7. CASE node.type = "element"
  <2>1. node \in Elements
    BY <1>7, NodeKinds
  <2>2. PartsFaithful(h, conds, ends, node)
    BY <2>1
  <2>3. QED
    BY <1>2, <1>4, <2>1, <2>2, MadeWrites
<1>8. QED
  BY <1>5, <1>6, <1>7, NodeKinds

\* So every node does.
LEMMA AllFaithful ==
  ASSUME NEW h, Trees(h), NEW conds, NEW ends
  PROVE  \A node \in Node : WellMade(ends, node) => Faithful(conds, ends, node)
<1>1. PICK P : P = {node \in Node : WellMade(ends, node) => Faithful(conds, ends, node)}
  OBVIOUS
<1>2. h \in [Node -> Nat]
  BY DEF Trees
<1>3. ASSUME NEW node \in Node, \A k \in Node : h[k] < h[node] => k \in P, WellMade(ends, node)
      PROVE  Faithful(conds, ends, node)
  <2>1. ASSUME NEW x \in Under(h, node) \cap Within[node] PROVE Faithful(conds, ends, x)
    <3>1. x \in Node /\ h[x] < h[node] /\ Within[x] \subseteq Within[node]
      BY <2>1, WithinWithin DEF Under
    <3>2. WellMade(ends, x)
      BY <1>3, <3>1 DEF WellMade
    <3>3. x \in P
      BY <1>3, <3>1
    <3>4. QED
      BY <1>1, <3>2, <3>3
  <2>2. PartsFaithful(h, conds, ends, node)
    BY <2>1 DEF PartsFaithful
  <2>3. QED
    BY <1>3, <2>2, NodeFaithful
<1>4. ASSUME NEW node \in Node, \A k \in Node : h[k] < h[node] => k \in P
      PROVE  node \in P
  BY <1>1, <1>3, <1>4
<1>5. Node \subseteq P
  BY <1>2, <1>4, ByHeight
<1>6. QED
  BY <1>1, <1>5

-----------------------------------------------------------------------------
(* OutputAsWritten *)

\* What a document writes is what its nodes show, when the void tags that are not static
\* have an end.
LEMMA DocWritten ==
  ASSUME NEW h, Trees(h)
  PROVE  DocInv => OutputAsWritten
<1>1. SUFFICES ASSUME DocInv, Rendered, ~ SlotForDefault(doc), ~ SlotInTemplate(doc)
      PROVE  AsWritten
  BY DEF OutputAsWritten
<1>2. doc \in Seq(Node) /\ out = Writes(Children(CodesOf(doc)).st, Exec(truth))
  BY <1>1 DEF DocInv, Rendered
<1>3. PICK ends : ends = {x \in ElementsOf(doc) : x.tag \in Void /\ ~ CanBeStr(x)}
  OBVIOUS
<1>4. ends \in SUBSET {x \in ElementsOf(doc) : x.tag \in Void}
  BY <1>3
<1>5. ASSUME NEW x \in NodesOf(doc) PROVE WellMadeNode(ends, x)
  <2>1. CASE x.type # "element"
    BY <1>1, <2>1 DEF Rendered, WellMadeNode
  <2>2. CASE x.type = "element"
    <3>1. x \in ElementsOf(doc)
      BY <2>2 DEF ElementsOf
    <3>2. \A i \in DOMAIN x.elses : x.elses[i].el.slot = Nil
      BY <1>1, <3>1 DEF Rendered, SlotInElse
    <3>3. IsCall(x) => Offer(x, "default") = Nil
      BY <1>1, <3>1 DEF SlotForDefault
    <3>4. IsTemplate(x) => \A n \in Slot : Offer(x, n) = Nil
      BY <1>1, <3>1 DEF SlotInTemplate
    <3>5. x.tag \in Void => (x \in ends <=> ~ CanBeStr(x))
      BY <1>3, <3>1
    <3>6. QED
      BY <2>2, <3>2, <3>3, <3>4, <3>5 DEF WellMadeNode
  <2>3. QED
    BY <2>1, <2>2
<1>6. ASSUME NEW i \in DOMAIN doc PROVE Faithful(truth, ends, doc[i])
  <2>1. PICK node \in Node : node = doc[i]
    BY <1>2, NodesAre
  <2>2. Within[node] \subseteq NodesOf(doc)
    BY <1>2, <2>1, NodesOfIs
  <2>3. WellMade(ends, node)
    BY <1>5, <2>2 DEF WellMade
  <2>4. QED
    BY <2>1, <2>3, AllFaithful
<1>7. out = Place(doc, Whole(truth, ends))
  BY <1>2, <1>6, PlaceWrites
<1>8. QED
  BY <1>4, <1>7 DEF AsWritten

\* Whatever is merged, turned into text or moved into a call, the statement of a document
\* writes what its nodes say, in their order, when marks come in pairs, no v-else has a
\* v-slot, no call has a v-slot:default and no template has an element for a slot of the
\* call around it: the code loses these two (toStatement, groupStatement, Exec).
THEOREM OutputIsAsWritten ==
  ASSUME NEW h, Trees(h)
  PROVE  DocSpec => []OutputAsWritten
<1>1. DocInv => OutputAsWritten
  BY DocWritten
<1>2. QED
  BY <1>1, DocInvariant, PTL

-----------------------------------------------------------------------------
(* Expressions *)

LEMMA EvaluatedSame ==
  ASSUME NEW scope, NEW e \in Exprs, NEW f, NEW g,
         \A i \in DOMAIN Operands(e) : f[Operands(e)[i]] = g[Operands(e)[i]]
  PROVE  Evaluated(e, scope, f) = Evaluated(e, scope, g)
<1>1. PICK xs : xs = Operands(e)
  OBVIOUS
<1>2. [i \in DOMAIN xs |-> f[xs[i]]] = [i \in DOMAIN xs |-> g[xs[i]]]
  BY <1>1
<1>3. QED
  BY <1>1, <1>2 DEF Evaluated

\* An operand is an expression, and lower.
LEMMA OperandsAre ==
  ASSUME NEW h, FiniteSyntax(h), NEW e \in Exprs, NEW i \in DOMAIN Operands(e)
  PROVE  /\ Operands(e)[i] \in Exprs
         /\ h[Operands(e)[i]] \in Nat /\ h[e] \in Nat /\ h[Operands(e)[i]] < h[e]
<1>1. PICK xs \in Seq(Exprs) : xs = Operands(e)
  BY ExprAssumption
<1>2. xs[i] \in Exprs
  BY <1>1, ElementOfSeq
<1>3. QED
  BY <1>1, <1>2 DEF FiniteSyntax

\* f has the values of all expressions below m.
ValuesBelow(scope, h, m, f) == \A e \in Exprs : h[e] < m => f[e] = Evaluated(e, scope, f)

LEMMA ValuesUpTo ==
  ASSUME NEW h, FiniteSyntax(h), NEW scope, NEW m \in Nat
  PROVE  \E f : ValuesBelow(scope, h, m, f)
<1> DEFINE Q == {i \in Nat : \E f : ValuesBelow(scope, h, i, f)}
<1>0. \A e \in Exprs : h[e] \in Nat
  BY DEF FiniteSyntax
<1>1. 0 \in Q
  BY <1>0 DEF ValuesBelow
<1>2. ASSUME NEW i \in Nat, i \in Q PROVE i + 1 \in Q
  <2>1. PICK f : ValuesBelow(scope, h, i, f)
    BY <1>2
  <2>2. PICK g : g = [e \in Exprs |-> Evaluated(e, scope, f)]
    OBVIOUS
  <2>3. ASSUME NEW e \in Exprs, h[e] < i + 1 PROVE g[e] = Evaluated(e, scope, g)
    <3>1. ASSUME NEW j \in DOMAIN Operands(e) PROVE f[Operands(e)[j]] = g[Operands(e)[j]]
      <4>1. PICK x \in Exprs : x = Operands(e)[j] /\ h[x] \in Nat /\ h[e] \in Nat /\ h[x] < h[e]
        BY OperandsAre
      <4>2. f[x] = Evaluated(x, scope, f)
        BY <2>1, <2>3, <4>1 DEF ValuesBelow
      <4>3. QED
        BY <2>2, <4>1, <4>2
    <3>2. Evaluated(e, scope, f) = Evaluated(e, scope, g)
      BY <3>1, EvaluatedSame
    <3>3. QED
      BY <2>2, <3>2
  <2>4. ValuesBelow(scope, h, i + 1, g)
    BY <2>3 DEF ValuesBelow
  <2>5. QED
    BY <2>4
<1>3. Nat \subseteq Q
  <2> HIDE DEF Q
  <2>1. QED
    BY <1>1, <1>2, UpFromZero
<1>4. QED
  BY <1>3

LEMMA ValuesAgree ==
  ASSUME NEW h, FiniteSyntax(h), NEW scope, NEW m \in Nat, NEW p \in Nat, NEW f, NEW g,
         ValuesBelow(scope, h, m, f), ValuesBelow(scope, h, p, g)
  PROVE  \A e \in Exprs : h[e] < m /\ h[e] < p => f[e] = g[e]
<1> DEFINE P == {e \in Exprs : h[e] < m /\ h[e] < p => f[e] = g[e]}
<1>1. ASSUME NEW e \in Exprs, \A x \in Exprs : h[x] < h[e] => x \in P PROVE e \in P
  <2>1. SUFFICES ASSUME h[e] < m, h[e] < p PROVE f[e] = g[e]
    OBVIOUS
  <2>2. ASSUME NEW j \in DOMAIN Operands(e) PROVE f[Operands(e)[j]] = g[Operands(e)[j]]
    <3>1. PICK x \in Exprs : x = Operands(e)[j] /\ h[x] \in Nat /\ h[e] \in Nat /\ h[x] < h[e]
      BY OperandsAre
    <3>2. x \in P /\ h[x] < m /\ h[x] < p
      BY <1>1, <2>1, <3>1
    <3>3. QED
      BY <3>1, <3>2
  <2>3. Evaluated(e, scope, f) = Evaluated(e, scope, g)
    BY <2>2, EvaluatedSame
  <2>4. QED
    BY <2>1, <2>3 DEF ValuesBelow
<1>2. h \in [Exprs -> Nat]
  BY DEF FiniteSyntax
<1>3. Exprs \subseteq P
  <2> HIDE DEF P
  <2>1. QED
    BY <1>1, <1>2, ByHeight
<1>4. QED
  BY <1>3

\* Value is what it is defined to be: the recursion ends.
LEMMA ValueIs ==
  ASSUME NEW h, FiniteSyntax(h), NEW scope
  PROVE  \A e \in Exprs : Value(scope)[e] = Evaluated(e, scope, Value(scope))
<1> DEFINE F == [m \in Nat |-> CHOOSE f : ValuesBelow(scope, h, m, f)]
           u == [e \in Exprs |-> F[h[e] + 1][e]]
           X == CHOOSE v : v = [e \in Exprs |-> Evaluated(e, scope, v)]
<1>0. \A e \in Exprs : h[e] \in Nat /\ h[e] + 1 \in Nat /\ h[e] < h[e] + 1
  BY DEF FiniteSyntax
<1>1. ASSUME NEW m \in Nat PROVE ValuesBelow(scope, h, m, F[m])
  <2>1. \E f : ValuesBelow(scope, h, m, f)
    BY ValuesUpTo
  <2>2. F[m] = CHOOSE f : ValuesBelow(scope, h, m, f)
    OBVIOUS
  <2> HIDE DEF F
  <2>3. QED
    BY <2>1, <2>2
<1> HIDE DEF F
<1>2. ASSUME NEW e \in Exprs PROVE u[e] = Evaluated(e, scope, u)
  <2>1. PICK f : f = F[h[e] + 1]
    OBVIOUS
  <2>2. PICK m \in Nat : m = h[e] + 1 /\ h[e] < m
    BY <1>0
  <2>3. ValuesBelow(scope, h, m, f)
    BY <1>1, <2>1, <2>2
  <2>4. u[e] = Evaluated(e, scope, f)
    BY <2>1, <2>2, <2>3 DEF ValuesBelow
  <2>5. ASSUME NEW j \in DOMAIN Operands(e) PROVE f[Operands(e)[j]] = u[Operands(e)[j]]
    <3>1. PICK x \in Exprs : x = Operands(e)[j] /\ h[x] \in Nat /\ h[e] \in Nat /\ h[x] < h[e]
      BY OperandsAre
    <3>2. PICK p \in Nat : p = h[x] + 1 /\ h[x] < p
      BY <3>1
    <3>3. PICK g : g = F[p]
      OBVIOUS
    <3>4. ValuesBelow(scope, h, p, g)
      BY <1>1, <3>2, <3>3
    <3>5. h[x] < m
      BY <2>2, <3>1
    <3>6. f[x] = g[x]
      BY <2>3, <3>2, <3>4, <3>5, ValuesAgree
    <3>7. u[x] = g[x]
      BY <3>2, <3>3
    <3>8. QED
      BY <3>1, <3>6, <3>7
  <2> HIDE DEF u
  <2>6. Evaluated(e, scope, f) = Evaluated(e, scope, u)
    BY <2>5, EvaluatedSame
  <2>7. QED
    BY <2>4, <2>6
<1>3. u = [e \in Exprs |-> Evaluated(e, scope, u)]
  <2>1. u = [e \in Exprs |-> u[e]]
    OBVIOUS
  <2> HIDE DEF u
  <2>2. QED
    BY <1>2, <2>1
<1> HIDE DEF u
<1>4. X = [e \in Exprs |-> Evaluated(e, scope, X)]
  <2>1. \E v : v = [e \in Exprs |-> Evaluated(e, scope, v)]
    BY <1>3
  <2>2. QED
    BY <2>1
<1>5. Value(scope) = X
  BY DEF Value
<1> HIDE DEF X
<1>6. QED
  BY <1>4, <1>5

\* U has values only, and what they are made of.
Typed(U) == \A x \in U : ValueIn(x, U)

\* x is a value, of any depth.
IsValue(x) == \E U : Typed(U) /\ x \in U

\* One that is not made of others.
IsPlain(x) == ValueIn(x, {}) /\ x.t \notin {"list", "map"}

LEMMA PlainIsValue ==
  ASSUME NEW x, IsPlain(x)
  PROVE  IsValue(x)
<1>1. Typed({x})
  BY DEF Typed, IsPlain, ValueIn, NumType
<1>2. QED
  BY <1>1 DEF IsValue

LEMMA ValueInMore ==
  ASSUME NEW U, NEW W, U \subseteq W, NEW x, ValueIn(x, U)
  PROVE  ValueIn(x, W)
<1>1. x.t = "list" => x.v \in Seq(W)
  <2>1. SUFFICES ASSUME x.t = "list" PROVE x.v \in Seq(W)
    OBVIOUS
  <2>2. PICK s \in Seq(U) : s = x.v
    BY <2>1 DEF ValueIn
  <2>3. QED
    BY <2>2
<1>2. QED
  BY <1>1 DEF ValueIn

LEMMA TypedUnion ==
  ASSUME NEW S, \A U \in S : Typed(U)
  PROVE  Typed(UNION S)
<1>1. ASSUME NEW U \in S, NEW x \in U PROVE ValueIn(x, UNION S)
  <2>1. PICK W : W = UNION S
    OBVIOUS
  <2>2. U \subseteq W /\ ValueIn(x, U)
    BY <1>1, <2>1 DEF Typed
  <2>3. QED
    BY <2>1, <2>2, ValueInMore
<1>2. QED
  BY <1>1 DEF Typed

\* Values are together in one such set.
LEMMA ValuesTogether ==
  ASSUME NEW I, NEW f, \A i \in I : IsValue(f[i])
  PROVE  \E U : Typed(U) /\ \A i \in I : f[i] \in U
<1> DEFINE W(i) == CHOOSE U : Typed(U) /\ f[i] \in U
<1>1. ASSUME NEW i \in I PROVE Typed(W(i)) /\ f[i] \in W(i)
  <2>1. \E U : Typed(U) /\ f[i] \in U
    BY DEF IsValue
  <2>2. QED
    BY <2>1
<1> HIDE DEF W
<1>2. PICK S : S = {W(i) : i \in I}
  OBVIOUS
<1>3. Typed(UNION S)
  BY <1>1, <1>2, TypedUnion
<1>4. QED
  BY <1>1, <1>2, <1>3

\* What is made of values is one.
LEMMA MadeOfValues ==
  ASSUME NEW U, Typed(U), NEW x, ValueIn(x, U)
  PROVE  IsValue(x)
<1>1. PICK W : W = U \cup {x}
  OBVIOUS
<1>2. ASSUME NEW y \in W PROVE ValueIn(y, W)
  <2>1. ValueIn(y, U)
    BY <1>1, <1>2 DEF Typed
  <2>2. QED
    BY <1>1, <2>1, ValueInMore
<1>3. QED
  BY <1>1, <1>2 DEF IsValue, Typed

LEMMA ListIsValue ==
  ASSUME NEW n \in Nat, NEW vs, vs = [i \in 1 .. n |-> vs[i]], \A i \in 1 .. n : IsValue(vs[i])
  PROVE  IsValue([t |-> "list", v |-> vs])
<1>1. PICK U : Typed(U) /\ \A i \in 1 .. n : vs[i] \in U
  BY ValuesTogether
<1>2. PICK x : x = [t |-> "list", v |-> vs]
  OBVIOUS
<1>3. vs \in Seq(U)
  <2>1. vs \in [1 .. n -> U]
    BY <1>1
  <2>2. QED
    BY <2>1
<1>4. ValueIn(x, U)
  BY <1>2, <1>3 DEF ValueIn, NumType
<1>5. QED
  BY <1>1, <1>2, <1>4, MadeOfValues

LEMMA MapIsValue ==
  ASSUME NEW f, \A key \in DOMAIN f : IsValue(f[key])
  PROVE  IsValue([t |-> "map", v |-> f])
<1>1. PICK U : Typed(U) /\ \A key \in DOMAIN f : f[key] \in U
  <2>1. PICK K : K = DOMAIN f
    OBVIOUS
  <2>2. \E U : Typed(U) /\ \A key \in K : f[key] \in U
    BY <2>1, ValuesTogether
  <2>3. QED
    BY <2>1, <2>2
<1>2. PICK x : x = [t |-> "map", v |-> f]
  OBVIOUS
<1>3. ValueIn(x, U)
  BY <1>1, <1>2 DEF ValueIn, NumType
<1>4. QED
  BY <1>1, <1>2, <1>3, MadeOfValues

LEMMA ValueKinds ==
  ASSUME NEW x, IsValue(x)
  PROVE  /\ x = [t |-> x.t, v |-> x.v]
         /\ x.t \in NumType => x.v \in Int
         /\ x.t = "inf" => x.v \in {-1, 1}
         /\ x.t = "str" => x.v \in Seq(Nat)
         /\ x.t = "list" => Len(x.v) \in Nat /\ \A i \in 1 .. Len(x.v) : IsValue(x.v[i])
         /\ x.t = "map" => \A key \in DOMAIN x.v : IsValue(x.v[key])
         /\ x.t \in NumType \cup {"nan", "inf", "null", "bool", "str", "list", "map", "func"}
<1>1. PICK U : Typed(U) /\ x \in U
  BY DEF IsValue
<1>2. ValueIn(x, U)
  BY <1>1 DEF Typed
<1>3. x.t = "list" => Len(x.v) \in Nat /\ \A i \in 1 .. Len(x.v) : IsValue(x.v[i])
  <2>1. SUFFICES ASSUME x.t = "list"
                 PROVE  Len(x.v) \in Nat /\ \A i \in 1 .. Len(x.v) : IsValue(x.v[i])
    OBVIOUS
  <2>2. PICK s \in Seq(U) : s = x.v
    BY <1>2, <2>1 DEF ValueIn
  <2>3. \A i \in 1 .. Len(s) : s[i] \in U
    BY ElementOfSeq
  <2>4. QED
    BY <1>1, <2>2, <2>3 DEF IsValue
<1>4. x.t = "map" => \A key \in DOMAIN x.v : IsValue(x.v[key])
  BY <1>1, <1>2 DEF ValueIn, IsValue
<1>5. QED
  BY <1>2, <1>3, <1>4 DEF ValueIn

\* A float.
IsFloat(x) ==
  /\ x = [t |-> x.t, v |-> x.v]
  /\ x.t \in {"float64", "nan", "inf"}
  /\ x.t = "float64" => x.v \in Int
  /\ x.t = "inf" => x.v \in {-1, 1}

LEMMA FloatIsValue ==
  ASSUME NEW x, IsFloat(x)
  PROVE  IsValue(x)
<1>1. IsPlain(x)
  BY DEF IsFloat, IsPlain, ValueIn, NumType
<1>2. QED
  BY <1>1, PlainIsValue

LEMMA ConstantValues ==
  /\ IsValue(Null)
  /\ \A b : IsValue(Bool(b))
  /\ \A n \in Int : IsFloat(Num(n))
  /\ IsFloat(NaN)
  /\ \A sign \in {-1, 1} : IsFloat(Infinity(sign))
  /\ \A s \in Seq(Nat) : IsValue(String(s))
  /\ \A n \in Nat : IsValue([t |-> "int", v |-> n])
<1>1. IsPlain(Null)
  BY DEF Null, IsPlain, ValueIn, NumType
<1>2. ASSUME NEW b PROVE IsPlain(Bool(b))
  BY DEF Bool, IsPlain, ValueIn, NumType
<1>3. /\ \A n \in Int : IsFloat(Num(n))
      /\ IsFloat(NaN)
      /\ \A sign \in {-1, 1} : IsFloat(Infinity(sign))
  BY DEF IsFloat, Num, NaN, Infinity
<1>4. ASSUME NEW s \in Seq(Nat) PROVE IsPlain(String(s))
  BY DEF String, IsPlain, ValueIn, NumType
<1>5. ASSUME NEW n \in Nat PROVE IsPlain([t |-> "int", v |-> n])
  BY DEF IsPlain, ValueIn, NumType
<1>6. QED
  BY <1>1, <1>2, <1>3, <1>4, <1>5, PlainIsValue

LEMMA DigitsAre ==
  ASSUME NEW n \in Nat
  PROVE  Digits(n) \in Seq(Nat)
<1>1. 48 + n \in Nat /\ 48 + (n \div 10) \in Nat /\ 48 + (n % 10) \in Nat
  OBVIOUS
<1>2. <<48 + n>> \in Seq(Nat) /\ <<48 + (n \div 10), 48 + (n % 10)>> \in Seq(Nat)
  BY <1>1
<1>3. QED
  BY <1>2 DEF Digits

LEMMA WordsAre == {TrueText, FalseText, NullText, NaNText, InfText} \subseteq Seq(Nat)
<1>1. TrueText \in Seq(Nat) /\ NullText \in Seq(Nat)
  BY DEF TrueText, NullText
<1>2. FalseText \in Seq(Nat)
  BY DEF FalseText
<1>3. NaNText \in Seq(Nat) /\ InfText \in Seq(Nat)
  BY DEF NaNText, InfText
<1>4. QED
  BY <1>1, <1>2, <1>3

\* interfaceToStr makes strings.
LEMMA StrOfValue ==
  ASSUME NEW x, IsValue(x)
  PROVE  InterfaceToStr(x) \in Seq(Nat)
<1>1. CASE x.t = "str"
  BY <1>1, ValueKinds DEF InterfaceToStr, NumType
<1>2. CASE x.t \in NumType
  <2>1. PICK n \in Int : n = x.v
    BY <1>2, ValueKinds
  <2>2. InterfaceToStr(x) = IF n < 0 THEN <<45>> \o Digits(-n) ELSE Digits(n)
    BY <1>2, <2>1 DEF InterfaceToStr, NumType
  <2>3. CASE n < 0
    <3>1. -n \in Nat
      BY <2>3
    <3>2. PICK s \in Seq(Nat) : s = Digits(-n)
      BY <3>1, DigitsAre
    <3>3. <<45>> \in Seq(Nat)
      OBVIOUS
    <3>4. <<45>> \o s \in Seq(Nat)
      BY <3>2, <3>3, ConcatProperties
    <3>5. QED
      BY <2>2, <2>3, <3>2, <3>4
  <2>4. CASE ~ (n < 0)
    BY <2>2, <2>4, DigitsAre
  <2>5. QED
    BY <2>3, <2>4
<1>3. CASE x.t \in {"nan", "inf", "null", "bool", "list", "map", "func"}
  <2>1. << >> \in Seq(Nat) /\ <<91>> \in Seq(Nat) /\ <<123>> \in Seq(Nat)
    OBVIOUS
  <2>2. PICK s \in Seq(Nat) : s = IF x.v < 0 THEN <<45>> ELSE <<43>>
    <3>1. <<45>> \in Seq(Nat) /\ <<43>> \in Seq(Nat)
      OBVIOUS
    <3>2. QED
      BY <3>1, Zenon
  <2>3. s \o InfText \in Seq(Nat)
    BY WordsAre, ConcatProperties
  <2>4. InterfaceToStr(x) \in
          {NaNText, s \o InfText, <<91>>, TrueText, FalseText, NullText, <<123>>, << >>}
    BY <1>3, <2>2 DEF InterfaceToStr, NumType
  <2>5. QED
    BY <2>1, <2>3, <2>4, WordsAre
<1>4. QED
  BY <1>1, <1>2, <1>3, ValueKinds

LEMMA FloatOfValue ==
  ASSUME NEW x, IsValue(x)
  PROVE  IsFloat(InterfaceToFloat(x))
<1>1. 0 \in Int
  OBVIOUS
<1>2. CASE x.t \in NumType
  BY <1>2, ValueKinds, ConstantValues DEF InterfaceToFloat
<1>3. CASE x.t \in {"nan", "inf"}
  BY <1>3, ValueKinds DEF InterfaceToFloat, IsNumber, NumType, IsFloat
<1>4. CASE ~ IsNumber(x)
  BY <1>1, <1>4, ConstantValues DEF InterfaceToFloat, IsNumber
<1>5. QED
  BY <1>2, <1>3, <1>4 DEF IsNumber

LEMMA SumIsFloat ==
  ASSUME NEW a, IsFloat(a), NEW b, IsFloat(b)
  PROVE  IsFloat(Sum2(a, b))
<1>1. CASE Finite(a) /\ Finite(b)
  <2>1. PICK m \in Int, n \in Int : m = a.v /\ n = b.v
    BY <1>1 DEF IsFloat, Finite
  <2>2. m + n \in Int /\ Sum2(a, b) = Num(m + n)
    BY <1>1, <2>1 DEF Sum2, Finite
  <2>3. QED
    BY <2>2, ConstantValues
<1>2. CASE ~ (Finite(a) /\ Finite(b))
  <2>1. Sum2(a, b) \in {a, b, NaN}
    BY <1>2 DEF Sum2
  <2>2. QED
    BY <2>1, ConstantValues
<1>3. QED
  BY <1>1, <1>2

LEMMA NegativeIsFloat ==
  ASSUME NEW a, IsFloat(a)
  PROVE  IsFloat(Negative(a))
<1>1. CASE a.t = "nan"
  BY <1>1 DEF Negative
<1>2. CASE a.t # "nan"
  <2>1. a.v \in Int /\ (a.t = "inf" => -a.v \in {-1, 1})
    BY <1>2 DEF IsFloat
  <2>2. Negative(a) = [t |-> a.t, v |-> -a.v] /\ -a.v \in Int
    BY <1>2, <2>1 DEF Negative
  <2>3. QED
    BY <2>1, <2>2 DEF IsFloat
<1>3. QED
  BY <1>1, <1>2

LEMMA SignOf ==
  ASSUME NEW a, IsFloat(a), a.t # "nan"
  PROVE  Sign(a) \in {-1, 0, 1} /\ (a.t = "inf" => Sign(a) \in {-1, 1})
BY DEF Sign, IsFloat

LEMMA TimesIsFloat ==
  ASSUME NEW a, IsFloat(a), NEW b, IsFloat(b)
  PROVE  IsFloat(Times(a, b))
<1>1. CASE Finite(a) /\ Finite(b)
  <2>1. PICK m \in Int, n \in Int : m = a.v /\ n = b.v
    BY <1>1 DEF IsFloat, Finite
  <2>2. m * n \in Int
    BY <2>1
  <2>3. Times(a, b) = Num(m * n)
    BY <1>1, <2>1 DEF Times
  <2>4. QED
    BY <2>2, <2>3, ConstantValues
<1>2. CASE ~ (Finite(a) /\ Finite(b))
  <2>1. CASE a.t # "nan" /\ b.t # "nan" /\ Sign(a) * Sign(b) # 0
    <3>1. PICK i \in {-1, 0, 1}, j \in {-1, 0, 1} : i = Sign(a) /\ j = Sign(b)
      BY <2>1, SignOf
    <3>2. i * j # 0 => i * j \in {-1, 1}
      OBVIOUS
    <3>3. Sign(a) * Sign(b) \in {-1, 1}
      BY <2>1, <3>1, <3>2
    <3>4. Times(a, b) = Infinity(Sign(a) * Sign(b))
      BY <1>2, <2>1 DEF Times
    <3>5. QED
      BY <3>3, <3>4, ConstantValues
  <2>2. CASE ~ (a.t # "nan" /\ b.t # "nan" /\ Sign(a) * Sign(b) # 0)
    <3>1. Times(a, b) = NaN
      BY <1>2, <2>2 DEF Times
    <3>2. QED
      BY <3>1, ConstantValues
  <2>3. QED
    BY <2>1, <2>2
<1>3. QED
  BY <1>1, <1>2

LEMMA DividedIsFloat ==
  ASSUME NEW a, IsFloat(a), NEW b, IsFloat(b)
  PROVE  IsFloat(Divided(a, b))
<1>1. CASE ~ Finite(b)
  <2>1. Divided(a, b) \in {Num(0), NaN}
    BY <1>1 DEF Divided
  <2>2. QED
    BY <2>1, ConstantValues
<1>2. CASE Finite(b) /\ b.v # 0 /\ Finite(a)
  <2>1. PICK m \in Int, n \in Int : m = a.v /\ n = b.v
    BY <1>2 DEF IsFloat, Finite
  <2>2. PICK i \in {-1, 1} : i = Sign(b)
    BY <1>2, <2>1 DEF Sign
  <2>3. n * i \in Nat \ {0} /\ m * i \in Int
    BY <1>2, <2>1, <2>2 DEF Sign
  <2>4. (m * i) \div (n * i) \in Int
    <3>1. PICK p \in Int, q \in Nat \ {0} : p = m * i /\ q = n * i
      BY <2>3
    <3>2. p \div q \in Int
      OBVIOUS
    <3>3. QED
      BY <3>1, <3>2
  <2>5. Divided(a, b) = Num((m * i) \div (n * i))
    BY <1>2, <2>1, <2>2 DEF Divided
  <2>6. QED
    BY <2>4, <2>5, ConstantValues
<1>3. CASE Finite(b) /\ b.v # 0 /\ ~ Finite(a)
  <2>1. Divided(a, b) = Times(a, b)
    BY <1>3 DEF Divided
  <2>2. QED
    BY <2>1, TimesIsFloat
<1>4. CASE Finite(b) /\ b.v = 0
  <2>1. CASE a.t = "nan" \/ Sign(a) = 0
    <3>1. Divided(a, b) = NaN
      BY <1>4, <2>1 DEF Divided
    <3>2. QED
      BY <3>1, ConstantValues
  <2>2. CASE ~ (a.t = "nan" \/ Sign(a) = 0)
    <3>1. Divided(a, b) = Infinity(Sign(a))
      BY <1>4, <2>2 DEF Divided
    <3>2. Sign(a) \in {-1, 1}
      BY <2>2, SignOf
    <3>3. QED
      BY <3>1, <3>2, ConstantValues
  <2>3. QED
    BY <2>1, <2>2
<1>5. QED
  BY <1>1, <1>2, <1>3, <1>4

LEMMA AddIsValue ==
  ASSUME NEW a, IsValue(a), NEW b, IsValue(b)
  PROVE  IsValue(InterfaceAdd(a, b))
<1>1. IsValue(Sum2(InterfaceToFloat(a), InterfaceToFloat(b)))
  BY FloatOfValue, SumIsFloat, FloatIsValue
<1>2. InterfaceToStr(a) \o InterfaceToStr(b) \in Seq(Nat)
  BY StrOfValue, ConcatProperties
<1>3. IsValue(String(InterfaceToStr(a) \o InterfaceToStr(b)))
  BY <1>2, ConstantValues
<1>4. QED
  BY <1>1, <1>3 DEF InterfaceAdd

\* An operator makes a value, or panics.
LEMMA BinaryIsValue ==
  ASSUME NEW o, NEW a, IsValue(a), NEW b, IsValue(b)
  PROVE  Binary(o, a, b) = Panic \/ IsValue(Binary(o, a, b))
<1>1. PICK x, y : x = InterfaceToFloat(a) /\ y = InterfaceToFloat(b)
  OBVIOUS
<1>2. IsFloat(x) /\ IsFloat(y)
  BY <1>1, FloatOfValue
<1>3. IsValue(Sum2(x, Negative(y))) /\ IsValue(Times(x, y)) /\ IsValue(Divided(x, y))
  BY <1>2, NegativeIsFloat, SumIsFloat, TimesIsFloat, DividedIsFloat, FloatIsValue
<1>4. Equal(a, b) = Panic \/ IsValue(Equal(a, b))
  BY ConstantValues DEF Equal
<1>5. Unequal(a, b) = Panic \/ IsValue(Unequal(a, b))
  <2>1. Equal(a, b) = Panic \/ Equal(a, b).t = "bool"
    BY DEF Equal, Bool
  <2>2. Unequal(a, b) = Panic \/ \E p : Unequal(a, b) = Bool(p)
    <3>1. PICK same : same = Equal(a, b)
      OBVIOUS
    <3>2. CASE same.t = "panic"
      BY <2>1, <3>1, <3>2 DEF Unequal
    <3>3. CASE same.t # "panic"
      <4>1. Unequal(a, b) = Bool(~ same.v)
        BY <3>1, <3>3, Zenon DEF Unequal
      <4>2. QED
        BY <4>1, Zenon
    <3>4. QED
      BY <3>2, <3>3
  <2>3. QED
    BY <2>2, ConstantValues
<1>6. IsValue(InterfaceAdd(a, b))
  BY AddIsValue
<1>7. CASE o \in {"==", "===", "!=", "!=="}
  BY <1>4, <1>5, <1>7 DEF Binary
<1>8. CASE o \in {"+", "-", "*", "/"}
  BY <1>1, <1>3, <1>6, <1>8 DEF Binary
<1>9. CASE o \in {"&&", "||", "<", ">", "<=", ">="}
  <2>1. \E p : Binary(o, a, b) = Bool(p)
    BY <1>9, Zenon DEF Binary
  <2>2. QED
    BY <2>1, ConstantValues
<1>10. CASE o \notin {"==", "===", "!=", "!==", "+", "-", "*", "/", "&&", "||", "<", ">", "<=", ">="}
  BY <1>10 DEF Binary
<1>11. QED
  BY <1>7, <1>8, <1>9, <1>10

LEMMA LookupIsValue ==
  ASSUME NEW x, IsValue(x), NEW key \in Seq(Nat)
  PROVE  IsValue(Lookup(x, key))
<1> DEFINE Index(n) == n \in 0 .. Len(x.v) - 1 /\ ParsesTo(key, n)
<1>1. CASE x.t = "map"
  <2>1. Lookup(x, key) = IF key \in DOMAIN x.v THEN x.v[key] ELSE Null
    BY <1>1 DEF Lookup
  <2>2. QED
    BY <1>1, <2>1, ValueKinds, ConstantValues
<1>2. CASE x.t \in {"list", "str"} /\ key = LengthText
  <2>1. Lookup(x, key) = [t |-> "int", v |-> Len(x.v)]
    BY <1>2 DEF Lookup
  <2>2. Len(x.v) \in Nat
    BY <1>2, ValueKinds, LenProperties
  <2>3. QED
    BY <2>1, <2>2, ConstantValues
<1>3. CASE x.t = "list" /\ key # LengthText /\ \E n : Index(n)
  <2>1. PICK m : m = CHOOSE n \in 0 .. Len(x.v) - 1 : ParsesTo(key, n)
    OBVIOUS
  <2>2. m \in 0 .. Len(x.v) - 1
    BY <1>3, <2>1
  <2>3. Lookup(x, key) = x.v[1 + m]
    BY <1>3, <2>1 DEF Lookup
  <2>4. Len(x.v) \in Nat /\ \A i \in 1 .. Len(x.v) : IsValue(x.v[i])
    BY <1>3, ValueKinds
  <2>5. 1 + m \in 1 .. Len(x.v)
    BY <2>2, <2>4
  <2>6. QED
    BY <2>3, <2>4, <2>5
<1>4. CASE /\ x.t # "map"
           /\ x.t \in {"list", "str"} => key # LengthText
           /\ x.t = "list" => ~ \E n : Index(n)
  <2>1. Lookup(x, key) = Null
    BY <1>4 DEF Lookup
  <2>2. QED
    BY <2>1, ConstantValues
<1>5. QED
  BY <1>1, <1>2, <1>3, <1>4

\* Among some numbers up to n there is a last.
LEMMA LastOfSet ==
  ASSUME NEW n \in Nat, NEW S, S \subseteq 1 .. n, S # {}
  PROVE  \E i \in S : \A j \in i + 1 .. n : j \notin S
<1> DEFINE Q == {m \in Nat : \A T : T \subseteq 1 .. m /\ T # {} =>
                               \E i \in T : \A j \in i + 1 .. m : j \notin T}
<1>1. 0 \in Q
  OBVIOUS
<1>2. ASSUME NEW m \in Nat, m \in Q PROVE m + 1 \in Q
  <2>1. ASSUME NEW T, T \subseteq 1 .. m + 1, T # {}
        PROVE  \E i \in T : \A j \in i + 1 .. m + 1 : j \notin T
    <3>1. CASE m + 1 \in T
      <4>1. \A j \in (m + 1) + 1 .. m + 1 : j \notin T
        OBVIOUS
      <4>2. QED
        BY <3>1, <4>1
    <3>2. CASE m + 1 \notin T
      <4>1. T \subseteq 1 .. m
        BY <2>1, <3>2
      <4>2. PICK i \in T : \A j \in i + 1 .. m : j \notin T
        BY <1>2, <2>1, <4>1
      <4>3. ASSUME NEW j \in i + 1 .. m + 1 PROVE j \notin T
        <5>1. i \in Nat
          BY <4>1
        <5>2. j = m + 1 \/ j \in i + 1 .. m
          BY <4>3, <5>1
        <5>3. QED
          BY <3>2, <4>2, <5>2
      <4>4. QED
        BY <4>3
    <3>3. QED
      BY <3>1, <3>2
  <2>2. QED
    BY <2>1
<1>3. Nat \subseteq Q
  <2> HIDE DEF Q
  <2>1. QED
    BY <1>1, <1>2, UpFromZero
<1>4. QED
  BY <1>3

LEMMA ObjectIsValue ==
  ASSUME NEW F, NEW fields \in Seq(F), NEW vs, \A i \in 1 .. Len(fields) : IsValue(vs[i])
  PROVE  IsValue(Object(fields, vs))
<1>1. CASE fields = << >>
  BY <1>1, ConstantValues DEF Object
<1>2. CASE fields # << >>
  <2> DEFINE keys == {fields[i].key : i \in DOMAIN fields}
             last(k) == CHOOSE i \in DOMAIN fields :
                          fields[i].key = k /\ \A j \in i + 1 .. Len(fields) : fields[j].key # k
             map == [k \in keys |-> vs[last(k)]]
  <2>1. DOMAIN fields = 1 .. Len(fields) /\ Len(fields) \in Nat
    BY LenProperties
  <2>2. ASSUME NEW k \in keys PROVE IsValue(map[k])
    <3>1. PICK S : S = {i \in DOMAIN fields : fields[i].key = k}
      OBVIOUS
    <3>2. S \subseteq 1 .. Len(fields) /\ S # {}
      BY <2>1, <3>1
    <3>3. PICK i \in S : \A j \in i + 1 .. Len(fields) : j \notin S
      BY <2>1, <3>2, LastOfSet
    <3>4. ASSUME NEW j \in i + 1 .. Len(fields) PROVE fields[j].key # k
      <4>1. i \in Nat /\ i >= 1
        BY <3>2
      <4>2. j \in DOMAIN fields
        BY <2>1, <4>1
      <4>3. QED
        BY <3>1, <3>3, <3>4, <4>2
    <3>5. last(k) \in DOMAIN fields
      BY <3>1, <3>3, <3>4
    <3>6. map[k] = vs[last(k)]
      OBVIOUS
    <3> HIDE DEF last, map
    <3>7. QED
      BY <2>1, <3>5, <3>6
  <2>3. DOMAIN map = keys
    OBVIOUS
  <2>4. Object(fields, vs) = [t |-> "map", v |-> map]
    BY <1>2 DEF Object
  <2> HIDE DEF map, keys
  <2>5. QED
    BY <2>2, <2>3, <2>4, MapIsValue
<1>3. QED
  BY <1>1, <1>2

LEMMA CalledIsValue ==
  ASSUME NEW f, NEW n \in Nat, NEW vs, vs = [i \in 1 .. n + 1 |-> vs[i]],
         \A i \in 1 .. n + 1 : IsValue(vs[i])
  PROVE  Called(f, Tail(vs)) = Panic \/ IsValue(Called(f, Tail(vs)))
<1>1. PICK V : V = {vs[i] : i \in 1 .. n + 1}
  OBVIOUS
<1>2. vs \in Seq(V) /\ Len(vs) = n + 1
  <2>1. vs \in [1 .. n + 1 -> V]
    BY <1>1
  <2>2. QED
    BY <2>1
<1>3. Tail(vs) # << >> => Tail(vs)[1] = vs[2] /\ 2 \in 1 .. n + 1
  <2>1. Len(Tail(vs)) = n /\ Tail(vs) \in Seq(V) /\ \A i \in 1 .. n : Tail(vs)[i] = vs[i + 1]
    BY <1>2
  <2>2. Tail(vs) # << >> => n # 0
    BY <2>1, EmptySeq
  <2>3. n # 0 => Tail(vs)[1] = vs[1 + 1]
    BY <2>1
  <2>4. QED
    BY <2>2, <2>3
<1>4. QED
  BY <1>3, ConstantValues DEF Called

LEMMA UnaryIsValue ==
  ASSUME NEW o, NEW a, IsValue(a)
  PROVE  Unary(o, a) = Panic \/ IsValue(Unary(o, a))
<1>1. IsValue(Bool(~ InterfaceToBool(a)))
  BY ConstantValues
<1>2. IsValue(Negative(InterfaceToFloat(a)))
  BY FloatOfValue, NegativeIsFloat, FloatIsValue
<1>3. QED
  BY <1>1, <1>2 DEF Unary

\* A node makes a value of those of its operands, or panics.
LEMMA ApplyIsValue ==
  ASSUME NEW U, Founded(U), NEW s \in DOMAIN Envs, NEW e \in Exprs, NEW vs,
         vs = [i \in DOMAIN Operands(e) |-> vs[i]],
         \A i \in DOMAIN Operands(e) : IsValue(vs[i])
  PROVE  LET r == Apply(e, Envs[s], vs) IN r = Panic \/ IsValue(r)
<1> DEFINE r == Apply(e, Envs[s], vs)
<1> SUFFICES r = Panic \/ IsValue(r)
  OBVIOUS
<1>0. Typed(U)
  BY DEF Founded, Typed
<1>1. CASE e.n = "identifier"
  <2>1. \A name \in DOMAIN Envs[s] : IsValue(Envs[s][name])
    BY <1>0 DEF Founded, IsValue
  <2>2. IsValue(Null)
    BY ConstantValues
  <2>3. r = IF e.name \in DOMAIN Envs[s] THEN Envs[s][e.name] ELSE Null
    BY <1>1 DEF Apply
  <2>4. QED
    BY <2>1, <2>2, <2>3
<1>2. CASE e.n = "literal"
  <2>1. IsValue(Literals[e.name])
    BY <1>0, <1>2, ExprAssumption DEF Founded, IsValue
  <2>2. r = Literals[e.name]
    BY <1>2 DEF Apply
  <2>3. QED
    BY <2>1, <2>2
<1>3. CASE e.n = "dot"
  <2>1. Operands(e) = <<e.x>>
    BY <1>3 DEF Operands
  <2>2. IsValue(vs[1])
    BY <2>1
  <2>3. IsValue(Lookup(vs[1], e.key))
    BY <1>3, <2>2, ExprAssumption, LookupIsValue
  <2>4. r = Lookup(vs[1], e.key)
    BY <1>3 DEF Apply
  <2>5. QED
    BY <2>3, <2>4
<1>4. CASE e.n = "bracket"
  <2>1. Operands(e) = <<e.x, e.y>>
    BY <1>4 DEF Operands
  <2>2. IsValue(vs[1]) /\ IsValue(vs[2])
    BY <2>1
  <2>3. IsValue(Lookup(vs[1], InterfaceToStr(vs[2])))
    BY <2>2, StrOfValue, LookupIsValue
  <2>4. r = Lookup(vs[1], InterfaceToStr(vs[2]))
    BY <1>4 DEF Apply
  <2>5. QED
    BY <2>3, <2>4
<1>5. CASE e.n = "binary"
  <2>1. Operands(e) = <<e.x, e.y>>
    BY <1>5 DEF Operands
  <2>2. IsValue(vs[1]) /\ IsValue(vs[2])
    BY <2>1
  <2>3. r = Binary(e.o, vs[1], vs[2])
    BY <1>5 DEF Apply
  <2>4. QED
    BY <2>2, <2>3, BinaryIsValue
<1>6. CASE e.n = "unary"
  <2>1. Operands(e) = <<e.x>>
    BY <1>6 DEF Operands
  <2>2. IsValue(vs[1])
    BY <2>1
  <2>3. r = Unary(e.o, vs[1])
    BY <1>6 DEF Apply
  <2>4. QED
    BY <2>2, <2>3, UnaryIsValue
<1>7. CASE e.n = "object"
  <2>1. PICK fields \in Seq([key : Seq(Nat), x : Exprs]) : fields = e.fields
    BY <1>7, ExprAssumption
  <2>2. Operands(e) = [i \in DOMAIN fields |-> fields[i].x]
    BY <1>7, <2>1 DEF Operands
  <2>3. DOMAIN Operands(e) = 1 .. Len(fields)
    BY <2>2
  <2>4. IsValue(Object(fields, vs))
    BY <2>3, ObjectIsValue
  <2>5. r = Object(fields, vs)
    BY <1>7, <2>1 DEF Apply
  <2>6. QED
    BY <2>4, <2>5
<1>8. CASE e.n = "array"
  <2>1. PICK args \in Seq(Exprs) : args = e.args
    BY <1>8, ExprAssumption
  <2>2. DOMAIN Operands(e) = 1 .. Len(args) /\ Len(args) \in Nat
    BY <1>8, <2>1 DEF Operands
  <2>3. IsValue([t |-> "list", v |-> vs])
    <3>1. vs = [i \in 1 .. Len(args) |-> vs[i]]
      BY <2>2
    <3>2. QED
      BY <2>2, <3>1, ListIsValue
  <2>4. r = [t |-> "list", v |-> vs]
    BY <1>8 DEF Apply
  <2>5. QED
    BY <2>3, <2>4
<1>9. CASE e.n = "call"
  <2>1. PICK args \in Seq(Exprs) : args = e.args
    BY <1>9, ExprAssumption
  <2>2. Operands(e) = <<e.x>> \o args
    BY <1>9, <2>1 DEF Operands
  <2>3. PICK n \in Nat : n = Len(args)
    OBVIOUS
  <2>4. DOMAIN Operands(e) = 1 .. n + 1
    <3>1. Operands(e) \in Seq(Exprs)
      BY ExprAssumption
    <3>2. PICK xs \in Seq(Exprs) : xs = Operands(e)
      BY <3>1
    <3>3. Len(xs) = n + 1
      BY <2>2, <2>3, <3>2
    <3>4. QED
      BY <3>2, <3>3
  <2>5. vs = [i \in 1 .. n + 1 |-> vs[i]]
    BY <2>4
  <2>6. Called(vs[1], Tail(vs)) = Panic \/ IsValue(Called(vs[1], Tail(vs)))
    BY <2>4, <2>5, CalledIsValue
  <2>7. r = Called(vs[1], Tail(vs))
    BY <1>9 DEF Apply
  <2>8. QED
    BY <2>6, <2>7
<1>10. CASE e.n = "conditional"
  <2>1. Operands(e) = <<e.x, e.y, e.test>>
    BY <1>10 DEF Operands
  <2>2. IsValue(vs[1]) /\ IsValue(vs[2])
    BY <2>1
  <2>3. r = IF InterfaceToBool(vs[3]) THEN vs[1] ELSE vs[2]
    BY <1>10 DEF Apply
  <2>4. QED
    BY <2>2, <2>3
<1> HIDE DEF r
<1>11. QED
  BY <1>1, <1>2, <1>3, <1>4, <1>5, <1>6, <1>7, <1>8, <1>9, <1>10, ExprAssumption

\* An expression has a value, or panics.
LEMMA ValuesAre ==
  ASSUME NEW h, FiniteSyntax(h), NEW U, Founded(U), NEW s \in DOMAIN Envs
  PROVE  \A e \in Exprs : Value(Envs[s])[e] = Panic \/ IsValue(Value(Envs[s])[e])
<1>1. PICK value : value = Value(Envs[s])
  OBVIOUS
<1> DEFINE P == {e \in Exprs : value[e] = Panic \/ IsValue(value[e])}
<1>2. ASSUME NEW e \in Exprs, \A x \in Exprs : h[x] < h[e] => x \in P PROVE e \in P
  <2>1. value[e] = Evaluated(e, Envs[s], value)
    BY <1>1, ValueIs
  <2>2. PICK vs : vs = [i \in DOMAIN Operands(e) |-> value[Operands(e)[i]]]
    OBVIOUS
  <2>3. \A i \in DOMAIN Operands(e) : vs[i] = Panic \/ IsValue(vs[i])
    <3>1. TAKE i \in DOMAIN Operands(e)
    <3>2. PICK x \in Exprs : x = Operands(e)[i] /\ h[x] < h[e]
      BY OperandsAre
    <3>3. x \in P
      BY <1>2, <3>2
    <3>4. QED
      BY <2>2, <3>2, <3>3
  <2>4. value[e] = IF \E i \in DOMAIN vs : vs[i].t = "panic" THEN Panic ELSE Apply(e, Envs[s], vs)
    BY <2>1, <2>2 DEF Evaluated
  <2>5. CASE \A i \in DOMAIN vs : vs[i].t # "panic"
    <3>1. DOMAIN vs = DOMAIN Operands(e) /\ vs = [i \in DOMAIN Operands(e) |-> vs[i]]
      BY <2>2
    <3>2. \A i \in DOMAIN Operands(e) : IsValue(vs[i])
      BY <2>3, <2>5, <3>1 DEF Panic
    <3>3. Apply(e, Envs[s], vs) = Panic \/ IsValue(Apply(e, Envs[s], vs))
      BY <3>1, <3>2, ApplyIsValue
    <3>4. QED
      BY <2>4, <2>5, <3>3
  <2>6. QED
    BY <2>4, <2>5
<1>3. h \in [Exprs -> Nat]
  BY DEF FiniteSyntax
<1>4. Exprs \subseteq P
  <2> HIDE DEF P
  <2>1. QED
    BY <1>2, <1>3, ByHeight
<1>5. QED
  BY <1>1, <1>4

\* A comparison of two values is a comparison of their floats, or of their strings.
LEMMA ComparisonOf ==
  ASSUME NEW a, NEW b
  PROVE  /\ Binary("<", a, b) = Bool(InterfaceLess(a, b))
         /\ Binary(">", a, b) = Bool(InterfaceGreater(a, b))
         /\ Binary("<=", a, b) = Bool(InterfaceLessOrEqual(a, b))
         /\ Binary(">=", a, b) = Bool(InterfaceGreaterOrEqual(a, b))
BY DEF Binary

LEMMA FloatEqBothWays ==
  ASSUME NEW a, IsValue(a), NEW b, IsValue(b), AsNumbers(a, b)
  PROVE  FloatEq(a, b) <=> FloatEq(b, a)
<1>1. ASSUME NEW x, NEW y, FloatEq(x, y), IsNumber(y) PROVE FloatEq(y, x)
  <2>1. x.t # "nan" /\ InterfaceToFloat(x) = InterfaceToFloat(y)
    BY <1>1 DEF FloatEq
  <2>2. (InterfaceToFloat(x)).t # "nan"
    BY <2>1 DEF InterfaceToFloat, Num
  <2>3. y.t # "nan"
    BY <1>1, <2>1, <2>2 DEF InterfaceToFloat, NumType
  <2>4. QED
    BY <2>1, <2>3 DEF FloatEq
<1>2. QED
  BY <1>1 DEF AsNumbers

\* Of two floats that are not NaN, one is less, or they are equal, and never both.
LEMMA FloatsCompare ==
  ASSUME NEW a, IsValue(a), NEW b, IsValue(b), AsNumbers(a, b), a.t # "nan", b.t # "nan"
  PROVE  FloatLess(a, b) <=> ~ (FloatLess(b, a) \/ FloatEq(a, b))
<1>1. /\ a = [t |-> a.t, v |-> a.v] /\ b = [t |-> b.t, v |-> b.v]
      /\ a.t \in NumType \cup {"inf"} /\ b.t \in NumType \cup {"inf"}
      /\ a.t \in NumType => a.v \in Int
      /\ b.t \in NumType => b.v \in Int
      /\ a.t = "inf" => a.v \in {-1, 1}
      /\ b.t = "inf" => b.v \in {-1, 1}
  BY ValueKinds DEF AsNumbers, IsNumber
<1>2. CASE a.t \in NumType /\ b.t \in NumType
  <2>1. Finite(a) /\ Finite(b)
    BY <1>2 DEF Finite, NumType
  <2>2. /\ FloatLess(a, b) <=> a.v < b.v
        /\ FloatLess(b, a) <=> b.v < a.v
    BY <2>1, <1>2 DEF FloatLess, NumType
  <2>3. FloatEq(a, b) <=> a.v = b.v
    BY <1>2 DEF FloatEq, InterfaceToFloat, Num, NumType
  <2>4. QED
    BY <1>1, <1>2, <2>2, <2>3
<1>3. CASE a.t = "inf" /\ b.t \in NumType
  <2>1. ~ Finite(a) /\ Finite(b)
    BY <1>3 DEF Finite, NumType
  <2>2. /\ FloatLess(a, b) <=> a.v < 0
        /\ FloatLess(b, a) <=> a.v > 0
    BY <1>1, <2>1, <1>3 DEF FloatLess, NumType
  <2>3. InterfaceToFloat(a) = a /\ InterfaceToFloat(b) = Num(b.v)
    BY <1>3 DEF InterfaceToFloat, IsNumber, NumType
  <2>4. a # Num(b.v)
    BY <1>3 DEF Num
  <2>5. ~ FloatEq(a, b)
    BY <2>3, <2>4 DEF FloatEq
  <2>6. QED
    BY <1>1, <1>3, <2>2, <2>5
<1>4. CASE a.t \in NumType /\ b.t = "inf"
  <2>1. Finite(a) /\ ~ Finite(b)
    BY <1>4 DEF Finite, NumType
  <2>2. /\ FloatLess(a, b) <=> b.v > 0
        /\ FloatLess(b, a) <=> b.v < 0
    BY <1>1, <2>1, <1>4 DEF FloatLess, NumType
  <2>3. InterfaceToFloat(b) = b /\ InterfaceToFloat(a) = Num(a.v)
    BY <1>4 DEF InterfaceToFloat, IsNumber, NumType
  <2>4. b # Num(a.v)
    BY <1>4 DEF Num
  <2>5. ~ FloatEq(a, b)
    BY <2>3, <2>4 DEF FloatEq
  <2>6. QED
    BY <1>1, <1>4, <2>2, <2>5
<1>5. CASE a.t = "inf" /\ b.t = "inf"
  <2>1. ~ Finite(a) /\ ~ Finite(b)
    BY <1>5 DEF Finite
  <2>2. /\ FloatLess(a, b) <=> a.v < 0 /\ a # b
        /\ FloatLess(b, a) <=> b.v < 0 /\ a # b
    BY <2>1, <1>5 DEF FloatLess
  <2>3. InterfaceToFloat(a) = a /\ InterfaceToFloat(b) = b
    BY <1>5 DEF InterfaceToFloat, IsNumber, NumType
  <2>4. FloatEq(a, b) <=> a = b
    BY <1>5, <2>3 DEF FloatEq
  <2>5. a = b <=> a.v = b.v
    BY <1>1, <1>5
  <2>6. QED
    BY <1>1, <1>5, <2>2, <2>4, <2>5
<1>6. QED
  BY <1>1, <1>2, <1>3, <1>4, <1>5

\* A comparison the other way round is the flipped comparison.
LEMMA FlippedComparison ==
  ASSUME NEW a, IsValue(a), NEW b, IsValue(b), NEW o \in Comparisons
  PROVE  Binary(o, a, b) = Binary(Flip(o), b, a)
<1>1. AsNumbers(a, b) <=> AsNumbers(b, a)
  BY DEF AsNumbers
<1>2. InterfaceLess(a, b) <=> InterfaceGreater(b, a)
  BY <1>1 DEF InterfaceLess, InterfaceGreater
<1>3. InterfaceLess(b, a) <=> InterfaceGreater(a, b)
  BY <1>1 DEF InterfaceLess, InterfaceGreater
<1>4. ASSUME AsNumbers(a, b)
      PROVE  /\ InterfaceLessOrEqual(a, b) <=> InterfaceGreaterOrEqual(b, a)
             /\ InterfaceLessOrEqual(b, a) <=> InterfaceGreaterOrEqual(a, b)
  <2>1. FloatEq(a, b) <=> FloatEq(b, a)
    BY <1>4, FloatEqBothWays
  <2>2. QED
    BY <1>1, <1>4, <2>1 DEF InterfaceLessOrEqual, InterfaceGreaterOrEqual
<1>5. ASSUME ~ AsNumbers(a, b)
      PROVE  /\ InterfaceLessOrEqual(a, b) <=> InterfaceGreaterOrEqual(b, a)
             /\ InterfaceLessOrEqual(b, a) <=> InterfaceGreaterOrEqual(a, b)
  BY <1>1, <1>5 DEF InterfaceLessOrEqual, InterfaceGreaterOrEqual
<1>6. /\ Flip("<") = ">" /\ Flip(">") = "<" /\ Flip("<=") = ">=" /\ Flip(">=") = "<="
  BY DEF Flip
<1>7. \A x, y : /\ InterfaceLess(x, y) \in BOOLEAN /\ InterfaceGreater(x, y) \in BOOLEAN
               /\ InterfaceLessOrEqual(x, y) \in BOOLEAN
               /\ InterfaceGreaterOrEqual(x, y) \in BOOLEAN
  <2>1. \A x, y : FloatLess(x, y) \in BOOLEAN
    BY DEF FloatLess
  <2>2. \A x, y : FloatEq(x, y) \in BOOLEAN
    BY DEF FloatEq
  <2>3. \A s, r : StrLess(s, r) \in BOOLEAN
    BY DEF StrLess
  <2>4. \A x, y : InterfaceLess(x, y) \in BOOLEAN /\ InterfaceGreater(x, y) \in BOOLEAN
    BY <2>1, <2>3 DEF InterfaceLess, InterfaceGreater
  <2>5. \A x, y : /\ InterfaceLessOrEqual(x, y) \in BOOLEAN
                 /\ InterfaceGreaterOrEqual(x, y) \in BOOLEAN
    BY DEF InterfaceLessOrEqual, InterfaceGreaterOrEqual
  <2>6. QED
    BY <2>4, <2>5
<1>8. \A p, q \in BOOLEAN : (p <=> q) => Bool(p) = Bool(q)
  OBVIOUS
<1>9. InterfaceLessOrEqual(a, b) <=> InterfaceGreaterOrEqual(b, a)
  BY <1>4, <1>5
<1>10. InterfaceLessOrEqual(b, a) <=> InterfaceGreaterOrEqual(a, b)
  BY <1>4, <1>5
<1>11. /\ Bool(InterfaceLess(a, b)) = Bool(InterfaceGreater(b, a))
       /\ Bool(InterfaceGreater(a, b)) = Bool(InterfaceLess(b, a))
       /\ Bool(InterfaceLessOrEqual(a, b)) = Bool(InterfaceGreaterOrEqual(b, a))
       /\ Bool(InterfaceGreaterOrEqual(a, b)) = Bool(InterfaceLessOrEqual(b, a))
  BY <1>2, <1>3, <1>7, <1>8, <1>9, <1>10
<1>12. QED
  BY <1>6, <1>11, ComparisonOf DEF Comparisons

\* And with the opposite operator it is the other truth value, of what is not NaN.
LEMMA OppositeComparison ==
  ASSUME NEW a, IsValue(a), NEW b, IsValue(b), NEW o \in Comparisons,
         a.t # "nan", b.t # "nan"
  PROVE  Binary(o, a, b) # Binary(Opposite(o), a, b)
<1>1. InterfaceLess(a, b) <=> ~ InterfaceGreaterOrEqual(a, b)
  <2>1. CASE AsNumbers(a, b)
    BY <2>1, FloatsCompare DEF InterfaceLess, InterfaceGreaterOrEqual
  <2>2. CASE ~ AsNumbers(a, b)
    BY <2>2 DEF InterfaceLess, InterfaceGreaterOrEqual
  <2>3. QED
    BY <2>1, <2>2
<1>2. InterfaceGreater(a, b) <=> ~ InterfaceLessOrEqual(a, b)
  <2>1. CASE AsNumbers(a, b)
    <3>1. AsNumbers(b, a)
      BY <2>1 DEF AsNumbers
    <3>2. FloatLess(b, a) <=> ~ (FloatLess(a, b) \/ FloatEq(b, a))
      BY <3>1, FloatsCompare
    <3>3. FloatEq(a, b) <=> FloatEq(b, a)
      BY <2>1, FloatEqBothWays
    <3>4. QED
      BY <2>1, <3>2, <3>3 DEF InterfaceGreater, InterfaceLessOrEqual
  <2>2. CASE ~ AsNumbers(a, b)
    BY <2>2 DEF InterfaceGreater, InterfaceLessOrEqual
  <2>3. QED
    BY <2>1, <2>2
<1>3. /\ Opposite("<") = ">=" /\ Opposite(">") = "<=" /\ Opposite("<=") = ">"
      /\ Opposite(">=") = "<"
  BY DEF Opposite
<1>4. QED
  BY <1>1, <1>2, <1>3, ComparisonOf DEF Comparisons, Bool

-----------------------------------------------------------------------------

\* The value is the value of the expression for the variables it was given.
EvaluatedOnce ==
  /\ expr \in Exprs
  /\ \E i \in DOMAIN Envs : env = Envs[i]
  /\ pc = "done" => val = Value(env)[expr] /\ val.t # "panic"

LEMMA EvaluatedOnceInvariant == ExprSpec => []EvaluatedOnce
<1>1. ExprInit => EvaluatedOnce
  BY DEF ExprInit, EvaluatedOnce
<1>2. EvaluatedOnce /\ [ExprNext]_exprVars => EvaluatedOnce'
  <2> SUFFICES ASSUME EvaluatedOnce, [ExprNext]_exprVars PROVE EvaluatedOnce'
    OBVIOUS
  <2>1. CASE Evaluate
    <3>1. expr' = expr /\ env' = env /\ val' = Value(env)[expr]
      BY <2>1 DEF Evaluate
    <3>2. pc' = "done" => val'.t # "panic"
      BY <2>1 DEF Evaluate
    <3>3. QED
      BY <3>1, <3>2 DEF EvaluatedOnce
  <2>2. CASE UNCHANGED exprVars
    BY <2>2 DEF EvaluatedOnce, exprVars
  <2>3. QED
    BY <2>1, <2>2 DEF ExprNext, Settled
<1>3. QED
  BY <1>1, <1>2, PTL DEF ExprSpec

\* The four comparisons, which are four copies of one function (jsexpression.go:315-365),
\* agree: of any two values that were compared, a < b is b > a, and is not a >= b unless
\* one of them is NaN.  For every finite syntax, and all literals and variables that are
\* values, of any depth.
THEOREM ComparisonsAgree ==
  ASSUME NEW CONSTANT h, FiniteSyntax(h), NEW CONSTANT U, Founded(U)
  PROVE  ExprSpec => []CompareBothWays
<1>1. EvaluatedOnce => CompareBothWays
  <2> SUFFICES ASSUME EvaluatedOnce, pc = "done", expr.n = "binary", expr.o \in Comparisons
               PROVE  LET a == Value(env)[expr.x]
                          b == Value(env)[expr.y]
                      IN /\ val = Binary(Flip(expr.o), b, a)
                         /\ a.t = "nan" \/ b.t = "nan" \/ val # Binary(Opposite(expr.o), a, b)
    BY DEF CompareBothWays
  <2>1. PICK s \in DOMAIN Envs : env = Envs[s]
    BY DEF EvaluatedOnce
  <2>2. PICK a : a = Value(env)[expr.x]
    OBVIOUS
  <2>3. PICK b : b = Value(env)[expr.y]
    OBVIOUS
  <2>4. PICK vs : vs = [i \in DOMAIN Operands(expr) |-> Value(env)[Operands(expr)[i]]]
    OBVIOUS
  <2>5. Operands(expr) = <<expr.x, expr.y>>
    BY DEF Operands
  <2>6. DOMAIN vs = {1, 2} /\ vs[1] = a /\ vs[2] = b
    BY <2>2, <2>3, <2>4, <2>5
  <2>7. expr \in Exprs /\ val = Value(env)[expr] /\ val.t # "panic"
    BY DEF EvaluatedOnce
  <2>8. val = IF \E i \in DOMAIN vs : vs[i].t = "panic" THEN Panic ELSE Apply(expr, env, vs)
    <3>1. Value(env)[expr] = Evaluated(expr, env, Value(env))
      BY <2>7, ValueIs
    <3>2. QED
      BY <2>4, <2>7, <3>1 DEF Evaluated
  <2>9. val = Binary(expr.o, a, b) /\ a.t # "panic" /\ b.t # "panic"
    <3>1. ~ \E i \in DOMAIN vs : vs[i].t = "panic"
      BY <2>7, <2>8 DEF Panic
    <3>2. Apply(expr, env, vs) = Binary(expr.o, vs[1], vs[2])
      BY DEF Apply
    <3>3. QED
      BY <2>6, <2>8, <3>1, <3>2
  <2>10. expr.x \in Exprs /\ expr.y \in Exprs
    <3>1. DOMAIN Operands(expr) = {1, 2} /\ Operands(expr)[1] = expr.x /\ Operands(expr)[2] = expr.y
      BY <2>5
    <3>2. \A i \in DOMAIN Operands(expr) : Operands(expr)[i] \in Exprs
      BY <2>7, OperandsAre
    <3>3. QED
      BY <3>1, <3>2
  <2>11. IsValue(a) /\ IsValue(b)
    <3>1. \A e \in Exprs : Value(env)[e] = Panic \/ IsValue(Value(env)[e])
      BY <2>1, ValuesAre
    <3>2. QED
      BY <2>2, <2>3, <2>9, <2>10, <3>1 DEF Panic
  <2>12. val = Binary(Flip(expr.o), b, a)
    BY <2>9, <2>11, FlippedComparison
  <2>13. a.t # "nan" /\ b.t # "nan" => val # Binary(Opposite(expr.o), a, b)
    BY <2>9, <2>11, OppositeComparison
  <2>14. QED
    BY <2>2, <2>3, <2>12, <2>13
<1>2. QED
  BY <1>1, EvaluatedOnceInvariant, PTL
=============================================================================
