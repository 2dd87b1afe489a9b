--------------------------- MODULE VueListProofs ---------------------------
(***************************************************************************)
(* What VueList guarantees for templates of any size and depth: which      *)
(* templates are refused, to which v-if a v-else is given, what is shown   *)
(* for any values of the conditions, and which node of a component has the *)
(* attributes of its caller.                                               *)
(***************************************************************************)
EXTENDS VueList, FiniteSetTheorems, WellFoundedInduction, TLAPS

\* No element has two of v-if, v-else-if and v-else.  (An element with v-if and
\* v-else is put into its own ElseIf, and is lost.)
OneMark == \A m \in Markup : \A a, b \in m.marks : a = b

\* The nodes whose call of parseList has not returned.
Open == {n \in Read : home[n] = None /\ ~ (IsComment(n) /\ SkipComment)}

\* The calls are nested: each open node is the last node of its list, and the last
\* open node below its parent.
Nested ==
  /\ list \in Open \cup {Root}
  /\ \A n \in Read : up[n] < n
  /\ \A n \in Nodes \ Read : home[n] = None
  /\ \A d \in Open : up[d] \in Open \cup {Root} /\ d <= list
  /\ \A c, d \in Open : c < d => c <= up[d]
  /\ \A d \in Open : \A m \in Read : up[m] = up[d] => m <= d

\* The nodes of a list that ifVueEle depends on.
Finished(l) == {n \in Read : up[n] = l /\ ~ IsComment(n) /\ home[n] # None}

\* What ifVueEle stands for: the v-if of the chain that the list ends with.
ChainAtEnd(l) ==
  /\ ifEle[l] = None =>
       \A m \in Finished(l) : (\A k \in Finished(l) : k <= m) =>
         ~ Has(m, "if") /\ ~ Has(m, "elseif")
  /\ ifEle[l] # None =>
       /\ ifEle[l] \in Finished(l) /\ Has(ifEle[l], "if")
       /\ \A m \in Finished(l) : m > ifEle[l] =>
            Has(m, "elseif") /\ home[m] = ifEle[l]

Chains == \A l \in Open \cup {Root} : ChainAtEnd(l)

\* A node that is not in its list is in the ElseIf of a node.
HomesAreNodes == \A n \in Read : home[n] \notin {up[n], None} => home[n] \in Read

FinishedElse ==
  \A n \in Read : home[n] # None /\ IsElse(n) => \E m \in Read : Follows(n, m)

Outcome ==
  /\ status = "done" => list = Root
  /\ status = "error" =>
       list # Root /\ IsElse(list) /\ ~ \E m \in Read : Follows(list, m)

IInv ==
  /\ TypeOK
  /\ Nested
  /\ Chains
  /\ ElseBelongsToIf
  /\ HomesAreNodes
  /\ FinishedElse
  /\ Outcome

-----------------------------------------------------------------------------

LEMMA NoneIsNoNode == None \in Nat /\ None \notin Nodes /\ None # Root /\ Root \notin Nodes
BY BoundAssumption DEF None, Nodes, Root

LEMMA ReadNodes ==
  ASSUME TypeOK
  PROVE  /\ read \in Nat /\ Read \subseteq Nodes /\ MaxNodes \in Nat
         /\ \A n \in Nodes : n \in Nat
         /\ \A n \in Nodes : node[n] \in Markup /\ up[n] \in Nat /\ home[n] \in Nat
BY BoundAssumption, NoneIsNoNode DEF TypeOK, Read, Nodes, Root, None

\* A set of nodes that is not empty has a last one.
LEMMA LastNode ==
  ASSUME NEW S, S \subseteq Nodes, S # {}
  PROVE  \E m \in S : \A k \in S : k <= m
<1>1. MaxNodes \in Nat
  BY BoundAssumption
<1> DEFINE T == {MaxNodes - k : k \in S}
<1>2. T \subseteq Nat /\ T # {}
  <2>1. PICK k \in S : TRUE
    OBVIOUS
  <2>2. MaxNodes - k \in T
    OBVIOUS
  <2>3. \A n \in S : n \in 1 .. MaxNodes
    BY DEF Nodes
  <2>4. QED
    BY <1>1, <2>2, <2>3
<1>3. PICK x \in T : \A y \in T : <<y, x>> \notin OpToRel(<, Nat)
  BY <1>2, WFMin, NatLessThanWellFounded, Zenon
<1>4. PICK m \in S : x = MaxNodes - m
  OBVIOUS
<1>5. ASSUME NEW k \in S PROVE k <= m
  <2>1. MaxNodes - k \in T /\ MaxNodes - k \in Nat /\ x \in Nat
    BY <1>2
  <2>2. ~ (MaxNodes - k < x)
    BY <1>3, <2>1 DEF OpToRel
  <2>3. k \in Nat /\ m \in Nat
    BY DEF Nodes
  <2>4. QED
    BY <1>1, <1>4, <2>2, <2>3
<1>6. QED
  BY <1>5

\* Texts and comments carry no v-else; with OneMark no element carries two marks.
LEMMA MarksOf ==
  ASSUME TypeOK, OneMark, NEW n \in Nodes
  PROVE  /\ IsElse(n) => ~ IsComment(n)
         /\ Has(n, "if") => ~ IsElse(n) /\ ~ IsComment(n)
         /\ Has(n, "elseif") => ~ Has(n, "else")
<1>1. node[n] \in Markup
  BY DEF TypeOK
<1>2. node[n].kind = "comment" => node[n].marks = {}
  BY <1>1, MarkupAssumption
<1>3. \A a, b \in node[n].marks : a = b
  BY <1>1 DEF OneMark
<1>4. QED
  BY <1>2, <1>3 DEF IsElse, IsComment, Has

\* When the call for the children of v returns, the finished nodes of the list of v
\* are exactly those in front of v.
LEMMA AllBefore ==
  ASSUME TypeOK, Nested, NEW v \in Open
  PROVE  Finished(up[v]) = Before(v)
<1>1. v \in Read /\ v \in Nat /\ Read \subseteq Nodes /\ home[v] = None
  BY ReadNodes DEF Open, Read, TypeOK
<1>2. ASSUME NEW m \in Finished(up[v]) PROVE m \in Before(v)
  <2>1. m \in Read /\ m <= v /\ m # v /\ m \in Nat
    BY <1>1, <1>2, ReadNodes DEF Finished, Nested
  <2>2. QED
    BY <1>1, <1>2, <2>1 DEF Finished, Before
<1>3. ASSUME NEW m \in Before(v) PROVE m \in Finished(up[v])
  <2>1. m \in Read /\ m < v /\ up[m] = up[v] /\ ~ IsComment(m) /\ m \in Nat
    BY <1>3, ReadNodes DEF Before
  <2>2. CASE home[m] = None
    <3>1. m \in Open
      BY <2>1, <2>2 DEF Open
    <3>2. v <= m
      BY <1>1, <2>1, <3>1 DEF Nested
    <3>3. QED
      BY <1>1, <2>1, <3>2
  <2>3. CASE home[m] # None
    BY <2>1, <2>3 DEF Finished
  <2>4. QED
    BY <2>2, <2>3
<1>4. QED
  BY <1>2, <1>3

-----------------------------------------------------------------------------

LEMMA InitIInv == Init => IInv
<1> SUFFICES ASSUME Init PROVE IInv
  OBVIOUS
<1>1. Read = {} /\ Open = {}
  BY DEF Init, Read, Open
<1>2. TypeOK
  <2>1. (CHOOSE m \in Markup : TRUE) \in Markup
    BY MarkupAssumption
  <2>2. QED
    BY <2>1, BoundAssumption, NoneIsNoNode DEF Init, TypeOK
<1>3. Nested /\ ElseBelongsToIf /\ HomesAreNodes /\ FinishedElse
  BY <1>1 DEF Nested, ElseBelongsToIf, HomesAreNodes, FinishedElse, Init
<1>4. Chains
  <2>1. ASSUME NEW l \in Open \cup {Root} PROVE ChainAtEnd(l)
    <3>1. Finished(l) = {} /\ ifEle[l] = None
      BY <1>1 DEF Finished, Init
    <3>2. QED
      BY <3>1 DEF ChainAtEnd
  <2>2. QED
    BY <2>1 DEF Chains
<1>5. Outcome
  BY DEF Outcome, Init
<1>6. QED
  BY <1>2, <1>3, <1>4, <1>5 DEF IInv

-----------------------------------------------------------------------------
(* Meeting a node *)

\* The new node is the last of all; nothing is said of it yet.
LEMMA EnterFacts ==
  ASSUME IInv, NEW m \in Markup, Enter(m), NEW n, n = read + 1
  PROVE  /\ n \in Nodes /\ n \in Nat /\ n \notin Read /\ Read' = Read \cup {n}
         /\ node'[n] = m /\ up'[n] = list /\ list \in Nat /\ list < n
         /\ \A k \in Read : k < n /\ node'[k] = node[k] /\ up'[k] = up[k]
         /\ home' = home /\ status = "parsing" /\ status' = "parsing"
<1>1. read \in Nat /\ MaxNodes \in Nat /\ read < MaxNodes /\ n = read + 1
  BY ReadNodes DEF IInv, Enter
<1>2. n \in Nodes /\ n \in Nat /\ n \notin Read /\ \A k \in Read : k < n
  BY <1>1 DEF Nodes, Read
<1>3. read' = n /\ node' = [node EXCEPT ![n] = m] /\ up' = [up EXCEPT ![n] = list]
  BY DEF Enter
<1>4. Read' = Read \cup {n}
  BY <1>1, <1>3 DEF Read
<1>5. node \in [Nodes -> Markup] /\ up \in [Nodes -> Nodes \cup {Root}] /\ Read \subseteq Nodes
  BY ReadNodes DEF IInv, TypeOK
<1>6. list \in Nat /\ list < n
  BY <1>1 DEF IInv, TypeOK, Read, Root
<1>7. /\ node'[n] = m /\ up'[n] = list
      /\ \A k \in Read : node'[k] = node[k] /\ up'[k] = up[k]
  BY <1>2, <1>3, <1>5
<1>8. QED
  BY <1>2, <1>4, <1>6, <1>7 DEF Enter

LEMMA EnterTypeOK ==
  ASSUME IInv, NEW m \in Markup, Enter(m)
  PROVE  TypeOK'
<1> DEFINE n == read + 1
<1>1. /\ n \in Nodes /\ n \notin Read /\ Read' = Read \cup {n}
      /\ \A k \in Read : node'[k] = node[k] /\ up'[k] = up[k]
  BY EnterFacts, Zenon
<1>2. /\ read' \in 0 .. MaxNodes
      /\ node' \in [Nodes -> Markup]
      /\ up' \in [Nodes -> Nodes \cup {Root}]
      /\ list' \in Read' \cup {Root}
      /\ ifEle' \in [Nodes \cup {Root} -> Nodes \cup {None}]
  <2>1. TypeOK
    BY DEF IInv
  <2>2. read' = n /\ node' = [node EXCEPT ![n] = m] /\ up' = [up EXCEPT ![n] = list]
    BY DEF Enter
  <2>3. read' \in 0 .. MaxNodes
    BY <2>2, <1>1, BoundAssumption DEF Nodes
  <2>4. Read \subseteq Nodes
    BY <2>1, ReadNodes
  <2>5. node' \in [Nodes -> Markup] /\ up' \in [Nodes -> Nodes \cup {Root}]
    BY <2>1, <2>2, <2>4 DEF TypeOK
  <2>6. list' = list \/ list' = n
    BY DEF Enter
  <2>7. ifEle' = ifEle \/ ifEle' = [ifEle EXCEPT ![n] = None]
    BY DEF Enter
  <2>8. ifEle' \in [Nodes \cup {Root} -> Nodes \cup {None}]
    BY <2>1, <2>7, <1>1 DEF TypeOK
  <2>9. QED
    BY <2>1, <2>3, <2>5, <2>6, <2>8, <1>1 DEF TypeOK
<1>3. ASSUME NEW l \in Nodes \cup {Root}, ifEle'[l] # None
      PROVE  ifEle'[l] \in Read' /\ up'[ifEle'[l]] = l /\ "if" \in node'[ifEle'[l]].marks
  <2>1. ifEle'[l] = ifEle[l]
    BY <1>3 DEF Enter, IInv, TypeOK
  <2>2. ifEle[l] \in Read /\ up[ifEle[l]] = l /\ "if" \in node[ifEle[l]].marks
    BY <1>3, <2>1 DEF IInv, TypeOK
  <2>3. QED
    BY <1>1, <2>1, <2>2
<1>4. UNCHANGED <<home, status, top, attr>>
  BY DEF Enter
<1>5. QED
  BY <1>2, <1>3, <1>4 DEF IInv, TypeOK

\* A comment that is skipped is never open; any other node is, and is innermost.
LEMMA EnterOpen ==
  ASSUME IInv, NEW m \in Markup, Enter(m), NEW n, n = read + 1
  PROVE  /\ home[n] = None
         /\ \/ Open' = Open /\ list' = list /\ ifEle' = ifEle
            \/ /\ Open' = Open \cup {n} /\ list' = n
               /\ ifEle' = [ifEle EXCEPT ![n] = None]
<1>1. /\ n \in Nodes /\ n \notin Read /\ Read' = Read \cup {n} /\ home' = home
      /\ node'[n] = m /\ \A k \in Read : node'[k] = node[k]
  BY EnterFacts, Zenon
<1>2. home[n] = None
  BY <1>1 DEF IInv, Nested
<1>3. \A k \in Read : k \in Open' <=> k \in Open
  BY <1>1 DEF Open, IsComment, None
<1>4. n \notin Open /\ Open \subseteq Read /\ Open' \subseteq Read \cup {n}
  BY <1>1 DEF Open
<1>5. None' = None
  BY DEF None
<1>6. n \in Open' <=> ~ (m.kind = "comment" /\ SkipComment)
  BY <1>1, <1>2, <1>5 DEF Open, IsComment
<1>7. CASE m.kind = "comment" /\ SkipComment
  BY <1>2, <1>3, <1>4, <1>6, <1>7 DEF Enter
<1>8. CASE ~ (m.kind = "comment" /\ SkipComment)
  <2>1. list' = n /\ ifEle' = [ifEle EXCEPT ![n] = None]
    BY <1>8 DEF Enter
  <2>2. QED
    BY <1>2, <1>3, <1>4, <1>6, <1>8, <2>1
<1>9. QED
  BY <1>7, <1>8

LEMMA EnterNested ==
  ASSUME IInv, NEW m \in Markup, Enter(m)
  PROVE  Nested'
<1> DEFINE n == read + 1
<1>1. /\ n \in Nodes /\ n \in Nat /\ n \notin Read /\ Read' = Read \cup {n}
      /\ up'[n] = list /\ list \in Nat /\ list < n
      /\ \A k \in Read : k < n /\ up'[k] = up[k]
      /\ home' = home
  BY EnterFacts, Zenon
<1>2. \/ Open' = Open /\ list' = list
      \/ Open' = Open \cup {n} /\ list' = n
  BY EnterOpen, Zenon
<1>3. /\ list \in Open \cup {Root} /\ Open \subseteq Read
      /\ \A k \in Read : up[k] < k
      /\ \A d \in Open : up[d] \in Open \cup {Root} /\ d <= list
      /\ \A c, d \in Open : c < d => c <= up[d]
      /\ \A d \in Open : \A k \in Read : up[k] = up[d] => k <= d
      /\ \A k \in Nodes \ Read : home[k] = None
  BY DEF IInv, Nested, Open
<1>4. Read \subseteq Nat /\ Root = 0
  BY ReadNodes DEF IInv, Root
<1>5. list' \in Open' \cup {Root}
  BY <1>2, <1>3
<1>6. \A k \in Read' : up'[k] < k
  BY <1>1, <1>3
<1>7. \A k \in Nodes \ Read' : home'[k] = None'
  BY <1>1, <1>3 DEF None
<1>8. \A d \in Open' : up'[d] \in Open' \cup {Root} /\ d <= list'
  <2>1. ASSUME NEW d \in Open PROVE up'[d] \in Open' \cup {Root} /\ d <= list'
    BY <1>1, <1>2, <1>3, <1>4
  <2>2. up'[n] \in Open' \cup {Root} /\ n <= n
    BY <1>1, <1>2, <1>3
  <2>3. QED
    BY <1>2, <2>1, <2>2
<1>9. \A c, d \in Open' : c < d => c <= up'[d]
  <2>1. ASSUME NEW c \in Open', NEW d \in Open', c < d PROVE c <= up'[d]
    <3>1. d # n => c \in Open /\ d \in Open
      <4>1. d # n => d \in Open /\ d \in Nat /\ d < n
        BY <1>1, <1>2, <1>3, <1>4
      <4>2. QED
        BY <1>1, <1>2, <2>1, <4>1
    <3>2. d = n => c \in Open
      BY <1>1, <1>2, <1>3, <1>4, <2>1
    <3>3. QED
      BY <1>1, <1>3, <2>1, <3>1, <3>2
  <2>2. QED
    BY <2>1
<1>10. \A d \in Open' : \A k \in Read' : up'[k] = up'[d] => k <= d
  <2>1. ASSUME NEW d \in Open, NEW k \in Read, up'[k] = up'[d] PROVE k <= d
    BY <1>1, <1>3, <2>1
  <2>2. ASSUME NEW d \in Open, up'[n] = up'[d] PROVE FALSE
    \* d would be in the list of list, but list is the last open node
    <3>1. up[d] = list /\ up[d] < d /\ d <= list /\ d \in Nat
      BY <1>1, <1>3, <1>4, <2>2
    <3>2. QED
      BY <1>1, <3>1
  <2>3. \A k \in Read' : k <= n
    BY <1>1, <1>4
  <2>4. QED
    BY <1>1, <1>2, <2>1, <2>2, <2>3
<1>11. QED
  BY <1>5, <1>6, <1>7, <1>8, <1>9, <1>10 DEF Nested, Root

LEMMA EnterChains ==
  ASSUME IInv, NEW m \in Markup, Enter(m)
  PROVE  Chains'
<1>0. PICK n : n = read + 1
  OBVIOUS
<1>1. /\ n \in Nodes /\ n \in Nat /\ n \notin Read /\ Read' = Read \cup {n}
      /\ \A k \in Read : k < n /\ node'[k] = node[k] /\ up'[k] = up[k]
      /\ up'[n] = list /\ list \in Nat /\ list < n
      /\ home' = home
  BY <1>0, EnterFacts, Zenon
<1>2. home[n] = None /\ None' = None
  BY <1>0, EnterOpen, Zenon DEF None
<1>3. \A l : Finished(l)' = Finished(l)
  BY <1>1, <1>2 DEF Finished, IsComment
<1>4. ASSUME NEW l \in Open \cup {Root}, ifEle'[l] = ifEle[l] PROVE ChainAtEnd(l)'
  <2>1. ChainAtEnd(l)
    BY <1>4 DEF IInv, Chains
  <2>2. \A k \in Finished(l) : /\ (Has(k, "if"))' = Has(k, "if")
                              /\ (Has(k, "elseif"))' = Has(k, "elseif")
    BY <1>1 DEF Finished, Has
  <2>3. ifEle[l] # None => ifEle[l] \in Finished(l)
    BY <2>1 DEF ChainAtEnd
  <2>4. QED
    BY <1>1, <1>2, <1>3, <1>4, <2>1, <2>2, <2>3 DEF ChainAtEnd
<1>5. ASSUME ifEle'[n] = None PROVE ChainAtEnd(n)'
  <2>1. ASSUME NEW k \in Read PROVE up[k] # n
    <3>1. k < n /\ up[k] < k /\ k \in Nat /\ up[k] \in Nat
      BY <1>1, ReadNodes DEF IInv, Nested
    <3>2. QED
      BY <1>1, <3>1
  <2>2. QED
    BY <1>2, <1>3, <1>5, <2>1 DEF ChainAtEnd, Finished
<1>6. ifEle \in [Nodes \cup {Root} -> Nodes \cup {None}] /\ Open \subseteq Nodes
  BY ReadNodes DEF IInv, TypeOK, Open
<1>7. n # Root
  BY <1>1 DEF Root
<1>8. \/ Open' = Open /\ ifEle' = ifEle
      \/ Open' = Open \cup {n} /\ ifEle' = [ifEle EXCEPT ![n] = None]
  BY <1>0, EnterOpen, Zenon
<1>9. ASSUME NEW l \in Open' \cup {Root} PROVE ChainAtEnd(l)'
  <2>1. CASE l = n
    <3>1. n \notin Open
      BY <1>1 DEF Open
    <3>2. ifEle'[n] = None
      BY <1>1, <1>6, <1>7, <1>8, <1>9, <2>1, <3>1
    <3>3. QED
      BY <1>5, <2>1, <3>2
  <2>2. CASE l # n
    <3>1. l \in Open \cup {Root} /\ ifEle'[l] = ifEle[l]
      BY <1>6, <1>8, <1>9, <2>2
    <3>2. QED
      BY <1>4, <3>1
  <2>3. QED
    BY <2>1, <2>2
<1>10. QED
  BY <1>9 DEF Chains, Root

LEMMA EnterElse ==
  ASSUME IInv, NEW m \in Markup, Enter(m)
  PROVE  ElseBelongsToIf' /\ HomesAreNodes' /\ FinishedElse' /\ Outcome'
<1>0. PICK n : n = read + 1
  OBVIOUS
<1>1. /\ n \in Nodes /\ n \in Nat /\ n \notin Read /\ Read' = Read \cup {n}
      /\ \A k \in Read : k < n /\ node'[k] = node[k] /\ up'[k] = up[k]
      /\ home' = home /\ status = "parsing" /\ status' = "parsing"
  BY <1>0, EnterFacts, Zenon
<1>2. home[n] = None /\ None' = None
  BY <1>0, EnterOpen, Zenon DEF None
<1>3. Read \subseteq Nodes /\ \A k \in Nodes : k \in Nat
  BY ReadNodes DEF IInv
<1>4. ASSUME NEW k \in Read PROVE Before(k)' = Before(k)
  <2>1. ~ (n < k)
    <3>1. k < n /\ k \in Nat
      BY <1>1, <1>3, <1>4
    <3>2. QED
      BY <1>1, <3>1
  <2>2. QED
    BY <1>1, <1>4, <2>1 DEF Before, IsComment
<1>5. \A k \in Read : /\ IsElse(k)' = IsElse(k)
                     /\ Has(k, "if")' = Has(k, "if")
                     /\ Has(k, "elseif")' = Has(k, "elseif")
  BY <1>1 DEF IsElse, Has
<1>6. ASSUME NEW k \in Read PROVE Before(k) \subseteq Read
  BY DEF Before
<1>7. ElseBelongsToIf'
  <2>1. ASSUME NEW k \in Read', home'[k] \notin {up'[k], None'}
        PROVE  k \in Read /\ home[k] \notin {up[k], None}
    BY <1>1, <1>2, <2>1
  <2>2. ASSUME NEW k \in Read, home[k] \notin {up[k], None}
        PROVE  /\ IsElse(k)' /\ home'[k] < k /\ up'[home'[k]] = up'[k] /\ Has(home[k], "if")'
               /\ \A j \in Before(k)' : j > home'[k] => Has(j, "elseif")' /\ home'[j] = home'[k]
    <3>1. /\ IsElse(k) /\ home[k] < k /\ up[home[k]] = up[k] /\ Has(home[k], "if")
          /\ \A j \in Before(k) : j > home[k] => Has(j, "elseif") /\ home[j] = home[k]
      BY <2>2 DEF IInv, ElseBelongsToIf
    <3>2. home[k] \in Read
      BY <2>2 DEF IInv, HomesAreNodes
    <3>3. QED
      BY <1>1, <1>4, <1>5, <1>6, <2>2, <3>1, <3>2
  <2>3. QED
    BY <1>1, <2>1, <2>2 DEF ElseBelongsToIf
<1>8. FinishedElse'
  <2>1. ASSUME NEW k \in Read', home'[k] # None', IsElse(k)'
        PROVE  \E j \in Read' : Follows(k, j)'
    <3>1. k \in Read /\ home[k] # None /\ IsElse(k)
      BY <1>1, <1>2, <1>5, <2>1
    <3>2. PICK j \in Read : Follows(k, j)
      BY <3>1 DEF IInv, FinishedElse
    <3>3. Follows(k, j)'
      BY <1>4, <1>5, <3>1, <3>2 DEF Follows
    <3>4. QED
      BY <1>1, <3>3
  <2>2. QED
    BY <2>1 DEF FinishedElse
<1>9. Outcome' /\ HomesAreNodes'
  BY <1>1, <1>2 DEF Outcome, HomesAreNodes, IInv, Nodes
<1>10. QED
  BY <1>7, <1>8, <1>9

-----------------------------------------------------------------------------
(* The call for the children of a node has returned *)

Return(v) == Keep(v) \/ Attach(v)

LEMMA ReturnFacts ==
  ASSUME IInv, NEW v \in Nodes, Return(v)
  PROVE  /\ v \in Open /\ v \in Read /\ v = list /\ v \in Nat
         /\ Read' = Read /\ node' = node /\ up' = up /\ list' = up[v]
         /\ home'[v] # None /\ home[v] = None
         /\ \A k \in Nodes : k # v => home'[k] = home[k]
         /\ Open' = Open \ {v}
         /\ up[v] \in (Open \ {v}) \cup {Root} /\ up[v] \in Nat /\ up[v] < v
         /\ status = "parsing" /\ status' = "parsing"
<1>1. TypeOK /\ Nested
  BY DEF IInv
<1>2. v = list /\ v # Root
  BY DEF Return, Keep, Attach
<1>3. v \in Open
  BY <1>1, <1>2 DEF Nested
<1>4. v \in Read /\ home[v] = None /\ v \in Nat /\ up[v] \in Nat
  BY <1>1, <1>3, ReadNodes DEF Open
<1>5. UNCHANGED <<read, node, up>> /\ list' = up[v] /\ status = "parsing" /\ status' = status
  BY DEF Return, Keep, Attach
<1>6. PICK h : h # None /\ home' = [home EXCEPT ![v] = h]
  <2>1. CASE Keep(v)
    BY <1>1, <2>1, NoneIsNoNode DEF Keep, TypeOK
  <2>2. CASE Attach(v)
    BY <2>2 DEF Attach
  <2>3. QED
    BY <2>1, <2>2 DEF Return
<1>7. home'[v] # None /\ \A k \in Nodes : k # v => home'[k] = home[k]
  BY <1>1, <1>6 DEF TypeOK
<1>8. Read' = Read /\ None' = None
  BY <1>5 DEF Read, None
<1>9. Open' = Open \ {v}
  <2>1. \A k \in Read : IsComment(k)' = IsComment(k)
    BY <1>5 DEF IsComment
  <2>2. Read \subseteq Nodes
    BY <1>1, ReadNodes
  <2>3. QED
    BY <1>7, <1>8, <2>1, <2>2 DEF Open
<1>10. up[v] < v /\ up[v] # v
  BY <1>1, <1>4 DEF Nested
<1>11. up[v] \in (Open \ {v}) \cup {Root}
  BY <1>1, <1>3, <1>10 DEF Nested
<1>12. QED
  BY <1>2, <1>3, <1>4, <1>5, <1>7, <1>8, <1>9, <1>10, <1>11

LEMMA ReturnNested ==
  ASSUME IInv, NEW v \in Nodes, Return(v)
  PROVE  Nested'
<1>1. /\ v \in Open /\ v = list /\ v \in Nat
      /\ Read' = Read /\ up' = up /\ list' = up[v] /\ Open' = Open \ {v}
      /\ up[v] \in (Open \ {v}) \cup {Root} /\ v \in Read
      /\ \A k \in Nodes : k # v => home'[k] = home[k]
  BY ReturnFacts, Zenon
<1>2. /\ \A k \in Read : up[k] < k
      /\ \A k \in Nodes \ Read : home[k] = None
      /\ \A d \in Open : up[d] \in Open \cup {Root} /\ d <= list
      /\ \A c, d \in Open : c < d => c <= up[d]
      /\ \A d \in Open : \A m \in Read : up[m] = up[d] => m <= d
  BY DEF IInv, Nested
<1>3. \A d \in Open : d \in Nat /\ up[d] \in Nat /\ d \in Read
  BY ReadNodes DEF IInv, Open
<1>4. ASSUME NEW d \in Open' PROVE up[d] \in Open' \cup {Root} /\ d <= up[v]
  <2>1. d \in Open /\ d # v /\ d < v
    BY <1>1, <1>2, <1>3, <1>4
  <2>2. up[d] # v
    BY <1>2, <1>3, <2>1, <1>1
  <2>3. QED
    BY <1>1, <1>2, <2>1, <2>2
<1>5. \A k \in Nodes \ Read' : home'[k] = None'
  BY <1>1, <1>2 DEF None
<1>6. QED
  BY <1>1, <1>2, <1>4, <1>5 DEF Nested, Root

LEMMA ReturnTypeOK ==
  ASSUME IInv, NEW v \in Nodes, Return(v)
  PROVE  TypeOK'
<1>1. /\ v \in Read /\ v = list /\ Read' = Read /\ node' = node /\ up' = up /\ list' = up[v]
      /\ up[v] \in (Open \ {v}) \cup {Root} /\ status' = "parsing"
  BY ReturnFacts, Zenon
<1>2. TypeOK /\ Open \subseteq Read
  BY DEF IInv, Open
<1>3. read' = read /\ top' = top /\ attr' = attr
  BY DEF Return, Keep, Attach
<1>4. Opener(v) # None => /\ Opener(v) \in Read /\ Opener(v) \in Nodes
                         /\ up[Opener(v)] = up[v] /\ "if" \in node[Opener(v)].marks
  <2>1. up[v] \in Nodes \cup {Root}
    BY <1>2 DEF TypeOK
  <2>2. ifEle[up[v]] # None => /\ ifEle[up[v]] \in Read /\ up[ifEle[up[v]]] = up[v]
                              /\ "if" \in node[ifEle[up[v]]].marks
    BY <1>2, <2>1 DEF TypeOK
  <2>3. Read \subseteq Nodes
    BY <1>2, ReadNodes
  <2>4. QED
    BY <1>1, <2>2, <2>3 DEF Opener, Has
<1>5. PICK e : ifEle' = [ifEle EXCEPT ![up[v]] = e] /\ e \in {Opener(v), None}
  BY DEF Return, Keep, Attach
<1>6. /\ ifEle' \in [Nodes \cup {Root} -> Nodes \cup {None}]
      /\ \A l \in Nodes \cup {Root} : ifEle'[l] # None =>
           ifEle'[l] \in Read /\ up[ifEle'[l]] = l /\ "if" \in node[ifEle'[l]].marks
  BY <1>2, <1>4, <1>5 DEF TypeOK
<1>7. home' \in [Nodes -> Nodes \cup {Root, None}]
  <2>1. CASE Keep(v)
    BY <1>2, <2>1 DEF Keep, TypeOK
  <2>2. CASE Attach(v)
    BY <1>2, <1>4, <2>2 DEF Attach, TypeOK
  <2>3. QED
    BY <2>1, <2>2 DEF Return
<1>8. QED
  BY <1>1, <1>2, <1>3, <1>6, <1>7 DEF TypeOK, None, Root, Nodes

\* The list of v now ends with v; all others end as before.
LEMMA ReturnFinished ==
  ASSUME IInv, OneMark, NEW v \in Nodes, Return(v)
  PROVE  /\ \A l : l # up[v] => Finished(l)' = Finished(l)
         /\ IsComment(v) => Finished(up[v])' = Finished(up[v])
         /\ ~ IsComment(v) => Finished(up[v])' = Finished(up[v]) \cup {v}
         /\ \A m \in Finished(up[v]) : m < v /\ m \in Nat /\ home'[m] = home[m]
<1>1. /\ v \in Open /\ v \in Read /\ Read' = Read /\ node' = node /\ up' = up
      /\ home'[v] # None /\ home[v] = None
      /\ \A k \in Nodes : k # v => home'[k] = home[k]
  BY ReturnFacts, Zenon
<1>2. Read \subseteq Nodes /\ None' = None /\ \A k \in Nodes : k \in Nat
  BY ReadNodes DEF IInv, None
<1>3. \A k \in Read : k # v => home'[k] = home[k]
  BY <1>1, <1>2
<1>4. \A k : IsComment(k)' = IsComment(k)
  BY <1>1 DEF IsComment
<1>5. \A l : l # up[v] => Finished(l)' = Finished(l)
  BY <1>1, <1>2, <1>3, <1>4 DEF Finished
<1>6. /\ IsComment(v) => Finished(up[v])' = Finished(up[v])
      /\ ~ IsComment(v) => Finished(up[v])' = Finished(up[v]) \cup {v}
  BY <1>1, <1>2, <1>3, <1>4 DEF Finished
<1>7. Finished(up[v]) = Before(v)
  BY <1>1, AllBefore DEF IInv
<1>8. ASSUME NEW m \in Finished(up[v]) PROVE m < v /\ m \in Nat /\ home'[m] = home[m]
  <2>1. m \in Read /\ m < v /\ m \in Nat
    BY <1>2, <1>7, <1>8 DEF Before
  <2>2. m # v
    BY <1>1, <1>8 DEF Finished
  <2>3. QED
    BY <1>3, <2>1, <2>2
<1>9. QED
  BY <1>5, <1>6, <1>8

LEMMA ReturnChains ==
  ASSUME IInv, OneMark, NEW v \in Nodes, Return(v)
  PROVE  Chains'
<1>1. /\ v \in Open /\ v \in Read /\ v \in Nat /\ Open' = Open \ {v} /\ node' = node /\ up' = up
      /\ up[v] \in Open \cup {Root} /\ Read' = Read
      /\ home[v] = None
      /\ \A k \in Nodes : k # v => home'[k] = home[k]
  BY ReturnFacts, Zenon
<1>2. /\ \A l : l # up[v] => Finished(l)' = Finished(l)
      /\ IsComment(v) => Finished(up[v])' = Finished(up[v])
      /\ ~ IsComment(v) => Finished(up[v])' = Finished(up[v]) \cup {v}
      /\ \A m \in Finished(up[v]) : m < v /\ m \in Nat /\ home'[m] = home[m]
  BY ReturnFinished, Zenon
<1>3. None' = None /\ \A k, mark : Has(k, mark)' = Has(k, mark)
  BY <1>1 DEF None, Has
<1>4. /\ ifEle \in [Nodes \cup {Root} -> Nodes \cup {None}]
      /\ Open \subseteq Nodes /\ up[v] \in Nodes \cup {Root} /\ Read \subseteq Nodes
  BY <1>1, ReadNodes DEF IInv, TypeOK, Open
<1>5. ASSUME NEW l \in Open' \cup {Root}, l # up[v] PROVE ChainAtEnd(l)'
  <2>1. ChainAtEnd(l)
    BY <1>1, <1>5 DEF IInv, Chains
  <2>2. ifEle'[l] = ifEle[l]
    BY <1>1, <1>4, <1>5 DEF Return, Keep, Attach
  <2>3. \A m \in Finished(l) : home'[m] = home[m]
    BY <1>1, <1>4 DEF Finished
  <2>4. QED
    BY <1>2, <1>3, <1>5, <2>1, <2>2, <2>3 DEF ChainAtEnd
<1>6. PICK k : k = up[v]
  OBVIOUS
<1>7. ChainAtEnd(k)'
  <2>1. ChainAtEnd(k)
    BY <1>1, <1>6 DEF IInv, Chains
  <2>2. k \in Nodes \cup {Root}
    BY <1>4, <1>6
  <2>3. \A m \in Finished(k) : m < v /\ m \in Nat /\ home'[m] = home[m]
    BY <1>2, <1>6
  <2>4. /\ IsElse(v) => ~ IsComment(v)
        /\ Has(v, "if") => ~ IsElse(v) /\ ~ IsComment(v)
        /\ Has(v, "elseif") => ~ Has(v, "else")
    BY MarksOf DEF IInv
  <2>5. CASE IsComment(v)
    <3>1. ifEle'[k] = ifEle[k] /\ Finished(k)' = Finished(k)
      BY <1>2, <1>4, <1>6, <2>4, <2>5 DEF Return, Keep, Attach, Opener
    <3>2. QED
      BY <1>3, <2>1, <2>3, <3>1 DEF ChainAtEnd
  <2>6. CASE ~ IsComment(v) /\ Has(v, "if")
    <3>1. ifEle'[k] = v /\ Finished(k)' = Finished(k) \cup {v}
      BY <1>2, <1>4, <1>6, <2>4, <2>6 DEF Return, Keep, Attach, Opener
    <3>2. v # None
      BY NoneIsNoNode
    <3>3. \A m \in Finished(k)' : ~ (m > v)
      BY <1>1, <2>3, <3>1
    <3>4. QED
      BY <1>3, <2>6, <3>1, <3>2, <3>3 DEF ChainAtEnd
  <2>7. CASE ~ IsComment(v) /\ ~ Has(v, "if") /\ ~ Has(v, "elseif")
    <3>1. ifEle'[k] = None /\ Finished(k)' = Finished(k) \cup {v}
      BY <1>2, <1>4, <1>6, <2>7 DEF Return, Keep, Attach, Opener, IsElse
    <3>2. ASSUME NEW m \in Finished(k)', \A j \in Finished(k)' : j <= m PROVE m = v
      <4>1. v <= m
        BY <3>1, <3>2
      <4>2. QED
        BY <1>1, <2>3, <3>1, <3>2, <4>1
    <3>3. QED
      BY <1>3, <2>7, <3>1, <3>2 DEF ChainAtEnd
  <2>8. CASE Has(v, "elseif")
    <3>1. Attach(v) /\ Opener(v) = ifEle[k] /\ ifEle[k] # None /\ ~ IsComment(v)
      BY <1>6, <2>4, <2>8 DEF Return, Keep, Attach, Opener, IsElse
    <3>2. ifEle'[k] = ifEle[k] /\ Finished(k)' = Finished(k) \cup {v}
      BY <1>2, <1>4, <1>6, <2>8, <3>1 DEF Attach
    <3>3. home'[v] = ifEle[k]
      BY <3>1 DEF Attach, IInv, TypeOK
    <3>4. QED
      BY <1>3, <2>1, <2>3, <2>8, <3>1, <3>2, <3>3 DEF ChainAtEnd
  <2>9. QED
    BY <2>5, <2>6, <2>7, <2>8
<1>8. QED
  BY <1>5, <1>6, <1>7 DEF Chains, Root

\* An open node that has a chain in front of it follows its last part, and one
\* that has none follows nothing.
LEMMA FollowsChain ==
  ASSUME IInv, OneMark, NEW v \in Open
  PROVE  ifEle[up[v]] # None <=> \E m \in Read : Follows(v, m)
<1>1. /\ Finished(up[v]) = Before(v) /\ v \in Read /\ Read \subseteq Nodes
      /\ \A k \in Nodes : k \in Nat
  BY AllBefore, ReadNodes DEF IInv, Open
<1>2. ChainAtEnd(up[v])
  BY DEF IInv, Nested, Chains
<1>3. Before(v) \subseteq Read /\ Before(v) \subseteq Nodes
  BY <1>1 DEF Before
<1>4. ASSUME ifEle[up[v]] # None PROVE \E m \in Read : Follows(v, m)
  <2>1. ifEle[up[v]] \in Before(v) /\ Has(ifEle[up[v]], "if")
    BY <1>1, <1>2, <1>4 DEF ChainAtEnd
  <2>2. PICK m \in Before(v) : \A k \in Before(v) : k <= m
    BY <1>3, <2>1, LastNode
  <2>3. CASE m = ifEle[up[v]]
    BY <1>3, <2>1, <2>2, <2>3 DEF Follows
  <2>4. CASE m # ifEle[up[v]]
    <3>1. m > ifEle[up[v]]
      BY <1>1, <1>3, <2>1, <2>2, <2>4
    <3>2. Has(m, "elseif")
      BY <1>1, <1>2, <1>4, <3>1 DEF ChainAtEnd
    <3>3. QED
      BY <1>3, <2>2, <3>2 DEF Follows
  <2>5. QED
    BY <2>3, <2>4
<1>5. ASSUME ifEle[up[v]] = None, NEW m \in Read, Follows(v, m) PROVE FALSE
  BY <1>1, <1>2, <1>5 DEF ChainAtEnd, Follows
<1>6. QED
  BY <1>4, <1>5

LEMMA ReturnElse ==
  ASSUME IInv, OneMark, NEW v \in Nodes, Return(v)
  PROVE  ElseBelongsToIf' /\ HomesAreNodes' /\ FinishedElse' /\ Outcome'
<1>1. /\ v \in Open /\ v \in Read /\ v \in Nat
      /\ Read' = Read /\ node' = node /\ up' = up /\ home[v] = None
      /\ \A k \in Nodes : k # v => home'[k] = home[k]
      /\ status' = "parsing"
  BY ReturnFacts, Zenon
<1>2. /\ None' = None /\ Read \subseteq Nodes
      /\ \A k : Before(k)' = Before(k) /\ IsElse(k)' = IsElse(k)
      /\ \A k, mark : Has(k, mark)' = Has(k, mark)
      /\ \A k, m : Follows(k, m)' = Follows(k, m)
  BY <1>1, ReadNodes DEF IInv, None, Before, IsElse, Has, Follows, IsComment
<1>3. ASSUME IsElse(v)
      PROVE  /\ home'[v] = ifEle[up[v]] /\ ifEle[up[v]] # None
             /\ ifEle[up[v]] \in Before(v) /\ Has(ifEle[up[v]], "if")
             /\ \A m \in Before(v) : m > ifEle[up[v]] =>
                  Has(m, "elseif") /\ home[m] = ifEle[up[v]]
  <2>1. Attach(v) /\ Opener(v) = ifEle[up[v]]
    BY <1>3, MarksOf DEF Return, Keep, IInv, Opener
  <2>2. home'[v] = ifEle[up[v]] /\ ifEle[up[v]] # None
    BY <2>1 DEF Attach, IInv, TypeOK
  <2>3. ChainAtEnd(up[v]) /\ Finished(up[v]) = Before(v)
    BY <1>1, AllBefore DEF IInv, Nested, Chains
  <2>4. QED
    BY <2>2, <2>3 DEF ChainAtEnd
<1>4. ASSUME ~ IsElse(v) PROVE home'[v] = up[v]
  BY <1>4 DEF Return, Keep, Attach, IInv, TypeOK
<1>5. ASSUME NEW k \in Read, k # v, home[k] \notin {up[k], None}
      PROVE  /\ IsElse(k) /\ home[k] < k /\ up[home[k]] = up[k] /\ Has(home[k], "if")
             /\ \A m \in Before(k) : m > home[k] => Has(m, "elseif") /\ home'[m] = home[k]
             /\ home[k] \in Read
  <2>1. /\ IsElse(k) /\ home[k] < k /\ up[home[k]] = up[k] /\ Has(home[k], "if")
        /\ \A m \in Before(k) : m > home[k] => Has(m, "elseif") /\ home[m] = home[k]
        /\ home[k] \in Read
    BY <1>5 DEF IInv, ElseBelongsToIf, HomesAreNodes
  <2>2. \A m \in Before(k) : m \in Nodes
    BY <1>2 DEF Before
  <2>3. QED
    BY <1>1, <1>5, <2>1, <2>2
<1>6. \A m \in Before(v) : m \in Read /\ m < v /\ up[m] = up[v] /\ home'[m] = home[m]
  <2>1. \A m \in Before(v) : m \in Read /\ m < v /\ up[m] = up[v] /\ m # v
    BY <1>1 DEF Before
  <2>2. QED
    BY <1>1, <1>2, <2>1
<1>7. ElseBelongsToIf'
  BY <1>1, <1>2, <1>3, <1>4, <1>5, <1>6 DEF ElseBelongsToIf
<1>8. HomesAreNodes'
  BY <1>1, <1>2, <1>3, <1>4, <1>5, <1>6 DEF HomesAreNodes
<1>9. FinishedElse'
  <2>1. IsElse(v) => \E m \in Read : Follows(v, m)
    BY <1>1, <1>3, FollowsChain
  <2>2. \A k \in Read : home[k] # None /\ IsElse(k) => \E m \in Read : Follows(k, m)
    BY DEF IInv, FinishedElse
  <2>3. QED
    BY <1>1, <1>2, <2>1, <2>2 DEF FinishedElse
<1>10. Outcome'
  BY <1>1 DEF Outcome
<1>11. QED
  BY <1>7, <1>8, <1>9, <1>10

-----------------------------------------------------------------------------
(* The end of Parse *)

LEMMA MisplacedIInv ==
  ASSUME IInv, OneMark, NEW v \in Nodes, Misplaced(v)
  PROVE  IInv'
<1>1. UNCHANGED <<read, node, up, list, ifEle, home, top, attr>> /\ status' = "error"
  BY DEF Misplaced
<1>2. v = list /\ v \in Open /\ IsElse(v)
  BY DEF Misplaced, IInv, Nested
<1>3. ifEle[up[v]] = None
  BY MarksOf DEF Misplaced, Opener, IInv
<1>4. ~ \E m \in Read : Follows(v, m)
  BY <1>2, <1>3, FollowsChain
<1>5. TypeOK' /\ Nested' /\ ElseBelongsToIf' /\ HomesAreNodes' /\ FinishedElse'
  <2>1. Read' = Read /\ None' = None /\ Open' = Open
    BY <1>1 DEF Read, None, Open, IsComment
  <2>2. TypeOK' /\ Nested'
    BY <1>1, <2>1 DEF IInv, TypeOK, Nested, Nodes, Root
  <2>3. \A k, m : /\ IsElse(k)' = IsElse(k) /\ Follows(k, m)' = Follows(k, m)
                  /\ Before(k)' = Before(k)
    BY <1>1, <2>1 DEF IsElse, Follows, Before, Has, IsComment
  <2>4. \A k, mark : Has(k, mark)' = Has(k, mark)
    BY <1>1 DEF Has
  <2>5. QED
    BY <1>1, <2>1, <2>2, <2>3, <2>4 DEF IInv, ElseBelongsToIf, HomesAreNodes, FinishedElse
<1>6. Chains'
  BY <1>1 DEF IInv, Chains, ChainAtEnd, Finished, Open, Read, None, IsComment, Has, Root
<1>7. Outcome'
  <2>1. IsElse(v)' /\ \A m : Follows(v, m)' = Follows(v, m)
    BY <1>1, <1>2 DEF IsElse, Follows, Before, Has, IsComment, Read
  <2>2. list' = v /\ v # Root /\ Read' = Read
    BY <1>1, <1>2, NoneIsNoNode DEF Read
  <2>3. QED
    BY <1>1, <1>4, <2>1, <2>2 DEF Outcome, Root
<1>8. QED
  BY <1>5, <1>6, <1>7 DEF IInv

LEMMA FinishIInv ==
  ASSUME IInv, Finish
  PROVE  IInv'
<1>1. UNCHANGED <<read, node, up, list, ifEle, home>> /\ status' = "done" /\ list = Root
  BY DEF Finish
<1>2. Read' = Read /\ None' = None /\ Open' = Open
  BY <1>1 DEF Read, None, Open, IsComment
<1>3. top' \in Nodes \cup {Root} /\ attr' \subseteq Nodes
  <2>1. PICK l \in Nodes \cup {Root} : top' = l /\ attr' = Distributed(l)
    BY DEF Finish
  <2>2. Distributed(l) \subseteq Read
    BY DEF Distributed, Kept, Branches
  <2>3. QED
    BY <2>1, <2>2, ReadNodes DEF IInv
<1>4. TypeOK' /\ Nested'
  BY <1>1, <1>2, <1>3 DEF IInv, TypeOK, Nested, Nodes, Root
<1>5. Chains'
  BY <1>1 DEF IInv, Chains, ChainAtEnd, Finished, Open, Read, None, IsComment, Has, Root
<1>6. ElseBelongsToIf' /\ HomesAreNodes' /\ FinishedElse'
  <2>1. \A k, m : /\ IsElse(k)' = IsElse(k) /\ Follows(k, m)' = Follows(k, m)
                  /\ Before(k)' = Before(k)
    BY <1>1, <1>2 DEF IsElse, Follows, Before, Has, IsComment
  <2>2. \A k, mark : Has(k, mark)' = Has(k, mark)
    BY <1>1 DEF Has
  <2>3. QED
    BY <1>1, <1>2, <2>1, <2>2 DEF IInv, ElseBelongsToIf, HomesAreNodes, FinishedElse
<1>7. Outcome'
  BY <1>1 DEF Outcome, Root
<1>8. QED
  BY <1>4, <1>5, <1>6, <1>7 DEF IInv

LEMMA NextIInv ==
  ASSUME OneMark, IInv, [Next]_vars
  PROVE  IInv'
<1>1. CASE \E m \in Markup : Enter(m)
  BY <1>1, EnterTypeOK, EnterNested, EnterChains, EnterElse, Zenon DEF IInv
<1>2. CASE \E v \in Nodes : Keep(v) \/ Attach(v)
  <2>1. PICK v \in Nodes : Return(v)
    BY <1>2 DEF Return
  <2>2. QED
    BY <2>1, ReturnTypeOK, ReturnNested, ReturnChains, ReturnElse, Zenon DEF IInv
<1>3. CASE \E v \in Nodes : Misplaced(v)
  BY <1>3, MisplacedIInv
<1>4. CASE Finish
  BY <1>4, FinishIInv
<1>5. CASE UNCHANGED vars
  <2>1. UNCHANGED <<read, node, up, list, ifEle, home, status, top, attr>>
    BY <1>5 DEF vars
  <2>2. Read' = Read /\ None' = None /\ Open' = Open
    BY <2>1 DEF Read, None, Open, IsComment
  <2>3. TypeOK' /\ Nested'
    BY <2>1, <2>2 DEF IInv, TypeOK, Nested, Nodes, Root
  <2>4. Chains'
    BY <2>1 DEF IInv, Chains, ChainAtEnd, Finished, Open, Read, None, IsComment, Has, Root
  <2>5. \A k, m : /\ IsElse(k)' = IsElse(k) /\ Follows(k, m)' = Follows(k, m)
                  /\ Before(k)' = Before(k)
    BY <2>1, <2>2 DEF IsElse, Follows, Before, Has, IsComment
  <2>6. \A k, mark : Has(k, mark)' = Has(k, mark)
    BY <2>1 DEF Has
  <2>7. ElseBelongsToIf' /\ HomesAreNodes' /\ FinishedElse' /\ Outcome'
    BY <2>1, <2>2, <2>5, <2>6 DEF IInv, ElseBelongsToIf, HomesAreNodes, FinishedElse, Outcome, Root
  <2>8. QED
    BY <2>3, <2>4, <2>7 DEF IInv
<1>6. QED
  BY <1>1, <1>2, <1>3, <1>4, <1>5 DEF Next, Stopped

\* The invariant holds for templates without two marks on one element.
THEOREM Invariance ==
  ASSUME OneMark
  PROVE  Spec => []IInv
<1>1. Init => IInv
  BY InitIInv
<1>2. OneMark /\ IInv /\ [Next]_vars => IInv'
  BY NextIInv
<1>3. QED
  BY <1>1, <1>2, PTL DEF Spec

\* The calls of parseList and the nodes they have read are those of one template.
THEOREM TypeCorrect ==
  ASSUME OneMark
  PROVE  Spec => []TypeOK
<1>1. IInv => TypeOK
  BY DEF IInv
<1>2. QED
  BY <1>1, Invariance, PTL

\* parseList gives each v-else and v-else-if to the v-if that its chain starts with,
\* whatever the nodes around them.
THEOREM ElseGoesToItsIf ==
  ASSUME OneMark
  PROVE  Spec => []ElseBelongsToIf
<1>1. IInv => ElseBelongsToIf
  BY DEF IInv
<1>2. QED
  BY <1>1, Invariance, PTL

\* parseList refuses exactly the templates in which a v-else follows no v-if: one
\* ifVueEle per call is all the memory it takes, at any depth.
THEOREM RefusesStrayElse ==
  ASSUME OneMark
  PROVE  Spec => []ElseFollowsIf
<1>1. IInv => ElseFollowsIf
  <2> SUFFICES ASSUME IInv PROVE ElseFollowsIf
    OBVIOUS
  <2>1. ASSUME status = "done", NEW n \in Read, IsElse(n)
        PROVE  \E m \in Read : Follows(n, m)
    <3>1. ~ IsComment(n) /\ n \in Nodes /\ n \in Nat /\ n # 0 /\ ~ (n <= 0)
      BY <2>1, MarksOf, ReadNodes DEF IInv, Nodes
    <3>2. n \notin Open
      BY <2>1, <3>1 DEF IInv, Nested, Outcome, Root
    <3>3. home[n] # None
      BY <2>1, <3>1, <3>2 DEF Open
    <3>4. QED
      BY <2>1, <3>3 DEF IInv, FinishedElse
  <2>2. QED
    BY <2>1 DEF ElseFollowsIf, IInv, Outcome
<1>2. QED
  BY <1>1, Invariance, PTL
-----------------------------------------------------------------------------
(* What is shown and what is written, one element at a time *)

\* S is B with the nodes of A whose p is in S.
ByParent(S, A, B, p) == \A n \in Nodes : n \in S <=> n \in B \/ (n \in A /\ p[n] \in S)

\* A set of nodes may be given by what it says of the parents: the least set with B that
\* contains a node of A with the node that p gives for it is one.
LEMMA SetOfParents ==
  ASSUME NEW A, NEW B \in SUBSET Nodes, NEW p
  PROVE  \E S \in SUBSET Nodes : ByParent(S, A, B, p)
<1> DEFINE Closed(X) == B \subseteq X /\ \A n \in Nodes : n \in A /\ p[n] \in X => n \in X
           S == {n \in Nodes : \A X \in SUBSET Nodes : Closed(X) => n \in X}
<1>1. ASSUME NEW n \in Nodes, n \in B \/ (n \in A /\ p[n] \in S) PROVE n \in S
  <2>1. ASSUME NEW X \in SUBSET Nodes, Closed(X) PROVE n \in X
    BY <1>1, <2>1
  <2>2. QED
    BY <2>1
<1>2. ASSUME NEW n \in S, n \notin B, ~ (n \in A /\ p[n] \in S) PROVE FALSE
  <2>1. PICK X : X = S \ {n}
    OBVIOUS
  <2>2. B \subseteq X
    BY <1>1, <1>2, <2>1
  <2>3. ASSUME NEW m \in Nodes, m \in A, p[m] \in X PROVE m \in X
    <3>1. p[m] \in S
      BY <2>1, <2>3
    <3>2. m \in S
      BY <1>1, <2>3, <3>1
    <3>3. m # n
      BY <1>2, <2>3, <3>1
    <3>4. QED
      BY <2>1, <3>2, <3>3
  <2>4. X \in SUBSET Nodes
    BY <2>1
  <2>5. n \in X
    BY <1>2, <2>2, <2>3, <2>4
  <2>6. QED
    BY <2>1, <2>5
<1>3. S \in SUBSET Nodes
  OBVIOUS
<1>4. ByParent(S, A, B, p)
  BY <1>1, <1>2 DEF ByParent
<1> HIDE DEF S
<1>5. QED
  BY <1>3, <1>4

\* The nodes that are shown: those that the statements of their list execute, if the
\* element they are in is shown.
LEMMA ShownByParent ==
  ASSUME TypeOK, NEW val
  PROVE  \A n \in Nodes :
           n \in Shown(val) <=> /\ n \in Read
                                /\ up[n] = top \/ (up[n] # Root /\ up[n] \in Shown(val))
                                /\ n \in ShownIn(up[n], val)
<1> DEFINE Shows(f) ==
             f = [n \in Nodes |-> /\ n \in Read
                                  /\ up[n] = top \/ (up[n] # Root /\ f[up[n]])
                                  /\ n \in ShownIn(up[n], val)]
<1>1. Shown(val) = {n \in Nodes : (CHOOSE f : Shows(f))[n]}
  BY DEF Shown
<1>2. \A n \in Nodes : up[n] \in Nodes \cup {Root}
  BY DEF TypeOK
<1>3. \E f : Shows(f)
  <2> DEFINE A == {n \in Nodes : n \in Read /\ n \in ShownIn(up[n], val)}
             B == {n \in A : up[n] = top}
  <2>1. /\ \A n \in Nodes : n \in A <=> n \in Read /\ n \in ShownIn(up[n], val)
        /\ \A n \in Nodes : n \in B <=> n \in A /\ up[n] = top
        /\ B \in SUBSET Nodes
    OBVIOUS
  <2> HIDE DEF A, B
  <2>2. PICK S \in SUBSET Nodes : ByParent(S, A, B, up)
    BY <2>1, SetOfParents
  <2>3. \A n \in Nodes : n \in S <=> n \in B \/ (n \in A /\ up[n] \in S)
    BY <2>2 DEF ByParent
  <2>4. PICK f : f = [n \in Nodes |-> n \in S]
    OBVIOUS
  <2>5. \A n \in Nodes : f[n] <=> n \in S
    BY <2>4
  <2>6. Root \notin S
    BY NoneIsNoNode
  <2>7. ASSUME NEW n \in Nodes
        PROVE  (n \in S) = (/\ n \in Read
                            /\ up[n] = top \/ (up[n] # Root /\ f[up[n]])
                            /\ n \in ShownIn(up[n], val))
    <3>1. n \in S <=> n \in B \/ (n \in A /\ up[n] \in S)
      BY <2>3
    <3>2. up[n] \in S <=> up[n] # Root /\ f[up[n]]
      BY <1>2, <2>5, <2>6
    <3> DEFINE P == n \in S
               Q == /\ n \in Read
                    /\ up[n] = top \/ (up[n] # Root /\ f[up[n]])
                    /\ n \in ShownIn(up[n], val)
    <3>3. P \in BOOLEAN /\ Q \in BOOLEAN /\ (P <=> Q)
      BY <2>1, <3>1, <3>2
    <3> HIDE DEF P, Q
    <3>4. P = Q
      BY <3>3
    <3>5. QED
      BY <3>4 DEF P, Q
  <2>8. Shows(f)
    BY <2>4, <2>7
  <2>9. QED
    BY <2>8
<1>4. PICK f : f = (CHOOSE g : Shows(g))
  OBVIOUS
<1>5. Shows(f)
  BY <1>3, <1>4
<1>6. \A n \in Nodes : n \in Shown(val) <=> f[n]
  BY <1>1, <1>4
<1>7. ASSUME NEW n \in Nodes
      PROVE  f[n] <=> /\ n \in Read
                      /\ up[n] = top \/ (up[n] # Root /\ f[up[n]])
                      /\ n \in ShownIn(up[n], val)
  BY <1>5
<1>8. QED
  BY <1>2, <1>6, <1>7

\* The nodes that are to be seen, and the set of those up to which some condition of
\* their chain is true.
LEMMA WrittenByParent ==
  ASSUME TypeOK, NEW val
  PROVE  \E T :
           /\ \A n \in Nodes :
                n \in T <=> \/ val[n]
                            \/ ~ Has(n, "if") /\ \E m \in Before(n) : Follows(n, m) /\ m \in T
           /\ \A n \in Nodes :
                n \in Written(val) <=>
                  /\ n \in Read
                  /\ up[n] = Root \/ up[n] \in Written(val)
                  /\ Has(n, "if") => val[n]
                  /\ Has(n, "elseif") => val[n]
                  /\ IsElse(n) => \A m \in Before(n) : Follows(n, m) => m \notin T
<1> DEFINE Takes(f) ==
             f = [n \in Nodes |->
                    \/ val[n]
                    \/ ~ Has(n, "if") /\ \E m \in Before(n) : Follows(n, m) /\ f[m]]
           taken == CHOOSE f : Takes(f)
           Means(g) ==
             g = [n \in Nodes |->
                    /\ n \in Read
                    /\ up[n] = Root \/ g[up[n]]
                    /\ Has(n, "if") => val[n]
                    /\ Has(n, "elseif") => val[n]
                    /\ IsElse(n) => \A m \in Before(n) : Follows(n, m) => ~ taken[m]]
<1>1. Written(val) = {n \in Nodes : (CHOOSE g : Means(g))[n]}
  BY DEF Written
<1>2. /\ \A n \in Nodes : up[n] \in Nodes \cup {Root}
      /\ \A n \in Nodes : \A m \in Before(n) : m \in Nodes
      /\ \A n, m, k : Follows(n, m) /\ Follows(n, k) => m = k
  <2>1. ASSUME NEW n, NEW m, NEW k, Follows(n, m), Follows(n, k) PROVE m = k
    <3>1. m \in Before(n) /\ k \in Before(n) /\ m <= k /\ k <= m
      BY <2>1 DEF Follows
    <3>2. m \in Nat /\ k \in Nat
      BY <3>1, ReadNodes DEF Before
    <3>3. QED
      BY <3>1, <3>2
  <2>2. QED
    BY <2>1, ReadNodes DEF TypeOK, Before
<1>3. \E f : Takes(f)
  <2> DEFINE p == [n \in Nodes |-> CHOOSE m \in Before(n) : Follows(n, m)]
             A == {n \in Nodes : ~ Has(n, "if") /\ \E m \in Before(n) : Follows(n, m)}
             B == {n \in Nodes : val[n]}
  <2>1. /\ \A n \in Nodes :
             n \in A <=> ~ Has(n, "if") /\ \E m \in Before(n) : Follows(n, m)
        /\ \A n \in Nodes : n \in B <=> val[n]
        /\ \A n \in Nodes : p[n] = CHOOSE m \in Before(n) : Follows(n, m)
        /\ B \in SUBSET Nodes
    OBVIOUS
  <2> HIDE DEF A, B, p
  <2>2. PICK S \in SUBSET Nodes : ByParent(S, A, B, p)
    BY <2>1, SetOfParents
  <2>3. \A n \in Nodes : n \in S <=> n \in B \/ (n \in A /\ p[n] \in S)
    BY <2>2 DEF ByParent
  <2>4. PICK f : f = [n \in Nodes |-> n \in S]
    OBVIOUS
  <2>5. \A n \in Nodes : f[n] <=> n \in S
    BY <2>4
  <2>6. ASSUME NEW n \in Nodes
        PROVE  (n \in S) =
                 (val[n] \/ (~ Has(n, "if") /\ \E m \in Before(n) : Follows(n, m) /\ f[m]))
    <3>1. CASE \E m \in Before(n) : Follows(n, m)
      <4>1. PICK m \in Before(n) : Follows(n, m) /\ m = p[n]
        BY <2>1, <3>1
      <4>2. (\E k \in Before(n) : Follows(n, k) /\ f[k]) <=> m \in S
        BY <1>2, <2>5, <4>1
      <4>3. QED
        BY <2>3, <2>1, <3>1, <4>1, <4>2
    <3>2. CASE ~ \E m \in Before(n) : Follows(n, m)
      BY <2>3, <2>1, <3>2
    <3>3. QED
      BY <3>1, <3>2
  <2>7. Takes(f)
    BY <2>4, <2>6
  <2>8. QED
    BY <2>7
<1>4. PICK t : t = taken
  OBVIOUS
<1>5. Takes(t)
  BY <1>3, <1>4
<1>6. ASSUME NEW n \in Nodes
      PROVE  t[n] <=> \/ val[n]
                      \/ ~ Has(n, "if") /\ \E m \in Before(n) : Follows(n, m) /\ t[m]
  BY <1>5
<1>7. \E g : Means(g)
  <2> DEFINE A == {n \in Nodes :
                     /\ n \in Read
                     /\ Has(n, "if") => val[n]
                     /\ Has(n, "elseif") => val[n]
                     /\ IsElse(n) => \A m \in Before(n) : Follows(n, m) => ~ taken[m]}
             B == {n \in A : up[n] = Root}
  <2> HIDE DEF taken
  <2>1. /\ \A n \in Nodes :
             n \in A <=> /\ n \in Read
                         /\ Has(n, "if") => val[n]
                         /\ Has(n, "elseif") => val[n]
                         /\ IsElse(n) => \A m \in Before(n) : Follows(n, m) => ~ taken[m]
        /\ \A n \in Nodes : n \in B <=> n \in A /\ up[n] = Root
        /\ B \in SUBSET Nodes
    OBVIOUS
  <2> HIDE DEF A, B
  <2>2. PICK S \in SUBSET Nodes : ByParent(S, A, B, up)
    BY <2>1, SetOfParents
  <2>3. \A n \in Nodes : n \in S <=> n \in B \/ (n \in A /\ up[n] \in S)
    BY <2>2 DEF ByParent
  <2>4. PICK g : g = [n \in Nodes |-> n \in S]
    OBVIOUS
  <2>5. \A n \in Nodes : g[n] <=> n \in S
    BY <2>4
  <2>6. Root \notin S
    BY NoneIsNoNode
  <2>7. ASSUME NEW n \in Nodes
        PROVE  (n \in S) = (/\ n \in Read
                            /\ up[n] = Root \/ g[up[n]]
                            /\ Has(n, "if") => val[n]
                            /\ Has(n, "elseif") => val[n]
                            /\ IsElse(n) => \A m \in Before(n) : Follows(n, m) => ~ taken[m])
    <3>1. n \in S <=> n \in B \/ (n \in A /\ up[n] \in S)
      BY <2>3
    <3>2. up[n] # Root => (up[n] \in S <=> g[up[n]])
      BY <1>2, <2>5
    <3> DEFINE P == n \in S
               Q == /\ n \in Read
                    /\ up[n] = Root \/ g[up[n]]
                    /\ Has(n, "if") => val[n]
                    /\ Has(n, "elseif") => val[n]
                    /\ IsElse(n) => \A m \in Before(n) : Follows(n, m) => ~ taken[m]
    <3>3. P \in BOOLEAN /\ Q \in BOOLEAN /\ (P <=> Q)
      BY <2>6, <2>1, <3>1, <3>2
    <3> HIDE DEF P, Q
    <3>4. P = Q
      BY <3>3
    <3>5. QED
      BY <3>4 DEF P, Q
  <2>8. Means(g)
    BY <2>4, <2>7
  <2>9. QED
    BY <2>8
<1>8. PICK g : g = (CHOOSE h : Means(h))
  OBVIOUS
<1>9. Means(g)
  BY <1>7, <1>8
<1>10. \A n \in Nodes : n \in Written(val) <=> g[n]
  BY <1>1, <1>8
<1> HIDE DEF taken
<1>11. ASSUME NEW n \in Nodes
       PROVE  g[n] <=> /\ n \in Read
                       /\ up[n] = Root \/ g[up[n]]
                       /\ Has(n, "if") => val[n]
                       /\ Has(n, "elseif") => val[n]
                       /\ IsElse(n) => \A m \in Before(n) : Follows(n, m) => ~ t[m]
  BY <1>4, <1>9
<1>12. PICK T : T = {n \in Nodes : t[n]}
  OBVIOUS
<1>13. \A n \in Nodes :
         n \in T <=> \/ val[n]
                     \/ ~ Has(n, "if") /\ \E m \in Before(n) : Follows(n, m) /\ m \in T
  BY <1>2, <1>6, <1>12
<1>14. ASSUME NEW n \in Nodes
       PROVE  n \in Written(val) <=>
                /\ n \in Read
                /\ up[n] = Root \/ up[n] \in Written(val)
                /\ Has(n, "if") => val[n]
                /\ Has(n, "elseif") => val[n]
                /\ IsElse(n) => \A m \in Before(n) : Follows(n, m) => m \notin T
  <2>1. up[n] \in Nodes \/ up[n] = Root
    BY <1>2
  <2>2. \A m \in Before(n) : m \in T <=> t[m]
    BY <1>2, <1>12
  <2>3. QED
    BY <1>10, <1>11, <2>1, <2>2
<1>15. QED
  BY <1>13, <1>14

-----------------------------------------------------------------------------
(* The end of Parse *)

\* A <template> has no condition: those of a sole root are lost.
PlainTemplates == \A m \in Markup : m.tag = "template" => m.marks = {}

\* What stays in its list is no v-else.
KeptAreNoElse == \A n \in Read : home[n] = up[n] => ~ IsElse(n)

\* Texts and comments have no children.
ParentsAreElements ==
  \A n \in Read : up[n] # Root => up[n] \in Read /\ node[up[n]].kind = "element"

\* What the component is, and which elements have its attributes.
Top ==
  status = "done" =>
    /\ top # Root => SoleTemplate(top)
    /\ top = Root => ~ \E t \in Read : SoleTemplate(t)
    /\ attr = Distributed(top)

RInv == KeptAreNoElse /\ ParentsAreElements /\ Top

LEMMA InitRInv == Init => RInv
BY DEF Init, RInv, KeptAreNoElse, ParentsAreElements, Top, Read

LEMMA EnterRInv ==
  ASSUME IInv, RInv, NEW m \in Markup, Enter(m)
  PROVE  RInv'
<1> DEFINE n == read + 1
<1>1. /\ n \notin Read /\ Read' = Read \cup {n} /\ home' = home
      /\ up'[n] = list /\ list \in Nat
      /\ \A k \in Read : node'[k] = node[k] /\ up'[k] = up[k]
      /\ status' = "parsing" /\ n \in Nodes
  BY EnterFacts, Zenon
<1>2. home[n] = None
  BY <1>1, EnterOpen, Zenon
<1>3. list \in Read \cup {Root} /\ list # None
  BY NoneIsNoNode, ReadNodes DEF IInv, TypeOK
<1>4. KeptAreNoElse'
  BY <1>1, <1>2, <1>3 DEF RInv, KeptAreNoElse, IsElse, Has
<1>5. ParentsAreElements'
  <2>1. ASSUME NEW k \in Read', up'[k] # Root
        PROVE  up'[k] \in Read' /\ node'[up'[k]].kind = "element"
    <3>1. CASE k = n
      BY <1>1, <1>3, <2>1, <3>1 DEF Enter
    <3>2. CASE k # n
      BY <1>1, <2>1, <3>2 DEF RInv, ParentsAreElements
    <3>3. QED
      BY <3>1, <3>2
  <2>2. QED
    BY <2>1 DEF ParentsAreElements, Root
<1>6. Top'
  BY <1>1 DEF Top
<1>7. QED
  BY <1>4, <1>5, <1>6 DEF RInv

LEMMA ReturnRInv ==
  ASSUME IInv, RInv, NEW v \in Nodes, Return(v)
  PROVE  RInv'
<1>1. /\ v \in Read /\ Read' = Read /\ node' = node /\ up' = up /\ status' = "parsing"
      /\ \A k \in Nodes : k # v => home'[k] = home[k]
      /\ v \in Nat /\ up[v] \in Nat
  BY ReturnFacts, Zenon
<1>2. Read \subseteq Nodes /\ home \in [Nodes -> Nodes \cup {Root, None}]
  BY ReadNodes DEF IInv, TypeOK
<1>3. home'[v] = up[v] => ~ IsElse(v)
  <2>1. CASE Keep(v)
    BY <2>1 DEF Keep
  <2>2. CASE Attach(v)
    <3>1. home'[v] = Opener(v) /\ Opener(v) # None
      BY <1>2, <2>2 DEF Attach
    <3>2. up[Opener(v)] = up[v] /\ Opener(v) \in Read
      <4>1. ifEle[up[v]] # None => up[ifEle[up[v]]] = up[v] /\ ifEle[up[v]] \in Read
        <5>1. up[v] \in Nodes \cup {Root}
          BY DEF IInv, TypeOK
        <5>2. QED
          BY <5>1 DEF IInv, TypeOK
      <4>2. QED
        BY <1>1, <3>1, <4>1 DEF Opener
    <3>3. up[Opener(v)] < Opener(v) /\ Opener(v) \in Nat
      BY <1>2, <3>2, ReadNodes DEF IInv, Nested
    <3>4. QED
      BY <1>1, <3>1, <3>2, <3>3
  <2>3. QED
    BY <2>1, <2>2 DEF Return
<1>4. KeptAreNoElse'
  BY <1>1, <1>2, <1>3 DEF RInv, KeptAreNoElse, IsElse, Has
<1>5. ParentsAreElements'
  BY <1>1 DEF RInv, ParentsAreElements, Root
<1>6. Top'
  BY <1>1 DEF Top
<1>7. QED
  BY <1>4, <1>5, <1>6 DEF RInv

\* A component has at most one sole <template>.
LEMMA FinishRInv ==
  ASSUME IInv, RInv, Finish
  PROVE  RInv'
<1>1. UNCHANGED <<read, node, up, home>>
  BY DEF Finish
<1>2. /\ Read' = Read /\ \A t : SoleTemplate(t)' = SoleTemplate(t)
      /\ \A l : Distributed(l)' = Distributed(l)
  BY <1>1 DEF Read, SoleTemplate, Distributed, Kept, Branches, IsComment, Has, Root
<1>3. PICK l \in Nodes \cup {Root} :
        /\ IF \E t \in Read : SoleTemplate(t) THEN SoleTemplate(l) ELSE l = Root
        /\ top' = l /\ attr' = Distributed(l)
  BY DEF Finish
<1>4. ~ SoleTemplate(Root)
  <2>1. Root \notin Read
    BY NoneIsNoNode, ReadNodes DEF IInv
  <2>2. QED
    BY <2>1 DEF SoleTemplate, Kept
<1>5. Top'
  BY <1>2, <1>3, <1>4 DEF Top, Root
<1>6. KeptAreNoElse' /\ ParentsAreElements'
  BY <1>1, <1>2 DEF RInv, KeptAreNoElse, ParentsAreElements, IsElse, Has, Root
<1>7. QED
  BY <1>5, <1>6 DEF RInv

LEMMA RInvariance ==
  ASSUME OneMark
  PROVE  Spec => [](IInv /\ RInv)
<1>1. Init => IInv /\ RInv
  BY InitIInv, InitRInv
<1>2. IInv /\ RInv /\ [Next]_vars => (IInv /\ RInv)'
  <2> SUFFICES ASSUME IInv, RInv, [Next]_vars PROVE RInv'
    BY NextIInv
  <2>1. CASE \E m \in Markup : Enter(m)
    BY <2>1, EnterRInv, Zenon
  <2>2. CASE \E v \in Nodes : Keep(v) \/ Attach(v)
    BY <2>2, ReturnRInv, Zenon DEF Return
  <2>3. CASE Finish
    BY <2>3, FinishRInv
  <2>4. CASE (\E v \in Nodes : Misplaced(v)) \/ UNCHANGED vars
    <3>1. UNCHANGED <<read, node, up, home, top, attr>>
          /\ (status' = status \/ status' = "error")
      BY <2>4 DEF Misplaced, vars
    <3>2. /\ Read' = Read /\ \A t : SoleTemplate(t)' = SoleTemplate(t)
          /\ \A l : Distributed(l)' = Distributed(l)
      BY <3>1 DEF Read, SoleTemplate, Distributed, Kept, Branches, IsComment, Has, Root
    <3>3. Top'
      BY <3>1, <3>2 DEF RInv, Top, Root
    <3>4. KeptAreNoElse' /\ ParentsAreElements'
      BY <3>1, <3>2 DEF RInv, KeptAreNoElse, ParentsAreElements, IsElse, Has, Root
    <3>5. QED
      BY <3>3, <3>4 DEF RInv
  <2>5. QED
    BY <2>1, <2>2, <2>3, <2>4 DEF Next, Stopped
<1>3. QED
  BY <1>1, <1>2, PTL DEF Spec

-----------------------------------------------------------------------------
(* One list of a template that has been parsed *)

Parsed == IInv /\ RInv /\ OneMark /\ status = "done"

\* The nodes that are in the template: comments may be left out.
There(n) == n \in Read /\ ~ (IsComment(n) /\ SkipComment)

\* A set of nodes that is not empty has a first one.
LEMMA FirstNode ==
  ASSUME NEW S, S \subseteq Nodes, S # {}
  PROVE  /\ Smallest(S) \in S
         /\ \A m \in S : Smallest(S) <= m
<1>1. S \subseteq Nat
  BY DEF Nodes
<1>2. PICK n \in S : \A m \in S : <<m, n>> \notin OpToRel(<, Nat)
  BY <1>1, WFMin, NatLessThanWellFounded, Zenon
<1>3. ASSUME NEW m \in S PROVE n <= m
  <2>1. m \in Nat /\ n \in Nat
    BY <1>1
  <2>2. ~ (m < n)
    BY <1>2, <2>1 DEF OpToRel
  <2>3. QED
    BY <2>1, <2>2
<1>4. QED
  BY <1>3 DEF Smallest

\* A node is in its list, or in the ElseIf of an element of that list.
LEMMA Home ==
  ASSUME Parsed, NEW n, There(n)
  PROVE  /\ n \in Nodes /\ n \in Nat /\ up[n] \in Nat /\ up[n] < n /\ home[n] # None
         /\ home[n] = up[n] => ~ IsElse(n) /\ n \in Kept(up[n])
         /\ home[n] # up[n] =>
              /\ IsElse(n) /\ ~ IsComment(n) /\ ~ Has(n, "if")
              /\ home[n] \in Nat /\ home[n] < n /\ home[n] \in Before(n)
              /\ home[n] \in Kept(up[n]) /\ Has(home[n], "if")
              /\ up[home[n]] = up[n] /\ up[n] < home[n]
              /\ \A m \in Before(n) : m > home[n] => Has(m, "elseif") /\ home[m] = home[n]
<1>1. IInv /\ RInv /\ OneMark /\ status = "done" /\ TypeOK
  BY DEF Parsed, IInv
<1>2. Read \subseteq Nodes /\ \A k \in Nodes : k \in Nat /\ up[k] \in Nat /\ k # 0
  BY <1>1, ReadNodes DEF Nodes
<1>3. ASSUME NEW k, There(k) PROVE home[k] # None
  <2>1. k \in Nat /\ k # 0 /\ k \in Read
    BY <1>2, <1>3 DEF There
  <2>2. k \notin Open
    BY <1>1, <2>1 DEF IInv, Nested, Outcome, Root
  <2>3. QED
    BY <1>3, <2>2 DEF There, Open
<1>4. n \in Read /\ up[n] < n
  BY <1>1 DEF There, IInv, Nested
<1>5. ASSUME home[n] = up[n] PROVE ~ IsElse(n) /\ n \in Kept(up[n])
  BY <1>1, <1>4, <1>5 DEF RInv, KeptAreNoElse, Kept
<1>6. ASSUME home[n] # up[n]
      PROVE  /\ IsElse(n) /\ ~ IsComment(n) /\ ~ Has(n, "if")
             /\ home[n] \in Nat /\ home[n] < n /\ home[n] \in Before(n)
             /\ home[n] \in Kept(up[n]) /\ Has(home[n], "if")
             /\ up[home[n]] = up[n] /\ up[n] < home[n]
             /\ \A m \in Before(n) : m > home[n] => Has(m, "elseif") /\ home[m] = home[n]
  <2>1. home[n] \notin {up[n], None}
    BY <1>3, <1>6
  <2>2. /\ IsElse(n) /\ home[n] < n /\ up[home[n]] = up[n] /\ Has(home[n], "if")
        /\ \A m \in Before(n) : m > home[n] => Has(m, "elseif") /\ home[m] = home[n]
    BY <1>1, <1>4, <2>1 DEF IInv, ElseBelongsToIf
  <2>3. home[n] \in Read
    BY <1>1, <1>4, <2>1 DEF IInv, HomesAreNodes
  <2>4. ~ IsComment(n) /\ ~ Has(n, "if") /\ ~ IsElse(home[n]) /\ ~ IsComment(home[n])
    BY <1>1, <1>2, <1>4, <2>2, <2>3, MarksOf
  <2>5. home[home[n]] # None
    BY <1>3, <2>3, <2>4 DEF There
  <2>6. home[home[n]] = up[home[n]]
    BY <1>1, <2>3, <2>4, <2>5 DEF IInv, ElseBelongsToIf
  <2>7. home[n] \in Before(n) /\ home[n] \in Kept(up[n])
    BY <2>2, <2>3, <2>4, <2>6 DEF Before, Kept
  <2>8. up[n] < home[n] /\ home[n] \in Nat
    BY <1>1, <1>2, <2>2, <2>3 DEF IInv, Nested
  <2>9. QED
    BY <2>2, <2>4, <2>7, <2>8
<1>7. QED
  BY <1>2, <1>3, <1>4, <1>5, <1>6

\* What is in the ElseIf of an element is an else of its list, after it.
LEMMA BranchesAreElse ==
  ASSUME Parsed, NEW c \in Nodes, NEW b \in Branches(c)
  PROVE  /\ There(b) /\ home[b] = c /\ home[b] # up[b] /\ c < b
         /\ IsElse(b) /\ ~ IsComment(b) /\ up[c] = up[b] /\ Has(c, "if")
<1>1. b \in Read /\ home[b] = c /\ up[b] # c /\ c # None
  BY NoneIsNoNode DEF Branches
<1>2. IsElse(b) /\ c < b /\ up[c] = up[b] /\ Has(c, "if")
  BY <1>1 DEF Parsed, IInv, ElseBelongsToIf
<1>3. ~ IsComment(b)
  BY <1>1, <1>2, MarksOf, ReadNodes DEF Parsed, IInv
<1>4. QED
  BY <1>1, <1>2, <1>3 DEF There

\* What an if statement executes is its element or one of the ElseIf.
LEMMA ChosenFrom ==
  ASSUME NEW c \in Nodes, NEW val, TypeOK
  PROVE  Chosen(c, val) \subseteq {c} \cup Branches(c)
<1> DEFINE open == {b \in Branches(c) : val[b] \/ ~ Has(b, "elseif")}
<1>1. open \subseteq Nodes
  BY ReadNodes DEF Branches
<1>2. open # {} => Smallest(open) \in Branches(c)
  BY <1>1, FirstNode
<1>3. QED
  BY <1>2 DEF Chosen

\* A node of the list is executed if its v-if says so.
LEMMA KeptIsShown ==
  ASSUME Parsed, NEW val, NEW n, There(n), home[n] = up[n]
  PROVE  n \in ShownIn(up[n], val) <=> (Has(n, "if") => val[n])
<1>1. n \in Nodes /\ n \in Kept(up[n]) /\ TypeOK
  BY Home DEF Parsed, IInv
<1>2. \A c \in Nodes : n \notin Branches(c)
  BY BranchesAreElse
<1>3. ASSUME NEW c \in Kept(up[n]), n \in Chosen(c, val) PROVE c = n
  <2>1. c \in Nodes
    BY <1>1, ReadNodes DEF Kept
  <2>2. QED
    BY <1>1, <1>2, <1>3, <2>1, ChosenFrom
<1>4. n \in ShownIn(up[n], val) <=> n \in Chosen(n, val)
  BY <1>1, <1>3 DEF ShownIn
<1>5. CASE Has(n, "if") /\ ~ val[n]
  <2> DEFINE open == {b \in Branches(n) : val[b] \/ ~ Has(b, "elseif")}
  <2>1. open \subseteq Nodes
    BY <1>1, ReadNodes DEF Branches
  <2>2. open # {} => Smallest(open) \in Branches(n)
    BY <2>1, FirstNode
  <2>3. Chosen(n, val) \subseteq Branches(n)
    BY <1>5, <2>2 DEF Chosen
  <2>4. QED
    BY <1>1, <1>2, <1>4, <1>5, <2>3
<1>6. CASE ~ (Has(n, "if") /\ ~ val[n])
  BY <1>4, <1>6 DEF Chosen
<1>7. QED
  BY <1>5, <1>6

\* A node of an ElseIf is executed if it is the first whose condition is true.
LEMMA ElseIsShown ==
  ASSUME Parsed, NEW val, NEW n, There(n), home[n] # up[n]
  PROVE  n \in ShownIn(up[n], val) <=>
           /\ ~ val[home[n]]
           /\ Has(n, "elseif") => val[n]
           /\ \A m \in Before(n) : m > home[n] => ~ val[m]
<1>1. /\ n \in Nodes /\ n \in Nat /\ TypeOK /\ n \in Read /\ \A k \in Nodes : k \in Nat
      /\ Read \subseteq Nodes
  BY Home, ReadNodes DEF Parsed, IInv, There
<1>2. PICK c : c = home[n]
  OBVIOUS
<1>3. /\ c \in Kept(up[n]) /\ c \in Nat /\ c < n /\ c # up[n] /\ Has(c, "if")
      /\ up[c] = up[n] /\ c \in Before(n)
      /\ \A m \in Before(n) : m > c => Has(m, "elseif") /\ home[m] = c
  BY <1>2, Home
<1>4. c \in Nodes /\ n \notin Kept(up[n]) /\ n \in Branches(c)
  BY <1>1, <1>2, <1>3 DEF Kept, Branches
<1>5. ASSUME NEW d \in Kept(up[n]), n \in Chosen(d, val) PROVE d = c
  <2>1. d \in Nodes /\ d # n
    BY <1>1, <1>4, <1>5 DEF Kept
  <2>2. n \in Branches(d)
    BY <1>1, <1>5, <2>1, ChosenFrom
  <2>3. QED
    BY <1>2, <2>2 DEF Branches
<1>6. n \in ShownIn(up[n], val) <=> n \in Chosen(c, val)
  BY <1>3, <1>5 DEF ShownIn
<1> DEFINE open == {b \in Branches(c) : val[b] \/ ~ Has(b, "elseif")}
<1>7. n \in Chosen(c, val) <=> ~ val[c] /\ open # {} /\ n = Smallest(open)
  BY <1>1, <1>3 DEF Chosen
<1>8. open \subseteq Nodes /\ \A b \in open : b \in Branches(c)
  BY <1>1 DEF Branches
<1>9. n \in open <=> (Has(n, "elseif") => val[n])
  BY <1>4
<1>10. \A m \in Before(n) : m > c => (m \in open <=> val[m])
  <2>1. ASSUME NEW m \in Before(n), m > c PROVE m \in Branches(c) /\ Has(m, "elseif")
    BY <1>3, <2>1 DEF Before, Branches
  <2>2. QED
    BY <2>1
<1>11. \A b \in open : b < n => b \in Before(n) /\ b > c
  <2>1. ASSUME NEW b \in open, b < n PROVE b \in Before(n) /\ b > c
    <3>1. There(b) /\ c < b /\ ~ IsComment(b) /\ up[c] = up[b]
      BY <1>4, <1>8, <2>1, BranchesAreElse
    <3>2. QED
      BY <1>1, <1>3, <2>1, <3>1 DEF Before, There
  <2>2. QED
    BY <2>1
<1>12. \A m \in Before(n) : m < n /\ m \in Nat
  BY <1>1 DEF Before
<1> HIDE DEF open
<1>13. ASSUME open # {}, n = Smallest(open)
       PROVE  n \in open /\ \A m \in Before(n) : m > c => ~ val[m]
  <2>1. n \in open /\ \A m \in open : n <= m
    BY <1>8, <1>13, FirstNode
  <2>2. QED
    BY <1>1, <1>10, <1>12, <2>1
<1>14. ASSUME n \in open, \A m \in Before(n) : m > c => ~ val[m]
       PROVE  open # {} /\ n = Smallest(open)
  <2>1. open # {} /\ Smallest(open) \in open /\ Smallest(open) <= n
    BY <1>8, <1>14, FirstNode
  <2>2. ~ (Smallest(open) < n)
    BY <1>10, <1>11, <1>14, <2>1
  <2>3. Smallest(open) \in Nat
    BY <1>1, <1>8, <2>1
  <2>4. QED
    BY <1>1, <2>1, <2>2, <2>3
<1>15. QED
  BY <1>2, <1>6, <1>7, <1>9, <1>13, <1>14

-----------------------------------------------------------------------------
(* Chains *)

\* T: the nodes up to which some condition of their chain is true.
Takes(T, val) ==
  \A n \in Nodes :
    n \in T <=> \/ val[n]
                \/ ~ Has(n, "if") /\ \E m \in Before(n) : Follows(n, m) /\ m \in T

\* For an else that has found its if, no condition of its chain in front of it is true
\* exactly if none is that ifStatement.Exec has asked before.
LEMMA ChainBefore ==
  ASSUME Parsed, NEW val, NEW T, Takes(T, val), NEW n, There(n), home[n] # up[n]
  PROVE  (\A m \in Before(n) : Follows(n, m) => m \notin T) <=>
           ~ val[home[n]] /\ \A m \in Before(n) : m > home[n] => ~ val[m]
<1>1. /\ n \in Nodes /\ n \in Nat /\ TypeOK /\ \A k \in Nodes : k \in Nat
      /\ Before(n) \subseteq Nodes
  BY Home, ReadNodes DEF Parsed, IInv, There, Before
<1>2. PICK c : c = home[n]
  OBVIOUS
<1>3. /\ c \in Before(n) /\ c \in Nat /\ c \in Nodes /\ Has(c, "if")
      /\ \A m \in Before(n) : m > c => Has(m, "elseif")
  BY <1>1, <1>2, Home
<1>4. PICK chain : chain = {m \in Before(n) : c <= m}
  OBVIOUS
<1>5. /\ chain \subseteq Nodes /\ c \in chain
      /\ \A m \in chain : m \in Before(n) /\ m \in Nat /\ c <= m
      /\ \A m \in Before(n) : m > c => m \in chain
  <2>1. \A m \in Before(n) : m \in Nodes /\ m \in Nat
    BY <1>1
  <2>2. c <= c /\ \A m \in Before(n) : m > c => c <= m
    BY <1>3, <2>1
  <2>3. QED
    BY <1>3, <1>4, <2>1, <2>2
<1>6. \A m \in chain : \A k \in Before(m) : k \in Before(n) /\ k < m /\ k \in Nat
  <2>1. ASSUME NEW m \in chain, NEW k \in Before(m) PROVE k \in Before(n) /\ k < m /\ k \in Nat
    <3>1. m \in Nat /\ m < n /\ up[m] = up[n]
      BY <1>5, <2>1 DEF Before
    <3>2. k \in Read /\ k < m /\ up[k] = up[m] /\ ~ IsComment(k)
      BY <2>1 DEF Before
    <3>3. k \in Nat
      BY <1>1, <3>2, ReadNodes
    <3>4. QED
      BY <1>1, <3>1, <3>2, <3>3 DEF Before
  <2>2. QED
    BY <2>1
<1>7. \A m \in chain : \A k \in Before(n) : k < m => k \in Before(m)
  BY <1>5 DEF Before
<1>8. \A m \in chain : m # c => m > c /\ Has(m, "elseif") /\ ~ Has(m, "if")
  <2>1. ASSUME NEW m \in chain, m # c PROVE m > c /\ Has(m, "elseif") /\ ~ Has(m, "if")
    <3>1. m > c /\ Has(m, "elseif") /\ m \in Nodes
      BY <1>3, <1>5, <2>1
    <3>2. IsElse(m)
      BY <3>1 DEF IsElse
    <3>3. QED
      BY <1>1, <3>1, <3>2, MarksOf DEF Parsed
  <2>2. QED
    BY <2>1
<1>9. ASSUME ~ val[c], \A m \in Before(n) : m > c => ~ val[m], NEW m \in chain, m \in T
      PROVE  FALSE
  <2>1. PICK S : S = chain \cap T
    OBVIOUS
  <2>2. S \subseteq Nodes /\ S # {}
    BY <1>5, <1>9, <2>1
  <2>3. PICK k \in S : \A j \in S : k <= j
    BY <2>2, FirstNode
  <2>4. k \in chain /\ k \in T /\ k \in Nodes
    BY <1>5, <2>1, <2>3
  <2>5. k # c
    BY <1>3, <1>9, <2>4 DEF Takes
  <2>6. k > c /\ ~ val[k] /\ k \in Nat
    BY <1>5, <1>8, <1>9, <2>4, <2>5
  <2>7. PICK j \in Before(k) : Follows(k, j) /\ j \in T
    BY <2>4, <2>6 DEF Takes
  <2>8. c \in Before(k) /\ c <= j
    <3>1. c \in Before(k)
      BY <1>3, <1>7, <2>4, <2>6
    <3>2. QED
      BY <2>7, <3>1 DEF Follows
  <2>9. j \in chain /\ j < k /\ j \in Nat
    BY <1>4, <1>6, <2>4, <2>7, <2>8
  <2>10. k <= j
    BY <2>1, <2>3, <2>7, <2>9
  <2>11. QED
    BY <2>6, <2>9, <2>10
<1>10. ASSUME \A m \in Before(n) : Follows(n, m) => m \notin T, NEW m \in chain, m \in T
       PROVE  FALSE
  <2>1. PICK S : S = chain \cap T
    OBVIOUS
  <2>2. S \subseteq Nodes /\ S # {}
    BY <1>5, <1>10, <2>1
  <2>3. PICK k \in S : \A j \in S : j <= k
    BY <2>2, LastNode
  <2>4. k \in chain /\ k \in T /\ k \in Nodes /\ k \in Before(n) /\ k \in Nat
    BY <1>5, <2>1, <2>3
  <2>5. Has(k, "if") \/ Has(k, "elseif")
    BY <1>3, <1>8, <2>4
  <2>6. PICK after : after = {j \in Before(n) : k < j}
    OBVIOUS
  <2>7. CASE after = {}
    <3>1. \A j \in Before(n) : j <= k
      BY <1>1, <2>4, <2>6, <2>7
    <3>2. Follows(n, k)
      BY <2>4, <2>5, <3>1 DEF Follows
    <3>3. QED
      BY <1>10, <2>4, <3>2
  <2>8. CASE after # {}
    <3>1. after \subseteq Nodes
      BY <1>1, <2>6
    <3>2. PICK j \in after : \A x \in after : j <= x
      BY <2>8, <3>1, FirstNode
    <3>3. j \in Before(n) /\ k < j /\ j \in Nodes /\ j \in Nat /\ j \in chain /\ j # c
      BY <1>1, <1>4, <1>5, <2>4, <2>6, <3>1, <3>2
    <3>4. k \in Before(j)
      BY <1>7, <2>4, <3>3
    <3>5. \A x \in Before(j) : x <= k
      <4>1. ASSUME NEW x \in Before(j) PROVE x <= k
        <5>1. x \in Before(n) /\ x < j /\ x \in Nat
          BY <1>6, <3>3, <4>1
        <5>2. x \notin after
          BY <3>2, <3>3, <5>1
        <5>3. QED
          BY <2>4, <2>6, <5>1, <5>2
      <4>2. QED
        BY <4>1
    <3>6. Follows(j, k)
      BY <2>5, <3>4, <3>5 DEF Follows
    <3>7. j \in T
      BY <1>8, <2>4, <3>3, <3>4, <3>6 DEF Takes
    <3>8. j <= k
      BY <2>1, <2>3, <3>3, <3>7
    <3>9. QED
      BY <2>4, <3>3, <3>8
  <2>9. QED
    BY <2>7, <2>8
<1>11. ASSUME \A m \in Before(n) : Follows(n, m) => m \notin T
       PROVE  ~ val[c] /\ \A m \in Before(n) : m > c => ~ val[m]
  <2>1. \A m \in chain : m \notin T
    BY <1>10, <1>11
  <2>2. \A m \in chain : ~ val[m]
    BY <1>5, <2>1 DEF Takes
  <2>3. QED
    BY <1>5, <2>2
<1>12. ASSUME ~ val[c], \A m \in Before(n) : m > c => ~ val[m], NEW m \in Before(n), Follows(n, m)
       PROVE  m \notin T
  <2>1. c <= m
    BY <1>3, <1>12 DEF Follows
  <2>2. m \in chain
    BY <1>4, <1>12, <2>1
  <2>3. QED
    BY <1>9, <1>12, <2>2
<1>13. QED
  BY <1>2, <1>11, <1>12

\* What the statements of a list execute is what its conditions say.
LEMMA ListAsWritten ==
  ASSUME Parsed, NEW val, NEW T, Takes(T, val), NEW n, There(n)
  PROVE  n \in ShownIn(up[n], val) <=>
           /\ Has(n, "if") => val[n]
           /\ Has(n, "elseif") => val[n]
           /\ IsElse(n) => \A m \in Before(n) : Follows(n, m) => m \notin T
<1>1. CASE home[n] = up[n]
  <2>1. ~ IsElse(n)
    BY <1>1, Home
  <2>2. ~ Has(n, "elseif")
    BY <2>1 DEF IsElse
  <2>3. n \in ShownIn(up[n], val) <=> (Has(n, "if") => val[n])
    BY <1>1, KeptIsShown
  <2>4. QED
    BY <2>1, <2>2, <2>3
<1>2. CASE home[n] # up[n]
  <2>1. IsElse(n) /\ ~ Has(n, "if")
    BY <1>2, Home
  <2>2. n \in ShownIn(up[n], val) <=>
          /\ ~ val[home[n]]
          /\ Has(n, "elseif") => val[n]
          /\ \A m \in Before(n) : m > home[n] => ~ val[m]
    BY <1>2, ElseIsShown
  <2>3. (\A m \in Before(n) : Follows(n, m) => m \notin T) <=>
          ~ val[home[n]] /\ \A m \in Before(n) : m > home[n] => ~ val[m]
    BY <1>2, ChainBefore
  <2>4. QED
    BY <2>1, <2>2, <2>3
<1>3. QED
  BY <1>1, <1>2

\* The root <template> that is left out is seen whatever the conditions are.
LEMMA TopIsWritten ==
  ASSUME Parsed, PlainTemplates, top # Root
  PROVE  /\ top \in Nodes /\ up[top] = Root /\ There(top) /\ Kept(Root) = {top}
         /\ \A mark : ~ Has(top, mark)
         /\ \A val : top \in Written(val)
<1>1. Kept(Root) = {top} /\ node[top].kind = "element" /\ node[top].tag = "template"
  BY DEF Parsed, RInv, Top, SoleTemplate
<1>2. top \in Read /\ up[top] = Root /\ ~ IsComment(top) /\ top \in Nodes /\ TypeOK
  BY <1>1, ReadNodes DEF Kept, IsComment, Parsed, IInv
<1>3. \A mark : ~ Has(top, mark)
  BY <1>1, <1>2 DEF PlainTemplates, TypeOK, Has
<1>4. ASSUME NEW val PROVE top \in Written(val)
  BY <1>2, <1>3, WrittenByParent DEF IsElse
<1>5. QED
  BY <1>1, <1>2, <1>3, <1>4 DEF There

\* Below a node that is shown if and only if it is to be seen, the same holds.
LEMMA ShownAsWritten ==
  ASSUME Parsed, PlainTemplates, NEW val, NEW n, There(n), n # top,
         up[n] # Root /\ up[n] # top => (up[n] \in Shown(val) <=> up[n] \in Written(val))
  PROVE  n \in Shown(val) <=> n \in Written(val)
<1>1. n \in Read /\ n \in Nodes /\ TypeOK
  BY Home DEF There, Parsed, IInv
<1>2. PICK T :
        /\ Takes(T, val)
        /\ n \in Written(val) <=>
             /\ n \in Read
             /\ up[n] = Root \/ up[n] \in Written(val)
             /\ Has(n, "if") => val[n]
             /\ Has(n, "elseif") => val[n]
             /\ IsElse(n) => \A m \in Before(n) : Follows(n, m) => m \notin T
  BY <1>1, WrittenByParent DEF Takes
<1>3. n \in ShownIn(up[n], val) <=>
        /\ Has(n, "if") => val[n]
        /\ Has(n, "elseif") => val[n]
        /\ IsElse(n) => \A m \in Before(n) : Follows(n, m) => m \notin T
  BY <1>2, ListAsWritten
<1>4. n \in Shown(val) <=> /\ n \in Read
                           /\ up[n] = top \/ (up[n] # Root /\ up[n] \in Shown(val))
                           /\ n \in ShownIn(up[n], val)
  BY <1>1, ShownByParent
<1>5. CASE up[n] = Root /\ top # Root
  <2>1. n \notin Kept(Root)
    BY <1>5, TopIsWritten
  <2>2. home[n] # up[n]
    BY <1>1, <1>5, <2>1 DEF Kept
  <2>3. home[n] \in Kept(Root) /\ Has(home[n], "if")
    BY <1>5, <2>2, Home
  <2>4. FALSE
    BY <1>5, <2>3, TopIsWritten
  <2>5. QED
    BY <2>4
<1>6. CASE up[n] = Root /\ top = Root
  BY <1>1, <1>2, <1>3, <1>4, <1>6
<1>7. CASE up[n] # Root /\ up[n] = top
  <2>1. up[n] \in Written(val)
    BY <1>7, TopIsWritten
  <2>2. QED
    BY <1>1, <1>2, <1>3, <1>4, <1>7, <2>1
<1>8. CASE up[n] # Root /\ up[n] # top
  BY <1>1, <1>2, <1>3, <1>4, <1>8
<1>9. QED
  BY <1>5, <1>6, <1>7, <1>8

\* parseList and ifStatement.Exec show a node, for every outcome of the conditions, if and
\* only if the conditions written on it and around it say so: at any depth, and with any
\* chains.  The conditions of a root <template> are the exception (parsevue.go:214).
THEOREM ShowsAsWritten ==
  ASSUME OneMark, PlainTemplates
  PROVE  Spec => []RendersAsWritten
<1>1. IInv /\ RInv => RendersAsWritten
  <2> SUFFICES ASSUME IInv, RInv, status = "done",
                      NEW val \in Outcomes, NEW n \in Read \ {top}, There(n)
               PROVE  n \in Shown(val) <=> n \in Written(val)
    BY DEF RendersAsWritten, There
  <2>1. Parsed
    BY DEF Parsed
  <2>2. Read \subseteq Nodes /\ \A k \in Nodes : k \in Nat
    BY ReadNodes DEF IInv
  <2>3. PICK bad : bad = {k \in Read \ {top} :
                            There(k) /\ ~ (k \in Shown(val) <=> k \in Written(val))}
    OBVIOUS
  <2>4. ASSUME bad # {} PROVE FALSE
    <3>1. bad \subseteq Nodes
      BY <2>2, <2>3
    <3>2. PICK k \in bad : \A j \in bad : k <= j
      BY <2>4, <3>1, FirstNode
    <3>3. k # top /\ There(k) /\ k \in Read /\ k \in Nat
      BY <2>2, <2>3, <3>2
    <3>4. CASE up[k] # Root /\ up[k] # top
      <4>1. up[k] \in Read /\ node[up[k]].kind = "element"
        BY <3>3, <3>4 DEF RInv, ParentsAreElements
      <4>2. There(up[k]) /\ up[k] \in Nat /\ up[k] < k
        BY <2>1, <2>2, <3>3, <4>1, Home DEF There, IsComment
      <4>3. up[k] \notin bad
        BY <3>2, <3>3, <4>2
      <4>4. up[k] \in Shown(val) <=> up[k] \in Written(val)
        BY <2>3, <3>4, <4>1, <4>2, <4>3
      <4>5. k \in Shown(val) <=> k \in Written(val)
        BY <2>1, <3>3, <4>4, ShownAsWritten
      <4>6. QED
        BY <2>3, <3>2, <4>5
    <3>5. CASE ~ (up[k] # Root /\ up[k] # top)
      <4>1. k \in Shown(val) <=> k \in Written(val)
        BY <2>1, <3>3, <3>5, ShownAsWritten
      <4>2. QED
        BY <2>3, <3>2, <4>1
    <3>6. QED
      BY <3>4, <3>5
  <2>5. QED
    BY <2>3, <2>4
<1>2. QED
  BY <1>1, RInvariance, PTL

-----------------------------------------------------------------------------
(* The attributes of the call *)

Content == {n \in Read : up[n] = top /\ ~ IsComment(n)}
Alone(val) == Cardinality(ShownIn(top, val) \cap Content) <= 1

\* A single root, and what may stand in its place, is all that the component has.
LEMMA SingleRoot ==
  ASSUME Parsed, NEW c \in Kept(top), node[c].kind = "element",
         \A d \in Kept(top) : d = c \/ IsComment(d)
  PROVE  /\ Distributed(top) = {n \in Content : node[n].kind = "element"}
         /\ \A val : Alone(val)
<1>1. c \in Read /\ c \in Nodes /\ up[c] = top /\ ~ IsComment(c) /\ TypeOK
  BY ReadNodes DEF Kept, IsComment, Parsed, IInv
<1>2. Content = {c} \cup Branches(c)
  <2>1. ASSUME NEW n \in Content PROVE n = c \/ n \in Branches(c)
    <3>1. There(n) /\ up[n] = top /\ ~ IsComment(n) /\ n \in Read
      BY <2>1 DEF Content, There
    <3>2. CASE home[n] = up[n]
      <4>1. n \in Kept(top)
        BY <3>1, <3>2 DEF Kept
      <4>2. QED
        BY <3>1, <4>1
    <3>3. CASE home[n] # up[n]
      <4>1. home[n] \in Kept(top) /\ home[n] \in Before(n) /\ up[n] < home[n]
            /\ home[n] \in Nat
        BY <3>1, <3>3, Home
      <4>2. home[n] = c
        BY <4>1 DEF Before
      <4>3. up[n] # home[n]
        BY <3>3
      <4>4. QED
        BY <3>1, <4>2, <4>3 DEF Branches
    <3>4. QED
      BY <3>2, <3>3
  <2>2. ASSUME NEW b \in Branches(c) PROVE b \in Content
    <3>1. There(b) /\ ~ IsComment(b) /\ up[c] = up[b]
      BY <1>1, <2>2, BranchesAreElse
    <3>2. QED
      BY <1>1, <3>1 DEF Content, There
  <2>3. QED
    BY <1>1, <2>1, <2>2 DEF Content
<1>3. \A b \in Branches(c) : node[b].kind = "element" /\ Has(c, "if")
  <2>1. ASSUME NEW b \in Branches(c) PROVE node[b].kind = "element" /\ Has(c, "if")
    <3>1. IsElse(b) /\ Has(c, "if") /\ node[b] \in Markup
      BY <1>1, <2>1, BranchesAreElse, ReadNodes DEF Branches, TypeOK
    <3>2. node[b].marks # {}
      BY <3>1 DEF IsElse, Has
    <3>3. QED
      BY <3>1, <3>2, MarkupAssumption
  <2>2. QED
    BY <2>1
<1>4. PICK roots : roots = {x \in Kept(top) : /\ node[x].kind = "element"
                                              /\ \A d \in Kept(top) : d = x \/ IsComment(d)}
  OBVIOUS
<1>5. roots = {c}
  BY <1>1, <1>4 DEF IsComment
<1>6. Distributed(top) = {c} \cup (IF Has(c, "if") THEN Branches(c) ELSE {})
  <2>1. Distributed(top) = roots \cup UNION {Branches(x) : x \in {r \in roots : Has(r, "if")}}
    BY <1>4 DEF Distributed
  <2>2. QED
    BY <1>5, <2>1
<1>7. Distributed(top) = {n \in Content : node[n].kind = "element"}
  BY <1>2, <1>3, <1>6
<1>8. ASSUME NEW val PROVE Alone(val)
  <2>1. ASSUME NEW n \in ShownIn(top, val) \cap Content PROVE n \in Chosen(c, val)
    <3>1. PICK d \in Kept(top) : n \in Chosen(d, val)
      BY <2>1 DEF ShownIn
    <3>2. CASE d = c
      BY <3>1, <3>2
    <3>3. CASE d # c
      <4>1. IsComment(d) /\ d \in Nodes
        BY <1>1, <3>3, ReadNodes DEF Kept
      <4>2. ~ Has(d, "if")
        BY <1>1, <4>1, MarksOf DEF Parsed
      <4>3. n = d
        BY <3>1, <4>2 DEF Chosen
      <4>4. QED
        BY <2>1, <4>1, <4>3 DEF Content
    <3>4. QED
      BY <3>2, <3>3
  <2>2. \E x : Chosen(c, val) \subseteq {x}
    BY DEF Chosen
  <2>3. PICK x : ShownIn(top, val) \cap Content \subseteq {x}
    BY <2>1, <2>2
  <2>4. Cardinality({x}) = 1 /\ IsFiniteSet({x})
    BY FS_Singleton
  <2>5. Cardinality(ShownIn(top, val) \cap Content) <= Cardinality({x})
    BY <2>3, <2>4, FS_Subset
  <2>6. QED
    BY <2>4, <2>5 DEF Alone
<1>9. QED
  BY <1>7, <1>8

\* Two roots are there together if all conditions are true.
LEMMA TwoRoots ==
  ASSUME Parsed, NEW n \in Content, node[n].kind = "element",
         ~ \E c \in Kept(top) : /\ node[c].kind = "element"
                                /\ \A d \in Kept(top) : d = c \/ IsComment(d)
  PROVE  \E val \in Outcomes : ~ Alone(val)
<1>1. There(n) /\ up[n] = top /\ ~ IsComment(n) /\ n \in Read /\ TypeOK
  BY DEF Content, There, Parsed, IInv
<1>2. PICK c \in Kept(top) : node[c].kind = "element"
  <2>1. CASE home[n] = up[n]
    BY <1>1, <2>1 DEF Kept
  <2>2. CASE home[n] # up[n]
    <3>1. home[n] \in Kept(top) /\ Has(home[n], "if")
      BY <1>1, <2>2, Home
    <3>2. node[home[n]] \in Markup /\ node[home[n]].marks # {}
      BY <1>1, <3>1, ReadNodes DEF Kept, Has
    <3>3. QED
      BY <3>1, <3>2, MarkupAssumption
  <2>3. QED
    BY <2>1, <2>2
<1>3. PICK d \in Kept(top) : d # c /\ ~ IsComment(d)
  BY <1>2
<1>4. c \in Content /\ d \in Content
  BY <1>2, <1>3 DEF Kept, Content, IsComment
<1>5. PICK val : val = [k \in Nodes |-> TRUE]
  OBVIOUS
<1>6. val \in Outcomes
  BY <1>5 DEF Outcomes
<1>7. \A k \in Kept(top) : k \in Chosen(k, val)
  <2>1. Kept(top) \subseteq Nodes
    BY <1>1, ReadNodes DEF Kept
  <2>2. QED
    BY <1>5, <2>1 DEF Chosen
<1>8. {c, d} \subseteq ShownIn(top, val) \cap Content
  BY <1>3, <1>4, <1>7 DEF ShownIn
<1>9. IsFiniteSet(ShownIn(top, val) \cap Content)
  <2>1. read \in Int /\ 1 \in Int
    BY <1>1, ReadNodes
  <2>2. IsFiniteSet(1 .. read)
    BY <2>1, FS_Interval
  <2>3. Content \subseteq 1 .. read
    BY DEF Content, Read
  <2>4. QED
    BY <2>2, <2>3, FS_Subset
<1>10. Cardinality({c, d}) = 2 /\ IsFiniteSet({c, d})
  <2>1. IsFiniteSet({c}) /\ Cardinality({c}) = 1
    BY FS_Singleton
  <2>2. {c, d} = {c} \cup {d} /\ d \notin {c}
    BY <1>3
  <2>3. PICK S : S = {c}
    OBVIOUS
  <2>4. IsFiniteSet(S \cup {d}) /\ Cardinality(S \cup {d}) = Cardinality(S) + 1
    BY <2>1, <2>2, <2>3, FS_AddElement
  <2>5. QED
    BY <2>1, <2>2, <2>3, <2>4
<1>11. Cardinality({c, d}) <= Cardinality(ShownIn(top, val) \cap Content)
  BY <1>8, <1>9, FS_Subset
<1>12. Cardinality(ShownIn(top, val) \cap Content) \in Nat
  BY <1>9, FS_CardinalityType
<1>13. ~ (Cardinality(ShownIn(top, val) \cap Content) <= 1)
  BY <1>10, <1>11, <1>12
<1>14. QED
  BY <1>6, <1>13 DEF Alone

\* Parse gives the attributes of the call to all the elements that can be the one root of
\* the component, those in ElseIf included, and to none if two roots can be there at once
\* (parsevue.go:218).
THEOREM AttributesReachTheRoot ==
  ASSUME OneMark
  PROVE  Spec => []AttrsToTheRoot
<1>1. IInv /\ RInv => AttrsToTheRoot
  <2> SUFFICES ASSUME IInv, RInv, status = "done"
               PROVE  attr = IF \A val \in Outcomes : Alone(val)
                             THEN {n \in Content : node[n].kind = "element"} ELSE {}
    BY DEF AttrsToTheRoot, Content, Alone
  <2>1. Parsed /\ attr = Distributed(top)
    BY DEF Parsed, RInv, Top
  <2>2. CASE \E c \in Kept(top) : /\ node[c].kind = "element"
                                  /\ \A d \in Kept(top) : d = c \/ IsComment(d)
    BY <2>1, <2>2, SingleRoot
  <2>3. CASE ~ \E c \in Kept(top) : /\ node[c].kind = "element"
                                    /\ \A d \in Kept(top) : d = c \/ IsComment(d)
    <3>1. attr = {}
      BY <2>1, <2>3 DEF Distributed
    <3>2. CASE \E n \in Content : node[n].kind = "element"
      <4>1. \E val \in Outcomes : ~ Alone(val)
        BY <2>1, <2>3, <3>2, TwoRoots
      <4>2. QED
        BY <3>1, <4>1
    <3>3. CASE ~ \E n \in Content : node[n].kind = "element"
      BY <3>1, <3>3
    <3>4. QED
      BY <3>2, <3>3
  <2>4. QED
    BY <2>2, <2>3
<1>2. QED
  BY <1>1, RInvariance, PTL
=============================================================================
