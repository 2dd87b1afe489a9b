-------------------------- MODULE PropsListProofs ---------------------------
(***************************************************************************)
(* What PropsList guarantees for any Props and any jobs in which a bind    *)
(* comes first.  The nodes of a list belong to the Props that made them.   *)
(* Only its owner assigns to a node, until it is complete; a Props that    *)
(* binds it owns the first node of its list, and to the others it assigns  *)
(* the Next that they have.                                                *)
(***************************************************************************)
EXTENDS PropsList, SequenceTheorems, TLAPS

-----------------------------------------------------------------------------
(* The invariant, for each Props *)

Own(p) == \A i \in 1 .. Len(list[p]) : list[p][i][1] = p

\* What is left of the job, and what it says about the Props.
JobInv(p) ==
  /\ BindsAlone(todo[p])
  /\ pc[p] = "walk" => Doing(p, "bind") \/ Doing(p, "write")
  /\ pc[p] = "next" /\ Doing(p, "bind") => list[p] = << >> /\ data[p] = Empty
  /\ \A i \in 1 .. Len(todo[p]) : todo[p][i].op = "append" => Own(p)
  /\ todo[p] # << >> /\ ~ Walking(p, "write") => out[p] = << >>

EndsInv(p) ==
  IF list[p] = << >> THEN keys[p] = Nil
  ELSE keys[p] = list[p][1] /\ last[p] = list[p][Len(list[p])]

KeysInv(p) ==
  /\ \A i \in 1 .. Len(list[p]) : data[p][KeyOf(list[p][i])] # Unset
  /\ \A k \in Key : data[p][k] # Unset => \E i \in 1 .. Len(list[p]) : KeyOf(list[p][i]) = k
  /\ \A i, j \in 1 .. Len(list[p]) : KeyOf(list[p][i]) = KeyOf(list[p][j]) => i = j

\* The first node is its own, the others belong to it or to a complete Props.
NodesInv(p) ==
  /\ list[p] # << >> => list[p][1][1] = p
  /\ \A i \in 1 .. Len(list[p]) : list[p][i][1] = p \/ todo[list[p][i][1]] = << >>
  /\ \A k \in Key : (\A i \in 1 .. Len(list[p]) : list[p][i] # <<p, k>>) => next[<<p, k>>] = Nil

ChainInv(p) == \A i \in 1 .. Len(list[p]) - 1 : next[list[p][i]] = list[p][i + 1]

\* Next of the last node: that of the list which is bound, if it is one of its nodes.
TailInv(p) ==
  list[p] # << >> =>
    LET n == Len(list[p])
        q == Walked(p)
    IN next[list[p][n]] = IF Walking(p, "bind") /\ n >= 2 /\ n < Len(list[q])
                          THEN list[q][n + 1] ELSE Nil

\* A bind: so far p has what q has.
CopyInv(p) ==
  Walking(p, "bind") =>
    LET q == Walked(p)
        n == Len(list[p])
    IN /\ todo[q] = << >>
       /\ n <= Len(list[q])
       /\ \A i \in 1 .. n :
            /\ KeyOf(list[p][i]) = KeyOf(list[q][i])
            /\ way[list[p][i]] = way[list[q][i]]
            /\ data[p][KeyOf(list[q][i])] = data[q][KeyOf(list[q][i])]
            /\ i >= 2 => list[p][i] = list[q][i]
       /\ cur[p] = IF n < Len(list[q]) THEN list[q][n + 1] ELSE Nil

\* A tag that is written: so far it has written what is in front of cur.
WriteInv(p) ==
  Walking(p, "write") =>
    LET n == Len(out[p])
        l == list[p]
    IN /\ n <= Len(l)
       /\ \A i \in 1 .. n : out[p][i] = Attribute(way[l[i]], KeyOf(l[i]), data[p][KeyOf(l[i])])
       /\ cur[p] = IF n < Len(l) THEN l[n + 1] ELSE Nil

PropsInv(p) ==
  /\ JobInv(p) /\ EndsInv(p) /\ KeysInv(p) /\ NodesInv(p)
  /\ ChainInv(p) /\ TailInv(p) /\ CopyInv(p) /\ WriteInv(p)

IInv == TypeOK /\ \A p \in Obj : PropsInv(p)

-----------------------------------------------------------------------------
(* Types *)

LEMMA OpTyping ==
  ASSUME NEW a \in Op
  PROVE  /\ a.op \in {"append", "bind", "write"}
         /\ a.op = "append" => a.way \in Way /\ a.key \in Key /\ a.val \in Seq(Val)
         /\ a.op = "bind" => a.from \in Obj
BY DEF Op

LEMMA JobTyping ==
  ASSUME TypeOK, NEW p \in Obj
  PROVE  /\ todo[p] \in Seq(Op) /\ Len(todo[p]) \in Nat
         /\ \A i \in 1 .. Len(todo[p]) : todo[p][i] \in Op
         /\ todo[p] # << >> => /\ Head(todo[p]) \in Op /\ Head(todo[p]) = todo[p][1]
                               /\ Tail(todo[p]) \in Seq(Op) /\ Len(todo[p]) >= 1
BY HeadTailProperties, ElementOfSeq, LenProperties, EmptySeq DEF TypeOK

LEMMA ListTyping ==
  ASSUME TypeOK, NEW p \in Obj
  PROVE  /\ list[p] \in Seq(Node) /\ Len(list[p]) \in Nat
         /\ list[p] = << >> <=> Len(list[p]) = 0
         /\ \A i \in 1 .. Len(list[p]) :
              /\ list[p][i] \in Node /\ list[p][i] # Nil /\ KeyOf(list[p][i]) \in Key
              /\ list[p][i][1] \in Obj
              /\ list[p][i] = <<list[p][i][1], KeyOf(list[p][i])>>
              /\ way[list[p][i]] \in Way
<1>1. list[p] \in Seq(Node) /\ Len(list[p]) \in Nat
  BY LenProperties DEF TypeOK
<1>2. list[p] = << >> <=> Len(list[p]) = 0
  BY <1>1, EmptySeq
<1>3. ASSUME NEW i \in 1 .. Len(list[p])
      PROVE  list[p][i] \in Node
  BY <1>1, <1>3, ElementOfSeq
<1>4. ASSUME NEW n \in Node
      PROVE  /\ n # Nil /\ KeyOf(n) \in Key /\ n[1] \in Obj /\ n = <<n[1], KeyOf(n)>>
             /\ way[n] \in Way
  BY <1>4, PropsAssumption DEF Node, KeyOf, TypeOK
<1>5. QED
  BY <1>1, <1>2, <1>3, <1>4

LEMMA DataTyping ==
  ASSUME TypeOK, NEW p \in Obj, NEW k \in Key
  PROVE  data[p][k] \in Seq(Val) \cup {Unset}
BY DEF TypeOK, Data

-----------------------------------------------------------------------------
(* The beginning *)

LEMMA InitIInv == Init => IInv
<1> SUFFICES ASSUME Init PROVE IInv
  OBVIOUS
<1>1. TypeOK
  <2>1. todo \in [Obj -> Seq(Op)]
    BY PropsAssumption DEF Init
  <2>2. [k \in Key |-> Unset] \in Data
    BY DEF Data
  <2>3. QED
    BY <2>1, <2>2 DEF Init, TypeOK, Empty, Way
<1>2. ASSUME NEW p \in Obj
      PROVE  PropsInv(p)
  <2>1. BindsAlone(todo[p])
    BY PropsAssumption DEF Init
  <2>2. list[p] = << >> /\ Len(list[p]) = 0 /\ data[p] = Empty /\ pc[p] = "next" /\ out[p] = << >>
    BY DEF Init
  <2>3. JobInv(p)
    BY <2>1, <2>2 DEF JobInv, Own
  <2>4. EndsInv(p)
    BY <2>2 DEF EndsInv, Init
  <2>5. KeysInv(p)
    BY <2>2 DEF KeysInv, Empty
  <2>6. NodesInv(p) /\ ChainInv(p) /\ TailInv(p)
    BY <2>2 DEF NodesInv, ChainInv, TailInv, Init, Node
  <2>7. CopyInv(p) /\ WriteInv(p)
    BY <2>2 DEF CopyInv, WriteInv, Walking
  <2>8. QED
    BY <2>3, <2>4, <2>5, <2>6, <2>7 DEF PropsInv
<1>3. QED
  BY <1>1, <1>2 DEF IInv

-----------------------------------------------------------------------------
(* One step of one Props *)

\* A step of p leaves the other Props, and the nodes that p does not own, alone.
Framed(p) ==
  /\ \A r \in Obj \ {p} :
       /\ todo'[r] = todo[r] /\ pc'[r] = pc[r] /\ cur'[r] = cur[r] /\ keys'[r] = keys[r]
       /\ last'[r] = last[r] /\ data'[r] = data[r] /\ out'[r] = out[r] /\ list'[r] = list[r]
  /\ \A n \in Node : n[1] # p => next'[n] = next[n] /\ way'[n] = way[n]

\* What Link does to p, to the node m that it adds, and to nothing else.
Added(p, m, w) ==
  /\ m \in Node
  /\ keys' = [keys EXCEPT ![p] = IF list[p] = << >> THEN m ELSE keys[p]]
  /\ last' = [last EXCEPT ![p] = m]
  /\ list' = [list EXCEPT ![p] = Append(list[p], m)]
  /\ way' = [way EXCEPT ![m] = w]
  /\ next' = IF list[p] = << >> THEN [next EXCEPT ![m] = Nil]
             ELSE [next EXCEPT ![list[p][Len(list[p])]] = m]

LEMMA Linking ==
  ASSUME TypeOK, NEW p \in Obj, EndsInv(p), NEW n \in Node, NEW w \in Way, Link(p, n, w)
  PROVE  Added(p, IF list[p] = << >> THEN <<p, KeyOf(n)>> ELSE n, w)
<1>1. <<p, KeyOf(n)>> \in Node
  BY DEF Node, KeyOf
<1>2. keys[p] = Nil <=> list[p] = << >>
  <2>1. CASE list[p] = << >>
    BY <2>1 DEF EndsInv
  <2>2. CASE list[p] # << >>
    BY <2>2, ListTyping DEF EndsInv
  <2>3. QED
    BY <2>1, <2>2
<1>3. CASE list[p] = << >>
  BY <1>1, <1>2, <1>3 DEF Link, Added
<1>4. CASE list[p] # << >>
  <2>1. last[p] = list[p][Len(list[p])]
    BY <1>4 DEF EndsInv
  <2>2. keys' = [keys EXCEPT ![p] = keys[p]]
    BY <1>2, <1>4 DEF Link
  <2>3. QED
    BY <1>2, <1>4, <2>1, <2>2 DEF Link, Added
<1>5. QED
  BY <1>3, <1>4

LEMMA AddedTypes ==
  ASSUME TypeOK, NEW p \in Obj, NEW m \in Node, NEW w \in Way, Added(p, m, w)
  PROVE  /\ keys' \in [Obj -> Node \cup {Nil}] /\ last' \in [Obj -> Node \cup {Nil}]
         /\ next' \in [Node -> Node \cup {Nil}] /\ way' \in [Node -> Way]
         /\ list' \in [Obj -> Seq(Node)]
<1>1. Append(list[p], m) \in Seq(Node)
  BY AppendProperties DEF TypeOK
<1>2. QED
  BY <1>1 DEF TypeOK, Added

\* The list of p with its new last node.
LEMMA AddedList ==
  ASSUME TypeOK, NEW p \in Obj, NEW m \in Node, NEW w \in Way, Added(p, m, w)
  PROVE  /\ Len(list[p]) \in Nat /\ Len(list'[p]) = Len(list[p]) + 1
         /\ list'[p] # << >>
         /\ \A i \in 1 .. Len(list[p]) : list'[p][i] = list[p][i]
         /\ list'[p][Len(list[p]) + 1] = m
<1>1. list'[p] = Append(list[p], m) /\ list[p] \in Seq(Node)
  BY DEF TypeOK, Added
<1>2. QED
  BY <1>1, AppendProperties, LenProperties

\* No other list has a node of a Props that is not complete.
LEMMA Owned ==
  ASSUME IInv, NEW p \in Obj, todo[p] # << >>, NEW r \in Obj, r # p,
         NEW i \in 1 .. Len(list[r])
  PROVE  list[r][i][1] # p
BY DEF IInv, PropsInv, NodesInv
\* A list has a node once.
LEMMA NodesDiffer ==
  ASSUME TypeOK, NEW p \in Obj, KeysInv(p),
         NEW i \in 1 .. Len(list[p]), NEW j \in 1 .. Len(list[p]), i # j
  PROVE  list[p][i] # list[p][j]
BY DEF KeysInv

\* A step of p preserves what holds for the others.
LEMMA Others ==
  ASSUME IInv, NEW p \in Obj, todo[p] # << >>, Framed(p), NEW r \in Obj, r # p
  PROVE  PropsInv(r)'
<1> USE DEF Framed
<1>1. PropsInv(r) /\ TypeOK
  BY DEF IInv
<1>2. /\ todo'[r] = todo[r] /\ pc'[r] = pc[r] /\ cur'[r] = cur[r] /\ keys'[r] = keys[r]
      /\ last'[r] = last[r] /\ data'[r] = data[r] /\ out'[r] = out[r] /\ list'[r] = list[r]
  OBVIOUS
<1>3. ASSUME NEW s \in Obj, s # p, NEW i \in 1 .. Len(list[s])
      PROVE  next'[list[s][i]] = next[list[s][i]] /\ way'[list[s][i]] = way[list[s][i]]
  BY <1>1, <1>3, Owned, ListTyping
<1>4. ASSUME Walking(r, "bind")
      PROVE  /\ Walked(r) \in Obj /\ Walked(r) # p /\ todo'[Walked(r)] = << >>
             /\ list'[Walked(r)] = list[Walked(r)] /\ data'[Walked(r)] = data[Walked(r)]
  <2>1. Walked(r) \in Obj
    BY <1>1, <1>4, JobTyping, OpTyping DEF Walking, Doing, Walked
  <2>2. todo[Walked(r)] = << >>
    BY <1>1, <1>4 DEF PropsInv, CopyInv
  <2>3. QED
    BY <2>1, <2>2
<1>5. JobInv(r)'
  BY <1>1, <1>2 DEF PropsInv, JobInv, Doing, Walking, Own
<1>6. EndsInv(r)'
  BY <1>1, <1>2 DEF PropsInv, EndsInv
<1>7. KeysInv(r)'
  BY <1>1, <1>2 DEF PropsInv, KeysInv
<1>8. NodesInv(r)'
  <2>1. ASSUME NEW i \in 1 .. Len(list[r])
        PROVE  list[r][i][1] = r \/ todo'[list[r][i][1]] = << >>
    BY <1>1, ListTyping DEF PropsInv, NodesInv
  <2>2. ASSUME NEW k \in Key
        PROVE  next'[<<r, k>>] = next[<<r, k>>]
    BY DEF Node
  <2>3. list[r] # << >> => list[r][1][1] = r
    BY <1>1 DEF PropsInv, NodesInv
  <2>4. ASSUME NEW k \in Key, \A i \in 1 .. Len(list'[r]) : list'[r][i] # <<r, k>>
        PROVE  next'[<<r, k>>] = Nil
    BY <1>1, <1>2, <2>2, <2>4 DEF PropsInv, NodesInv
  <2>5. \A i \in 1 .. Len(list'[r]) : list'[r][i][1] = r \/ todo'[list'[r][i][1]] = << >>
    BY <1>2, <2>1
  <2>6. list'[r] # << >> => list'[r][1][1] = r
    BY <1>2, <2>3
  <2>7. QED
    BY <2>4, <2>5, <2>6, Zenon DEF NodesInv
<1>9. ChainInv(r)'
  <2>1. ASSUME NEW i \in 1 .. Len(list[r]) - 1
        PROVE  next'[list[r][i]] = list[r][i + 1]
    <3>1. i \in 1 .. Len(list[r])
      BY <1>1, ListTyping
    <3>2. QED
      BY <1>1, <1>3, <3>1 DEF PropsInv, ChainInv
  <2>2. QED
    BY <1>2, <2>1 DEF ChainInv
<1>10. TailInv(r)'
  <2>1. Walked(r)' = Walked(r) /\ (Walking(r, "bind")' <=> Walking(r, "bind"))
    BY <1>2 DEF Walked, Walking, Doing
  <2>2. SUFFICES ASSUME list[r] # << >> PROVE TailInv(r)'
    BY <1>2 DEF TailInv
  <2>3. Len(list[r]) \in 1 .. Len(list[r])
    BY <1>1, <2>2, ListTyping
  <2>4. next'[list[r][Len(list[r])]] = next[list[r][Len(list[r])]]
    BY <1>3, <2>3
  <2>5. QED
    BY <1>1, <1>2, <1>4, <2>1, <2>4 DEF PropsInv, TailInv
<1>11. CopyInv(r)'
  <2>1. Walked(r)' = Walked(r) /\ (Walking(r, "bind")' <=> Walking(r, "bind"))
    BY <1>2 DEF Walked, Walking, Doing
  <2>2. SUFFICES ASSUME Walking(r, "bind") PROVE CopyInv(r)'
    BY <2>1 DEF CopyInv
  <2>3. PICK q \in Obj : q = Walked(r)
    BY <1>4, <2>2
  <2>4. q # p /\ todo'[q] = << >> /\ list'[q] = list[q] /\ data'[q] = data[q]
    BY <1>4, <2>2, <2>3
  <2>5. Len(list[r]) \in Nat /\ Len(list[q]) \in Nat /\ Len(list[r]) <= Len(list[q])
    BY <1>1, <2>2, <2>3, ListTyping DEF PropsInv, CopyInv
  <2>6. ASSUME NEW i \in 1 .. Len(list[r])
        PROVE  way'[list[r][i]] = way[list[r][i]] /\ way'[list[q][i]] = way[list[q][i]]
    <3>1. i \in 1 .. Len(list[q])
      BY <2>5
    <3>2. QED
      BY <1>3, <2>4, <3>1
  <2>7. ASSUME NEW i \in 1 .. Len(list[r])
        PROVE  /\ KeyOf(list[r][i]) = KeyOf(list[q][i])
               /\ way'[list[r][i]] = way'[list[q][i]]
               /\ data'[r][KeyOf(list[q][i])] = data'[q][KeyOf(list[q][i])]
               /\ i >= 2 => list[r][i] = list[q][i]
    BY <1>1, <1>2, <2>2, <2>3, <2>4, <2>6 DEF PropsInv, CopyInv
  <2>8. cur[r] = IF Len(list[r]) < Len(list[q]) THEN list[q][Len(list[r]) + 1] ELSE Nil
    BY <1>1, <2>2, <2>3 DEF PropsInv, CopyInv
  <2>9. QED
    BY <1>2, <2>1, <2>3, <2>4, <2>5, <2>7, <2>8 DEF CopyInv
<1>12. WriteInv(r)'
  BY <1>1, <1>2, <1>3 DEF PropsInv, WriteInv, Walking, Doing
<1>13. QED
  BY <1>5, <1>6, <1>7, <1>8, <1>9, <1>10, <1>11, <1>12 DEF PropsInv

\* Put changes the value of one key, and that key has a value then.
LEMMA PutValue ==
  ASSUME NEW d \in Data, NEW k \in Key, NEW v \in Seq(Val)
  PROVE  /\ Put(d, k, v) \in Data /\ Put(d, k, v)[k] # Unset
         /\ d[k] = Unset => Put(d, k, v)[k] = v
         /\ \A j \in Key : j # k => Put(d, k, v)[j] = d[j]
<1>1. ASSUME d[k] # Unset
      PROVE  d[k] \o v \in Seq(Val)
  BY <1>1, ConcatProperties DEF Data
<1>2. QED
  BY <1>1, PropsAssumption DEF Put, Data

\* What holds for p after a node with a new key has been linked.
LEMMA AddedInv ==
  ASSUME TypeOK, NEW p \in Obj, PropsInv(p), NEW m \in Node, NEW w \in Way, Added(p, m, w),
         NEW v \in Seq(Val), data[p][KeyOf(m)] = Unset,
         data' = [data EXCEPT ![p] = Put(data[p], KeyOf(m), v)],
         list[p] = << >> => m[1] = p,
         m[1] = p \/ todo'[m[1]] = << >>,
         \A r \in Obj : todo[r] = << >> => todo'[r] = << >>
  PROVE  /\ EndsInv(p)' /\ KeysInv(p)' /\ NodesInv(p)' /\ ChainInv(p)'
         /\ next'[m] = IF list[p] = << >> THEN Nil ELSE next[m]
<1> DEFINE n == Len(list[p])
<1>1. n \in Nat /\ (list[p] = << >> <=> n = 0) /\ Len(list'[p]) = n + 1 /\ list'[p] # << >>
  BY AddedList, ListTyping
<1>2. (\A i \in 1 .. n : list'[p][i] = list[p][i]) /\ list'[p][n + 1] = m
  BY AddedList
<1>3. \A i \in 1 .. n : KeyOf(list[p][i]) # KeyOf(m) /\ list[p][i] # m
  BY DEF PropsInv, KeysInv
<1>4. KeyOf(m) \in Key
  BY DEF Node, KeyOf
<1>5. /\ data'[p][KeyOf(m)] # Unset
      /\ \A j \in Key : j # KeyOf(m) => data'[p][j] = data[p][j]
  BY <1>4, PutValue DEF TypeOK
<1>6. \A i \in 1 .. n : list[p][i] \in Node /\ KeyOf(list[p][i]) \in Key
  BY ListTyping
<1>7. /\ n >= 1 => next'[list[p][n]] = m
      /\ n = 0 => next'[m] = Nil
      /\ \A i \in Node : i # m /\ (n >= 1 => i # list[p][n]) => next'[i] = next[i]
      /\ n >= 1 => next'[m] = next[m]
  <2>1. CASE n = 0
    BY <1>1, <2>1 DEF Added, TypeOK
  <2>2. CASE n >= 1
    <3>1. next' = [next EXCEPT ![list[p][n]] = m]
      BY <1>1, <2>2 DEF Added
    <3>2. n \in 1 .. n
      BY <1>1, <2>2
    <3>3. list[p][n] \in Node /\ list[p][n] # m
      BY <1>3, <1>6, <3>2
    <3>4. QED
      BY <2>2, <3>1, <3>3 DEF TypeOK
  <2>3. QED
    BY <1>1, <2>1, <2>2
<1> HIDE DEF n
<1>8. EndsInv(p)'
  <2>1. keys'[p] = IF n = 0 THEN m ELSE keys[p]
    BY <1>1 DEF Added, TypeOK
  <2>2. last'[p] = m
    BY DEF Added, TypeOK
  <2>3. ASSUME n # 0
        PROVE  keys[p] = list[p][1] /\ list'[p][1] = list[p][1]
    <3>1. 1 \in 1 .. n
      BY <1>1, <2>3
    <3>2. QED
      BY <1>1, <1>2, <2>3, <3>1 DEF PropsInv, EndsInv
  <2>4. n = 0 => list'[p][1] = m
    BY <1>2
  <2>5. QED
    BY <1>1, <1>2, <2>1, <2>2, <2>3, <2>4 DEF EndsInv
<1>9. KeysInv(p)'
  <2>1. \A i \in 1 .. n + 1 : i \in 1 .. n \/ i = n + 1
    BY <1>1
  <2>2. ASSUME NEW i \in 1 .. n + 1
        PROVE  data'[p][KeyOf(list'[p][i])] # Unset
    BY <1>2, <1>3, <1>5, <1>6, <2>1 DEF PropsInv, KeysInv, n
  <2>3. ASSUME NEW k \in Key, data'[p][k] # Unset
        PROVE  \E i \in 1 .. n + 1 : KeyOf(list'[p][i]) = k
    <3>1. CASE k = KeyOf(m)
      <4>1. n + 1 \in 1 .. n + 1
        BY <1>1
      <4>2. QED
        BY <1>2, <3>1, <4>1
    <3>2. CASE k # KeyOf(m)
      <4>1. PICK i \in 1 .. n : KeyOf(list[p][i]) = k
        BY <1>5, <2>3, <3>2 DEF PropsInv, KeysInv, n
      <4>2. i \in 1 .. n + 1
        BY <1>1
      <4>3. QED
        BY <1>2, <4>1, <4>2
    <3>3. QED
      BY <3>1, <3>2
  <2>4. ASSUME NEW i \in 1 .. n + 1, NEW j \in 1 .. n + 1, KeyOf(list'[p][i]) = KeyOf(list'[p][j])
        PROVE  i = j
    BY <1>2, <1>3, <2>1, <2>4 DEF PropsInv, KeysInv, n
  <2>5. QED
    BY <1>1, <2>2, <2>3, <2>4 DEF KeysInv
<1>10. NodesInv(p)'
  <2>1. list'[p][1][1] = p
    <3>1. CASE n = 0
      BY <1>1, <1>2, <3>1
    <3>2. CASE n # 0
      BY <1>1, <1>2, <3>2 DEF PropsInv, NodesInv
    <3>3. QED
      BY <3>1, <3>2
  <2>2. ASSUME NEW i \in 1 .. Len(list'[p])
        PROVE  list'[p][i][1] = p \/ todo'[list'[p][i][1]] = << >>
    <3>1. CASE i = n + 1
      BY <1>2, <3>1
    <3>2. CASE i # n + 1
      <4>1. i \in 1 .. n
        BY <1>1, <3>2
      <4>2. list[p][i][1] = p \/ todo[list[p][i][1]] = << >>
        BY <4>1 DEF PropsInv, NodesInv, n
      <4>3. list[p][i][1] \in Obj
        BY <4>1, ListTyping DEF n
      <4>4. QED
        BY <1>2, <4>1, <4>2, <4>3
    <3>3. QED
      BY <3>1, <3>2
  <2>3. ASSUME NEW k \in Key, \A i \in 1 .. Len(list'[p]) : list'[p][i] # <<p, k>>
        PROVE  next'[<<p, k>>] = Nil
    <3>1. n + 1 \in 1 .. n + 1 /\ \A i \in 1 .. n : i \in 1 .. n + 1
      BY <1>1
    <3>2. <<p, k>> # m /\ \A i \in 1 .. n : list[p][i] # <<p, k>>
      BY <1>1, <1>2, <2>3, <3>1
    <3>3. n >= 1 => n \in 1 .. n
      BY <1>1
    <3>4. <<p, k>> \in Node
      BY DEF Node
    <3>5. next'[<<p, k>>] = next[<<p, k>>]
      BY <1>7, <3>2, <3>3, <3>4
    <3>6. QED
      BY <3>2, <3>5 DEF PropsInv, NodesInv, n
  <2>4. QED
    BY <2>1, <2>2, <2>3, Zenon DEF NodesInv
<1>11. ChainInv(p)'
  <2>1. ASSUME NEW i \in 1 .. n
        PROVE  next'[list'[p][i]] = list'[p][i + 1]
    <3>1. CASE i = n
      BY <1>1, <1>2, <1>7, <3>1
    <3>2. CASE i # n
      <4>1. i \in 1 .. n - 1 /\ i + 1 \in 1 .. n /\ n \in 1 .. n
        BY <1>1, <3>2
      <4>2. next[list[p][i]] = list[p][i + 1]
        BY <4>1 DEF PropsInv, ChainInv, n
      <4>3. list[p][i] # list[p][n]
        BY <3>2, <4>1, NodesDiffer DEF PropsInv, n
      <4>4. next'[list[p][i]] = next[list[p][i]]
        BY <1>3, <1>6, <1>7, <4>3
      <4>5. QED
        BY <1>2, <4>1, <4>2, <4>4
    <3>3. QED
      BY <3>1, <3>2
  <2>2. Len(list'[p]) - 1 = n
    BY <1>1
  <2>3. QED
    BY <2>1, <2>2 DEF ChainInv
<1>12. QED
  BY <1>1, <1>7, <1>8, <1>9, <1>10, <1>11
-----------------------------------------------------------------------------
(* The steps *)

\* The rest of a job binds nothing.  A bind has no append behind it, a write nothing.
LEMMA RestOfJob ==
  ASSUME TypeOK, NEW p \in Obj, todo[p] # << >>, BindsAlone(todo[p])
  PROVE  /\ Tail(todo[p]) \in Seq(Op) /\ BindsAlone(Tail(todo[p]))
         /\ Tail(todo[p]) # << >> => Head(Tail(todo[p])).op # "bind"
         /\ Head(todo[p]).op = "bind" =>
              \A i \in 1 .. Len(todo[p]) : todo[p][i].op # "append"
         /\ Head(todo[p]).op # "append" =>
              \A i \in 1 .. Len(Tail(todo[p])) : Tail(todo[p])[i].op # "append"
         /\ Head(todo[p]).op = "write" => Tail(todo[p]) = << >>
<1> DEFINE s == todo[p]
           t == Tail(todo[p])
<1>1. s \in Seq(Op) /\ s # << >> /\ t \in Seq(Op) /\ Head(s) = s[1]
  BY JobTyping
<1>2. /\ Len(s) \in Nat /\ Len(s) >= 1 /\ Len(t) = Len(s) - 1
      /\ \A i \in 1 .. Len(t) : t[i] = s[i + 1]
  BY <1>1, HeadTailProperties, LenProperties, EmptySeq
<1>3. t # << >> => Head(t) = t[1] /\ 1 \in 1 .. Len(t)
  BY <1>1, HeadTailProperties, LenProperties, EmptySeq
<1>4. \A i \in 1 .. Len(s) :
        /\ s[i].op = "bind" => i = 1
        /\ s[i].op = "append" => s[1].op # "bind"
        /\ s[i].op = "write" => i = Len(s)
  BY DEF BindsAlone
<1>5. \A i \in 1 .. Len(s) : s[i].op \in {"append", "bind", "write"}
  BY JobTyping, OpTyping
<1>6. Len(t) = 0 => t = << >>
  BY <1>1, EmptySeq
<1> HIDE DEF s, t
<1>7. \A i \in 1 .. Len(t) : i \in Nat /\ i >= 1 /\ i + 1 \in 1 .. Len(s) /\ i + 1 # 1
  BY <1>2
<1>8. \A i \in 1 .. Len(t) : t[i].op # "bind"
  BY <1>2, <1>4, <1>7
<1>9. 1 \in 1 .. Len(s)
  BY <1>2
<1>10. ASSUME s[1].op = "write"
       PROVE  t = << >>
  BY <1>2, <1>4, <1>6, <1>9, <1>10
<1>11. ASSUME s[1].op # "append", NEW i \in 1 .. Len(t)
       PROVE  t[i].op # "append"
  <2>1. s[1].op = "bind" \/ t = << >>
    BY <1>5, <1>9, <1>10, <1>11
  <2>2. CASE s[1].op = "bind"
    BY <1>2, <1>4, <1>7, <2>2
  <2>3. CASE t = << >>
    BY <1>11, <2>3
  <2>4. QED
    BY <2>1, <2>2, <2>3
<1>12. BindsAlone(t)
  <2>1. ASSUME NEW i \in 1 .. Len(t), t[i].op = "write"
        PROVE  i = Len(t)
    BY <1>2, <1>4, <1>7, <2>1
  <2>2. ASSUME NEW i \in 1 .. Len(t)
        PROVE  t[1].op # "bind"
    <3>1. 1 \in 1 .. Len(t)
      BY <1>2, <2>2
    <3>2. QED
      BY <1>8, <3>1
  <2>3. QED
    BY <1>8, <2>1, <2>2 DEF BindsAlone
<1>13. s = todo[p] /\ t = Tail(todo[p])
  BY DEF s, t
<1>14. Head(s).op = "bind" => \A i \in 1 .. Len(s) : s[i].op # "append"
  BY <1>1, <1>4
<1>15. t # << >> => Head(t).op # "bind"
  BY <1>3, <1>8
<1>16. QED
  BY <1>1, <1>10, <1>11, <1>12, <1>13, <1>14, <1>15

LEMMA AppendKeyKeeps ==
  ASSUME IInv, NEW p \in Obj, AppendKey(p)
  PROVE  TypeOK' /\ Framed(p) /\ PropsInv(p)'
<1>1. TypeOK /\ PropsInv(p)
  BY DEF IInv
<1>2. todo[p] # << >> /\ Head(todo[p]).op = "append" /\ pc[p] = "next"
  BY DEF AppendKey, Doing
<1>3. PICK a \in Op : a = Head(todo[p])
  BY <1>1, <1>2, JobTyping
<1>4. a.op = "append" /\ a.key \in Key /\ a.way \in Way /\ a.val \in Seq(Val)
  BY <1>2, <1>3, OpTyping
<1>5. PICK m \in Node : m = <<p, a.key>>
  BY <1>4 DEF Node
<1>6. KeyOf(m) = a.key /\ m[1] = p /\ <<p, KeyOf(m)>> = m
  BY <1>5 DEF KeyOf
<1>7. /\ AppendNode(p, m, a.way, a.val)
      /\ todo' = [todo EXCEPT ![p] = Tail(todo[p])]
      /\ pc' = pc /\ cur' = cur /\ out' = out
  BY <1>3, <1>5 DEF AppendKey
<1>8. data' = [data EXCEPT ![p] = Put(data[p], KeyOf(m), a.val)]
  BY <1>7 DEF AppendNode
<1>9. data[p] \in Data /\ Put(data[p], KeyOf(m), a.val) \in Data
  BY <1>1, <1>4, <1>6, PutValue DEF TypeOK
<1>10. BindsAlone(todo[p])
  BY <1>1 DEF PropsInv, JobInv
<1>11. /\ todo' \in [Obj -> Seq(Op)] /\ pc' \in [Obj -> {"next", "walk"}]
       /\ cur' \in [Obj -> Node \cup {Nil}] /\ data' \in [Obj -> Data]
       /\ out' \in [Obj -> Seq((Key \X Seq(Val)) \cup {<< >>})]
  <2>1. Tail(todo[p]) \in Seq(Op)
    BY <1>1, <1>2, JobTyping
  <2>2. QED
    BY <1>1, <1>7, <1>8, <1>9, <2>1 DEF TypeOK
<1>12. Own(p)
  <2>1. 1 \in 1 .. Len(todo[p]) /\ todo[p][1].op = "append"
    BY <1>1, <1>2, JobTyping
  <2>2. QED
    BY <1>1, <2>1 DEF PropsInv, JobInv
<1>13. todo'[p] = Tail(todo[p]) /\ pc'[p] = "next" /\ out'[p] = << >>
  BY <1>1, <1>2, <1>7 DEF TypeOK, PropsInv, JobInv, Walking, Doing
<1>14. \A r \in Obj : todo[r] = << >> => todo'[r] = << >>
  BY <1>1, <1>2, <1>7 DEF TypeOK
<1>15. CopyInv(p)' /\ WriteInv(p)'
  BY <1>13 DEF CopyInv, WriteInv, Walking
<1>16. ASSUME Own(p)'
       PROVE  JobInv(p)'
  BY <1>1, <1>2, <1>10, <1>13, <1>16, RestOfJob DEF JobInv, Doing
<1>17. CASE data[p][KeyOf(m)] = Unset
  <2>1. Link(p, m, a.way)
    BY <1>7, <1>17 DEF AppendNode
  <2>2. Added(p, m, a.way)
    <3>1. EndsInv(p)
      BY <1>1 DEF PropsInv
    <3>2. m = IF list[p] = << >> THEN <<p, KeyOf(m)>> ELSE m
      BY <1>6
    <3>3. QED
      BY <1>1, <1>4, <2>1, <3>1, <3>2, Linking
  <2>3. TypeOK'
    BY <1>1, <1>4, <1>11, <2>2, AddedTypes DEF TypeOK
  <2>4. /\ EndsInv(p)' /\ KeysInv(p)' /\ NodesInv(p)' /\ ChainInv(p)'
        /\ next'[m] = IF list[p] = << >> THEN Nil ELSE next[m]
    BY <1>1, <1>4, <1>6, <1>8, <1>14, <1>17, <2>2, AddedInv
  <2>5. list'[p] # << >> /\ Len(list'[p]) = Len(list[p]) + 1 /\ Len(list[p]) \in Nat
        /\ list'[p][Len(list[p]) + 1] = m
        /\ \A i \in 1 .. Len(list[p]) : list'[p][i] = list[p][i]
    BY <1>1, <1>4, <2>2, AddedList
  <2>6. next[m] = Nil
    <3>1. \A i \in 1 .. Len(list[p]) : list[p][i] # m
      BY <1>1, <1>17 DEF PropsInv, KeysInv
    <3>2. QED
      BY <1>1, <1>4, <1>5, <3>1 DEF PropsInv, NodesInv
  <2>7. TailInv(p)'
    BY <1>13, <2>4, <2>5, <2>6 DEF TailInv, Walking
  <2>8. Own(p)'
    BY <1>6, <1>12, <2>5 DEF Own
  <2>9. Framed(p)
    <3>1. ASSUME NEW n \in Node, n[1] # p
          PROVE  next'[n] = next[n] /\ way'[n] = way[n]
      <4>1. n # m /\ (list[p] # << >> => n # list[p][Len(list[p])])
        <5>1. list[p] # << >> => Len(list[p]) \in 1 .. Len(list[p])
          BY <1>1, ListTyping
        <5>2. QED
          BY <1>6, <1>12, <3>1, <5>1 DEF Own
      <4>2. QED
        BY <1>1, <2>2, <4>1 DEF Added, TypeOK
    <3>2. QED
      BY <1>1, <1>7, <1>8, <2>2, <3>1 DEF Framed, Added, TypeOK
  <2>10. QED
    BY <1>15, <1>16, <2>3, <2>4, <2>7, <2>8, <2>9 DEF PropsInv
<1>18. CASE data[p][KeyOf(m)] # Unset
  <2>1. UNCHANGED <<keys, last, next, way, list>>
    BY <1>7, <1>18 DEF AppendNode
  <2>2. TypeOK'
    BY <1>1, <1>11, <2>1 DEF TypeOK
  <2>3. Framed(p)
    BY <1>1, <1>7, <1>8, <2>1 DEF Framed, TypeOK
  <2>4. EndsInv(p)' /\ ChainInv(p)' /\ Own(p)'
    BY <1>1, <1>12, <2>1 DEF PropsInv, EndsInv, ChainInv, Own
  <2>5. NodesInv(p)'
    <3>1. ASSUME NEW i \in 1 .. Len(list[p])
          PROVE  list[p][i][1] = p \/ todo'[list[p][i][1]] = << >>
      BY <1>12, <3>1 DEF Own
    <3>2. QED
      BY <1>1, <2>1, <3>1 DEF PropsInv, NodesInv
  <2>6. KeysInv(p)'
    <3>1. ASSUME NEW j \in Key
          PROVE  data'[p][j] # Unset <=> data[p][j] # Unset
      <4>1. data'[p] = Put(data[p], KeyOf(m), a.val)
        BY <1>1, <1>8 DEF TypeOK
      <4>2. /\ Put(data[p], KeyOf(m), a.val)[KeyOf(m)] # Unset
            /\ j # KeyOf(m) => Put(data[p], KeyOf(m), a.val)[j] = data[p][j]
        BY <1>4, <1>6, <1>9, PutValue
      <4>3. QED
        BY <1>18, <4>1, <4>2
    <3>2. \A i \in 1 .. Len(list[p]) : KeyOf(list[p][i]) \in Key
      BY <1>1, ListTyping
    <3>3. QED
      BY <1>1, <2>1, <3>1, <3>2 DEF PropsInv, KeysInv
  <2>7. TailInv(p)'
    BY <1>1, <1>2, <1>13, <2>1 DEF PropsInv, TailInv, Walking
  <2>8. QED
    BY <1>15, <1>16, <2>2, <2>3, <2>4, <2>5, <2>6, <2>7 DEF PropsInv
<1>19. QED
  BY <1>17, <1>18

\* The node that a bind has come to: a key that p does not have yet.
LEMMA NodeToBind ==
  ASSUME IInv, NEW p \in Obj, Walking(p, "bind"), cur[p] # Nil,
         NEW q \in Obj, q = Walked(p)
  PROVE  /\ q # p /\ todo[q] = << >> /\ PropsInv(q)
         /\ Len(list[p]) \in Nat /\ Len(list[q]) \in Nat /\ Len(list[p]) < Len(list[q])
         /\ cur[p] = list[q][Len(list[p]) + 1]
         /\ cur[p] \in Node /\ KeyOf(cur[p]) \in Key
         /\ data[p][KeyOf(cur[p])] = Unset
         /\ data[q][KeyOf(cur[p])] \in Seq(Val)
<1>1. TypeOK /\ PropsInv(p) /\ PropsInv(q)
  BY DEF IInv
<1>2. /\ Len(list[p]) \in Nat /\ Len(list[q]) \in Nat /\ Len(list[p]) <= Len(list[q])
      /\ todo[q] = << >>
      /\ cur[p] = IF Len(list[p]) < Len(list[q]) THEN list[q][Len(list[p]) + 1] ELSE Nil
  BY <1>1, ListTyping DEF PropsInv, CopyInv
<1>3. Len(list[p]) < Len(list[q]) /\ cur[p] = list[q][Len(list[p]) + 1]
  BY <1>2
<1>4. Len(list[p]) + 1 \in 1 .. Len(list[q])
  BY <1>2, <1>3
<1>5. cur[p] \in Node /\ KeyOf(cur[p]) \in Key
  BY <1>1, <1>3, <1>4, ListTyping
<1>6. data[q][KeyOf(cur[p])] \in Seq(Val)
  BY <1>1, <1>3, <1>4, <1>5, DataTyping DEF PropsInv, KeysInv
<1>7. data[p][KeyOf(cur[p])] = Unset
  <2>1. SUFFICES ASSUME data[p][KeyOf(cur[p])] # Unset PROVE FALSE
    OBVIOUS
  <2>2. PICK i \in 1 .. Len(list[p]) : KeyOf(list[p][i]) = KeyOf(cur[p])
    BY <1>1, <1>5, <2>1 DEF PropsInv, KeysInv
  <2>3. KeyOf(list[q][i]) = KeyOf(cur[p])
    BY <1>1, <2>2 DEF PropsInv, CopyInv
  <2>4. i \in 1 .. Len(list[q]) /\ i # Len(list[p]) + 1
    BY <1>2
  <2>5. QED
    BY <1>1, <1>3, <1>4, <2>3, <2>4 DEF PropsInv, KeysInv
<1>8. QED
  BY <1>1, <1>2, <1>3, <1>5, <1>6, <1>7 DEF Walking

LEMMA BindNodeKeeps ==
  ASSUME IInv, NEW p \in Obj, BindNode(p)
  PROVE  TypeOK' /\ Framed(p) /\ PropsInv(p)'
<1>1. TypeOK /\ PropsInv(p)
  BY DEF IInv
<1>2. todo[p] # << >> /\ Head(todo[p]).op = "bind" /\ pc[p] = "walk" /\ cur[p] # Nil
  BY DEF BindNode, Doing
<1>3. Walking(p, "bind")
  BY <1>2 DEF Walking, Doing
<1>4. PICK q \in Obj : q = Walked(p)
  BY <1>1, <1>2, JobTyping, OpTyping DEF Walked
<1> DEFINE j == Len(list[p])
           c == cur[p]
<1>5. /\ q # p /\ todo[q] = << >> /\ PropsInv(q)
      /\ j \in Nat /\ Len(list[q]) \in Nat /\ j < Len(list[q])
      /\ c = list[q][j + 1] /\ c \in Node /\ KeyOf(c) \in Key
      /\ data[p][KeyOf(c)] = Unset /\ data[q][KeyOf(c)] \in Seq(Val)
  BY <1>2, <1>3, <1>4, NodeToBind
<1>6. way[c] \in Way
  BY <1>1, <1>5 DEF TypeOK
<1>7. /\ AppendNode(p, c, way[c], data[q][KeyOf(c)])
      /\ cur' = [cur EXCEPT ![p] = next'[c]]
      /\ todo' = todo /\ pc' = pc /\ out' = out
  BY <1>4 DEF BindNode
<1>8. PICK m \in Node : m = IF list[p] = << >> THEN <<p, KeyOf(c)>> ELSE c
  BY <1>5 DEF Node
<1>9. /\ KeyOf(m) = KeyOf(c) /\ (list[p] = << >> => m[1] = p)
      /\ (list[p] # << >> => m = c)
  BY <1>8 DEF KeyOf
<1>10. /\ Added(p, m, way[c])
       /\ data' = [data EXCEPT ![p] = Put(data[p], KeyOf(m), data[q][KeyOf(c)])]
  <2>1. EndsInv(p)
    BY <1>1 DEF PropsInv
  <2>2. Link(p, c, way[c])
    BY <1>5, <1>7 DEF AppendNode
  <2>3. QED
    BY <1>1, <1>5, <1>6, <1>7, <1>8, <1>9, <2>1, <2>2, Linking DEF AppendNode
<1>11. data' = [data EXCEPT ![p] = Put(data[p], KeyOf(m), data[q][KeyOf(c)])]
  BY <1>10
<1>12. /\ Put(data[p], KeyOf(m), data[q][KeyOf(c)]) \in Data
       /\ data'[p][KeyOf(c)] = data[q][KeyOf(c)]
       /\ \A k \in Key : k # KeyOf(c) => data'[p][k] = data[p][k]
       /\ data'[q] = data[q]
  <2>1. data[p] \in Data
    BY <1>1 DEF TypeOK
  <2>2. QED
    BY <1>1, <1>5, <1>9, <1>11, <2>1, PutValue DEF TypeOK
<1>13. c[1] # p /\ (c[1] = q \/ todo[c[1]] = << >>) /\ c[1] \in Obj
  <2>1. j + 1 \in 1 .. Len(list[q])
    BY <1>5
  <2>2. QED
    BY <1>1, <1>2, <1>5, <2>1, Owned, ListTyping DEF PropsInv, NodesInv
<1>14. /\ EndsInv(p)' /\ KeysInv(p)' /\ NodesInv(p)' /\ ChainInv(p)'
       /\ next'[m] = IF list[p] = << >> THEN Nil ELSE next[m]
  <2>1. m[1] = p \/ todo'[m[1]] = << >>
    BY <1>5, <1>7, <1>9, <1>13
  <2>2. \A r \in Obj : todo[r] = << >> => todo'[r] = << >>
    BY <1>7
  <2>3. data[p][KeyOf(m)] = Unset
    BY <1>5, <1>9
  <2>4. QED
    BY <1>1, <1>5, <1>6, <1>9, <1>10, <2>1, <2>2, <2>3, AddedInv
<1>15. /\ Len(list'[p]) = j + 1 /\ list'[p] # << >> /\ list'[p][j + 1] = m
       /\ \A i \in 1 .. j : list'[p][i] = list[p][i]
  BY <1>1, <1>6, <1>10, AddedList
<1>16. j = 0 <=> list[p] = << >>
  BY <1>1, ListTyping
<1>17. /\ way'[m] = way[c]
       /\ \A n \in Node : n # m => way'[n] = way[n]
       /\ \A n \in Node : n # m /\ (j # 0 => n # list[p][j]) => next'[n] = next[n]
       /\ j # 0 => next'[list[p][j]] = m
  <2>1. j # 0 => j \in 1 .. j
    BY <1>5
  <2>2. j # 0 => list[p][j] \in Node
    BY <1>1, <2>1, ListTyping
  <2>3. QED
    BY <1>1, <1>10, <1>16, <2>2 DEF Added, TypeOK
<1>18. ASSUME j >= 2
       PROVE  list[p][j] = list[q][j] /\ next[list[p][j]] = c
  <2>1. j \in 1 .. j /\ j \in 1 .. Len(list[q]) - 1
    BY <1>5, <1>18
  <2>2. list[p][j] = list[q][j]
    BY <1>1, <1>3, <1>4, <1>18, <2>1 DEF PropsInv, CopyInv
  <2>3. QED
    BY <1>5, <2>1, <2>2 DEF PropsInv, ChainInv
<1>19. ASSUME NEW n \in Node, n[1] # p
       PROVE  next'[n] = next[n] /\ way'[n] = way[n]
  <2>1. CASE j = 0
    BY <1>9, <1>16, <1>17, <1>19, <2>1
  <2>2. CASE j = 1
    <3>1. list[p][1][1] = p /\ m = c
      BY <1>1, <1>9, <1>16, <2>2 DEF PropsInv, NodesInv
    <3>2. n # list[p][j]
      BY <1>19, <2>2, <3>1
    <3>3. next'[m] = next[m]
      BY <1>14, <1>16, <2>2
    <3>4. QED
      BY <1>17, <3>1, <3>2, <3>3
  <2>3. CASE j >= 2
    <3>1. m = c /\ next'[m] = next[m] /\ j # 0
      BY <1>9, <1>14, <1>16, <2>3
    <3>2. QED
      BY <1>17, <1>18, <2>3, <3>1
  <2>4. j = 0 \/ j = 1 \/ j >= 2
    <3>1. PICK k \in Nat : k = j
      BY <1>5
    <3>2. k = 0 \/ k = 1 \/ k >= 2
      OBVIOUS
    <3>3. QED
      BY <3>1, <3>2
  <2>5. QED
    BY <2>1, <2>2, <2>3, <2>4
<1>20. Framed(p)
  BY <1>1, <1>7, <1>10, <1>19 DEF Framed, Added, TypeOK
<1>21. next'[c] = IF j + 1 < Len(list[q]) THEN list[q][j + 2] ELSE Nil
  <2>1. next'[c] = next[c]
    BY <1>5, <1>13, <1>19
  <2>2. CASE j + 1 < Len(list[q])
    <3>1. j + 1 \in 1 .. Len(list[q]) - 1 /\ (j + 1) + 1 = j + 2
      BY <1>5, <2>2
    <3>2. QED
      BY <1>5, <2>1, <2>2, <3>1 DEF PropsInv, ChainInv
  <2>3. CASE ~ (j + 1 < Len(list[q]))
    <3>1. j + 1 = Len(list[q]) /\ list[q] # << >>
      BY <1>1, <1>5, <2>3, ListTyping
    <3>2. ~ Walking(q, "bind")
      BY <1>5 DEF Walking, Doing
    <3>3. QED
      BY <1>5, <2>1, <2>3, <3>1, <3>2 DEF PropsInv, TailInv
  <2>4. QED
    BY <2>2, <2>3
<1>22. TypeOK'
  <2>1. keys' \in [Obj -> Node \cup {Nil}] /\ last' \in [Obj -> Node \cup {Nil}]
        /\ next' \in [Node -> Node \cup {Nil}] /\ way' \in [Node -> Way]
        /\ list' \in [Obj -> Seq(Node)]
    BY <1>1, <1>6, <1>10, AddedTypes
  <2>2. cur' \in [Obj -> Node \cup {Nil}]
    <3>1. next'[c] \in Node \cup {Nil}
      BY <1>5, <2>1
    <3>2. QED
      BY <1>1, <1>7, <3>1 DEF TypeOK
  <2>3. data' \in [Obj -> Data]
    BY <1>1, <1>11, <1>12 DEF TypeOK
  <2>4. QED
    BY <1>1, <1>7, <2>1, <2>2, <2>3 DEF TypeOK
<1>23. JobInv(p)'
  <2>1. \A i \in 1 .. Len(todo[p]) : todo[p][i].op # "append"
    BY <1>1, <1>2, RestOfJob DEF PropsInv, JobInv
  <2>2. QED
    BY <1>1, <1>2, <1>3, <1>7, <2>1 DEF PropsInv, JobInv, Doing, Walking
<1>24. Walking(p, "bind")' /\ ~ Walking(p, "write")' /\ Walked(p)' = q /\ list'[q] = list[q]
  BY <1>1, <1>2, <1>4, <1>5, <1>7, <1>20 DEF Walking, Doing, Walked, Framed
<1>25. TailInv(p)'
  <2>1. next'[m] = IF j = 0 THEN Nil ELSE next'[c]
    BY <1>9, <1>14, <1>16
  <2>2. QED
    BY <1>5, <1>15, <1>21, <1>24, <2>1 DEF TailInv
<1>26. CopyInv(p)'
  <2>1. ASSUME NEW i \in 1 .. j + 1
        PROVE  /\ KeyOf(list'[p][i]) = KeyOf(list[q][i])
               /\ way'[list'[p][i]] = way'[list[q][i]]
               /\ data'[p][KeyOf(list[q][i])] = data[q][KeyOf(list[q][i])]
               /\ i >= 2 => list'[p][i] = list[q][i]
    <3>1. CASE i = j + 1
      <4>1. i >= 2 => m = c
        BY <1>5, <1>9, <1>16, <3>1
      <4>2. way'[c] = way[c]
        BY <1>5, <1>13, <1>19
      <4>3. QED
        BY <1>5, <1>9, <1>12, <1>15, <1>17, <3>1, <4>1, <4>2
    <3>2. CASE i # j + 1
      <4>1. i \in 1 .. j /\ i \in 1 .. Len(list[q]) /\ j + 1 \in 1 .. Len(list[q])
        BY <1>5, <3>2
      <4>2. /\ KeyOf(list[p][i]) = KeyOf(list[q][i])
            /\ way[list[p][i]] = way[list[q][i]]
            /\ data[p][KeyOf(list[q][i])] = data[q][KeyOf(list[q][i])]
            /\ i >= 2 => list[p][i] = list[q][i]
        BY <1>1, <1>3, <1>4, <4>1 DEF PropsInv, CopyInv
      <4>3. list[p][i] \in Node /\ list[q][i] \in Node /\ KeyOf(list[q][i]) \in Key
        BY <1>1, <4>1, ListTyping
      <4>4. KeyOf(list[q][i]) # KeyOf(c)
        BY <1>5, <3>2, <4>1 DEF PropsInv, KeysInv
      <4>5. way'[list[p][i]] = way[list[p][i]]
        BY <1>9, <1>17, <4>2, <4>3, <4>4
      <4>6. way'[list[q][i]] = way[list[q][i]]
        BY <1>2, <1>5, <1>19, <4>1, <4>3, Owned
      <4>7. QED
        BY <1>12, <1>15, <4>1, <4>2, <4>3, <4>4, <4>5, <4>6
    <3>3. QED
      BY <3>1, <3>2
  <2>2. cur'[p] = IF j + 1 < Len(list[q]) THEN list[q][(j + 1) + 1] ELSE Nil
    <3>1. (j + 1) + 1 = j + 2
      BY <1>5
    <3>2. QED
      BY <1>1, <1>7, <1>21, <3>1 DEF TypeOK
  <2>3. todo'[q] = << >> /\ j + 1 <= Len(list[q])
    BY <1>5, <1>7
  <2>4. QED
    BY <1>12, <1>15, <1>24, <2>1, <2>2, <2>3 DEF CopyInv
<1>27. WriteInv(p)'
  BY <1>24 DEF WriteInv
<1>28. QED
  BY <1>14, <1>20, <1>22, <1>23, <1>25, <1>26, <1>27 DEF PropsInv

\* What depends on the list only, when the list stays.
LEMMA ListStays ==
  ASSUME NEW p \in Obj, PropsInv(p), TypeOK, UNCHANGED pvars,
         \A r \in Obj : todo[r] = << >> => todo'[r] = << >>
  PROVE  EndsInv(p)' /\ KeysInv(p)' /\ NodesInv(p)' /\ ChainInv(p)'
<1>1. EndsInv(p)' /\ KeysInv(p)' /\ ChainInv(p)'
  BY DEF pvars, PropsInv, EndsInv, KeysInv, ChainInv
<1>2. ASSUME NEW i \in 1 .. Len(list[p])
      PROVE  list[p][i][1] = p \/ todo'[list[p][i][1]] = << >>
  BY ListTyping DEF PropsInv, NodesInv
<1>3. NodesInv(p)'
  BY <1>2 DEF pvars, PropsInv, NodesInv
<1>4. QED
  BY <1>1, <1>3

\* With no bind under way, the last node of a list has no Next.
LEMMA LastNode ==
  ASSUME NEW p \in Obj, PropsInv(p), ~ Walking(p, "bind"), list[p] # << >>
  PROVE  next[list[p][Len(list[p])]] = Nil
BY DEF PropsInv, TailInv

LEMMA BeginWalkKeeps ==
  ASSUME IInv, NEW p \in Obj, BeginWalk(p)
  PROVE  TypeOK' /\ Framed(p) /\ PropsInv(p)'
<1>1. TypeOK /\ PropsInv(p)
  BY DEF IInv
<1>2. /\ todo[p] # << >> /\ (Head(todo[p]).op = "bind" \/ Head(todo[p]).op = "write")
      /\ pc[p] = "next"
      /\ Head(todo[p]).op = "bind" => todo[Walked(p)] = << >>
  BY DEF BeginWalk, Doing
<1>3. PICK q \in Obj : q = Walked(p)
  BY <1>1, <1>2, JobTyping, OpTyping DEF Walked
<1>4. /\ todo' = todo /\ out' = out /\ UNCHANGED pvars
      /\ pc' = [pc EXCEPT ![p] = "walk"] /\ cur' = [cur EXCEPT ![p] = keys[q]]
  BY <1>3 DEF BeginWalk
<1>5. PropsInv(q) /\ keys[q] \in Node \cup {Nil}
  BY DEF IInv, TypeOK
<1>6. TypeOK'
  BY <1>1, <1>4, <1>5 DEF TypeOK, pvars
<1>7. Framed(p)
  BY <1>1, <1>4 DEF Framed, TypeOK, pvars
<1>8. /\ pc'[p] = "walk" /\ cur'[p] = keys[q] /\ todo'[p] = todo[p] /\ out'[p] = << >>
      /\ Walked(p)' = q
  BY <1>1, <1>2, <1>3, <1>4 DEF TypeOK, Walked, PropsInv, JobInv, Walking
<1>9. JobInv(p)'
  BY <1>1, <1>2, <1>4, <1>8 DEF PropsInv, JobInv, Doing, Walking, Own, pvars
<1>10. EndsInv(p)' /\ KeysInv(p)' /\ NodesInv(p)' /\ ChainInv(p)'
  BY <1>1, <1>4, ListStays
<1>11. cur'[p] = IF 0 < Len(list[q]) THEN list[q][0 + 1] ELSE Nil
  <2>1. list[q] = << >> <=> Len(list[q]) = 0
    BY <1>1, ListTyping
  <2>2. Len(list[q]) \in Nat
    BY <1>1, ListTyping
  <2>3. list[q] # << >> => 0 < Len(list[q])
    BY <2>1, <2>2
  <2>4. keys[q] = IF list[q] = << >> THEN Nil ELSE list[q][1]
    BY <1>5 DEF PropsInv, EndsInv
  <2>5. QED
    BY <1>8, <2>1, <2>3, <2>4
<1>12. CASE Head(todo[p]).op = "bind"
  <2>1. list[p] = << >> /\ Len(list[p]) = 0
    BY <1>1, <1>2, <1>12, ListTyping DEF PropsInv, JobInv, Doing
  <2>2. TailInv(p)'
    BY <1>4, <2>1 DEF TailInv, pvars
  <2>3. WriteInv(p)'
    BY <1>8, <1>12 DEF WriteInv, Walking, Doing
  <2>4. CopyInv(p)'
    <3>1. todo'[q] = << >> /\ Len(list[q]) \in Nat
      BY <1>1, <1>2, <1>3, <1>4, <1>12, ListTyping
    <3>2. list' = list /\ Len(list'[p]) = 0
      BY <1>4, <2>1 DEF pvars
    <3>3. QED
      BY <1>8, <1>11, <3>1, <3>2 DEF CopyInv
  <2>5. QED
    BY <1>6, <1>7, <1>9, <1>10, <2>2, <2>3, <2>4 DEF PropsInv
<1>13. CASE Head(todo[p]).op = "write"
  <2>1. q = p
    BY <1>3, <1>13 DEF Walked
  <2>2. ~ Walking(p, "bind") /\ ~ Walking(p, "bind")'
    BY <1>2, <1>8, <1>13 DEF Walking, Doing
  <2>3. TailInv(p)'
    BY <1>1, <1>4, <2>2, LastNode DEF TailInv, pvars
  <2>4. CopyInv(p)'
    BY <2>2 DEF CopyInv
  <2>5. WriteInv(p)'
    <3>1. Len(out'[p]) = 0 /\ list' = list /\ Len(list[p]) \in Nat
      BY <1>1, <1>4, <1>8, ListTyping DEF pvars
    <3>2. QED
      BY <1>11, <2>1, <3>1 DEF WriteInv
  <2>6. QED
    BY <1>6, <1>7, <1>9, <1>10, <2>3, <2>4, <2>5 DEF PropsInv
<1>14. QED
  BY <1>2, <1>12, <1>13

LEMMA EndWalkKeeps ==
  ASSUME IInv, NEW p \in Obj, EndWalk(p)
  PROVE  todo[p] # << >> /\ TypeOK' /\ Framed(p) /\ PropsInv(p)'
<1>1. TypeOK /\ PropsInv(p)
  BY DEF IInv
<1>2. /\ pc[p] = "walk" /\ cur[p] = Nil /\ cur' = cur /\ out' = out /\ UNCHANGED pvars
      /\ pc' = [pc EXCEPT ![p] = "next"] /\ todo' = [todo EXCEPT ![p] = Tail(todo[p])]
  BY DEF EndWalk
<1>3. todo[p] # << >> /\ (Head(todo[p]).op = "bind" \/ Head(todo[p]).op = "write")
  BY <1>1, <1>2 DEF PropsInv, JobInv, Doing
<1>4. /\ Tail(todo[p]) \in Seq(Op) /\ BindsAlone(Tail(todo[p]))
      /\ Tail(todo[p]) # << >> => Head(Tail(todo[p])).op # "bind"
      /\ \A i \in 1 .. Len(Tail(todo[p])) : Tail(todo[p])[i].op # "append"
      /\ Head(todo[p]).op = "write" => Tail(todo[p]) = << >>
  BY <1>1, <1>3, RestOfJob DEF PropsInv, JobInv
<1>5. todo'[p] = Tail(todo[p]) /\ pc'[p] = "next"
  BY <1>1, <1>2 DEF TypeOK
<1>6. TypeOK'
  BY <1>1, <1>2, <1>4 DEF TypeOK, pvars
<1>7. Framed(p)
  BY <1>1, <1>2 DEF Framed, TypeOK, pvars
<1>8. \A r \in Obj : todo[r] = << >> => todo'[r] = << >>
  BY <1>1, <1>2, <1>3 DEF TypeOK
<1>9. EndsInv(p)' /\ KeysInv(p)' /\ NodesInv(p)' /\ ChainInv(p)'
  BY <1>1, <1>2, <1>8, ListStays
<1>10. JobInv(p)'
  <2>1. Head(todo[p]).op = "bind" => out[p] = << >>
    BY <1>1, <1>3 DEF PropsInv, JobInv, Walking, Doing
  <2>2. QED
    BY <1>2, <1>3, <1>4, <1>5, <2>1 DEF JobInv, Doing, Own
<1>11. ~ Walking(p, "bind")' /\ ~ Walking(p, "write")'
  BY <1>5 DEF Walking
<1>12. TailInv(p)'
  <2>1. CASE list[p] = << >>
    BY <1>2, <2>1 DEF TailInv, pvars
  <2>2. CASE list[p] # << >> /\ ~ Walking(p, "bind")
    BY <1>1, <1>2, <1>11, <2>2, LastNode DEF TailInv, pvars
  <2>3. CASE list[p] # << >> /\ Walking(p, "bind")
    <3>1. PICK q \in Obj : q = Walked(p)
      BY <1>1, <1>3, JobTyping, OpTyping DEF Walked
    <3>2. /\ Len(list[p]) \in Nat /\ Len(list[q]) \in Nat /\ Len(list[p]) <= Len(list[q])
          /\ cur[p] = IF Len(list[p]) < Len(list[q]) THEN list[q][Len(list[p]) + 1] ELSE Nil
      BY <1>1, <2>3, <3>1, ListTyping DEF PropsInv, CopyInv
    <3>3. ~ (Len(list[p]) < Len(list[q]))
      <4>1. SUFFICES ASSUME Len(list[p]) < Len(list[q]) PROVE FALSE
        OBVIOUS
      <4>2. Len(list[p]) + 1 \in 1 .. Len(list[q]) /\ list[q][Len(list[p]) + 1] = Nil
        BY <1>2, <3>2, <4>1
      <4>3. QED
        BY <1>1, <4>2, ListTyping
    <3>4. next[list[p][Len(list[p])]] = Nil
      BY <1>1, <2>3, <3>1, <3>3 DEF PropsInv, TailInv
    <3>5. QED
      BY <1>2, <1>11, <3>4 DEF TailInv, pvars
  <2>4. QED
    BY <2>1, <2>2, <2>3
<1>13. CopyInv(p)' /\ WriteInv(p)'
  BY <1>11 DEF CopyInv, WriteInv
<1>14. QED
  BY <1>3, <1>6, <1>7, <1>9, <1>10, <1>12, <1>13 DEF PropsInv

LEMMA WriteNodeKeeps ==
  ASSUME IInv, NEW p \in Obj, WriteNode(p)
  PROVE  TypeOK' /\ Framed(p) /\ PropsInv(p)'
<1>1. TypeOK /\ PropsInv(p)
  BY DEF IInv
<1>2. PICK a : a = Attribute(way[cur[p]], KeyOf(cur[p]), data[p][KeyOf(cur[p])])
  OBVIOUS
<1>3. /\ pc[p] = "walk" /\ todo[p] # << >> /\ Head(todo[p]).op = "write" /\ cur[p] # Nil
      /\ todo' = todo /\ pc' = pc /\ UNCHANGED pvars
      /\ out' = [out EXCEPT ![p] = Append(out[p], a)]
      /\ cur' = [cur EXCEPT ![p] = next[cur[p]]]
  BY <1>2 DEF WriteNode, Doing
<1>4. Walking(p, "write") /\ ~ Walking(p, "bind")
  BY <1>3 DEF Walking, Doing
<1> DEFINE n == Len(out[p])
           l == list[p]
<1>5. /\ n \in Nat /\ Len(l) \in Nat /\ n < Len(l) /\ cur[p] = l[n + 1]
      /\ \A i \in 1 .. n : out[p][i] = Attribute(way[l[i]], KeyOf(l[i]), data[p][KeyOf(l[i])])
  <2>1. n \in Nat /\ Len(l) \in Nat
    BY <1>1, ListTyping, LenProperties DEF TypeOK
  <2>2. cur[p] = IF n < Len(l) THEN l[n + 1] ELSE Nil
    BY <1>1, <1>4 DEF PropsInv, WriteInv
  <2>3. n < Len(l)
    BY <1>3, <2>2
  <2>4. QED
    BY <1>1, <1>4, <2>1, <2>2, <2>3 DEF PropsInv, WriteInv
<1>6. n + 1 \in 1 .. Len(l)
  BY <1>5
<1>7. cur[p] \in Node /\ KeyOf(cur[p]) \in Key /\ way[cur[p]] \in Way
      /\ data[p][KeyOf(cur[p])] \in Seq(Val)
  BY <1>1, <1>5, <1>6, ListTyping, DataTyping DEF PropsInv, KeysInv
<1>8. a \in (Key \X Seq(Val)) \cup {<< >>}
  BY <1>2, <1>7 DEF Attribute
<1>9. /\ Append(out[p], a) \in Seq((Key \X Seq(Val)) \cup {<< >>})
      /\ Len(Append(out[p], a)) = n + 1 /\ Append(out[p], a)[n + 1] = a
      /\ \A i \in 1 .. n : Append(out[p], a)[i] = out[p][i]
  BY <1>1, <1>8, AppendProperties DEF TypeOK
<1>10. next[cur[p]] \in Node \cup {Nil}
  BY <1>1, <1>7 DEF TypeOK
<1>11. TypeOK'
  BY <1>1, <1>3, <1>9, <1>10 DEF TypeOK, pvars
<1>12. Framed(p)
  BY <1>1, <1>3 DEF Framed, TypeOK, pvars
<1>13. Walking(p, "write")' /\ ~ Walking(p, "bind")'
  BY <1>3, <1>4 DEF Walking, Doing
<1>14. EndsInv(p)' /\ KeysInv(p)' /\ NodesInv(p)' /\ ChainInv(p)'
  BY <1>1, <1>3, ListStays
<1>15. JobInv(p)'
  BY <1>1, <1>3, <1>13 DEF PropsInv, JobInv, Doing, Own, pvars
<1>16. TailInv(p)' /\ CopyInv(p)'
  BY <1>1, <1>3, <1>4, <1>13, LastNode DEF TailInv, CopyInv, pvars
<1>17. next[l[n + 1]] = IF n + 1 < Len(l) THEN l[(n + 1) + 1] ELSE Nil
  <2>1. CASE n + 1 < Len(l)
    <3>1. n + 1 \in 1 .. Len(l) - 1
      BY <1>5, <2>1
    <3>2. QED
      BY <1>1, <2>1, <3>1 DEF PropsInv, ChainInv
  <2>2. CASE ~ (n + 1 < Len(l))
    <3>1. n + 1 = Len(l) /\ l # << >>
      BY <1>1, <1>5, <2>2, ListTyping
    <3>2. QED
      BY <1>1, <1>4, <2>2, <3>1, LastNode
  <2>3. QED
    BY <2>1, <2>2
<1>18. WriteInv(p)'
  <2>1. /\ Len(out'[p]) = n + 1 /\ out'[p][n + 1] = a
        /\ \A i \in 1 .. n : out'[p][i] = out[p][i]
    BY <1>1, <1>3, <1>9 DEF TypeOK
  <2>2. ASSUME NEW i \in 1 .. n + 1
        PROVE  out'[p][i] = Attribute(way[l[i]], KeyOf(l[i]), data[p][KeyOf(l[i])])
    <3>1. CASE i = n + 1
      BY <1>2, <1>5, <2>1, <3>1
    <3>2. CASE i # n + 1
      <4>1. i \in 1 .. n
        BY <1>5, <3>2
      <4>2. QED
        BY <1>5, <2>1, <4>1
    <3>3. QED
      BY <3>1, <3>2
  <2>3. cur'[p] = IF n + 1 < Len(l) THEN l[(n + 1) + 1] ELSE Nil
    BY <1>1, <1>3, <1>5, <1>17 DEF TypeOK
  <2>4. n + 1 <= Len(l)
    BY <1>5
  <2>5. list' = list /\ way' = way /\ data' = data
    BY <1>3 DEF pvars
  <2>6. QED
    BY <2>1, <2>2, <2>3, <2>4, <2>5 DEF WriteInv
<1>19. QED
  BY <1>11, <1>12, <1>14, <1>15, <1>16, <1>18 DEF PropsInv

\* Every step of p: its own invariant, and those of the others.
LEMMA StepKeeps ==
  ASSUME IInv, NEW p \in Obj, Step(p)
  PROVE  todo[p] # << >> /\ Framed(p) /\ IInv'
<1>1. todo[p] # << >> /\ TypeOK' /\ Framed(p) /\ PropsInv(p)'
  <2>1. CASE AppendKey(p)
    BY <2>1, AppendKeyKeeps DEF AppendKey, Doing
  <2>2. CASE BeginWalk(p)
    BY <2>2, BeginWalkKeeps DEF BeginWalk, Doing
  <2>3. CASE BindNode(p)
    BY <2>3, BindNodeKeeps DEF BindNode, Doing
  <2>4. CASE WriteNode(p)
    BY <2>4, WriteNodeKeeps DEF WriteNode, Doing
  <2>5. CASE EndWalk(p)
    BY <2>5, EndWalkKeeps
  <2>6. QED
    BY <2>1, <2>2, <2>3, <2>4, <2>5 DEF Step
<1>2. ASSUME NEW r \in Obj
      PROVE  PropsInv(r)'
  <2>1. CASE r = p
    BY <1>1, <2>1
  <2>2. CASE r # p
    BY <1>1, <2>2, Others
  <2>3. QED
    BY <2>1, <2>2
<1>3. QED
  BY <1>1, <1>2 DEF IInv

LEMMA StutterKeeps ==
  ASSUME IInv, UNCHANGED vars
  PROVE  IInv'
<1>1. TypeOK'
  BY DEF IInv, TypeOK, vars
<1>2. ASSUME NEW p \in Obj
      PROVE  PropsInv(p)'
  <2>1. PropsInv(p) /\ TypeOK /\ UNCHANGED <<vars, pvars>>
    BY DEF IInv, vars, pvars
  <2>2. EndsInv(p)' /\ KeysInv(p)' /\ NodesInv(p)' /\ ChainInv(p)'
    BY <2>1, ListStays DEF vars
  <2>3. JobInv(p)'
    BY <2>1 DEF PropsInv, JobInv, Doing, Walking, Own, vars
  <2>4. TailInv(p)'
    BY <2>1 DEF PropsInv, TailInv, Doing, Walking, Walked, vars
  <2>5. CopyInv(p)'
    BY <2>1 DEF PropsInv, CopyInv, Doing, Walking, Walked, vars
  <2>6. WriteInv(p)'
    BY <2>1 DEF PropsInv, WriteInv, Doing, Walking, vars
  <2>7. QED
    BY <2>2, <2>3, <2>4, <2>5, <2>6 DEF PropsInv
<1>3. QED
  BY <1>1, <1>2 DEF IInv

LEMMA NextKeeps == IInv /\ [Next]_vars => IInv'
<1> SUFFICES ASSUME IInv, [Next]_vars PROVE IInv'
  OBVIOUS
<1>1. CASE \E p \in Obj : Step(p)
  BY <1>1, StepKeeps
<1>2. CASE UNCHANGED vars
  BY <1>2, StutterKeeps
<1>3. QED
  BY <1>1, <1>2 DEF Next, Ended

LEMMA Invariance == Spec => []IInv
<1>1. QED
  BY InitIInv, NextKeeps, PTL DEF Spec

-----------------------------------------------------------------------------
(* The theorems *)

\* Props, nodes and jobs keep their types.
THEOREM TypeCorrect == Spec => []TypeOK
<1>1. IInv => TypeOK
  BY DEF IInv
<1>2. QED
  BY <1>1, Invariance, PTL

\* The pointers spell the keys of the map, in order and to the end, whoever binds the
\* Props at the time.
THEOREM ListsKeepOrder == Spec => []ListIsOrder
<1>1. ASSUME IInv
      PROVE  ListIsOrder
  <2>1. ASSUME NEW p \in Obj, todo[p] = << >>
        PROVE  /\ keys[p] = IF list[p] = << >> THEN Nil ELSE list[p][1]
               /\ \A i \in 1 .. Len(list[p]) :
                    next[list[p][i]] = IF i = Len(list[p]) THEN Nil ELSE list[p][i + 1]
    <3>1. PropsInv(p) /\ TypeOK /\ ~ Walking(p, "bind")
      BY <1>1, <2>1 DEF IInv, Walking, Doing
    <3>2. ASSUME NEW i \in 1 .. Len(list[p])
          PROVE  next[list[p][i]] = IF i = Len(list[p]) THEN Nil ELSE list[p][i + 1]
      <4>1. Len(list[p]) \in Nat /\ list[p] # << >>
        BY <3>1, <3>2, ListTyping
      <4>2. CASE i = Len(list[p])
        BY <3>1, <4>1, <4>2, LastNode
      <4>3. CASE i # Len(list[p])
        <5>1. i \in 1 .. Len(list[p]) - 1
          BY <4>1, <4>3
        <5>2. QED
          BY <3>1, <4>3, <5>1 DEF PropsInv, ChainInv
      <4>4. QED
        BY <4>2, <4>3
    <3>3. QED
      BY <3>1, <3>2 DEF PropsInv, EndsInv
  <2>2. ListHoldsKeys
    <3>1. ASSUME NEW p \in Obj
          PROVE  {KeyOf(list[p][i]) : i \in 1 .. Len(list[p])} = {k \in Key : data[p][k] # Unset}
      <4>1. \A i \in 1 .. Len(list[p]) : KeyOf(list[p][i]) \in Key
        BY <1>1, ListTyping DEF IInv
      <4>2. KeysInv(p)
        BY <1>1 DEF IInv, PropsInv
      <4>3. QED
        BY <4>1, <4>2 DEF KeysInv
    <3>2. ASSUME NEW p \in Obj
          PROVE  KeysInv(p)
      BY <1>1 DEF IInv, PropsInv
    <3>3. QED
      BY <3>1, <3>2 DEF ListHoldsKeys, KeysInv
  <2>3. QED
    BY <2>1, <2>2 DEF ListIsOrder, Linked
<1>2. QED
  BY <1>1, Invariance, PTL

\* A bind leaves the Props that it binds as they are, whatever it assigns to their nodes.
THEOREM SourcesIntact == Spec => SourceIntact
<1>1. ASSUME IInv, [Next]_vars, NEW p \in Obj, todo[p] = << >>
      PROVE  /\ UNCHANGED <<keys[p], data[p], list[p]>>
             /\ \A i \in 1 .. Len(list[p]) : UNCHANGED <<next[list[p][i]], way[list[p][i]]>>
  <2>1. CASE \E r \in Obj : Step(r)
    <3>1. PICK r \in Obj : Step(r)
      BY <2>1
    <3>2. todo[r] # << >> /\ Framed(r)
      BY <1>1, <3>1, StepKeeps
    <3>3. p # r
      BY <1>1, <3>2
    <3>4. ASSUME NEW i \in 1 .. Len(list[p])
          PROVE  next'[list[p][i]] = next[list[p][i]] /\ way'[list[p][i]] = way[list[p][i]]
      <4>1. list[p][i] \in Node /\ list[p][i][1] # r
        BY <1>1, <3>2, <3>3, Owned, ListTyping DEF IInv
      <4>2. QED
        BY <3>2, <4>1 DEF Framed
    <3>5. keys'[p] = keys[p] /\ data'[p] = data[p] /\ list'[p] = list[p]
      BY <3>2, <3>3 DEF Framed
    <3>6. QED
      BY <3>4, <3>5
  <2>2. CASE UNCHANGED vars
    BY <2>2 DEF vars
  <2>3. QED
    BY <1>1, <2>1, <2>2 DEF Next, Ended
<1>2. IInv /\ [Next]_vars =>
        [\A p \in Obj :
           todo[p] = << >> =>
             /\ UNCHANGED <<keys[p], data[p], list[p]>>
             /\ \A i \in 1 .. Len(list[p]) :
                  UNCHANGED <<next[list[p][i]], way[list[p][i]]>>]_vars
  BY <1>1
<1>3. QED
  BY <1>2, Invariance, PTL DEF Spec, SourceIntact
-----------------------------------------------------------------------------
(* The ordered map *)

\* How a walk ends: a bind has all keys, a tag has written all.
LEMMA WalkEnded ==
  ASSUME IInv, NEW p \in Obj, cur[p] = Nil
  PROVE  /\ Walking(p, "bind") => Len(list[p]) = Len(list[Walked(p)])
         /\ Walking(p, "write") => Len(out[p]) = Len(list[p])
<1>1. TypeOK /\ PropsInv(p)
  BY DEF IInv
<1>2. ASSUME NEW n \in Nat, NEW q \in Obj, n <= Len(list[q]),
             Nil = IF n < Len(list[q]) THEN list[q][n + 1] ELSE Nil
      PROVE  n = Len(list[q])
  <2>1. Len(list[q]) \in Nat
    BY <1>1, ListTyping
  <2>2. SUFFICES ASSUME n < Len(list[q]) PROVE FALSE
    BY <1>2, <2>1
  <2>3. n + 1 \in 1 .. Len(list[q]) /\ list[q][n + 1] = Nil
    BY <1>2, <2>1, <2>2
  <2>4. QED
    BY <1>1, <2>3, ListTyping
<1>3. ASSUME Walking(p, "bind")
      PROVE  Len(list[p]) = Len(list[Walked(p)])
  <2>1. Walked(p) \in Obj
    BY <1>1, <1>3, JobTyping, OpTyping DEF Walked, Walking, Doing
  <2>2. Len(list[p]) \in Nat
    BY <1>1, ListTyping
  <2>3. QED
    BY <1>1, <1>2, <1>3, <2>1, <2>2 DEF PropsInv, CopyInv
<1>4. ASSUME Walking(p, "write")
      PROVE  Len(out[p]) = Len(list[p])
  <2>1. Len(out[p]) \in Nat
    BY <1>1, LenProperties DEF TypeOK
  <2>2. QED
    BY <1>1, <1>2, <1>4, <2>1 DEF PropsInv, WriteInv
<1>5. QED
  BY <1>3, <1>4

LEMMA ChangedAt ==
  ASSUME NEW f, NEW g, NEW p \in Obj, f = [r \in Obj |-> f[r]], g = [r \in Obj |-> g[r]],
         \A r \in Obj : r # p => g[r] = f[r]
  PROVE  g = [f EXCEPT ![p] = g[p]]
OBVIOUS

\* A step of p shows in the abstract map of p only.
LEMMA OthersStay ==
  ASSUME IInv, NEW p \in Obj, todo[p] # << >>, Framed(p)
  PROVE  /\ OrderOf' = [OrderOf EXCEPT ![p] = OrderOf'[p]]
         /\ DataOf' = [DataOf EXCEPT ![p] = DataOf'[p]]
         /\ OutOf' = [OutOf EXCEPT ![p] = OutOf'[p]]
<1>1. ASSUME NEW r \in Obj, r # p
      PROVE  OrderOf'[r] = OrderOf[r] /\ DataOf'[r] = DataOf[r] /\ OutOf'[r] = OutOf[r]
  <2>1. /\ Walking(r, "bind")' <=> Walking(r, "bind")
        /\ Walking(r, "write")' <=> Walking(r, "write")
        /\ list'[r] = list[r] /\ data'[r] = data[r] /\ out'[r] = out[r]
    BY <1>1 DEF Framed, Walking, Doing
  <2>2. ASSUME NEW i \in DOMAIN list[r]
        PROVE  way'[list[r][i]] = way[list[r][i]]
    <3>1. i \in 1 .. Len(list[r])
      BY <2>2, LenProperties DEF IInv, TypeOK
    <3>2. QED
      BY <1>1, <3>1, Owned, ListTyping DEF IInv, Framed
  <2>3. OrderOf'[r] = OrderOf[r]
    BY <2>1, <2>2 DEF OrderOf
  <2>4. QED
    BY <2>1, <2>3 DEF DataOf, OutOf
<1>2. PICK f1 : f1 = OrderOf
  OBVIOUS
<1>3. PICK g1 : g1 = OrderOf'
  OBVIOUS
<1>4. PICK f2 : f2 = DataOf
  OBVIOUS
<1>5. PICK g2 : g2 = DataOf'
  OBVIOUS
<1>6. PICK f3 : f3 = OutOf
  OBVIOUS
<1>7. PICK g3 : g3 = OutOf'
  OBVIOUS
<1>8. /\ f1 = [r \in Obj |-> f1[r]] /\ g1 = [r \in Obj |-> g1[r]]
      /\ f2 = [r \in Obj |-> f2[r]] /\ g2 = [r \in Obj |-> g2[r]]
      /\ f3 = [r \in Obj |-> f3[r]] /\ g3 = [r \in Obj |-> g3[r]]
  BY <1>2, <1>3, <1>4, <1>5, <1>6, <1>7 DEF OrderOf, DataOf, OutOf
<1>9. \A r \in Obj : r # p => g1[r] = f1[r] /\ g2[r] = f2[r] /\ g3[r] = f3[r]
  BY <1>1, <1>2, <1>3, <1>4, <1>5, <1>6, <1>7
<1>10. g1 = [f1 EXCEPT ![p] = g1[p]]
  BY <1>8, <1>9, ChangedAt
<1>11. g2 = [f2 EXCEPT ![p] = g2[p]]
  BY <1>8, <1>9, ChangedAt
<1>12. g3 = [f3 EXCEPT ![p] = g3[p]]
  BY <1>8, <1>9, ChangedAt
<1>13. QED
  BY <1>2, <1>3, <1>4, <1>5, <1>6, <1>7, <1>10, <1>11, <1>12

\* The abstract map while nothing is walked: the keys of the list.
LEMMA OrderOfList ==
  ASSUME TypeOK, NEW p \in Obj, ~ Walking(p, "bind")
  PROVE  /\ OrderOf[p] = [i \in 1 .. Len(list[p]) |-> <<KeyOf(list[p][i]), way[list[p][i]]>>]
         /\ OrderOf[p] \in Seq(Key \X Way) /\ Len(OrderOf[p]) = Len(list[p])
         /\ DataOf[p] = data[p]
<1>1. DOMAIN list[p] = 1 .. Len(list[p]) /\ Len(list[p]) \in Nat
  BY LenProperties DEF TypeOK
<1>2. OrderOf[p] = [i \in 1 .. Len(list[p]) |-> <<KeyOf(list[p][i]), way[list[p][i]]>>]
  BY <1>1 DEF OrderOf
<1>3. \A i \in 1 .. Len(list[p]) : <<KeyOf(list[p][i]), way[list[p][i]]>> \in Key \X Way
  BY ListTyping
<1>4. OrderOf[p] \in Seq(Key \X Way) /\ Len(OrderOf[p]) = Len(list[p])
  BY <1>1, <1>2, <1>3
<1>5. QED
  BY <1>2, <1>4 DEF DataOf

LEMMA InitOrdered == Init => Ordered!Init
<1> SUFFICES ASSUME Init PROVE Ordered!Init
  OBVIOUS
<1>1. ASSUME NEW p \in Obj
      PROVE  OrderOf[p] = << >> /\ DataOf[p] = Empty /\ OutOf[p] = << >>
  BY DEF Init, OrderOf, DataOf, OutOf, Walking
<1>2. OrderOf = [p \in Obj |-> << >>] /\ DataOf = [p \in Obj |-> Empty]
      /\ OutOf = [p \in Obj |-> << >>]
  BY <1>1 DEF OrderOf, DataOf, OutOf
<1>3. QED
  BY <1>2 DEF Init, Ordered!Init, Empty, Ordered!Empty

\* An append shows at once.
LEMMA AppendKeyOrdered ==
  ASSUME IInv, NEW p \in Obj, AppendKey(p)
  PROVE  Ordered!AppendKey(p)
<1>1. TypeOK /\ PropsInv(p) /\ EndsInv(p)
  BY DEF IInv, PropsInv
<1>2. todo[p] # << >> /\ Head(todo[p]).op = "append" /\ pc[p] = "next"
  BY DEF AppendKey, Doing
<1>3. PICK a \in Op : a = Head(todo[p])
  BY <1>1, <1>2, JobTyping
<1>4. a.op = "append" /\ a.key \in Key /\ a.way \in Way /\ a.val \in Seq(Val)
  BY <1>2, <1>3, OpTyping
<1>5. PICK m \in Node : m = <<p, a.key>>
  BY <1>4 DEF Node
<1>6. KeyOf(m) = a.key /\ <<p, KeyOf(m)>> = m
  BY <1>5 DEF KeyOf
<1>7. /\ AppendNode(p, m, a.way, a.val)
      /\ todo' = [todo EXCEPT ![p] = Tail(todo[p])] /\ pc' = pc /\ out' = out
  BY <1>3, <1>5 DEF AppendKey
<1>8. TypeOK' /\ Framed(p)
  BY AppendKeyKeeps
<1>9. /\ ~ Walking(p, "bind") /\ ~ Walking(p, "bind")'
      /\ ~ Walking(p, "write") /\ ~ Walking(p, "write")'
  BY <1>2, <1>7 DEF Walking
<1> DEFINE n == Len(list[p])
<1>10. /\ OrderOf[p] = [i \in 1 .. n |-> <<KeyOf(list[p][i]), way[list[p][i]]>>]
       /\ OrderOf[p] \in Seq(Key \X Way) /\ Len(OrderOf[p]) = n
       /\ DataOf[p] = data[p]
  BY <1>1, <1>9, OrderOfList
<1>11. /\ OrderOf'[p] = [i \in 1 .. Len(list'[p]) |-> <<KeyOf(list'[p][i]), way'[list'[p][i]]>>]
       /\ OrderOf'[p] \in Seq(Key \X Way) /\ Len(OrderOf'[p]) = Len(list'[p])
       /\ DataOf'[p] = data'[p]
  <2>1. DOMAIN list'[p] = 1 .. Len(list'[p]) /\ Len(list'[p]) \in Nat
    BY <1>8, LenProperties DEF TypeOK
  <2>2. OrderOf'[p] = [i \in 1 .. Len(list'[p]) |-> <<KeyOf(list'[p][i]), way'[list'[p][i]]>>]
    BY <1>9, <2>1 DEF OrderOf
  <2>3. ASSUME NEW i \in 1 .. Len(list'[p])
        PROVE  KeyOf(list'[p][i]) \in Key /\ way'[list'[p][i]] \in Way
    <3>1. list'[p] \in Seq(Node) /\ way' \in [Node -> Way]
      BY <1>8 DEF TypeOK
    <3>2. list'[p][i] \in Node
      BY <2>3, <3>1, ElementOfSeq
    <3>3. QED
      BY <3>1, <3>2 DEF Node, KeyOf
  <2>4. OrderOf'[p] \in Seq(Key \X Way) /\ Len(OrderOf'[p]) = Len(list'[p])
    BY <2>1, <2>2, <2>3
  <2>5. QED
    BY <1>9, <2>2, <2>4 DEF DataOf
<1>12. OrderOf'[p] = IF data[p][a.key] = Unset THEN Append(OrderOf[p], <<a.key, a.way>>)
                     ELSE OrderOf[p]
  <2>1. CASE data[p][a.key] = Unset
    <3>1. Added(p, m, a.way)
      <4>1. m = IF list[p] = << >> THEN <<p, KeyOf(m)>> ELSE m
        BY <1>6
      <4>2. Link(p, m, a.way)
        BY <1>6, <1>7, <2>1 DEF AppendNode
      <4>3. QED
        BY <1>1, <1>4, <4>1, <4>2, Linking
    <3>2. /\ n \in Nat /\ Len(list'[p]) = n + 1 /\ list'[p][n + 1] = m
          /\ \A i \in 1 .. n : list'[p][i] = list[p][i]
      BY <1>1, <1>4, <3>1, AddedList
    <3>3. way'[m] = a.way /\ \A i \in 1 .. n : way'[list[p][i]] = way[list[p][i]]
      <4>1. \A i \in 1 .. n : list[p][i] \in Node /\ list[p][i] # m
        BY <1>1, <1>6, <2>1, ListTyping DEF PropsInv, KeysInv
      <4>2. QED
        BY <1>1, <3>1, <4>1 DEF Added, TypeOK
    <3>4. PICK s \in Seq(Key \X Way) : s = OrderOf[p]
      BY <1>10
    <3>5. PICK e \in Key \X Way : e = <<a.key, a.way>>
      BY <1>4
    <3>6. Len(s) = n /\ \A i \in 1 .. n : s[i] = <<KeyOf(list[p][i]), way[list[p][i]]>>
      BY <1>10, <3>4
    <3>7. PICK t \in Seq(Key \X Way) : t = OrderOf'[p]
      BY <1>11
    <3>8. Len(t) = n + 1
      BY <1>11, <3>2, <3>7
    <3>9. ASSUME NEW i \in 1 .. n + 1
          PROVE  t[i] = Append(s, e)[i]
      <4>1. t[i] = <<KeyOf(list'[p][i]), way'[list'[p][i]]>>
        BY <1>11, <3>2, <3>7
      <4>2. CASE i = n + 1
        BY <1>6, <3>2, <3>3, <3>5, <3>6, <4>1, <4>2, AppendProperties
      <4>3. CASE i # n + 1
        <5>1. i \in 1 .. n
          BY <3>2, <4>3
        <5>2. Append(s, e)[i] = s[i]
          BY <3>6, <5>1, AppendProperties
        <5>3. QED
          BY <3>2, <3>3, <3>6, <4>1, <5>1, <5>2
      <4>4. QED
        BY <4>2, <4>3
    <3>10. Append(s, e) \in Seq(Key \X Way) /\ Len(Append(s, e)) = n + 1
      BY <3>6, AppendProperties
    <3>11. t = Append(s, e)
      BY <3>8, <3>9, <3>10, SeqEqual
    <3>12. QED
      BY <2>1, <3>4, <3>5, <3>7, <3>11
  <2>2. CASE data[p][a.key] # Unset
    <3>1. list' = list /\ way' = way
      BY <1>6, <1>7, <2>2 DEF AppendNode
    <3>2. QED
      BY <1>10, <1>11, <2>2, <3>1
  <2>3. QED
    BY <2>1, <2>2
<1>13. data'[p] = Put(data[p], a.key, a.val)
  BY <1>1, <1>6, <1>7 DEF AppendNode, TypeOK
<1>14. /\ OrderOf' = [OrderOf EXCEPT ![p] = OrderOf'[p]]
       /\ DataOf' = [DataOf EXCEPT ![p] = DataOf'[p]]
       /\ OutOf' = [OutOf EXCEPT ![p] = OutOf'[p]]
  BY <1>2, <1>8, OthersStay
<1>15. OutOf' = OutOf
  <2>1. OutOf'[p] = OutOf[p]
    BY <1>7, <1>9 DEF OutOf
  <2>2. QED
    BY <1>14, <2>1 DEF OutOf
<1>16. /\ OrderOf' = [OrderOf EXCEPT ![p] = IF DataOf[p][a.key] = Unset
                                             THEN Append(OrderOf[p], <<a.key, a.way>>)
                                             ELSE OrderOf[p]]
       /\ DataOf' = [DataOf EXCEPT ![p] = Put(DataOf[p], a.key, a.val)]
  BY <1>10, <1>11, <1>12, <1>13, <1>14
<1>17. QED
  BY <1>2, <1>3, <1>7, <1>15, <1>16 DEF Ordered!AppendKey, Ordered!Doing, Ordered!Put, Put

\* What happens while a list is walked does not show.
LEMMA WalkHidden ==
  ASSUME IInv, NEW p \in Obj, BeginWalk(p) \/ BindNode(p) \/ WriteNode(p)
  PROVE  UNCHANGED <<todo, OrderOf, DataOf, OutOf>>
<1>1. TypeOK /\ PropsInv(p) /\ todo[p] # << >>
  BY DEF IInv, BeginWalk, BindNode, WriteNode, Doing
<1>2. Framed(p) /\ todo' = todo
  BY BeginWalkKeeps, BindNodeKeeps, WriteNodeKeeps DEF BeginWalk, BindNode, WriteNode
<1>3. OrderOf'[p] = OrderOf[p] /\ DataOf'[p] = DataOf[p] /\ OutOf'[p] = OutOf[p]
  <2>1. CASE BeginWalk(p)
    <3>1. /\ pc[p] = "next" /\ pc'[p] = "walk" /\ todo'[p] = todo[p] /\ UNCHANGED pvars
          /\ out' = out /\ (Doing(p, "bind") \/ Doing(p, "write"))
      BY <1>1, <2>1 DEF BeginWalk, TypeOK
    <3>2. CASE Doing(p, "bind")
      <4>1. list[p] = << >> /\ data[p] = Empty
        BY <1>1, <3>1, <3>2 DEF PropsInv, JobInv
      <4>2. ~ Walking(p, "bind") /\ Walking(p, "bind")'
            /\ ~ Walking(p, "write") /\ ~ Walking(p, "write")'
        BY <3>1, <3>2 DEF Walking, Doing
      <4>3. OrderOf[p] = << >>
        <5>1. OrderOf[p] = [i \in 1 .. Len(list[p]) |-> <<KeyOf(list[p][i]), way[list[p][i]]>>]
              /\ OrderOf[p] \in Seq(Key \X Way) /\ Len(OrderOf[p]) = Len(list[p])
          BY <1>1, <4>2, OrderOfList
        <5>2. QED
          BY <4>1, <5>1, EmptySeq
      <4>4. OrderOf'[p] = << >> /\ DataOf'[p] = Empty /\ DataOf[p] = Empty
        BY <4>1, <4>2 DEF OrderOf, DataOf
      <4>5. OutOf'[p] = OutOf[p]
        BY <3>1, <4>2 DEF OutOf
      <4>6. QED
        BY <4>3, <4>4, <4>5
    <3>3. CASE Doing(p, "write")
      <4>1. out[p] = << >>
        BY <1>1, <3>1 DEF PropsInv, JobInv, Walking
      <4>2. ~ Walking(p, "bind") /\ ~ Walking(p, "bind")'
            /\ ~ Walking(p, "write") /\ Walking(p, "write")'
        BY <3>1, <3>3 DEF Walking, Doing
      <4>3. OutOf'[p] = OutOf[p]
        BY <4>1, <4>2 DEF OutOf
      <4>4. QED
        BY <3>1, <4>2, <4>3 DEF OrderOf, DataOf, pvars
    <3>4. QED
      BY <3>1, <3>2, <3>3
  <2>2. CASE BindNode(p)
    <3>1. Walking(p, "bind") /\ Walking(p, "bind")' /\ ~ Walking(p, "write")
          /\ ~ Walking(p, "write")' /\ out' = out
      BY <2>2 DEF BindNode, Walking, Doing
    <3>2. QED
      BY <3>1 DEF OrderOf, DataOf, OutOf
  <2>3. CASE WriteNode(p)
    <3>1. ~ Walking(p, "bind") /\ ~ Walking(p, "bind")' /\ Walking(p, "write")
          /\ Walking(p, "write")' /\ UNCHANGED pvars
      BY <2>3 DEF WriteNode, Walking, Doing
    <3>2. QED
      BY <3>1 DEF OrderOf, DataOf, OutOf, pvars
  <2>4. QED
    BY <2>1, <2>2, <2>3
<1>4. /\ OrderOf' = [OrderOf EXCEPT ![p] = OrderOf'[p]]
      /\ DataOf' = [DataOf EXCEPT ![p] = DataOf'[p]]
      /\ OutOf' = [OutOf EXCEPT ![p] = OutOf'[p]]
  BY <1>1, <1>2, OthersStay
<1>5. OrderOf' = OrderOf
  BY <1>3, <1>4 DEF OrderOf
<1>6. DataOf' = DataOf
  BY <1>3, <1>4 DEF DataOf
<1>7. OutOf' = OutOf
  BY <1>3, <1>4 DEF OutOf
<1>8. QED
  BY <1>2, <1>5, <1>6, <1>7

\* The end of a walk: all of a bind, or of what a tag writes, shows.
LEMMA EndWalkOrdered ==
  ASSUME IInv, NEW p \in Obj, EndWalk(p)
  PROVE  Ordered!BindProps(p) \/ Ordered!WriteAttrs(p)
<1>1. TypeOK /\ PropsInv(p)
  BY DEF IInv
<1>2. /\ pc[p] = "walk" /\ cur[p] = Nil /\ out' = out /\ UNCHANGED pvars
      /\ pc' = [pc EXCEPT ![p] = "next"] /\ todo' = [todo EXCEPT ![p] = Tail(todo[p])]
  BY DEF EndWalk
<1>3. todo[p] # << >> /\ Framed(p)
  BY EndWalkKeeps
<1>4. ~ Walking(p, "bind")' /\ ~ Walking(p, "write")'
  BY <1>1, <1>2 DEF TypeOK, Walking
<1>5. /\ OrderOf' = [OrderOf EXCEPT ![p] = OrderOf'[p]]
      /\ DataOf' = [DataOf EXCEPT ![p] = DataOf'[p]]
      /\ OutOf' = [OutOf EXCEPT ![p] = OutOf'[p]]
  BY <1>3, OthersStay
<1>6. OrderOf'[p] = [i \in 1 .. Len(list[p]) |-> <<KeyOf(list[p][i]), way[list[p][i]]>>]
  <2>1. DOMAIN list[p] = 1 .. Len(list[p])
    BY <1>1, LenProperties DEF TypeOK
  <2>2. QED
    BY <1>2, <1>4, <2>1 DEF OrderOf, pvars
<1>7. DataOf'[p] = data[p] /\ OutOf'[p] = out[p]
  BY <1>2, <1>4 DEF DataOf, OutOf, pvars
<1>8. CASE Head(todo[p]).op = "bind"
  <2>1. Walking(p, "bind") /\ ~ Walking(p, "write")
    BY <1>2, <1>3, <1>8 DEF Walking, Doing
  <2>2. PICK q \in Obj : q = Head(todo[p]).from
    BY <1>1, <1>3, <1>8, JobTyping, OpTyping
  <2>3. q = Walked(p)
    BY <1>8, <2>2 DEF Walked
  <2>4. /\ todo[q] = << >> /\ Len(list[p]) = Len(list[q]) /\ PropsInv(q)
        /\ \A i \in 1 .. Len(list[q]) :
             /\ KeyOf(list[p][i]) = KeyOf(list[q][i])
             /\ way[list[p][i]] = way[list[q][i]]
             /\ data[p][KeyOf(list[q][i])] = data[q][KeyOf(list[q][i])]
    BY <1>1, <1>2, <2>1, <2>3, WalkEnded DEF IInv, PropsInv, CopyInv
  <2>5. ~ Walking(q, "bind")
    BY <2>4 DEF Walking, Doing
  <2>6. /\ OrderOf[q] = [i \in 1 .. Len(list[q]) |-> <<KeyOf(list[q][i]), way[list[q][i]]>>]
        /\ DataOf[q] = data[q]
    BY <1>1, <2>5, OrderOfList
  <2>7. OrderOf'[p] = OrderOf[q]
    BY <1>6, <2>4, <2>6
  <2>8. data[p] = data[q]
    <3>1. ASSUME NEW k \in Key
          PROVE  data[p][k] = data[q][k]
      <4>1. CASE data[q][k] # Unset
        BY <2>4, <4>1 DEF PropsInv, KeysInv
      <4>2. CASE data[p][k] # Unset
        BY <1>1, <2>4, <4>2 DEF PropsInv, KeysInv
      <4>3. QED
        BY <4>1, <4>2
    <3>2. QED
      BY <1>1, <3>1 DEF TypeOK, Data
  <2>9. OutOf' = OutOf
    <3>1. OutOf'[p] = OutOf[p]
      BY <1>7, <2>1 DEF OutOf
    <3>2. QED
      BY <1>5, <3>1 DEF OutOf
  <2>10. Ordered!BindProps(p)
    BY <1>2, <1>3, <1>5, <1>7, <1>8, <2>2, <2>4, <2>6, <2>7, <2>8, <2>9
       DEF Ordered!BindProps, Ordered!Doing
  <2>11. QED
    BY <2>10
<1>9. CASE Head(todo[p]).op = "write"
  <2>1. Walking(p, "write") /\ ~ Walking(p, "bind")
    BY <1>2, <1>3, <1>9 DEF Walking, Doing
  <2>2. /\ OrderOf[p] = [i \in 1 .. Len(list[p]) |-> <<KeyOf(list[p][i]), way[list[p][i]]>>]
        /\ DataOf[p] = data[p]
    BY <1>1, <2>1, OrderOfList
  <2>3. /\ OrderOf' = OrderOf /\ DataOf' = DataOf
    <3>1. OrderOf'[p] = OrderOf[p] /\ DataOf'[p] = DataOf[p]
      BY <1>6, <1>7, <2>2
    <3>2. OrderOf' = OrderOf
      BY <1>5, <3>1 DEF OrderOf
    <3>3. DataOf' = DataOf
      BY <1>5, <3>1 DEF DataOf
    <3>4. QED
      BY <3>2, <3>3
  <2>4. out[p] = [i \in 1 .. Len(list[p]) |->
                    Attribute(way[list[p][i]], KeyOf(list[p][i]), data[p][KeyOf(list[p][i])])]
    <3>1. Len(out[p]) = Len(list[p])
      BY <1>2, <2>1, WalkEnded
    <3>2. out[p] = [i \in 1 .. Len(out[p]) |-> out[p][i]]
      BY <1>1 DEF TypeOK
    <3>3. \A i \in 1 .. Len(out[p]) :
            out[p][i] = Attribute(way[list[p][i]], KeyOf(list[p][i]), data[p][KeyOf(list[p][i])])
      BY <1>1, <2>1 DEF PropsInv, WriteInv
    <3>4. QED
      BY <3>1, <3>2, <3>3
  <2>5. OutOf'[p] = [i \in DOMAIN OrderOf[p] |->
          Attribute(OrderOf[p][i][2], OrderOf[p][i][1], DataOf[p][OrderOf[p][i][1]])]
    BY <1>7, <2>2, <2>4
  <2>6. Ordered!WriteAttrs(p)
    BY <1>2, <1>3, <1>5, <1>9, <2>3, <2>5
       DEF Ordered!WriteAttrs, Ordered!Doing, Ordered!Attribute, Attribute, Ordered!Shown, Shown
  <2>7. QED
    BY <2>6
<1>10. QED
  BY <1>1, <1>2, <1>3, <1>8, <1>9 DEF PropsInv, JobInv, Doing

\* A linked list that shares its nodes behaves as an ordered map that shares nothing:
\* every append, and every bind or write that ends, is the step of that map.
THEOREM ImplementsOrdered == Spec => Ordered!Safety
<1>1. IInv /\ [Next]_vars => [Ordered!Next]_(Ordered!vars)
  <2> SUFFICES ASSUME IInv, [Next]_vars PROVE [Ordered!Next]_(Ordered!vars)
    OBVIOUS
  <2>1. ASSUME NEW p \in Obj, Step(p)
        PROVE  \/ Ordered!Step(p)
               \/ UNCHANGED <<todo, OrderOf, DataOf, OutOf>>
    <3>1. CASE AppendKey(p)
      BY <3>1, AppendKeyOrdered DEF Ordered!Step
    <3>2. CASE BeginWalk(p) \/ BindNode(p) \/ WriteNode(p)
      BY <3>2, WalkHidden
    <3>3. CASE EndWalk(p)
      BY <3>3, EndWalkOrdered DEF Ordered!Step
    <3>4. QED
      BY <2>1, <3>1, <3>2, <3>3 DEF Step
  <2>2. CASE UNCHANGED vars
    <3>1. UNCHANGED <<todo, OrderOf, DataOf, OutOf>>
      BY <2>2 DEF vars, OrderOf, DataOf, OutOf, Walking, Doing
    <3>2. QED
      BY <3>1 DEF Ordered!vars
  <2>3. QED
    BY <2>1, <2>2 DEF Next, Ended, Ordered!Next, Ordered!vars
<1>2. QED
  BY <1>1, InitOrdered, Invariance, PTL DEF Spec, Ordered!Safety
=============================================================================
