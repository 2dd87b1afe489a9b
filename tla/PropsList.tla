----------------------------- MODULE PropsList -----------------------------
(***************************************************************************)
(* Props as they are built (statement.go): a map, and a linked list of     *)
(* PropKeys for the order.  The list has no header: the first key is       *)
(* copied into the node that r.keys points to, the others are linked as    *)
(* they are.  So a Props that binds another shares its nodes from the      *)
(* second on, and assigns to the Next of nodes that the other still holds, *)
(* while other goroutines walk over them.                                  *)
(***************************************************************************)
EXTENDS PropsOps

\* A node is named by the Props it was made for, and its Key.
Node == Obj \X Key

KeyOf(n) == n[2]

VARIABLES
  todo,  \* todo[p]: what is left of the job of p, with what it is doing
  pc,    \* "next", or "walk": in the ForEach of a bind or of a write
  cur,   \* cur[p]: the node that ForEach has come to
  keys,  \* keys[p]: r.keys, the first node
  last,  \* last[p]: r.keys.Last
  next,  \* next[n]: Next of the node n
  way,   \* way[n]: its AttrWay
  data,  \* data[p]: r.data
  out,   \* out[p]: what the tag of p has written for each key
  list   \* list[p]: the nodes in the order they were linked, for the properties only

pvars == <<keys, last, next, way, data, list>>
vars == <<todo, pc, cur, keys, last, next, way, data, out, list>>

TypeOK ==
  /\ todo \in [Obj -> Seq(Op)]
  /\ pc \in [Obj -> {"next", "walk"}]
  /\ cur \in [Obj -> Node \cup {Nil}]
  /\ keys \in [Obj -> Node \cup {Nil}]
  /\ last \in [Obj -> Node \cup {Nil}]
  /\ next \in [Node -> Node \cup {Nil}]
  /\ way \in [Node -> Way]
  /\ data \in [Obj -> Data]
  /\ out \in [Obj -> Seq((Key \X Seq(Val)) \cup {<< >>})]
  /\ list \in [Obj -> Seq(Node)]

Init ==
  /\ todo \in Jobs
  /\ pc = [p \in Obj |-> "next"]
  /\ cur = [p \in Obj |-> Nil]
  /\ keys = [p \in Obj |-> Nil]
  /\ last = [p \in Obj |-> Nil]
  /\ next = [n \in Node |-> Nil]
  /\ way = [n \in Node |-> "may"]
  /\ data = [p \in Obj |-> Empty]
  /\ out = [p \in Obj |-> << >>]
  /\ list = [p \in Obj |-> << >>]

-----------------------------------------------------------------------------
(* PropKeys.Append and Props.append *)

\* Bug: the new node is linked behind the first.
LinkFirst(p, n, w) ==
  /\ keys' = [keys EXCEPT ![p] = IF @ = Nil THEN <<p, KeyOf(n)>> ELSE @]
  /\ LET m == IF keys[p] = Nil THEN <<p, KeyOf(n)>> ELSE n
     IN /\ last' = [last EXCEPT ![p] = m]
        /\ next' = IF keys[p] = Nil THEN next ELSE [next EXCEPT ![keys[p]] = n]
        /\ way' = [way EXCEPT ![m] = w]
        /\ list' = [list EXCEPT ![p] = Append(@, m)]

\* Bug: the first node is taken as it is, not copied.
LinkAsIs(p, n, w) ==
  /\ keys' = [keys EXCEPT ![p] = IF @ = Nil THEN n ELSE @]
  /\ last' = [last EXCEPT ![p] = n]
  /\ next' = IF keys[p] = Nil THEN [next EXCEPT ![n] = Nil]
             ELSE [next EXCEPT ![last[p]] = n]
  /\ way' = [way EXCEPT ![n] = w]
  /\ list' = [list EXCEPT ![p] = Append(@, n)]

\* PropKeys.Append: the node n becomes the last of p; the first is copied.
Link(p, n, w) ==
  LET m == IF keys[p] = Nil THEN <<p, KeyOf(n)>> ELSE n
  IN /\ keys' = [keys EXCEPT ![p] = IF @ = Nil THEN m ELSE @]
     /\ last' = [last EXCEPT ![p] = m]
     /\ next' = IF keys[p] = Nil THEN [next EXCEPT ![m] = Nil]
                ELSE [next EXCEPT ![last[p]] = m]
     /\ way' = [way EXCEPT ![m] = w]
     /\ list' = [list EXCEPT ![p] = Append(@, m)]

\* Bug: the node is linked whether the map has the key or not.
AppendNodeAlways(p, n, w, v) ==
  /\ Link(p, n, w)
  /\ data' = [data EXCEPT ![p] = Put(@, KeyOf(n), v)]

\* Props.append: a key that the map has already keeps its place and its way.
AppendNode(p, n, w, v) ==
  /\ IF data[p][KeyOf(n)] = Unset THEN Link(p, n, w)
     ELSE UNCHANGED <<keys, last, next, way, list>>
  /\ data' = [data EXCEPT ![p] = Put(@, KeyOf(n), v)]

-----------------------------------------------------------------------------
(* The jobs *)

Doing(p, op) == todo[p] # << >> /\ Head(todo[p]).op = op

\* A new node for the key.
AppendKey(p) ==
  /\ pc[p] = "next"
  /\ Doing(p, "append")
  /\ LET a == Head(todo[p]) IN AppendNode(p, <<p, a.key>>, a.way, a.val)
  /\ todo' = [todo EXCEPT ![p] = Tail(@)]
  /\ UNCHANGED <<pc, cur, out>>

\* Whose list is walked: appendProps walks the other's, a tag its own.
Walked(p) == IF Head(todo[p]).op = "bind" THEN Head(todo[p]).from ELSE p

\* ForEach starts at r.keys; the Props that are bound are complete.
BeginWalk(p) ==
  /\ pc[p] = "next"
  /\ Doing(p, "bind") \/ Doing(p, "write")
  /\ Doing(p, "bind") => todo[Walked(p)] = << >>
  /\ pc' = [pc EXCEPT ![p] = "walk"]
  /\ cur' = [cur EXCEPT ![p] = keys[Walked(p)]]
  /\ UNCHANGED <<todo, out, pvars>>

\* Bug: ForEach goes on before the callback.
BindNodeAfterNext(p) ==
  /\ pc[p] = "walk"
  /\ Doing(p, "bind")
  /\ cur[p] # Nil
  /\ cur' = [cur EXCEPT ![p] = next[@]]
  /\ cur'[p] # Nil => AppendNode(p, cur'[p], way[cur'[p]], data[Walked(p)][KeyOf(cur'[p])])
  /\ cur'[p] = Nil => UNCHANGED pvars
  /\ UNCHANGED <<todo, pc, out>>

\* appendProps: the other's node itself is appended; then h = h.Next.
BindNode(p) ==
  /\ pc[p] = "walk"
  /\ Doing(p, "bind")
  /\ cur[p] # Nil
  /\ AppendNode(p, cur[p], way[cur[p]], data[Walked(p)][KeyOf(cur[p])])
  /\ cur' = [cur EXCEPT ![p] = next'[@]]
  /\ UNCHANGED <<todo, pc, out>>

\* tagStatement.Exec: an attribute for the key, if it may be one.
WriteNode(p) ==
  /\ pc[p] = "walk"
  /\ Doing(p, "write")
  /\ cur[p] # Nil
  /\ LET k == KeyOf(cur[p])
     IN out' = [out EXCEPT ![p] = Append(@, Attribute(way[cur[p]], k, data[p][k]))]
  /\ cur' = [cur EXCEPT ![p] = next[@]]
  /\ UNCHANGED <<todo, pc, pvars>>

EndWalk(p) ==
  /\ pc[p] = "walk"
  /\ cur[p] = Nil
  /\ pc' = [pc EXCEPT ![p] = "next"]
  /\ todo' = [todo EXCEPT ![p] = Tail(@)]
  /\ UNCHANGED <<cur, out, pvars>>

Step(p) == AppendKey(p) \/ BeginWalk(p) \/ BindNode(p) \/ WriteNode(p) \/ EndWalk(p)

Ended == (\A p \in Obj : todo[p] = << >>) /\ UNCHANGED vars

Next == (\E p \in Obj : Step(p)) \/ Ended

\* Every goroutine goes on.
Fairness == \A p \in Obj : WF_vars(Step(p))

Spec == Init /\ [][Next]_vars /\ Fairness

-----------------------------------------------------------------------------
(* Correctness *)

\* The pointers of a Props that is complete spell its list, and end: what ForEach
\* comes to is what was appended (PropKeys.Append, ForEach).
Linked ==
  \A p \in Obj :
    todo[p] = << >> =>
      /\ keys[p] = IF list[p] = << >> THEN Nil ELSE list[p][1]
      /\ \A i \in 1 .. Len(list[p]) :
           next[list[p][i]] = IF i = Len(list[p]) THEN Nil ELSE list[p][i + 1]

\* The list and the map of a Props hold the same keys, each once (Props.append).
ListHoldsKeys ==
  \A p \in Obj :
    /\ {KeyOf(list[p][i]) : i \in 1 .. Len(list[p])} = {k \in Key : data[p][k] # Unset}
    /\ \A i, j \in 1 .. Len(list[p]) : KeyOf(list[p][i]) = KeyOf(list[p][j]) => i = j

\* The list is an order of the keys of the map, and ForEach follows it.
ListIsOrder == Linked /\ ListHoldsKeys

\* Complete Props are never changed by those who bind them, although appendProps
\* assigns to their nodes: renders may share the Props of their caller.
SourceIntact ==
  [][\A p \in Obj :
       todo[p] = << >> =>
         /\ UNCHANGED <<keys[p], data[p], list[p]>>
         /\ \A i \in 1 .. Len(list[p]) :
              UNCHANGED <<next[list[p][i]], way[list[p][i]]>>]_vars

\* The ordered map that the list implements: a bind and a write appear when they end.
Walking(p, op) == pc[p] = "walk" /\ Doing(p, op)

\* The keys in the order of the list, each with its way.
OrderOf ==
  [p \in Obj |-> IF Walking(p, "bind") THEN << >>
                 ELSE [i \in DOMAIN list[p] |-> <<KeyOf(list[p][i]), way[list[p][i]]>>]]

DataOf == [p \in Obj |-> IF Walking(p, "bind") THEN Empty ELSE data[p]]

OutOf == [p \in Obj |-> IF Walking(p, "write") THEN << >> ELSE out[p]]

Ordered == INSTANCE OrderedProps WITH order <- OrderOf, data <- DataOf, out <- OutOf

\* Props are an ordered map, and every ForEach ends: no list is circular (Props, PropKeys).
OrderedSpec == Ordered!Spec
=============================================================================
