---------------------------- MODULE OrderedProps ----------------------------
(***************************************************************************)
(* What Props promise: a map that remembers the order in which its keys    *)
(* came.  Binding another Props is one step and leaves that one alone, and *)
(* the attributes of a tag are the keys in order, each once.               *)
(***************************************************************************)
EXTENDS PropsOps

VARIABLES
  todo,   \* todo[p]: what is left of the job of p
  order,  \* order[p]: the keys, each with the way it was first appended
  data,   \* data[p]: their values
  out     \* out[p]: what p's tag has written for each key

vars == <<todo, order, data, out>>

Init ==
  /\ todo \in Jobs
  /\ order = [p \in Obj |-> << >>]
  /\ data = [p \in Obj |-> Empty]
  /\ out = [p \in Obj |-> << >>]

Doing(p, op) == todo[p] # << >> /\ Head(todo[p]).op = op

AppendKey(p) ==
  /\ Doing(p, "append")
  /\ LET a == Head(todo[p])
     IN /\ order' = [order EXCEPT ![p] =
                       IF data[p][a.key] = Unset THEN Append(@, <<a.key, a.way>>) ELSE @]
        /\ data' = [data EXCEPT ![p] = Put(@, a.key, a.val)]
  /\ todo' = [todo EXCEPT ![p] = Tail(@)]
  /\ UNCHANGED out

\* The other Props have been built, and are taken as they are.
BindProps(p) ==
  /\ Doing(p, "bind")
  /\ LET q == Head(todo[p]).from
     IN /\ todo[q] = << >>
        /\ order' = [order EXCEPT ![p] = order[q]]
        /\ data' = [data EXCEPT ![p] = data[q]]
  /\ todo' = [todo EXCEPT ![p] = Tail(@)]
  /\ UNCHANGED out

WriteAttrs(p) ==
  /\ Doing(p, "write")
  /\ out' = [out EXCEPT ![p] =
               [i \in DOMAIN order[p] |->
                  Attribute(order[p][i][2], order[p][i][1], data[p][order[p][i][1]])]]
  /\ todo' = [todo EXCEPT ![p] = Tail(@)]
  /\ UNCHANGED <<order, data>>

Step(p) == AppendKey(p) \/ BindProps(p) \/ WriteAttrs(p)

Next == \E p \in Obj : Step(p)

Safety == Init /\ [][Next]_vars

\* Every job ends.
Spec == Safety /\ \A p \in Obj : WF_vars(Step(p))
=============================================================================
