---------------------------- MODULE LexicalSlots ----------------------------
(***************************************************************************)
(* What slots mean: the content of a slot is written in one component and  *)
(* shown in another, but it is a part of the first.  It sees the variables *)
(* of the place where it is written, and the slots of the component it is  *)
(* written in.  A <slot> that is given nothing shows what it contains.     *)
(*                                                                         *)
(* A place is a scope and nothing else: the scope knows the instance of    *)
(* the component it belongs to, the instance knows its call, and the call  *)
(* the scope it was made in.                                               *)
(***************************************************************************)
EXTENDS Naturals, Sequences

CONSTANTS
  Node, Main, Roots, Kind, Targets, Asks, None,  \* a program, see Template
  Body(_),              \* Body(n): the nodes that run in the place of n
  NamedContent(_, _),   \* NamedContent(c, name): what the call c says for a slot,
                        \* a set of [todo, key] with at most one element
  MaxScopes             \* bound: no v-for starts another round beyond it

VARIABLES
  frames,  \* the statements that are left to run, innermost last:
           \* [todo, scope, given], given if they are the content of a slot
  scopes,  \* scopes[s]: [up: the scope around s, or 0;
           \*             binder: the node whose variables s holds, a call if s
           \*                     is a component's and None if it is Main's]
  inst,    \* inst[s]: [own: the component's scope that s belongs to;
           \*           from: the scope of the call that made that instance, or 0]
  out      \* what has been written: each text with the scope it was run in

vars == <<frames, scopes, inst, out>>

Init ==
  /\ frames = <<[todo |-> Roots[Main], scope |-> 1, given |-> FALSE]>>
  /\ scopes = <<[up |-> 0, binder |-> None]>>
  /\ inst = <<[own |-> 1, from |-> 0]>>
  /\ out = <<>>

Depth == Len(frames)
Running(n) == /\ Depth # 0
              /\ frames[Depth].todo # <<>>
              /\ n = Head(frames[Depth].todo)
Here == frames[Depth].scope

Rest == [frames EXCEPT ![Depth].todo = Tail(@)]

\* Continue behind the running node once todo has been run in scope s.
Enter(todo, s, given) ==
  frames' = IF todo = <<>> THEN Rest
            ELSE Append(Rest, [todo |-> todo, scope |-> s, given |-> given])

NewScope == Len(scopes) + 1

Bind(node, s) ==
  /\ scopes' = Append(scopes, [up |-> s, binder |-> node])
  /\ inst' = Append(inst, inst[s])

\* The call that made the instance that scope s belongs to, and where it is.
CallOf(s) == scopes[inst[s].own].binder
CallAt(s) == inst[s].from

Write(n) ==
  /\ Running(n) /\ Kind[n] \in {"text", "func"}
  /\ out' = Append(out, <<n, Here>>)
  /\ frames' = Rest
  /\ UNCHANGED <<scopes, inst>>

\* An error ends the content of a slot, or else the render.
Fail(n) ==
  /\ Running(n) /\ Kind[n] = "func"
  /\ \/ \E i \in 1 .. Depth :
          /\ frames[i].given /\ \A j \in i + 1 .. Depth : ~ frames[j].given
          /\ frames' = SubSeq(frames, 1, i - 1)
          /\ UNCHANGED out
     \/ /\ \A j \in 1 .. Depth : ~ frames[j].given
        /\ frames' = <<>>
        /\ out' = <<>>
  /\ UNCHANGED <<scopes, inst>>

Inside(n) ==
  /\ Running(n) /\ Kind[n] \in {"tag", "template", "if", "wrap"}
  /\ Enter(Body(n), Here, FALSE)
  /\ UNCHANGED <<scopes, inst, out>>

\* v-if is false, or <component> names no component, or v-for has come to its end.
Skip(n) ==
  /\ Running(n) /\ Kind[n] \in {"if", "dyn", "for"}
  /\ frames' = Rest
  /\ UNCHANGED <<scopes, inst, out>>

\* One round of v-for; the node stays in front for the next.
Round(n) ==
  /\ Running(n) /\ Kind[n] = "for"
  /\ Len(scopes) < MaxScopes
  /\ Bind(n, Here)
  /\ frames' = IF Body(n) = <<>> THEN frames
               ELSE Append(frames, [todo |-> Body(n), scope |-> NewScope, given |-> FALSE])
  /\ UNCHANGED out

Call(n) ==
  /\ Running(n) /\ Kind[n] \in {"call", "dyn"}
  /\ \E c \in Targets[n] : Enter(Roots[c], NewScope, FALSE)
  /\ scopes' = Append(scopes, [up |-> 0, binder |-> n])
  /\ inst' = Append(inst, [own |-> NewScope, from |-> Here])
  /\ UNCHANGED out

\* A call of a component that does not exist shows its content.
Missing(n) ==
  /\ Running(n) /\ Kind[n] = "call" /\ Targets[n] = {}
  /\ Enter(Body(n), Here, TRUE)
  /\ UNCHANGED <<scopes, inst, out>>

\* The content that the call c gives for a slot: what is written for it.
GivenBy(c, name) ==
  IF NamedContent(c, name) = {} /\ name = "default" /\ Body(c) # <<>>
  THEN {[todo |-> Body(c), key |-> None]}
  ELSE NamedContent(c, name)

Given(s, name) == IF CallOf(s) = None THEN {} ELSE GivenBy(CallOf(s), name)

Slot(n) ==
  /\ Running(n) /\ Kind[n] = "slot"
  /\ \E g \in Given(Here, Asks[n]) :
       IF g.key = None
       THEN Enter(g.todo, CallAt(Here), TRUE) /\ UNCHANGED <<scopes, inst>>
       ELSE Enter(g.todo, NewScope, TRUE) /\ Bind(g.key, CallAt(Here))
  /\ UNCHANGED out

Fallback(n) ==
  /\ Running(n) /\ Kind[n] = "slot" /\ Given(Here, Asks[n]) = {}
  /\ Enter(Body(n), Here, FALSE)
  /\ UNCHANGED <<scopes, inst, out>>

Return ==
  /\ Depth # 0 /\ frames[Depth].todo = <<>>
  /\ frames' = SubSeq(frames, 1, Depth - 1)
  /\ UNCHANGED <<scopes, inst, out>>

Next ==
  \/ Return
  \/ \E n \in Node :
       \/ Write(n) \/ Fail(n) \/ Inside(n) \/ Skip(n) \/ Round(n)
       \/ Call(n) \/ Missing(n) \/ Slot(n) \/ Fallback(n)

Spec == Init /\ [][Next]_vars
=============================================================================
