----------------------------- MODULE SlotScope ------------------------------
(***************************************************************************)
(* The interpreter of vpl: how the statements of a component are run, in   *)
(* which scope, and what a <slot> runs.                                    *)
(*                                                                         *)
(* Each Exec is given StatementOptions: the scope, the slots of the        *)
(* component that is run, and the options of its caller.  A slot keeps the *)
(* options in which it was declared (Declarer), and its content is run     *)
(* with new options made of those.  The recursion of Exec is the stack     *)
(* frames: a statement list and the options it runs with.                  *)
(*                                                                         *)
(* What expressions and directives compute is left open: a v-if is true or *)
(* not, a v-for has any number of rounds, <component is> finds any of its  *)
(* targets.                                                                *)
(***************************************************************************)
EXTENDS Template

CONSTANTS
  MaxScopes,  \* bound: no v-for starts another round beyond it
  Nil,        \* a nil *Slots
  Slotted     \* the nodes with a <slot> in them, and maybe more

ASSUME SlottedAssumption ==
  /\ {n \in Node : Kind[n] = "slot"} \subseteq Slotted
  /\ Slotted \subseteq Node
  /\ \A n \in Node : (KidSet(n) \cup SlotsOf(n)) \cap Slotted # {} => n \in Slotted

ASSUME NilAssumption == Nil \notin [call : Node, decl : Nat]

VARIABLES
  frames,  \* what is left to run, innermost last: [todo: statements,
           \* opt: their options, given: an error in them goes no further]
  opts,    \* opts[o]: the StatementOptions, [slots: Nil or
           \* [call: whose SlotsC, decl: Declarer], scope]
  scopes,  \* scopes[s]: [up: Scope.Parent or 0, binder: whose variables it
           \* holds: a call, a v-for, a v-slot, or None for Main's]
  inst,    \* history, as in LexicalSlots: the instance that s belongs to
  out      \* the writer: each text with the scope it was run in

vars == <<frames, opts, scopes, inst, out>>

\* RenderComponent calls Main with the slots of RenderParam, here none.
Init ==
  /\ opts = <<[slots |-> Nil, scope |-> 1]>>
  /\ frames = <<[todo |-> Roots[Main], opt |-> 1, given |-> FALSE]>>
  /\ scopes = <<[up |-> 0, binder |-> None]>>
  /\ inst = <<[own |-> 1, from |-> 0]>>
  /\ out = <<>>

TypeOK ==
  /\ frames \in Seq([todo : Seq(Node), opt : Nat, given : BOOLEAN])
  /\ \A i \in 1 .. Len(frames) : frames[i].opt \in 1 .. Len(opts)
  /\ opts \in Seq([slots : {Nil} \cup [call : Node, decl : Nat], scope : Nat])
  /\ \A o \in 1 .. Len(opts) :
       /\ opts[o].scope \in 1 .. Len(scopes)
       /\ opts[o].slots # Nil => opts[o].slots.decl \in 1 .. o - 1
  /\ scopes \in Seq([up : Nat, binder : Node \cup {None}])
  /\ \A s \in 1 .. Len(scopes) : scopes[s].up < s
  /\ inst \in Seq([own : Nat, from : Nat])
  /\ Len(inst) = Len(scopes)
  /\ \A s \in 1 .. Len(scopes) : inst[s].own \in 1 .. s /\ inst[s].from < s
  /\ out \in Seq(Node \X Nat)
  /\ \A i \in 1 .. Len(out) : out[i][2] \in 1 .. Len(scopes)

-----------------------------------------------------------------------------
Depth == Len(frames)
Running(n) == /\ Depth # 0
              /\ frames[Depth].todo # <<>>
              /\ n = Head(frames[Depth].todo)
Opt  == frames[Depth].opt
Here == opts[Opt].scope

\* Behind the running statement.
Rest == [frames EXCEPT ![Depth].todo = Tail(@)]

NewOpt   == Len(opts) + 1
NewScope == Len(scopes) + 1

\* Exec of todo with options o, then the rest.
Enter(todo, o, given) ==
  frames' = IF todo = <<>> THEN Rest
            ELSE Append(Rest, [todo |-> todo, opt |-> o, given |-> given])

\* Exec of todo with new options, then the rest.
EnterWith(todo, slots, scope, given) ==
  /\ opts' = Append(opts, [slots |-> slots, scope |-> scope])
  /\ Enter(todo, NewOpt, given)

\* Scope.Extend
Extend(node, s) ==
  /\ scopes' = Append(scopes, [up |-> s, binder |-> node])
  /\ inst' = Append(inst, inst[s])

Write(n) ==
  /\ Running(n) /\ Kind[n] \in {"text", "func"}
  /\ out' = Append(out, <<n, Here>>)
  /\ frames' = Rest
  /\ UNCHANGED <<opts, scopes, inst>>

\* Bug: <slot> and a missing component return the error of their content.
FailThrough(n) ==
  /\ Running(n) /\ Kind[n] = "func"
  /\ frames' = <<>>
  /\ out' = <<>>
  /\ UNCHANGED <<opts, scopes, inst>>

\* Every Exec returns the error, until <slot> or a missing component turns it into
\* nil; what has been written stays.  If none does, RenderComponent returns "".
Fail(n) ==
  /\ Running(n) /\ Kind[n] = "func"
  /\ \/ \E i \in 1 .. Depth :
          /\ frames[i].given /\ \A j \in i + 1 .. Depth : ~ frames[j].given
          /\ frames' = SubSeq(frames, 1, i - 1)
          /\ UNCHANGED out
     \/ /\ \A j \in 1 .. Depth : ~ frames[j].given
        /\ frames' = <<>>
        /\ out' = <<>>
  /\ UNCHANGED <<opts, scopes, inst>>

\* tagStatement without directives, ifStatement, groupStatement.
Inside(n) ==
  /\ Running(n) /\ Kind[n] \in {"tag", "template", "if"}
  /\ Enter(Body(n), Opt, FALSE)
  /\ UNCHANGED <<opts, scopes, inst, out>>

Skip(n) ==
  /\ Running(n) /\ Kind[n] \in {"if", "dyn", "for"}
  /\ frames' = Rest
  /\ UNCHANGED <<opts, scopes, inst, out>>

\* forStatement: one round.  The options it makes have a scope and nothing else.
Round(n) ==
  /\ Running(n) /\ Kind[n] = "for"
  /\ Len(scopes) < MaxScopes
  /\ Extend(n, Here)
  /\ opts' = Append(opts, [slots |-> Nil, scope |-> NewScope])
  /\ frames' = IF Body(n) = <<>> THEN frames
               ELSE Append(frames, [todo |-> Body(n), opt |-> NewOpt, given |-> FALSE])
  /\ UNCHANGED out

-----------------------------------------------------------------------------
(* Components and slots *)

\* WrapScope(o): what a call at n in options o hands to the component.
Wrapped(n, o) == [call |-> n, decl |-> o]

\* Bug: the slots are wrapped after the options of the component have been made.
CallLate(n) ==
  /\ Running(n) /\ Kind[n] \in {"call", "dyn"}
  /\ \E c \in Targets[n] : EnterWith(Roots[c], Wrapped(n, NewOpt), NewScope, FALSE)
  /\ scopes' = Append(scopes, [up |-> 0, binder |-> n])
  /\ inst' = Append(inst, [own |-> NewScope, from |-> Here])
  /\ UNCHANGED out

\* ComponentStatement.Exec; <component is> passes its options on.
Call(n) ==
  /\ Running(n) /\ Kind[n] \in {"call", "dyn"}
  /\ \E c \in Targets[n] : EnterWith(Roots[c], Wrapped(n, Opt), NewScope, FALSE)
  /\ scopes' = Append(scopes, [up |-> 0, binder |-> n])
  /\ inst' = Append(inst, [own |-> NewScope, from |-> Here])
  /\ UNCHANGED out

\* The children of a statement, run as its default slot without slot props: Slot.Exec
\* with the options in which it has just been wrapped.
OwnChildren(n, given) ==
  /\ EnterWith(Body(n), opts[Opt].slots, Here, given)
  /\ UNCHANGED <<scopes, inst, out>>

\* tagStatement with directives.
Wrap(n) == Running(n) /\ Kind[n] = "wrap" /\ OwnChildren(n, FALSE)

\* The component is not found, or is the one that vpl registers as "template".
Missing(n) ==
  Running(n) /\ Kind[n] = "call" /\ Targets[n] = {} /\ OwnChildren(n, TRUE)

\* Slots.Get on what toStatement has made of the children of the call c.  The default
\* slot is always the statement of the other children, which is never nil: Finish
\* returns an EmptyStatement when there are none.
Content(c, name) ==
  IF name = "default" THEN {BodyContent(c)} ELSE NamedContent(c, name)

\* What the <slot> n finds in the slots of the component it is written in.
Found(n) ==
  IF opts[Opt].slots = Nil THEN {} ELSE Content(opts[Opt].slots.call, Asks[n])

\* Bug: the content runs in the scope of the <slot>.
SlotHere(n) ==
  /\ Running(n) /\ Kind[n] = "slot"
  /\ \E g \in Found(n) :
       LET declarer == opts[opts[Opt].slots.decl] IN
         IF g.key = None
         THEN /\ EnterWith(g.todo, declarer.slots, Here, TRUE)
              /\ UNCHANGED <<scopes, inst>>
         ELSE /\ EnterWith(g.todo, declarer.slots, NewScope, TRUE)
              /\ Extend(g.key, Here)
  /\ UNCHANGED out

\* Bug: the content runs with the slots of the component that shows it.
SlotKeeping(n) ==
  /\ Running(n) /\ Kind[n] = "slot"
  /\ \E g \in Found(n) :
       LET declarer == opts[opts[Opt].slots.decl] IN
         IF g.key = None
         THEN /\ EnterWith(g.todo, opts[Opt].slots, declarer.scope, TRUE)
              /\ UNCHANGED <<scopes, inst>>
         ELSE /\ EnterWith(g.todo, opts[Opt].slots, NewScope, TRUE)
              /\ Extend(g.key, declarer.scope)
  /\ UNCHANGED out

\* <slot> with something found: Slot.Exec.  A v-slot with a name for the props is
\* for a slot with props, as each <slot> that asks by name has them.
Slot(n) ==
  /\ Running(n) /\ Kind[n] = "slot"
  /\ \E g \in Found(n) :
       LET declarer == opts[opts[Opt].slots.decl] IN
         IF g.key = None
         THEN /\ EnterWith(g.todo, declarer.slots, declarer.scope, TRUE)
              /\ UNCHANGED <<scopes, inst>>
         ELSE /\ EnterWith(g.todo, declarer.slots, NewScope, TRUE)
              /\ Extend(g.key, declarer.scope)
  /\ UNCHANGED out

\* <slot> with nothing found.
Fallback(n) == Running(n) /\ Kind[n] = "slot" /\ Found(n) = {} /\ OwnChildren(n, FALSE)

Return ==
  /\ Depth # 0 /\ frames[Depth].todo = <<>>
  /\ frames' = SubSeq(frames, 1, Depth - 1)
  /\ UNCHANGED <<opts, scopes, inst, out>>

Rendered == Depth = 0 /\ UNCHANGED vars

Next ==
  \/ Return
  \/ \E n \in Node :
       \/ Write(n) \/ Fail(n) \/ Inside(n) \/ Skip(n) \/ Round(n)
       \/ Call(n) \/ Wrap(n) \/ Missing(n) \/ Slot(n) \/ Fallback(n)
  \/ Rendered

Spec == Init /\ [][Next]_vars

-----------------------------------------------------------------------------
(* Correctness *)

\* The nodes that are written inside a, and a itself.
Under ==
  LET under[a \in Node] == {a} \cup UNION {under[k] : k \in KidSet(a)}
  IN under

\* The variables that are visible at n by the text of its component: those of each
\* v-for around n and of each v-slot around n or on it.
Visible(n) ==
  {a \in Node : n \in Under[a] /\ (a \in HasKey \/ (Kind[a] = "for" /\ n # a))}

\* The scopes that Scope.Get searches from s, without the props of the component.
Searched(s) ==
  LET searched[t \in 1 .. Len(scopes)] ==
        IF scopes[t].up = 0 THEN {} ELSE {t} \cup searched[scopes[t].up]
  IN searched[s]

\* Every text is run where it sees exactly the variables that are declared around it
\* in its own component, the nearer ones first, wherever it is shown: in a round of
\* v-for, in a slot, in the slot of a slot, behind a swallowed error.
SeesWhatIsAround ==
  \A i \in 1 .. Len(out) :
    LET s == Searched(out[i][2]) IN
      /\ {scopes[t].binder : t \in s} = Visible(out[i][1])
      /\ \A t, u \in s : u < t => scopes[t].binder \in Under[scopes[u].binder]

CallOf(s) == scopes[inst[s].own].binder

\* What is written in the call of the component that the running <slot> is part of.
WrittenFor(n) ==
  LET c == CallOf(Here) IN
    IF c = None THEN {}
    ELSE IF NamedContent(c, Asks[n]) = {} /\ Asks[n] = "default" /\ Body(c) # <<>>
         THEN {BodyContent(c)}
         ELSE NamedContent(c, Asks[n])

\* A <slot> is replaced by what the call of its component contains for it, and by its
\* own children only if there is nothing.
ReplacedByContent ==
  \A n \in Node : (Running(n) /\ Kind[n] = "slot" /\ ~ UNCHANGED vars) =>
    LET todo == IF WrittenFor(n) = {} THEN {Body(n)} ELSE {g.todo : g \in WrittenFor(n)} IN
      IF todo \subseteq {<<>>} THEN frames' = Rest
      ELSE Len(frames') = Depth + 1 /\ frames'[Depth + 1].todo \in todo

SlotsReplaced == [][ReplacedByContent]_vars

\* The interpreter is the abstract one: options and declarers can be forgotten, a
\* scope alone tells what a slot shows and where.
Lexical == INSTANCE LexicalSlots WITH
  frames <- [i \in 1 .. Len(frames) |->
              [todo |-> frames[i].todo, scope |-> opts[frames[i].opt].scope,
               given |-> frames[i].given]]

LexicalSpec == Lexical!Spec

-----------------------------------------------------------------------------
(* The programs for which it is *)

\* No <slot> is inside a v-for of its component, be it in the content of a call.
NoSlotInLoop == \A n \in Slotted : Kind[n] # "for"

\* No v-slot is for the default slot, and no call is empty that may be of a
\* component whose default slot has children.
DefaultsAreBodies ==
  /\ \A c \in Node : NamedContent(c, "default") = {}
  /\ \/ \A c \in Node : Kind[c] \in {"call", "dyn"} => Body(c) # <<>>
     \/ \A n \in Node : Kind[n] = "slot" /\ Asks[n] = "default" => Body(n) = <<>>

\* The elements are trees, in which h tells how tall each is, and a root is not for a
\* slot.
Forest(h) ==
  /\ h \in [Node -> Nat]
  /\ \A n \in Node : \A k \in KidSet(n) : h[k] < h[n]
  /\ \A m, n \in Node : KidSet(m) \cap KidSet(n) # {} => m = n
  /\ \A c \in Comp : \A i \in 1 .. Len(Roots[c]) :
       VSlot[Roots[c][i]] = None /\ \A n \in Node : Roots[c][i] \notin KidSet(n)

\* Between a call and its elements with v-slot nothing declares variables: those
\* elements are handed to the call without what is around them.
NothingAroundSlots ==
  \A c \in Node : Kind[c] \in {"call", "dyn"} =>
    \A k \in SlotsOf(c) : \A a \in Under[c] \ {c, k} :
      k \in Under[a] => a \notin HasKey /\ Kind[a] # "for"
=============================================================================
