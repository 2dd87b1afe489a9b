----------------------------- MODULE ScopeMaps ------------------------------
(***************************************************************************)
(* Variables while requests and <parallel> run at the same time: the maps  *)
(* that scopes refer to, and the pool of the contexts that expressions,    *)
(* functions and directives are given.                                     *)
(*                                                                         *)
(* A scope is a map and a parent.  A component call and a round of v-for   *)
(* have a scope of their own; the child of a <parallel> runs on another    *)
(* goroutine in the scope of its declarer; the scopes of every request end *)
(* in the one that Global and Function write.  Maps have no lock: what a   *)
(* goroutine reads or writes is in use from the step that begins until the *)
(* step that ends it.                                                      *)
(*                                                                         *)
(* StatementsOf[r] is what request r renders, each node a statement that   *)
(* reads a variable, or a directive that sets one, or a call without props *)
(* (which reads none).  What is computed from a variable is left out: a    *)
(* value is where it came from, and null is one that came from nowhere.    *)
(***************************************************************************)
EXTENDS Naturals, Sequences

CONSTANTS
  Node,          \* the statements
  Kind,          \* Kind[n]: "get", "set", "for", "call", "bare" (a call
                 \* without props), "parallel"
  Kids,          \* Kids[n]: the statements in it; of a call: its component's
  Name,          \* Name[n]: the variable it reads or sets
  As,            \* As[n]: what a "for" or a "call" names the value it reads
  Request,       \* 1 .. the number of requests
  Entry,         \* Entry[r]: "RenderComponent" or "RenderTpl"
  StatementsOf,  \* StatementsOf[r]: what it renders
  Data,          \* Data[r]: the map in its Props, which others may have too
  Given,         \* Given[m]: what the caller has put into map m
  Registered,    \* the variables given to Global, one after the other
  Late,          \* whether Global is called while requests run
  Var,           \* the variables, "$props" among them
  Outside,       \* the value of what a caller or Global gives
  Null,          \* the value of a variable that is not there, and of some that are
  Nil,           \* no such variable
  MaxRounds,     \* bound: a v-for has at most so many rounds
  Forking        \* the nodes with a <parallel> in them that is not in a call, and
                 \* maybe more

\* The scope and the map that Global and Function set; New leaves the map nil, which
\* reads as an empty one.  The empty scopes that NewScope puts before it are left out.
Prototype == 1

\* What a map has for a variable: where its value comes from, if it is there.
Value == Node \cup {Outside, Null, Nil}

\* GetDeep returns nil for what is in no scope.
Read(v) == IF v = Nil THEN Null ELSE v

Callers == {Data[r] : r \in Request}

ASSUME NodeAssumption ==
  /\ Kind \in [Node -> {"get", "set", "for", "call", "bare", "parallel"}]
  /\ Kids \in [Node -> Seq(Node)]
  /\ Name \in [Node -> Var] /\ As \in [Node -> Var]
  /\ "$props" \in Var
  /\ Nil \notin Node \cup {Outside, Null}
  /\ MaxRounds \in Nat

ASSUME ForkingAssumption ==
  /\ {n \in Node : Kind[n] = "parallel"} \subseteq Forking
  /\ \A n \in Node : Kind[n] = "for" /\ (\E k \in DOMAIN Kids[n] : Kids[n][k] \in Forking) => n \in Forking

ASSUME RequestAssumption ==
  /\ StatementsOf \in Seq(Seq(Node))
  /\ Request = 1 .. Len(StatementsOf)
  /\ Entry \in [Request -> {"RenderComponent", "RenderTpl"}]

ASSUME DataAssumption ==
  /\ Given \in Seq([Var -> Value]) /\ Prototype \in DOMAIN Given
  /\ Data \in [Request -> DOMAIN Given \ {Prototype}]

ASSUME GlobalAssumption == Registered \in Seq(Var) /\ Late \in BOOLEAN

VARIABLES
  maps,      \* maps[m]: variable |-> value or Nil
  scopes,    \* scopes[s]: [up: Scope.Parent or 0, map: Scope.Value or 0]
  ctxs,      \* ctxs[c]: a RenderCtx, [by: its goroutine or 0 in the pool, scope]
  threads,   \* the goroutines, see Thread; first those of the requests
  toRegister \* what is still to be given to Global, and whether it is being done

vars == <<maps, scopes, ctxs, threads, toRegister>>

\* A statement list in execution: todo, its scope, the context that is put back when
\* it ends, or 0; env, history: the variables of a render that does one thing at a time.
Frame == [todo : Seq(Node), scope : Nat, ctx : Nat, env : [Var -> Value]]

\* A goroutine: of which request, where it is, its frames, the context of its
\* expression, what it uses, and the scope that it has come to or the value it has read.
Thread == [req : Request, pc : {"new", "run", "eval", "set", "call", "read", "done"},
           stack : Seq(Frame), ctx : Nat, uses : [scope : Nat, map : Nat, mode : {"r", "w", "-"}],
           look : Nat, val : Value]

Unused == [scope |-> 0, map |-> 0, mode |-> "-"]

NewThread(r, pc, stack) ==
  [req |-> r, pc |-> pc, stack |-> stack, ctx |-> 0, uses |-> Unused, look |-> 0, val |-> Nil]

NoVars == [x \in Var |-> Nil]

Init ==
  /\ maps = [m \in DOMAIN Given |-> IF m \in Callers THEN Given[m] ELSE NoVars]
  /\ scopes = <<[up |-> 0, map |-> Prototype]>>
  /\ ctxs = << >>
  /\ threads = [r \in Request |-> NewThread(r, "new", << >>)]
  /\ toRegister = [names |-> Registered, busy |-> FALSE]

-----------------------------------------------------------------------------
Top(i) == threads[i].stack[Len(threads[i].stack)]
Here(i) == Top(i).scope

\* Goroutine i is to run n.
At(i, n) ==
  /\ threads[i].pc = "run" /\ threads[i].stack # << >>
  /\ Top(i).todo # << >> /\ n = Head(Top(i).todo)

\* What is left to run behind n.
Rest(i) == [threads[i].stack EXCEPT ![Len(threads[i].stack)].todo = Tail(@)]

Using(s, mode) == [scope |-> s, map |-> scopes[s].map, mode |-> mode]

\* A context of the pool, or a new one if there is none.  Those in the pool are alike:
\* whatever they still hold is written over by whoever takes one.
NextCtx ==
  LET free == {c \in DOMAIN ctxs : ctxs[c].by = 0}
  IN IF free = {} THEN Len(ctxs) + 1 ELSE CHOOSE c \in free : TRUE

TakenBy(i) ==
  LET ctx == [by |-> i, scope |-> Here(i)]
  IN IF NextCtx > Len(ctxs) THEN Append(ctxs, ctx) ELSE [ctxs EXCEPT ![NextCtx] = ctx]

PutBack(c) == ctxs' = [ctxs EXCEPT ![c] = [by |-> 0, scope |-> Prototype]]

SetTo(i, f) == threads' = [threads EXCEPT ![i] = f]

-----------------------------------------------------------------------------
(* Requests *)

MayStart == Late \/ toRegister.names = << >>

Extended(f, g) == [x \in Var |-> IF g[x] # Nil THEN g[x] ELSE f[x]]

WithProps(f) == [f EXCEPT !["$props"] = Outside]

FirstFrame(r, s, data) ==
  [todo |-> StatementsOf[r], scope |-> s, ctx |-> 0, env |-> Extended(maps[Prototype], data)]

\* Both begin by using the map of the caller: RenderTpl to set $props in it,
\* RenderComponent to copy it into the props of the component.
Begin(i) ==
  /\ threads[i].pc = "new" /\ threads[i].uses = Unused /\ MayStart
  /\ LET r == threads[i].req
     IN SetTo(i, [threads[i] EXCEPT !.uses =
           [scope |-> 0, map |-> Data[r], mode |-> IF Entry[r] = "RenderTpl" THEN "w" ELSE "r"]])
  /\ UNCHANGED <<maps, scopes, ctxs, toRegister>>

EnterTpl(i) ==
  LET r == threads[i].req
      data == WithProps(maps[Data[r]])
  IN /\ threads[i].pc = "new" /\ threads[i].uses # Unused /\ Entry[r] = "RenderTpl"
     /\ maps' = [maps EXCEPT ![Data[r]] = data]
     /\ scopes' = Append(scopes, [up |-> Prototype, map |-> Data[r]])
     /\ SetTo(i, NewThread(r, "run", <<FirstFrame(r, Len(scopes) + 1, data)>>))
     /\ UNCHANGED <<ctxs, toRegister>>

\* Bug: the component is given the map of the caller.
EnterComponentUncopied(i) ==
  LET r == threads[i].req
      data == WithProps(maps[Data[r]])
  IN /\ threads[i].pc = "new" /\ threads[i].uses # Unused /\ Entry[r] = "RenderComponent"
     /\ maps' = [maps EXCEPT ![Data[r]] = data]
     /\ scopes' = Append(scopes, [up |-> Prototype, map |-> Data[r]])
     /\ SetTo(i, NewThread(r, "run", <<FirstFrame(r, Len(scopes) + 1, data)>>))
     /\ UNCHANGED <<ctxs, toRegister>>

EnterComponent(i) ==
  LET r == threads[i].req
      data == WithProps(maps[Data[r]])
  IN /\ threads[i].pc = "new" /\ threads[i].uses # Unused /\ Entry[r] = "RenderComponent"
     /\ maps' = Append(maps, data)
     /\ scopes' = Append(scopes, [up |-> Prototype, map |-> Len(maps) + 1])
     /\ SetTo(i, NewThread(r, "run", <<FirstFrame(r, Len(scopes) + 1, data)>>))
     /\ UNCHANGED <<ctxs, toRegister>>

\* Global and Function: prototype.Set.
BeginGlobal ==
  /\ toRegister.names # << >> /\ ~ toRegister.busy
  /\ toRegister' = [toRegister EXCEPT !.busy = TRUE]
  /\ UNCHANGED <<maps, scopes, ctxs, threads>>

EndGlobal ==
  /\ toRegister.busy
  /\ maps' = [maps EXCEPT ![Prototype][Head(toRegister.names)] = Outside]
  /\ toRegister' = [names |-> Tail(toRegister.names), busy |-> FALSE]
  /\ UNCHANGED <<scopes, ctxs, threads>>

-----------------------------------------------------------------------------
(* Expressions and directives *)

\* What is done first with the context.
First(n) == CASE Kind[n] = "set" -> "set" [] Kind[n] = "bare" -> "call" [] OTHER -> "eval"

Opened(i, n) ==
  SetTo(i, [threads[i] EXCEPT !.pc = First(n), !.ctx = NextCtx, !.look = Here(i)])

\* Bug: the context is back in the pool while the expression runs.
OpenEarly(i, n) ==
  /\ At(i, n) /\ Kind[n] # "parallel"
  /\ ctxs' = [TakenBy(i) EXCEPT ![NextCtx].by = 0]
  /\ Opened(i, n)
  /\ UNCHANGED <<maps, scopes, toRegister>>

\* ctxPool.Get; rCtx.Scope = o.Scope
Open(i, n) ==
  /\ At(i, n) /\ Kind[n] # "parallel"
  /\ ctxs' = TakenBy(i)
  /\ Opened(i, n)
  /\ UNCHANGED <<maps, scopes, toRegister>>

Current(i) == Head(Top(i).todo)

\* Scope.GetDeep, one scope at a time, from the scope of the context.
BeginLook(i) ==
  /\ threads[i].pc = "eval" /\ threads[i].uses = Unused
  /\ LET s == IF threads[i].look = Here(i) THEN ctxs[threads[i].ctx].scope ELSE threads[i].look
     IN SetTo(i, [threads[i] EXCEPT !.look = s, !.uses = Using(s, "r")])
  /\ UNCHANGED <<maps, scopes, ctxs, toRegister>>

\* What scope s itself holds.
Holds(s, x) == IF scopes[s].map = 0 THEN Nil ELSE maps[scopes[s].map][x]

EndLook(i) ==
  /\ threads[i].pc = "eval" /\ threads[i].uses # Unused
  /\ LET s == threads[i].look
         v == Holds(s, Name[Current(i)])
     IN IF v = Nil /\ scopes[s].up # 0
        THEN SetTo(i, [threads[i] EXCEPT !.uses = Unused, !.look = scopes[s].up])
        ELSE SetTo(i, [threads[i] EXCEPT !.uses = Unused, !.look = 0, !.val = Read(v), !.pc = "read"])
  /\ UNCHANGED <<maps, scopes, ctxs, toRegister>>

\* A directive, or a function, calls Set on the scope of its context.
BeginSet(i) ==
  /\ threads[i].pc = "set" /\ threads[i].uses = Unused
  /\ SetTo(i, [threads[i] EXCEPT !.uses = Using(ctxs[threads[i].ctx].scope, "w")])
  /\ UNCHANGED <<maps, scopes, ctxs, toRegister>>

\* The variable as it is for the rest of the statements of this scope.
Known(i, n) ==
  [Rest(i) EXCEPT ![Len(threads[i].stack)].env[Name[n]] = n]

\* Bug: the nearest scope that has the variable is written.
EndSetOuter(i) ==
  LET n == Current(i)
      s == threads[i].uses.scope
      up == scopes[s].up
      m == IF Holds(s, Name[n]) = Nil /\ up # 0 /\ Holds(up, Name[n]) # Nil
           THEN scopes[up].map ELSE scopes[s].map
  IN /\ threads[i].pc = "set" /\ threads[i].uses # Unused
     /\ IF m = 0
        THEN /\ maps' = Append(maps, [NoVars EXCEPT ![Name[n]] = n])
             /\ scopes' = [scopes EXCEPT ![s].map = Len(maps) + 1]
        ELSE /\ maps' = [maps EXCEPT ![m][Name[n]] = n]
             /\ UNCHANGED scopes
     /\ SetTo(i, NewThread(threads[i].req, "run", Known(i, n)))
     /\ PutBack(threads[i].ctx)
     /\ UNCHANGED toRegister

EndSet(i) ==
  LET n == Current(i)
      s == threads[i].uses.scope
      m == scopes[s].map
  IN /\ threads[i].pc = "set" /\ threads[i].uses # Unused
     /\ IF m = 0
        THEN /\ maps' = Append(maps, [NoVars EXCEPT ![Name[n]] = n])
             /\ scopes' = [scopes EXCEPT ![s].map = Len(maps) + 1]
        ELSE /\ maps' = [maps EXCEPT ![m][Name[n]] = n]
             /\ UNCHANGED scopes
     /\ SetTo(i, NewThread(threads[i].req, "run", Known(i, n)))
     /\ PutBack(threads[i].ctx)
     /\ UNCHANGED toRegister

-----------------------------------------------------------------------------
(* Statements, once the variable has been read *)

ReadFor(i, n) == threads[i].pc = "read" /\ n = Current(i)

\* mustacheStatement
Write(i, n) ==
  /\ ReadFor(i, n) /\ Kind[n] = "get"
  /\ SetTo(i, NewThread(threads[i].req, "run", Rest(i)))
  /\ PutBack(threads[i].ctx)
  /\ UNCHANGED <<maps, scopes, toRegister>>

\* forStatement: the context is put back, then each of k rounds extends the scope.
For(i, n) ==
  /\ ReadFor(i, n) /\ Kind[n] = "for"
  /\ \E k \in 0 .. MaxRounds :
       LET item == [NoVars EXCEPT ![As[n]] = threads[i].val]
           round(j) == [todo |-> Kids[n], scope |-> Len(scopes) + j, ctx |-> 0,
                        env |-> Extended(Top(i).env, item)]
       IN /\ maps' = maps \o [j \in 1 .. k |-> item]
          /\ scopes' = scopes \o [j \in 1 .. k |-> [up |-> Here(i), map |-> Len(maps) + j]]
          /\ SetTo(i, NewThread(threads[i].req, "run", Rest(i) \o [j \in 1 .. k |-> round(j)]))
  /\ PutBack(threads[i].ctx)
  /\ UNCHANGED toRegister

\* ComponentStatement: a scope with the props in a map of its own, behind which are
\* only the globals.  Its context goes back when the component has ended.
Call(i, n) ==
  /\ ReadFor(i, n) /\ Kind[n] = "call"
  /\ LET props == WithProps([NoVars EXCEPT ![As[n]] = threads[i].val])
         frame == [todo |-> Kids[n], scope |-> Len(scopes) + 1, ctx |-> threads[i].ctx,
                   env |-> Extended(maps[Prototype], props)]
     IN /\ maps' = Append(maps, props)
        /\ scopes' = Append(scopes, [up |-> Prototype, map |-> Len(maps) + 1])
        /\ SetTo(i, NewThread(threads[i].req, "run", Append(Rest(i), frame)))
  /\ UNCHANGED <<ctxs, toRegister>>

\* Without props and v-bind there is no map, until a directive sets a variable.
CallBare(i, n) ==
  /\ threads[i].pc = "call" /\ n = Current(i) /\ Kind[n] = "bare"
  /\ LET frame == [todo |-> Kids[n], scope |-> Len(scopes) + 1, ctx |-> threads[i].ctx,
                   env |-> Extended(maps[Prototype], NoVars)]
     IN /\ scopes' = Append(scopes, [up |-> Prototype, map |-> 0])
        /\ SetTo(i, NewThread(threads[i].req, "run", Append(Rest(i), frame)))
  /\ UNCHANGED <<maps, ctxs, toRegister>>

\* <parallel>: the child is its default slot, which runs in the scope of the declarer.
Spawn(i, n) ==
  /\ At(i, n) /\ Kind[n] = "parallel"
  /\ LET child == [Top(i) EXCEPT !.todo = Kids[n], !.ctx = 0]
     IN threads' = Append([threads EXCEPT ![i].stack = Rest(i)],
                          NewThread(threads[i].req, "run", <<child>>))
  /\ UNCHANGED <<maps, scopes, ctxs, toRegister>>

\* Bug: a goroutine does not end with its last frame.
ReturnRunning(i) ==
  /\ threads[i].pc = "run" /\ threads[i].stack # << >> /\ Top(i).todo = << >>
  /\ IF Top(i).ctx = 0 THEN UNCHANGED ctxs ELSE PutBack(Top(i).ctx)
  /\ SetTo(i, NewThread(threads[i].req, "run", SubSeq(threads[i].stack, 1, Len(threads[i].stack) - 1)))
  /\ UNCHANGED <<maps, scopes, toRegister>>

Return(i) ==
  /\ threads[i].pc = "run" /\ threads[i].stack # << >> /\ Top(i).todo = << >>
  /\ IF Top(i).ctx = 0 THEN UNCHANGED ctxs ELSE PutBack(Top(i).ctx)
  /\ LET stack == SubSeq(threads[i].stack, 1, Len(threads[i].stack) - 1)
     IN SetTo(i, NewThread(threads[i].req, IF stack = << >> THEN "done" ELSE "run", stack))
  /\ UNCHANGED <<maps, scopes, toRegister>>

Ended ==
  /\ \A i \in DOMAIN threads : threads[i].pc = "done"
  /\ toRegister.names = << >>
  /\ UNCHANGED vars

Next ==
  \/ BeginGlobal \/ EndGlobal \/ Ended
  \/ \E i \in DOMAIN threads :
       \/ Begin(i) \/ EnterTpl(i) \/ EnterComponent(i)
       \/ BeginLook(i) \/ EndLook(i) \/ BeginSet(i) \/ EndSet(i) \/ Return(i)
       \/ \E n \in Node : Open(i, n) \/ Write(i, n) \/ For(i, n) \/ Call(i, n) \/ CallBare(i, n)
                         \/ Spawn(i, n)

Spec == Init /\ [][Next]_vars

-----------------------------------------------------------------------------
(* Properties *)

\* Contexts, scopes and maps that are referred to are there, and a goroutine has a
\* context from when it opens an expression until the value is used.
TypeOK ==
  /\ \A m \in DOMAIN maps : maps[m] \in [Var -> Value]
  /\ \A s \in DOMAIN scopes : scopes[s].up < s /\ scopes[s].map \in 0 .. Len(maps)
  /\ \A c \in DOMAIN ctxs : ctxs[c].by \in 0 .. Len(threads) /\ ctxs[c].scope \in DOMAIN scopes
  /\ \A i \in DOMAIN threads :
       LET t == threads[i]
       IN /\ t \in Thread
          /\ (t.pc \in {"eval", "set", "call", "read"}) = (t.ctx # 0)
          /\ t.ctx \in 0 .. Len(ctxs)
          /\ (t.stack = << >>) = (t.pc \in {"new", "done"})
          /\ \A j \in DOMAIN t.stack : /\ t.stack[j].scope \in DOMAIN scopes
                                      /\ t.stack[j].ctx \in 0 .. Len(ctxs)

\* What Global uses.
GlobalUses == [Using(Prototype, "w") EXCEPT !.mode = IF toRegister.busy THEN "w" ELSE "-"]

Conflict(u, v) ==
  /\ "-" \notin {u.mode, v.mode} /\ "w" \in {u.mode, v.mode}
  /\ \/ u.scope = v.scope /\ u.scope # 0
     \/ u.map = v.map /\ u.map # 0

\* No map of variables is read or written by one goroutine while another one writes it,
\* which Go ends the program for (vpl.go:287, statement.go:1275, vpl.go:222).
NoConcurrentMapUse ==
  \A i \in DOMAIN threads :
    /\ ~ Conflict(threads[i].uses, GlobalUses)
    /\ \A j \in DOMAIN threads \ {i} : ~ Conflict(threads[i].uses, threads[j].uses)

\* A context of the pool (statement.go:1293) belongs to one goroutine, and to one of its
\* expressions or component calls, until it is put back, and carries its scope.
OwnContext ==
  \A i \in DOMAIN threads :
    LET t == threads[i]
        held == {j \in DOMAIN t.stack : t.stack[j].ctx # 0}
    IN /\ t.ctx # 0 => ctxs[t.ctx] = [by |-> i, scope |-> Here(i)]
       /\ \A j \in held : /\ ctxs[t.stack[j].ctx] = [by |-> i, scope |-> t.stack[j - 1].scope]
                          /\ t.stack[j].ctx # t.ctx
                          /\ \A k \in held \ {j} : t.stack[k].ctx # t.stack[j].ctx

\* An expression reads what it would read if everything were done in the order of the
\* template: what a directive sets is seen behind it in the same scope and nowhere else
\* (statement.go:63-64), and the child of a <parallel> sees what its place sees.
ReadsAsInPlace ==
  \A i \in DOMAIN threads :
    threads[i].pc = "read" => threads[i].val = Read(Top(i).env[Name[Current(i)]])

\* The Props that requests to RenderComponent are given are read only, so any number of
\* them may be given the same (vpl.go:304).
CallerDataIntact ==
  \A m \in Callers :
    (\A r \in Request : Data[r] = m => Entry[r] = "RenderComponent") => maps[m] = Given[m]

-----------------------------------------------------------------------------
(* The use for which they hold *)

\* RenderTpl has Props of its own.
OwnProps ==
  \A r, q \in Request : r # q /\ Entry[r] = "RenderTpl" => Data[r] # Data[q]

Lists == {StatementsOf[r] : r \in Request} \cup {Kids[n] : n \in {m \in Node : Kind[m] \in {"for", "call", "bare"}}}

\* A variable is not set in a scope that a <parallel> sees, unless in front of it.
SetsBeforeParallel ==
  /\ \A todo \in Lists : \A i, j \in DOMAIN todo :
       Kind[todo[i]] = "set" /\ todo[j] \in Forking => i < j
  /\ \A p \in Node : Kind[p] = "parallel" => \A i \in DOMAIN Kids[p] : Kind[Kids[p][i]] # "set"
=============================================================================
