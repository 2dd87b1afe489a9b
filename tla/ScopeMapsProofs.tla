-------------------------- MODULE ScopeMapsProofs ---------------------------
(***************************************************************************)
(* What ScopeMaps guarantees for any statements, any number of requests    *)
(* and any number of goroutines.                                           *)
(***************************************************************************)
EXTENDS ScopeMaps, SequenceTheorems, TLAPS

Frames(i) == 1 .. Len(threads[i].stack)
Threads   == 1 .. Len(threads)
Scopes    == 1 .. Len(scopes)

Evaluating == {"eval", "set", "call", "read"}

Stores ==
  /\ maps \in Seq([Var -> Value]) /\ Len(maps) >= Len(Given)
  /\ scopes \in Seq([up : Nat, map : Nat]) /\ Len(scopes) >= 1
  /\ scopes[1] = [up |-> 0, map |-> Prototype]
  /\ \A s \in Scopes : s # 1 => scopes[s].up \in 1 .. s - 1
  /\ \A s \in Scopes : scopes[s].map <= Len(maps)
  /\ ctxs \in Seq([by : Nat, scope : Nat])
  /\ \A c \in 1 .. Len(ctxs) : ctxs[c].by <= Len(threads) /\ ctxs[c].scope \in Scopes
  /\ toRegister \in [names : Seq(Var), busy : BOOLEAN]
  /\ toRegister.busy => toRegister.names # << >>

\* The scopes of a stack grow, and its first frame has no context; n and c are the
\* numbers of scopes and contexts.
GoodStack(stack, n, c) ==
  /\ stack \in Seq(Frame)
  /\ \A j \in 1 .. Len(stack) : /\ stack[j].scope \in 2 .. n
                                /\ stack[j].ctx <= c
                                /\ j = 1 => stack[j].ctx = 0
  /\ \A j, k \in 1 .. Len(stack) : j < k => stack[j].scope < stack[k].scope

\* The statement that the frame is at is being evaluated: with pc "set", it is a
\* directive.
GoodTop(frame, pc) ==
  /\ frame.todo # << >>
  /\ Kind[Head(frame.todo)] # "parallel"
  /\ pc = "set" <=> Kind[Head(frame.todo)] = "set"

\* A goroutine that has not begun is that of a request; one that searches is at a scope,
\* and one that sets a variable is at its own.
GoodThread(i, t, n, c) ==
  /\ t \in Thread
  /\ t.req \in Request
  /\ t.pc = "new" => i = t.req
  /\ t.pc \in Evaluating <=> t.ctx # 0
  /\ t.ctx <= c
  /\ t.stack = << >> <=> t.pc \in {"new", "done"}
  /\ GoodStack(t.stack, n, c)
  /\ t.pc \in Evaluating => GoodTop(t.stack[Len(t.stack)], t.pc)
  /\ t.pc = "eval" => t.look \in 1 .. n
  /\ t.pc = "set" /\ t.uses # Unused => t.uses.scope = t.stack[Len(t.stack)].scope
  /\ t.pc \in {"run", "read", "done"} => t.uses = Unused

AllGood ==
  /\ threads \in Seq(Thread) /\ Len(threads) >= Len(StatementsOf)
  /\ \A i \in Threads : GoodThread(i, threads[i], Len(scopes), Len(ctxs))

\* A map of a caller is that of a scope only if a RenderTpl has begun with it.
CallersInTpl ==
  \A s \in Scopes : scopes[s].map \in Callers =>
    \E r \in Request : /\ Data[r] = scopes[s].map /\ Entry[r] = "RenderTpl"
                       /\ threads[r].pc # "new"

\* OwnContext for the goroutine i.
OwnsStack(i, stack, cs) ==
  \A j \in 1 .. Len(stack) : stack[j].ctx # 0 =>
    /\ cs[stack[j].ctx] = [by |-> i, scope |-> stack[j - 1].scope]
    /\ \A k \in 1 .. Len(stack) : k # j => stack[k].ctx # stack[j].ctx

Owns(i, t, cs) ==
  /\ t.ctx # 0 => cs[t.ctx] = [by |-> i, scope |-> t.stack[Len(t.stack)].scope]
  /\ OwnsStack(i, t.stack, cs)
  /\ \A j \in 1 .. Len(t.stack) : t.stack[j].ctx # 0 => t.stack[j].ctx # t.ctx

AllOwn == \A i \in Threads : Owns(i, threads[i], ctxs)

Base == Stores /\ AllGood /\ AllOwn /\ CallersInTpl


-----------------------------------------------------------------------------
(* Stacks *)

LEMMA FrameFields ==
  ASSUME NEW f \in Frame
  PROVE  /\ f.todo \in Seq(Node) /\ f.scope \in Nat /\ f.ctx \in Nat
         /\ f.env \in [Var -> Value]
BY DEF Frame

LEMMA GoodStackGrows ==
  ASSUME NEW stack, NEW n \in Nat, NEW c \in Nat, NEW m \in Nat, NEW d \in Nat,
         GoodStack(stack, n, c), n <= m, c <= d
  PROVE  GoodStack(stack, m, d)
<1>1. \A j \in 1 .. Len(stack) : stack[j].scope \in Nat /\ stack[j].ctx \in Nat
  BY FrameFields DEF GoodStack
<1>2. QED
  BY <1>1 DEF GoodStack

Replaced(stack, f) == [stack EXCEPT ![Len(stack)] = f]
PastHead(f)        == [f EXCEPT !.todo = Tail(@)]
Past(stack)        == Replaced(stack, PastHead(stack[Len(stack)]))
Popped(stack)      == SubSeq(stack, 1, Len(stack) - 1)

\* Another frame of the same scope and context at the top.
LEMMA GoodReplaced ==
  ASSUME NEW stack, NEW n \in Nat, NEW c \in Nat, GoodStack(stack, n, c), stack # << >>,
         NEW f \in Frame, f.scope = stack[Len(stack)].scope, f.ctx = stack[Len(stack)].ctx
  PROVE  /\ GoodStack(Replaced(stack, f), n, c)
         /\ Len(Replaced(stack, f)) = Len(stack) /\ Replaced(stack, f) # << >>
         /\ \A j \in 1 .. Len(stack) : /\ Replaced(stack, f)[j].scope = stack[j].scope
                                       /\ Replaced(stack, f)[j].ctx = stack[j].ctx
         /\ \A j \in 1 .. Len(stack) : j # Len(stack) => Replaced(stack, f)[j] = stack[j]
         /\ Replaced(stack, f)[Len(stack)] = f
<1>1. stack \in Seq(Frame) /\ Len(stack) \in Nat /\ Len(stack) \in 1 .. Len(stack)
  BY DEF GoodStack
<1>2. /\ Replaced(stack, f) \in Seq(Frame) /\ Len(Replaced(stack, f)) = Len(stack)
      /\ \A j \in 1 .. Len(stack) : Replaced(stack, f)[j] = IF j = Len(stack) THEN f ELSE stack[j]
  BY <1>1, ExceptSeq DEF Replaced
<1>3. \A j \in 1 .. Len(stack) : /\ Replaced(stack, f)[j].scope = stack[j].scope
                               /\ Replaced(stack, f)[j].ctx = stack[j].ctx
  BY <1>2
<1>4. GoodStack(Replaced(stack, f), n, c)
  BY <1>2, <1>3 DEF GoodStack
<1>5. Replaced(stack, f) # << >>
  BY <1>1, <1>2
<1>6. QED
  BY <1>1, <1>2, <1>3, <1>4, <1>5

\* Behind the statement at the top.
LEMMA GoodPast ==
  ASSUME NEW stack, NEW n \in Nat, NEW c \in Nat, GoodStack(stack, n, c),
         stack # << >>, stack[Len(stack)].todo # << >>
  PROVE  /\ GoodStack(Past(stack), n, c) /\ Len(Past(stack)) = Len(stack) /\ Past(stack) # << >>
         /\ \A j \in 1 .. Len(stack) : /\ Past(stack)[j].scope = stack[j].scope
                                       /\ Past(stack)[j].ctx = stack[j].ctx
         /\ \A j \in 1 .. Len(stack) : j # Len(stack) => Past(stack)[j] = stack[j]
         /\ Past(stack)[Len(stack)].todo = Tail(stack[Len(stack)].todo)
         /\ Past(stack)[Len(stack)].env = stack[Len(stack)].env
<1> DEFINE top == stack[Len(stack)]
<1>1. stack \in Seq(Frame) /\ top \in Frame
  BY DEF GoodStack
<1>2. top.todo \in Seq(Node) /\ Tail(top.todo) \in Seq(Node)
  BY <1>1, FrameFields, HeadTailProperties
<1>3. /\ PastHead(top) \in Frame /\ PastHead(top).scope = top.scope /\ PastHead(top).ctx = top.ctx
      /\ PastHead(top).env = top.env /\ PastHead(top).todo = Tail(top.todo)
  BY <1>1, <1>2 DEF Frame, PastHead
<1>4. QED
  BY <1>3, GoodReplaced DEF Past

\* Without the frame at the top.
LEMMA GoodPopped ==
  ASSUME NEW stack, NEW n \in Nat, NEW c \in Nat, GoodStack(stack, n, c), stack # << >>
  PROVE  /\ GoodStack(Popped(stack), n, c) /\ Len(Popped(stack)) = Len(stack) - 1
         /\ \A j \in 1 .. Len(stack) - 1 : Popped(stack)[j] = stack[j] /\ j \in 1 .. Len(stack)
<1>1. stack \in Seq(Frame) /\ Len(stack) \in Nat /\ Len(stack) # 0
  BY DEF GoodStack
<1>2. \A j \in 1 .. Len(stack) - 1 : stack[j] \in Frame /\ j \in 1 .. Len(stack)
  BY <1>1
<1>3. /\ Popped(stack) \in Seq(Frame)
      /\ Len(Popped(stack)) = IF 1 <= Len(stack) - 1 THEN Len(stack) - 1 - 1 + 1 ELSE 0
      /\ \A j \in 1 .. Len(stack) - 1 - 1 + 1 : Popped(stack)[j] = stack[1 + j - 1]
  BY <1>1, <1>2, SubSeqProperties DEF Popped
<1>4. \A j \in 1 .. Len(stack) - 1 : Popped(stack)[j] = stack[j]
  <2>1. ASSUME NEW j \in 1 .. Len(stack) - 1 PROVE Popped(stack)[j] = stack[j]
    <3>1. j \in 1 .. Len(stack) - 1 - 1 + 1 /\ 1 + j - 1 = j
      BY <1>1
    <3>2. QED
      BY <1>3, <3>1
  <2>2. QED
    BY <2>1
<1>5. Len(Popped(stack)) = Len(stack) - 1
  <2>1. PICK m \in Nat : m = Len(stack)
    BY <1>1
  <2>2. m # 0 /\ Len(Popped(stack)) = IF 1 <= m - 1 THEN m - 1 - 1 + 1 ELSE 0
    BY <1>1, <1>3, <2>1
  <2>3. Len(Popped(stack)) = m - 1
    BY <2>2
  <2>4. QED
    BY <2>1, <2>3
<1>6. GoodStack(Popped(stack), n, c)
  BY <1>2, <1>3, <1>4, <1>5 DEF GoodStack
<1>7. QED
  BY <1>2, <1>4, <1>5, <1>6

\* With one more frame, of a new scope.
LEMMA GoodPush ==
  ASSUME NEW stack, NEW n \in Nat, NEW c \in Nat, GoodStack(stack, n, c), stack # << >>,
         NEW f \in Frame, f.scope = n + 1, f.ctx <= c
  PROVE  /\ GoodStack(Append(stack, f), n + 1, c) /\ Len(Append(stack, f)) = Len(stack) + 1
         /\ Append(stack, f) # << >>
         /\ \A j \in 1 .. Len(stack) : Append(stack, f)[j] = stack[j]
         /\ Append(stack, f)[Len(stack) + 1] = f
<1>0. PICK more : more = Append(stack, f)
  OBVIOUS
<1>1. stack \in Seq(Frame) /\ Len(stack) \in Nat /\ Len(stack) # 0
  BY DEF GoodStack
<1>2. /\ more \in Seq(Frame) /\ Len(more) = Len(stack) + 1 /\ more # << >>
      /\ \A j \in 1 .. Len(stack) : more[j] = stack[j]
      /\ more[Len(stack) + 1] = f
  BY <1>0, <1>1, AppendProperties
<1>3. \A j \in 1 .. Len(stack) : stack[j].scope \in 2 .. n /\ stack[j].ctx <= c
  BY DEF GoodStack
<1>4. f.ctx \in Nat /\ n + 1 \in 2 .. n + 1
  BY <1>1, <1>3, FrameFields
<1>5. \A j \in 1 .. Len(more) : j \in 1 .. Len(stack) \/ j = Len(stack) + 1
  BY <1>1, <1>2
<1>6. \A j \in 1 .. Len(more) : /\ more[j].scope \in 2 .. n + 1 /\ more[j].ctx <= c
                              /\ j = 1 => more[j].ctx = 0
  BY <1>1, <1>2, <1>3, <1>4, <1>5 DEF GoodStack
<1>7. ASSUME NEW j \in 1 .. Len(more), NEW k \in 1 .. Len(more), j < k
      PROVE  more[j].scope < more[k].scope
  <2>1. j \in 1 .. Len(stack)
    BY <1>1, <1>2, <1>5, <1>7
  <2>2. CASE k \in 1 .. Len(stack)
    BY <1>2, <1>7, <2>1, <2>2 DEF GoodStack
  <2>3. CASE k = Len(stack) + 1
    BY <1>2, <1>3, <2>1, <2>3
  <2>4. QED
    BY <1>5, <2>2, <2>3
<1>8. GoodStack(more, n + 1, c)
  BY <1>2, <1>6, <1>7 DEF GoodStack
<1>9. QED
  BY <1>0, <1>2, <1>8

\* The frames of k rounds, each of a new scope behind n others.
AreRounds(fs, k, n) ==
  fs \in Seq(Frame) /\ Len(fs) = k /\ \A j \in 1 .. k : fs[j].scope = n + j /\ fs[j].ctx = 0

Joined(stack, fs) == stack \o fs

LEMMA GoodRounds ==
  ASSUME NEW stack, NEW n \in Nat, NEW c \in Nat, GoodStack(stack, n, c), stack # << >>,
         NEW k \in Nat, NEW fs, AreRounds(fs, k, n)
  PROVE  /\ GoodStack(Joined(stack, fs), n + k, c) /\ Joined(stack, fs) # << >>
         /\ Len(Joined(stack, fs)) = Len(stack) + k
         /\ \A j \in 1 .. Len(stack) : Joined(stack, fs)[j] = stack[j]
         /\ \A j \in 1 .. Len(Joined(stack, fs)) : j \notin 1 .. Len(stack) =>
              j - Len(stack) \in 1 .. k /\ Joined(stack, fs)[j] = fs[j - Len(stack)]
<1>1. PICK more : more = Joined(stack, fs)
  OBVIOUS
<1>2. fs \in Seq(Frame) /\ Len(fs) = k /\ \A j \in 1 .. k : fs[j].scope = n + j /\ fs[j].ctx = 0
  BY DEF AreRounds
<1>3. stack \in Seq(Frame)
  BY DEF GoodStack
<1>4. PICK p \in Nat : p = Len(stack)
  BY <1>3
<1>5. p # 0
  BY <1>3, <1>4
<1>6. /\ more \in Seq(Frame) /\ Len(more) = p + k
      /\ \A j \in 1 .. p + k : more[j] = IF j <= p THEN stack[j] ELSE fs[j - p]
  <2>1. more = stack \o fs
    BY <1>1 DEF Joined
  <2>2. QED
    BY <1>2, <1>3, <1>4, <2>1, ConcatProperties
<1>7. \A j \in 1 .. p : /\ stack[j].scope \in 2 .. n /\ stack[j].ctx <= c
                        /\ j = 1 => stack[j].ctx = 0
  BY <1>4 DEF GoodStack
<1>8. \A j, l \in 1 .. p : j < l => stack[j].scope < stack[l].scope
  BY <1>4 DEF GoodStack
<1>9. ASSUME NEW j \in 1 .. p + k, j \in 1 .. p
      PROVE  more[j] = stack[j] /\ stack[j].scope \in 2 .. n
  <2>1. more[j] = stack[j]
    BY <1>6, <1>9
  <2>2. QED
    BY <1>7, <1>9, <2>1
<1>10. ASSUME NEW j \in 1 .. p + k, j \notin 1 .. p
       PROVE  /\ j - p \in 1 .. k /\ more[j] = fs[j - p]
              /\ more[j].scope = n + (j - p) /\ more[j].ctx = 0 /\ j # 1
  BY <1>2, <1>5, <1>6, <1>10
<1>11. 1 \in 1 .. p /\ n >= 2
  <2>1. 1 \in 1 .. p
    BY <1>5
  <2>2. stack[1].scope \in 2 .. n
    BY <1>7, <2>1, Zenon
  <2>3. QED
    BY <2>1, <2>2
<1>12. ASSUME NEW j \in 1 .. p + k
       PROVE  more[j].scope \in 2 .. n + k /\ more[j].ctx <= c /\ (j = 1 => more[j].ctx = 0)
  <2>1. CASE j \in 1 .. p
    <3>1. more[j] = stack[j] /\ stack[j].scope \in 2 .. n
      BY <1>9, <2>1
    <3>2. stack[j].ctx <= c /\ (j = 1 => stack[j].ctx = 0)
      BY <1>7, <2>1
    <3>3. QED
      BY <3>1, <3>2
  <2>2. CASE j \notin 1 .. p
    BY <1>10, <1>11, <2>2
  <2>3. QED
    BY <2>1, <2>2
<1>13. ASSUME NEW j \in 1 .. p + k, NEW l \in 1 .. p + k, j < l
       PROVE  more[j].scope < more[l].scope
  <2>1. CASE l \in 1 .. p
    BY <1>8, <1>9, <1>13, <2>1
  <2>2. CASE l \notin 1 .. p /\ j \in 1 .. p
    BY <1>9, <1>10, <2>2, SMTT(40)
  <2>3. CASE l \notin 1 .. p /\ j \notin 1 .. p
    BY <1>10, <1>13, <2>3
  <2>4. QED
    BY <2>1, <2>2, <2>3
<1>14. GoodStack(more, n + k, c)
  BY <1>6, <1>12, <1>13 DEF GoodStack
<1>15. more # << >>
  BY <1>5, <1>6
<1>16. QED
  BY <1>1, <1>4, <1>6, <1>9, <1>10, <1>14, <1>15

\* A stack of one frame.
LEMMA GoodSingle ==
  ASSUME NEW n \in Nat, NEW c \in Nat, NEW f \in Frame, f.scope \in 2 .. n, f.ctx = 0
  PROVE  GoodStack(<<f>>, n, c) /\ <<f>> # << >> /\ Len(<<f>>) = 1 /\ <<f>>[1] = f
<1>1. <<f>> \in Seq(Frame) /\ Len(<<f>>) = 1 /\ <<f>>[1] = f
  OBVIOUS
<1>2. QED
  BY <1>1 DEF GoodStack

-----------------------------------------------------------------------------
(* What the stores and the goroutines are *)

LEMMA BaseFacts ==
  ASSUME Base
  PROVE  /\ Len(maps) \in Nat /\ Len(scopes) \in Nat /\ Len(ctxs) \in Nat /\ Len(threads) \in Nat
         /\ DOMAIN maps = 1 .. Len(maps) /\ DOMAIN scopes = Scopes /\ DOMAIN ctxs = 1 .. Len(ctxs)
         /\ DOMAIN threads = Threads
         /\ \A m \in 1 .. Len(maps) : maps[m] \in [Var -> Value]
         /\ \A s \in Scopes : scopes[s] \in [up : Nat, map : Nat]
         /\ \A c \in 1 .. Len(ctxs) : ctxs[c] \in [by : Nat, scope : Nat]
         /\ \A i \in Threads : threads[i] \in Thread
         /\ Request \subseteq Threads /\ 0 \notin Threads
         /\ 1 \in Scopes /\ 1 \in 1 .. Len(maps)
         /\ \A r \in Request : Data[r] \in 2 .. Len(maps)
<1>1. /\ maps \in Seq([Var -> Value]) /\ scopes \in Seq([up : Nat, map : Nat])
      /\ ctxs \in Seq([by : Nat, scope : Nat]) /\ threads \in Seq(Thread)
  BY DEF Base, Stores, AllGood
<1>2. Len(StatementsOf) \in Nat /\ Len(threads) >= Len(StatementsOf)
  BY RequestAssumption DEF Base, AllGood
<1>3. Given \in Seq([Var -> Value]) /\ Len(Given) \in Nat /\ Len(maps) >= Len(Given)
      /\ DOMAIN Given = 1 .. Len(Given)
  BY DataAssumption DEF Base, Stores
<1>4. \A r \in Request : Data[r] \in DOMAIN Given \ {Prototype}
  BY DataAssumption
<1>5. Prototype \in 1 .. Len(Given)
  BY <1>3, DataAssumption
<1>6. \A r \in Request : Data[r] \in 2 .. Len(maps)
  BY <1>1, <1>3, <1>4 DEF Prototype
<1>7. Len(scopes) >= 1
  BY DEF Base, Stores
<1>8. /\ Len(maps) \in Nat /\ Len(scopes) \in Nat /\ Len(ctxs) \in Nat /\ Len(threads) \in Nat
      /\ DOMAIN maps = 1 .. Len(maps) /\ DOMAIN scopes = Scopes /\ DOMAIN ctxs = 1 .. Len(ctxs)
      /\ DOMAIN threads = Threads
  BY <1>1 DEF Threads, Scopes
<1>9. /\ \A m \in 1 .. Len(maps) : maps[m] \in [Var -> Value]
      /\ \A s \in Scopes : scopes[s] \in [up : Nat, map : Nat]
      /\ \A c \in 1 .. Len(ctxs) : ctxs[c] \in [by : Nat, scope : Nat]
      /\ \A i \in Threads : threads[i] \in Thread
  BY <1>1, ElementOfSeq DEF Threads, Scopes
<1>10. Request \subseteq Threads /\ 0 \notin Threads
  BY <1>2, <1>8, RequestAssumption DEF Threads
<1>11. 1 \in Scopes /\ 1 \in 1 .. Len(maps)
  BY <1>3, <1>5, <1>7, <1>8 DEF Scopes, Prototype
<1>12. QED
  BY <1>6, <1>8, <1>9, <1>10, <1>11

LEMMA NilIsValue == Nil \in Value
BY DEF Value

LEMMA ThreadFields ==
  ASSUME NEW t \in Thread
  PROVE  /\ t.req \in Request /\ t.pc \in {"new", "run", "eval", "set", "call", "read", "done"}
         /\ t.stack \in Seq(Frame) /\ t.ctx \in Nat /\ t.look \in Nat /\ t.val \in Value
         /\ t.uses \in [scope : Nat, map : Nat, mode : {"r", "w", "-"}]
BY DEF Thread

LEMMA NewThreadIsThread ==
  ASSUME NEW r \in Request, NEW pc \in {"new", "run", "done"}, NEW stack \in Seq(Frame)
  PROVE  /\ NewThread(r, pc, stack) \in Thread
         /\ NewThread(r, pc, stack).req = r /\ NewThread(r, pc, stack).pc = pc
         /\ NewThread(r, pc, stack).stack = stack /\ NewThread(r, pc, stack).ctx = 0
         /\ NewThread(r, pc, stack).uses = Unused
BY DEF NewThread, Thread, Unused, Value

\* A step of the goroutine i, which becomes f, leaves the contexts of the others alone.
LEMMA StepBase ==
  ASSUME Base, NEW i \in Threads, NEW f,
         SetTo(i, f),
         Stores', GoodThread(i, f, Len(scopes'), Len(ctxs')), Owns(i, f, ctxs'),
         Len(scopes) <= Len(scopes'), Len(ctxs) <= Len(ctxs'),
         \A c \in 1 .. Len(ctxs) : ctxs[c].by \notin {0, i} => ctxs'[c] = ctxs[c],
         f.pc = "new" => threads[i].pc = "new",
         \A s \in Scopes' : scopes'[s].map \in Callers =>
           \/ s \in Scopes /\ scopes'[s].map = scopes[s].map
           \/ /\ scopes'[s].map = Data[i] /\ Entry[i] = "RenderTpl"
              /\ i \in Request /\ f.pc # "new"
  PROVE  Base'
<1>1. /\ threads' \in Seq(Thread) /\ Len(threads') = Len(threads)
      /\ \A j \in Threads : threads'[j] = IF j = i THEN f ELSE threads[j]
  <2>1. f \in Thread
    BY DEF GoodThread
  <2>2. threads \in Seq(Thread)
    BY DEF Base, AllGood
  <2>3. QED
    BY <2>1, <2>2, ExceptSeq DEF Threads, SetTo
<1>2. Threads' = Threads
  BY <1>1 DEF Threads
<1>3. /\ Len(scopes) \in Nat /\ Len(ctxs) \in Nat /\ Len(scopes') \in Nat /\ Len(ctxs') \in Nat
  BY BaseFacts, SMTT(40) DEF Stores
<1>4. ASSUME NEW j \in Threads, j # i
      PROVE  /\ GoodThread(j, threads[j], Len(scopes'), Len(ctxs'))
             /\ Owns(j, threads[j], ctxs')
  <2>1. GoodThread(j, threads[j], Len(scopes), Len(ctxs)) /\ Owns(j, threads[j], ctxs)
    BY DEF Base, AllGood, AllOwn
  <2>2. /\ GoodStack(threads[j].stack, Len(scopes), Len(ctxs))
        /\ threads[j].ctx \in Nat /\ threads[j].ctx <= Len(ctxs)
        /\ threads[j].stack \in Seq(Frame)
    BY <2>1, ThreadFields DEF GoodThread
  <2>3. GoodStack(threads[j].stack, Len(scopes'), Len(ctxs'))
    BY <1>3, <2>2, GoodStackGrows
  <2>4. GoodThread(j, threads[j], Len(scopes'), Len(ctxs'))
    BY <1>3, <2>1, <2>2, <2>3 DEF GoodThread
  <2>5. j # 0
    BY BaseFacts
  <2>6. ASSUME NEW c \in 1 .. Len(ctxs), ctxs[c].by = j PROVE ctxs'[c] = ctxs[c]
    BY <1>4, <2>5, <2>6
  <2>7. ASSUME NEW k \in 1 .. Len(threads[j].stack), threads[j].stack[k].ctx # 0
        PROVE  ctxs'[threads[j].stack[k].ctx] = ctxs[threads[j].stack[k].ctx]
    <3>1. threads[j].stack[k].ctx \in 1 .. Len(ctxs)
      BY <1>3, <2>2, <2>7, FrameFields DEF GoodStack
    <3>2. ctxs[threads[j].stack[k].ctx] = [by |-> j, scope |-> threads[j].stack[k - 1].scope]
      BY <2>1, <2>7, Zenon DEF Owns, OwnsStack
    <3>3. QED
      BY <2>6, <3>1, <3>2, SMTT(40)
  <2>8. threads[j].ctx # 0 => ctxs'[threads[j].ctx] = ctxs[threads[j].ctx]
    BY <1>3, <2>1, <2>2, <2>6, SMTT(40) DEF Owns, OwnsStack
  <2>9. Owns(j, threads[j], ctxs')
    BY <2>1, <2>7, <2>8 DEF Owns, OwnsStack
  <2>10. QED
    BY <2>4, <2>9
<1>5. AllGood'
  BY <1>1, <1>2, <1>4 DEF Base, AllGood
<1>6. AllOwn'
  BY <1>1, <1>2, <1>4 DEF AllOwn
<1>7. CallersInTpl'
  <2>1. Callers' = Callers
    BY DEF Callers
  <2>2. ASSUME NEW s \in Scopes', scopes'[s].map \in Callers
        PROVE  \E r \in Request : /\ Data[r] = scopes'[s].map /\ Entry[r] = "RenderTpl"
                                  /\ threads'[r].pc # "new"
    <3>1. CASE s \in Scopes /\ scopes'[s].map = scopes[s].map
      <4>1. PICK r \in Request : /\ Data[r] = scopes[s].map /\ Entry[r] = "RenderTpl"
                                 /\ threads[r].pc # "new"
        BY <2>2, <3>1 DEF Base, CallersInTpl
      <4>2. r \in Threads
        BY BaseFacts
      <4>3. threads'[r].pc # "new"
        BY <1>1, <4>1, <4>2
      <4>4. QED
        BY <3>1, <4>1, <4>3
    <3>2. CASE /\ scopes'[s].map = Data[i] /\ Entry[i] = "RenderTpl"
               /\ i \in Request /\ f.pc # "new"
      BY <1>1, <3>2
    <3>3. QED
      BY <2>2, <3>1, <3>2
  <2>3. QED
    BY <2>1, <2>2 DEF CallersInTpl
<1>8. QED
  BY <1>5, <1>6, <1>7 DEF Base

LEMMA BaseImpliesTypes ==
  ASSUME Base
  PROVE  TypeOK /\ OwnContext
<1>1. /\ DOMAIN maps = 1 .. Len(maps) /\ DOMAIN scopes = Scopes /\ DOMAIN ctxs = 1 .. Len(ctxs)
      /\ DOMAIN threads = Threads
      /\ Len(maps) \in Nat /\ Len(scopes) \in Nat /\ Len(ctxs) \in Nat /\ Len(threads) \in Nat
      /\ \A m \in 1 .. Len(maps) : maps[m] \in [Var -> Value]
      /\ \A s \in Scopes : scopes[s] \in [up : Nat, map : Nat]
      /\ \A c \in 1 .. Len(ctxs) : ctxs[c] \in [by : Nat, scope : Nat]
      /\ \A i \in Threads : threads[i] \in Thread
  BY BaseFacts
<1>2. ASSUME NEW s \in Scopes PROVE scopes[s].up < s /\ scopes[s].map \in 0 .. Len(maps)
  <2>1. s \in Nat /\ scopes[s].map \in Nat /\ scopes[s].map <= Len(maps)
    BY <1>1 DEF Base, Stores, Scopes
  <2>2. scopes[1].up = 0
    BY DEF Base, Stores
  <2>3. s # 1 => scopes[s].up \in 1 .. s - 1
    BY DEF Base, Stores
  <2>4. QED
    BY <1>1, <2>1, <2>2, <2>3 DEF Scopes
<1>3. \A c \in 1 .. Len(ctxs) : ctxs[c].by \in 0 .. Len(threads) /\ ctxs[c].scope \in Scopes
  BY <1>1 DEF Base, Stores
<1>4. ASSUME NEW i \in Threads
      PROVE  LET t == threads[i]
             IN /\ t \in Thread
                /\ (t.pc \in {"eval", "set", "call", "read"}) = (t.ctx # 0)
                /\ t.ctx \in 0 .. Len(ctxs)
                /\ (t.stack = << >>) = (t.pc \in {"new", "done"})
                /\ \A j \in DOMAIN t.stack : /\ t.stack[j].scope \in DOMAIN scopes
                                            /\ t.stack[j].ctx \in 0 .. Len(ctxs)
  <2>1. GoodThread(i, threads[i], Len(scopes), Len(ctxs))
    BY DEF Base, AllGood
  <2>2. threads[i].stack \in Seq(Frame) /\ threads[i].ctx \in Nat
    BY <1>1, ThreadFields
  <2>3. DOMAIN threads[i].stack = 1 .. Len(threads[i].stack)
    BY <2>2
  <2>4. ASSUME NEW j \in 1 .. Len(threads[i].stack)
        PROVE  threads[i].stack[j].scope \in Scopes /\ threads[i].stack[j].ctx \in 0 .. Len(ctxs)
    <3>1. GoodStack(threads[i].stack, Len(scopes), Len(ctxs))
      BY <2>1 DEF GoodThread
    <3>2. /\ threads[i].stack[j].scope \in 2 .. Len(scopes)
          /\ threads[i].stack[j].ctx <= Len(ctxs) /\ threads[i].stack[j] \in Frame
      BY <3>1 DEF GoodStack
    <3>3. threads[i].stack[j].ctx \in Nat
      BY <3>2, FrameFields
    <3>4. QED
      BY <1>1, <3>2, <3>3 DEF Scopes
  <2>5. (threads[i].pc \in {"eval", "set", "call", "read"}) = (threads[i].ctx # 0)
    BY <2>1 DEF GoodThread, Evaluating
  <2>6. (threads[i].stack = << >>) = (threads[i].pc \in {"new", "done"})
    BY <2>1 DEF GoodThread
  <2>7. threads[i].ctx \in 0 .. Len(ctxs)
    BY <1>1, <2>1, <2>2 DEF GoodThread
  <2>8. QED
    BY <1>1, <2>3, <2>4, <2>5, <2>6, <2>7, Zenon
<1>5. TypeOK
  BY <1>1, <1>2, <1>3, <1>4, Zenon DEF TypeOK
<1>6. ASSUME NEW i \in Threads
      PROVE  LET t == threads[i]
                 held == {j \in DOMAIN t.stack : t.stack[j].ctx # 0}
             IN /\ t.ctx # 0 => ctxs[t.ctx] = [by |-> i, scope |-> Here(i)]
                /\ \A j \in held : /\ ctxs[t.stack[j].ctx] = [by |-> i, scope |-> t.stack[j - 1].scope]
                                   /\ t.stack[j].ctx # t.ctx
                                   /\ \A k \in held \ {j} : t.stack[k].ctx # t.stack[j].ctx
  <2>1. Owns(i, threads[i], ctxs)
    BY DEF Base, AllOwn
  <2>2. DOMAIN threads[i].stack = 1 .. Len(threads[i].stack)
    BY <1>1, ThreadFields
  <2>3. QED
    BY <2>1, <2>2 DEF Owns, OwnsStack, Here, Top
<1>7. OwnContext
  BY <1>1, <1>6, Zenon DEF OwnContext
<1>8. QED
  BY <1>5, <1>7

LEMMA InitBase == Init => Base
<1> SUFFICES ASSUME Init PROVE Base
  OBVIOUS
<1>1. Given \in Seq([Var -> Value]) /\ DOMAIN Given = 1 .. Len(Given) /\ Prototype \in 1 .. Len(Given)
      /\ Len(Given) \in Nat
  BY DataAssumption
<1>2. NoVars \in [Var -> Value]
  BY DEF NoVars, Value
<1>3. \A m \in DOMAIN Given : (IF m \in Callers THEN Given[m] ELSE NoVars) \in [Var -> Value]
  BY <1>1, <1>2
<1>4. maps \in [1 .. Len(Given) -> [Var -> Value]]
  BY <1>1, <1>3 DEF Init
<1>5. maps \in Seq([Var -> Value]) /\ Len(maps) = Len(Given)
  BY <1>1, <1>4
<1>6. scopes \in Seq([up : Nat, map : Nat]) /\ Len(scopes) = 1
      /\ scopes[1] = [up |-> 0, map |-> Prototype]
  BY DEF Init, Prototype
<1>7. ctxs = << >> /\ toRegister \in [names : Seq(Var), busy : BOOLEAN] /\ ~ toRegister.busy
  BY GlobalAssumption DEF Init
<1>8. Stores
  <2>1. Scopes = {1}
    BY <1>6 DEF Scopes
  <2>2. scopes[1].map <= Len(maps)
    BY <1>1, <1>5, <1>6
  <2>3. ctxs \in Seq([by : Nat, scope : Nat]) /\ 1 .. Len(ctxs) = {}
    BY <1>7
  <2>4. QED
    BY <1>1, <1>5, <1>6, <1>7, <2>1, <2>2, <2>3 DEF Stores
<1>9. Len(StatementsOf) \in Nat /\ Request = 1 .. Len(StatementsOf)
  BY RequestAssumption
<1>10. ASSUME NEW r \in Request
       PROVE  /\ NewThread(r, "new", << >>) \in Thread
              /\ GoodThread(r, NewThread(r, "new", << >>), Len(scopes), Len(ctxs))
              /\ Owns(r, NewThread(r, "new", << >>), ctxs)
  <2>1. << >> \in Seq(Frame) /\ "new" \in {"new", "run", "done"}
    OBVIOUS
  <2>2. PICK t : t = NewThread(r, "new", << >>)
    OBVIOUS
  <2>3. /\ t \in Thread /\ t.req = r /\ t.pc = "new" /\ t.stack = << >> /\ t.ctx = 0
    BY <2>1, <2>2 DEF NewThread, Thread, Unused, Value
  <2>4. Len(<< >>) = 0 /\ 1 .. 0 = {} /\ Len(ctxs) = 0
    BY <1>7
  <2>5. GoodStack(t.stack, Len(scopes), Len(ctxs))
    BY <2>1, <2>3, <2>4 DEF GoodStack
  <2>6. GoodThread(r, t, Len(scopes), Len(ctxs))
    BY <2>3, <2>4, <2>5 DEF GoodThread, Evaluating
  <2>7. Owns(r, t, ctxs)
    BY <2>3, <2>4 DEF Owns, OwnsStack
  <2>8. QED
    BY <2>2, <2>3, <2>6, <2>7
<1>11. threads \in [1 .. Len(StatementsOf) -> Thread]
       /\ \A r \in Request : threads[r] = NewThread(r, "new", << >>)
  BY <1>9, <1>10 DEF Init
<1>12. threads \in Seq(Thread) /\ Len(threads) = Len(StatementsOf) /\ Threads = Request
  BY <1>9, <1>11 DEF Threads
<1>13. AllGood /\ AllOwn
  BY <1>9, <1>10, <1>11, <1>12 DEF AllGood, AllOwn
<1>14. CallersInTpl
  <2>1. Prototype \notin Callers
    BY DataAssumption DEF Callers
  <2>2. \A s \in Scopes : scopes[s].map = Prototype
    BY <1>6 DEF Scopes
  <2>3. QED
    BY <2>1, <2>2 DEF CallersInTpl
<1>15. QED
  BY <1>8, <1>13, <1>14 DEF Base

\* A step that changes neither maps nor scopes.
LEMMA StoresStep ==
  ASSUME Base, UNCHANGED <<maps, scopes, toRegister>>, Len(threads') = Len(threads),
         ctxs' \in Seq([by : Nat, scope : Nat]),
         \A c \in 1 .. Len(ctxs') : ctxs'[c].by <= Len(threads) /\ ctxs'[c].scope \in Scopes
  PROVE  Stores'
<1>1. Scopes' = Scopes
  BY DEF Scopes
<1>2. Prototype' = Prototype
  BY DEF Prototype
<1>3. QED
  BY <1>1, <1>2 DEF Base, Stores

\* A step of a goroutine in the middle of an expression or before it begins.
LEMMA LocalStep ==
  ASSUME Base, NEW i \in Threads, NEW f \in Thread,
         SetTo(i, f), UNCHANGED <<maps, scopes, ctxs, toRegister>>,
         f.req = threads[i].req, f.stack = threads[i].stack, f.ctx = threads[i].ctx,
         f.pc = threads[i].pc \/ (threads[i].pc = "eval" /\ f.pc = "read"),
         f.pc = "eval" => f.look \in Scopes,
         f.pc = "set" /\ f.uses # Unused => f.uses.scope = Here(i),
         f.pc = "read" => f.uses = Unused,
         f.pc \notin {"run", "done"}
  PROVE  Base'
<1>1. GoodThread(i, threads[i], Len(scopes), Len(ctxs)) /\ Owns(i, threads[i], ctxs)
  BY DEF Base, AllGood, AllOwn
<1>2. GoodThread(i, f, Len(scopes), Len(ctxs))
  <2>1. f.pc \in Evaluating <=> threads[i].pc \in Evaluating
    BY DEF Evaluating
  <2>2. f.pc = "set" <=> threads[i].pc = "set"
    OBVIOUS
  <2>3. f.pc \in {"new", "done"} <=> threads[i].pc \in {"new", "done"}
    OBVIOUS
  <2>4. f.pc \in Evaluating => GoodTop(f.stack[Len(f.stack)], f.pc)
    BY <1>1, <2>1, <2>2 DEF GoodThread, GoodTop
  <2>5. f.pc \in {"run", "read", "done"} => f.uses = Unused
    OBVIOUS
  <2>6. QED
    BY <1>1, <2>1, <2>2, <2>3, <2>4, <2>5 DEF GoodThread, Scopes, Here, Top
<1>3. Owns(i, f, ctxs)
  BY <1>1 DEF Owns, OwnsStack
<1>4. Stores'
  <2>1. Len(threads') = Len(threads)
    BY ExceptSeq DEF Base, AllGood, Threads, SetTo
  <2>2. QED
    BY <2>1, StoresStep DEF Base, Stores
<1>5. Len(scopes) \in Nat /\ Len(ctxs) \in Nat /\ Scopes' = Scopes
  BY BaseFacts DEF Scopes
<1>6. f.pc = "new" => threads[i].pc = "new"
  OBVIOUS
<1>7. /\ Len(scopes) <= Len(scopes') /\ Len(ctxs) <= Len(ctxs') /\ ctxs' = ctxs
      /\ \A s \in Scopes' : s \in Scopes /\ scopes'[s].map = scopes[s].map
  BY <1>5
<1>8. GoodThread(i, f, Len(scopes'), Len(ctxs')) /\ Owns(i, f, ctxs')
  BY <1>2, <1>3, <1>7
<1>9. QED
  BY <1>4, <1>5, <1>6, <1>7, <1>8, StepBase

LEMMA UsingTyped ==
  ASSUME Base, NEW s \in Scopes, NEW mode \in {"r", "w", "-"}
  PROVE  /\ Using(s, mode) \in [scope : Nat, map : Nat, mode : {"r", "w", "-"}]
         /\ Using(s, mode).scope = s
BY BaseFacts DEF Using, Scopes

\* The top of a stack that is not empty.
LEMMA TopFacts ==
  ASSUME Base, NEW i \in Threads, threads[i].stack # << >>
  PROVE  /\ Len(threads[i].stack) \in Frames(i) /\ Len(threads[i].stack) \in Nat
         /\ Top(i) \in Frame /\ Here(i) \in Scopes /\ Here(i) \in Nat /\ Here(i) >= 2
         /\ GoodStack(threads[i].stack, Len(scopes), Len(ctxs))
         /\ threads[i].stack \in Seq(Frame)
         /\ Here(i) = threads[i].stack[Len(threads[i].stack)].scope
<1>1. GoodThread(i, threads[i], Len(scopes), Len(ctxs)) /\ threads[i].stack \in Seq(Frame)
  BY DEF Base, AllGood, GoodThread, GoodStack
<1>2. Len(threads[i].stack) \in Frames(i) /\ Len(threads[i].stack) \in Nat
  BY <1>1 DEF Frames
<1>3. Top(i) \in Frame
  BY <1>1, <1>2 DEF Top, Frames
<1>4. Here(i) \in 2 .. Len(scopes)
  BY <1>1, <1>2 DEF Top, Frames, Here, GoodThread, GoodStack
<1>5. QED
  BY <1>1, <1>2, <1>3, <1>4, BaseFacts DEF Here, Top, Scopes, GoodThread

LEMMA EvaluatingFacts ==
  ASSUME Base, NEW i \in Threads, threads[i].pc \in Evaluating
  PROVE  /\ threads[i].stack # << >> /\ Top(i).todo # << >> /\ Top(i).todo \in Seq(Node)
         /\ Current(i) \in Node /\ Kind[Current(i)] # "parallel"
         /\ threads[i].pc = "set" <=> Kind[Current(i)] = "set"
         /\ threads[i].ctx \in 1 .. Len(ctxs)
         /\ ctxs[threads[i].ctx] = [by |-> i, scope |-> Here(i)]
         /\ ctxs[threads[i].ctx].by = i /\ ctxs[threads[i].ctx].scope = Here(i)
<1>1. GoodThread(i, threads[i], Len(scopes), Len(ctxs)) /\ Owns(i, threads[i], ctxs)
  BY DEF Base, AllGood, AllOwn
<1>2. threads[i].stack # << >>
  BY <1>1 DEF GoodThread, Evaluating
<1>3. GoodTop(Top(i), threads[i].pc)
  BY <1>1 DEF GoodThread, Top
<1>4. Top(i).todo \in Seq(Node)
  BY <1>2, TopFacts, FrameFields
<1>5. threads[i].ctx \in 1 .. Len(ctxs)
  BY <1>1, BaseFacts, ThreadFields DEF GoodThread
<1>6. ctxs[threads[i].ctx] = [by |-> i, scope |-> Here(i)]
  BY <1>1, <1>5 DEF Owns, OwnsStack, Here, Top
<1>7. ctxs[threads[i].ctx].by = i /\ ctxs[threads[i].ctx].scope = Here(i)
  BY <1>6
<1>8. QED
  BY <1>2, <1>3, <1>4, <1>5, <1>6, <1>7 DEF GoodTop, Current

LEMMA BeginBase ==
  ASSUME Base, NEW i \in Threads, Begin(i)
  PROVE  Base'
<1> DEFINE r == threads[i].req
           u == [scope |-> 0, map |-> Data[r], mode |-> IF Entry[r] = "RenderTpl" THEN "w" ELSE "r"]
<1>1. PICK f : f = [threads[i] EXCEPT !.uses = u]
  OBVIOUS
<1>2. threads[i] \in Thread /\ r \in Request /\ Data[r] \in Nat
  BY BaseFacts, ThreadFields
<1>3. f \in Thread
  BY <1>1, <1>2 DEF Thread
<1>4. /\ SetTo(i, f) /\ threads[i].pc = "new" /\ UNCHANGED <<maps, scopes, ctxs, toRegister>>
      /\ f.req = threads[i].req /\ f.stack = threads[i].stack /\ f.ctx = threads[i].ctx
      /\ f.pc = threads[i].pc
  BY <1>1, <1>2 DEF Begin, Thread
<1>5. QED
  BY <1>3, <1>4, LocalStep

LEMMA BeginLookBase ==
  ASSUME Base, NEW i \in Threads, BeginLook(i)
  PROVE  Base'
<1> DEFINE s == IF threads[i].look = Here(i) THEN ctxs[threads[i].ctx].scope ELSE threads[i].look
<1>1. PICK f : f = [threads[i] EXCEPT !.look = s, !.uses = Using(s, "r")]
  OBVIOUS
<1>2. threads[i] \in Thread /\ threads[i].pc = "eval"
  BY BaseFacts DEF BeginLook
<1>3. s \in Scopes
  <2>1. threads[i].look \in Scopes
    BY <1>2 DEF Base, AllGood, GoodThread, Scopes
  <2>2. threads[i].ctx \in 1 .. Len(ctxs)
    BY <1>2, EvaluatingFacts DEF Evaluating
  <2>3. QED
    BY <2>1, <2>2 DEF Base, Stores
<1>4. f \in Thread
  <2>1. s \in Nat
    BY <1>3 DEF Scopes
  <2>2. Using(s, "r") \in [scope : Nat, map : Nat, mode : {"r", "w", "-"}]
    BY <1>3, UsingTyped
  <2>3. QED
    BY <1>1, <1>2, <2>1, <2>2 DEF Thread
<1>5. /\ SetTo(i, f) /\ UNCHANGED <<maps, scopes, ctxs, toRegister>>
      /\ f.req = threads[i].req /\ f.stack = threads[i].stack /\ f.ctx = threads[i].ctx
      /\ f.pc = threads[i].pc /\ f.look = s
  BY <1>1, <1>2 DEF BeginLook, Thread
<1>6. QED
  BY <1>2, <1>3, <1>4, <1>5, LocalStep

LEMMA EndLookBase ==
  ASSUME Base, NEW i \in Threads, EndLook(i)
  PROVE  Base'
<1> DEFINE s == threads[i].look
           v == Holds(s, Name[Current(i)])
<1>1. threads[i] \in Thread /\ threads[i].pc = "eval" /\ Current(i) \in Node
  BY BaseFacts, EvaluatingFacts DEF EndLook, Evaluating
<1>2. s \in Scopes
  BY <1>1 DEF Base, AllGood, GoodThread, Scopes
<1>3. v \in Value
  <2>1. Name[Current(i)] \in Var
    BY <1>1, NodeAssumption
  <2>2. scopes[s].map # 0 => maps[scopes[s].map] \in [Var -> Value]
    BY <1>2, BaseFacts DEF Base, Stores
  <2>3. QED
    BY <2>1, <2>2 DEF Holds, Value
<1>4. Unused \in [scope : Nat, map : Nat, mode : {"r", "w", "-"}]
  BY DEF Unused
<1>5. CASE v = Nil /\ scopes[s].up # 0
  <2>1. PICK f : f = [threads[i] EXCEPT !.uses = Unused, !.look = scopes[s].up]
    OBVIOUS
  <2>2. scopes[s].up \in Scopes /\ scopes[s].up \in Nat
    <3>1. s # 1
      BY <1>5 DEF Base, Stores
    <3>2. scopes[s].up \in 1 .. s - 1
      BY <1>2, <3>1 DEF Base, Stores
    <3>3. QED
      BY <1>2, <3>2, BaseFacts DEF Scopes
  <2>3. f \in Thread
    BY <1>1, <1>4, <2>1, <2>2 DEF Thread
  <2>4. /\ SetTo(i, f) /\ UNCHANGED <<maps, scopes, ctxs, toRegister>>
        /\ f.req = threads[i].req /\ f.stack = threads[i].stack /\ f.ctx = threads[i].ctx
        /\ f.pc = threads[i].pc /\ f.look = scopes[s].up
    BY <1>1, <1>5, <2>1 DEF EndLook, Thread
  <2>5. QED
    BY <1>1, <2>2, <2>3, <2>4, LocalStep
<1>6. CASE ~ (v = Nil /\ scopes[s].up # 0)
  <2>1. PICK f : f = [threads[i] EXCEPT !.uses = Unused, !.look = 0, !.val = Read(v), !.pc = "read"]
    OBVIOUS
  <2>2. f \in Thread
    <3>1. Read(v) \in Value
      BY <1>3 DEF Read, Value
    <3>2. QED
      BY <1>1, <1>4, <2>1, <3>1 DEF Thread
  <2>3. /\ SetTo(i, f) /\ UNCHANGED <<maps, scopes, ctxs, toRegister>>
        /\ f.req = threads[i].req /\ f.stack = threads[i].stack /\ f.ctx = threads[i].ctx
        /\ f.pc = "read" /\ f.uses = Unused
    BY <1>1, <1>6, <2>1 DEF EndLook, Thread
  <2>4. QED
    BY <1>1, <2>2, <2>3, LocalStep
<1>7. QED
  BY <1>5, <1>6

LEMMA BeginSetBase ==
  ASSUME Base, NEW i \in Threads, BeginSet(i)
  PROVE  Base'
<1>1. threads[i] \in Thread /\ threads[i].pc = "set"
  BY BaseFacts DEF BeginSet
<1>2. ctxs[threads[i].ctx].scope = Here(i) /\ threads[i].stack # << >>
  <2>1. ctxs[threads[i].ctx] = [by |-> i, scope |-> Here(i)] /\ threads[i].stack # << >>
    BY <1>1, EvaluatingFacts DEF Evaluating
  <2>2. QED
    BY <2>1
<1>3. Here(i) \in Scopes
  BY <1>2, TopFacts
<1>4. PICK f : f = [threads[i] EXCEPT !.uses = Using(Here(i), "w")]
  OBVIOUS
<1>5. Using(Here(i), "w") \in [scope : Nat, map : Nat, mode : {"r", "w", "-"}]
      /\ Using(Here(i), "w").scope = Here(i)
  BY <1>3, UsingTyped
<1>6. f \in Thread
  BY <1>1, <1>4, <1>5 DEF Thread
<1>7. /\ SetTo(i, f) /\ UNCHANGED <<maps, scopes, ctxs, toRegister>>
      /\ f.req = threads[i].req /\ f.stack = threads[i].stack /\ f.ctx = threads[i].ctx
      /\ f.pc = threads[i].pc /\ f.uses = Using(Here(i), "w")
  BY <1>1, <1>2, <1>4 DEF BeginSet, Thread
<1>8. QED
  BY <1>1, <1>5, <1>6, <1>7, LocalStep

-----------------------------------------------------------------------------
(* The pool *)

LEMMA NextCtxFacts ==
  ASSUME Base
  PROVE  /\ NextCtx \in 1 .. Len(ctxs) + 1
         /\ NextCtx <= Len(ctxs) => NextCtx \in 1 .. Len(ctxs) /\ ctxs[NextCtx].by = 0
<1> DEFINE free == {c \in DOMAIN ctxs : ctxs[c].by = 0}
<1>1. DOMAIN ctxs = 1 .. Len(ctxs) /\ Len(ctxs) \in Nat
  BY BaseFacts
<1>2. CASE free = {}
  <2>1. NextCtx = Len(ctxs) + 1
    BY <1>2 DEF NextCtx
  <2>2. QED
    BY <1>1, <2>1
<1>3. CASE free # {}
  <2>1. NextCtx \in free
    BY <1>3 DEF NextCtx
  <2>2. QED
    BY <1>1, <2>1
<1>4. QED
  BY <1>2, <1>3

LEMMA Taken ==
  ASSUME Base, NEW i \in Threads, threads[i].stack # << >>, NEW cs, cs = TakenBy(i)
  PROVE  /\ cs \in Seq([by : Nat, scope : Nat]) /\ Len(ctxs) <= Len(cs) /\ Len(cs) \in Nat
         /\ NextCtx \in 1 .. Len(cs) /\ cs[NextCtx] = [by |-> i, scope |-> Here(i)]
         /\ \A c \in 1 .. Len(cs) : c # NextCtx => c \in 1 .. Len(ctxs) /\ cs[c] = ctxs[c]
<1>1. ctxs \in Seq([by : Nat, scope : Nat]) /\ Len(ctxs) \in Nat
  BY BaseFacts DEF Base, Stores
<1>2. PICK ctx : ctx = [by |-> i, scope |-> Here(i)]
  OBVIOUS
<1>3. ctx \in [by : Nat, scope : Nat]
  BY <1>2, TopFacts, BaseFacts DEF Threads, Scopes
<1>4. CASE NextCtx > Len(ctxs)
  <2>1. NextCtx = Len(ctxs) + 1 /\ cs = Append(ctxs, ctx)
    BY <1>1, <1>2, <1>4, NextCtxFacts DEF TakenBy
  <2>2. /\ cs \in Seq([by : Nat, scope : Nat]) /\ Len(cs) = Len(ctxs) + 1
        /\ \A c \in 1 .. Len(ctxs) : cs[c] = ctxs[c]
        /\ cs[Len(ctxs) + 1] = ctx
    BY <1>1, <1>3, <2>1, AppendProperties
  <2>3. QED
    BY <1>1, <1>2, <2>1, <2>2
<1>5. CASE NextCtx <= Len(ctxs)
  <2>1. NextCtx \in 1 .. Len(ctxs) /\ cs = [ctxs EXCEPT ![NextCtx] = ctx]
    BY <1>1, <1>2, <1>5, NextCtxFacts DEF TakenBy
  <2>2. /\ cs \in Seq([by : Nat, scope : Nat]) /\ Len(cs) = Len(ctxs)
        /\ \A c \in 1 .. Len(ctxs) : cs[c] = IF c = NextCtx THEN ctx ELSE ctxs[c]
    BY <1>1, <1>3, <2>1, ExceptSeq
  <2>3. QED
    BY <1>1, <1>2, <2>1, <2>2
<1>6. NextCtx > Len(ctxs) \/ NextCtx <= Len(ctxs)
  BY <1>1, NextCtxFacts
<1>7. QED
  BY <1>4, <1>5, <1>6

LEMMA PutBackFacts ==
  ASSUME Base, NEW c \in 1 .. Len(ctxs), PutBack(c)
  PROVE  /\ ctxs' \in Seq([by : Nat, scope : Nat]) /\ Len(ctxs') = Len(ctxs)
         /\ ctxs'[c] = [by |-> 0, scope |-> Prototype]
         /\ \A d \in 1 .. Len(ctxs) : d # c => ctxs'[d] = ctxs[d]
<1>1. ctxs \in Seq([by : Nat, scope : Nat])
  BY DEF Base, Stores
<1>2. PICK ctx : ctx = [by |-> 0, scope |-> Prototype]
  OBVIOUS
<1>3. ctx \in [by : Nat, scope : Nat]
  BY <1>2 DEF Prototype
<1>4. ctxs' = [ctxs EXCEPT ![c] = ctx]
  BY <1>2 DEF PutBack
<1>5. /\ ctxs' \in Seq([by : Nat, scope : Nat]) /\ Len(ctxs') = Len(ctxs)
      /\ \A d \in 1 .. Len(ctxs) : ctxs'[d] = IF d = c THEN ctx ELSE ctxs[d]
  BY <1>1, <1>3, <1>4, ExceptSeq
<1>6. QED
  BY <1>2, <1>5

\* A goroutine that goes on with a stack, and holds the contexts that its frames held.
LEMMA RunsOn ==
  ASSUME NEW i, NEW r \in Request, NEW n \in Nat, NEW c \in Nat, NEW stack,
         GoodStack(stack, n, c), stack # << >>,
         NEW f, f = NewThread(r, "run", stack)
  PROVE  GoodThread(i, f, n, c) /\ f \in Thread /\ f.pc = "run" /\ f.stack = stack /\ f.ctx = 0
         /\ f.req = r /\ f.uses = Unused
<1>1. stack \in Seq(Frame) /\ "run" \in {"new", "run", "done"}
  BY DEF GoodStack
<1>2. f \in Thread /\ f.req = r /\ f.pc = "run" /\ f.stack = stack /\ f.ctx = 0 /\ f.uses = Unused
  BY <1>1 DEF NewThread, Thread, Unused, Value
<1>3. QED
  BY <1>2 DEF GoodThread, Evaluating

LEMMA OwnsKept ==
  ASSUME NEW i, NEW old, NEW n \in Nat, NEW c \in Nat, GoodStack(old, n, c),
         NEW stack, NEW cs, OwnsStack(i, old, ctxs), Len(stack) \in Nat,
         \A j \in 1 .. Len(stack) : stack[j].ctx # 0 =>
           j \in 1 .. Len(old) /\ stack[j].ctx = old[j].ctx,
         \A j \in 1 .. Len(stack) : j \in 1 .. Len(old) => stack[j].scope = old[j].scope,
         \A j \in 1 .. Len(stack) : stack[j].ctx # 0 => cs[stack[j].ctx] = ctxs[stack[j].ctx]
  PROVE  OwnsStack(i, stack, cs)
<1>1. Len(old) \in Nat
  BY DEF GoodStack
<1>2. ASSUME NEW j \in 1 .. Len(stack), stack[j].ctx # 0
      PROVE  /\ cs[stack[j].ctx] = [by |-> i, scope |-> stack[j - 1].scope]
             /\ \A k \in 1 .. Len(stack) : k # j => stack[k].ctx # stack[j].ctx
  <2>1. j \in 1 .. Len(old) /\ stack[j].ctx = old[j].ctx
    BY <1>2
  <2>2. j # 1
    BY <1>2, <2>1 DEF GoodStack
  <2>3. j - 1 \in 1 .. Len(old) /\ j - 1 \in 1 .. Len(stack)
    BY <1>1, <2>1, <2>2
  <2>4. ctxs[old[j].ctx] = [by |-> i, scope |-> old[j - 1].scope]
        /\ \A k \in 1 .. Len(old) : k # j => old[k].ctx # old[j].ctx
    BY <1>2, <2>1 DEF OwnsStack
  <2>5. stack[j - 1].scope = old[j - 1].scope
    BY <2>3
  <2>6. cs[stack[j].ctx] = [by |-> i, scope |-> stack[j - 1].scope]
    BY <1>2, <2>1, <2>4, <2>5
  <2>7. \A k \in 1 .. Len(stack) : k # j => stack[k].ctx # stack[j].ctx
    BY <1>2, <2>1, <2>4
  <2>8. QED
    BY <2>6, <2>7
<1>3. QED
  BY <1>2 DEF OwnsStack

\* What a goroutine holds on its stack.
LEMMA HeldFacts ==
  ASSUME Base, NEW i \in Threads, NEW j \in Frames(i), threads[i].stack[j].ctx # 0
  PROVE  /\ threads[i].stack[j].ctx \in 1 .. Len(ctxs)
         /\ ctxs[threads[i].stack[j].ctx].by = i
         /\ threads[i].stack[j].ctx # threads[i].ctx
         /\ \A k \in Frames(i) : k # j => threads[i].stack[k].ctx # threads[i].stack[j].ctx
<1>1. GoodThread(i, threads[i], Len(scopes), Len(ctxs)) /\ Owns(i, threads[i], ctxs)
  BY DEF Base, AllGood, AllOwn
<1>2. threads[i].stack[j] \in Frame /\ threads[i].stack[j].ctx <= Len(ctxs)
  BY <1>1 DEF GoodThread, GoodStack, Frames
<1>3. threads[i].stack[j].ctx \in 1 .. Len(ctxs)
  BY <1>2, FrameFields, BaseFacts
<1>4. /\ ctxs[threads[i].stack[j].ctx] = [by |-> i, scope |-> threads[i].stack[j - 1].scope]
      /\ threads[i].stack[j].ctx # threads[i].ctx
      /\ \A k \in Frames(i) : k # j => threads[i].stack[k].ctx # threads[i].stack[j].ctx
  BY <1>1 DEF Owns, OwnsStack, Frames
<1>5. QED
  BY <1>3, <1>4

LEMMA OpenBase ==
  ASSUME Base, NEW i \in Threads, NEW n \in Node, Open(i, n)
  PROVE  Base'
<1>1. /\ threads[i].pc = "run" /\ threads[i].stack # << >> /\ Top(i).todo # << >>
      /\ n = Head(Top(i).todo) /\ Kind[n] # "parallel" /\ ctxs' = TakenBy(i)
      /\ UNCHANGED <<maps, scopes, toRegister>>
  BY DEF Open, At
<1>2. PICK pc \in {"eval", "set", "call"} : pc = First(n) /\ (pc = "set" <=> Kind[n] = "set")
  BY DEF First
<1>3. PICK f : f = [threads[i] EXCEPT !.pc = pc, !.ctx = NextCtx, !.look = Here(i)]
  OBVIOUS
<1>4. SetTo(i, f)
  BY <1>2, <1>3 DEF Open, Opened
<1>5. threads[i] \in Thread /\ Here(i) \in Scopes /\ Here(i) \in Nat /\ NextCtx \in Nat
  BY <1>1, BaseFacts, TopFacts, NextCtxFacts
<1>6. /\ f \in Thread /\ f.pc = pc /\ f.ctx = NextCtx /\ f.look = Here(i)
      /\ f.stack = threads[i].stack /\ f.req = threads[i].req /\ f.uses = threads[i].uses
  BY <1>2, <1>3, <1>5 DEF Thread
<1>7. /\ ctxs' \in Seq([by : Nat, scope : Nat]) /\ Len(ctxs) <= Len(ctxs') /\ Len(ctxs') \in Nat
      /\ NextCtx \in 1 .. Len(ctxs') /\ ctxs'[NextCtx] = [by |-> i, scope |-> Here(i)]
      /\ \A c \in 1 .. Len(ctxs') : c # NextCtx => c \in 1 .. Len(ctxs) /\ ctxs'[c] = ctxs[c]
  BY <1>1, Taken
<1>8. GoodThread(i, threads[i], Len(scopes), Len(ctxs)) /\ Owns(i, threads[i], ctxs)
  BY DEF Base, AllGood, AllOwn
<1>9. Len(scopes) \in Nat /\ Len(ctxs) \in Nat /\ Scopes' = Scopes /\ scopes' = scopes /\ Len(threads) \in Nat
  BY <1>1, BaseFacts DEF Scopes
<1>10. Len(threads') = Len(threads)
  BY <1>4, <1>6, ExceptSeq DEF Base, AllGood, Threads, SetTo
<1>11. \A c \in 1 .. Len(ctxs') : ctxs'[c].by <= Len(threads) /\ ctxs'[c].scope \in Scopes
  <2>1. i <= Len(threads)
    BY <1>9 DEF Threads
  <2>2. \A c \in 1 .. Len(ctxs) : ctxs[c].by <= Len(threads) /\ ctxs[c].scope \in Scopes
    BY DEF Base, Stores
  <2>3. ctxs'[NextCtx].by = i /\ ctxs'[NextCtx].scope = Here(i)
    BY <1>7
  <2>4. QED
    BY <1>5, <1>7, <2>1, <2>2, <2>3
<1>12. Stores'
  BY <1>1, <1>7, <1>10, <1>11, StoresStep
<1>13. GoodThread(i, f, Len(scopes'), Len(ctxs'))
  <2>1. GoodStack(f.stack, Len(scopes'), Len(ctxs'))
    <3>1. GoodStack(threads[i].stack, Len(scopes), Len(ctxs))
      BY <1>8 DEF GoodThread
    <3>2. Len(scopes) <= Len(scopes)
      BY <1>9
    <3>3. GoodStack(threads[i].stack, Len(scopes), Len(ctxs'))
      BY <1>7, <1>9, <3>1, <3>2, GoodStackGrows
    <3>4. QED
      BY <1>6, <1>9, <3>3
  <2>2. GoodTop(f.stack[Len(f.stack)], f.pc)
    BY <1>1, <1>2, <1>6 DEF GoodTop, Top
  <2>3. f.ctx # 0 /\ f.ctx <= Len(ctxs')
    BY <1>6, <1>7
  <2>4. f.pc = "set" => f.uses = Unused
    <3>1. threads[i].uses = Unused
      BY <1>1, <1>8 DEF GoodThread
    <3>2. QED
      BY <1>6, <3>1
  <2>5. f.req \in Request /\ f.pc \in Evaluating /\ f.pc \notin {"new", "done"} /\ f.stack # << >>
    BY <1>1, <1>2, <1>6, <1>8 DEF GoodThread, Evaluating
  <2>6. f.look \in 1 .. Len(scopes')
    BY <1>5, <1>6, <1>9 DEF Scopes
  <2>7. QED
    BY <1>6, <2>1, <2>2, <2>3, <2>4, <2>5, <2>6 DEF GoodThread
<1>14. \A c \in 1 .. Len(ctxs) : ctxs[c].by # 0 => c \in 1 .. Len(ctxs') /\ c # NextCtx /\ ctxs'[c] = ctxs[c]
  BY <1>7, <1>9, NextCtxFacts, SMTT(40)
<1>15. \A j \in Frames(i) : threads[i].stack[j].ctx # 0 =>
         threads[i].stack[j].ctx # NextCtx /\ ctxs'[threads[i].stack[j].ctx] = ctxs[threads[i].stack[j].ctx]
  BY <1>14, HeldFacts, BaseFacts
<1>16. Owns(i, f, ctxs')
  <2>1. OwnsStack(i, f.stack, ctxs')
    BY <1>6, <1>8, <1>15 DEF Owns, OwnsStack, Frames
  <2>2. ctxs'[f.ctx] = [by |-> i, scope |-> f.stack[Len(f.stack)].scope]
    BY <1>6, <1>7 DEF Here, Top
  <2>3. QED
    BY <1>6, <1>15, <2>1, <2>2 DEF Owns, Frames
<1>17. QED
  <2>1. \A s \in Scopes' : s \in Scopes /\ scopes'[s].map = scopes[s].map
    BY <1>9
  <2>2. \A c \in 1 .. Len(ctxs) : ctxs[c].by \notin {0, i} => ctxs'[c] = ctxs[c]
    BY <1>14
  <2>3. f.pc # "new" /\ Len(scopes) <= Len(scopes')
    BY <1>2, <1>6, <1>9
  <2>4. QED
    BY <1>4, <1>7, <1>12, <1>13, <1>16, <2>1, <2>2, <2>3, StepBase

\* A statement has ended: its context, if any, goes back, and the goroutine goes on.
LEMMA EndedStep ==
  ASSUME Base, NEW i \in Threads, NEW c \in 1 .. Len(ctxs), PutBack(c),
         ctxs[c].by = i,
         Stores', Len(scopes) <= Len(scopes'), Len(scopes') \in Nat,
         NEW f, SetTo(i, f), f.pc # "new", f.ctx = 0,
         GoodThread(i, f, Len(scopes'), Len(ctxs)),
         \A j \in 1 .. Len(f.stack) : f.stack[j].ctx # 0 =>
           j \in Frames(i) /\ f.stack[j].ctx = threads[i].stack[j].ctx /\ f.stack[j].ctx # c,
         \A j \in 1 .. Len(f.stack) : j \in Frames(i) => f.stack[j].scope = threads[i].stack[j].scope,
         \A s \in Scopes' : scopes'[s].map \in Callers => s \in Scopes /\ scopes'[s].map = scopes[s].map
  PROVE  Base'
<1>1. /\ Len(ctxs') = Len(ctxs) /\ Len(ctxs) \in Nat /\ Len(scopes) \in Nat
      /\ \A d \in 1 .. Len(ctxs) : d # c => ctxs'[d] = ctxs[d]
  BY PutBackFacts, BaseFacts
<1>2. GoodThread(i, threads[i], Len(scopes), Len(ctxs)) /\ OwnsStack(i, threads[i].stack, ctxs)
  BY DEF Base, AllGood, AllOwn, Owns
<1>3. GoodStack(threads[i].stack, Len(scopes), Len(ctxs))
  BY <1>2 DEF GoodThread
<1>4. f.stack \in Seq(Frame) /\ Len(f.stack) \in Nat
  BY DEF GoodThread, GoodStack
<1>5. ASSUME NEW j \in 1 .. Len(f.stack), f.stack[j].ctx # 0
      PROVE  ctxs'[f.stack[j].ctx] = ctxs[f.stack[j].ctx]
  <2>1. j \in Frames(i) /\ f.stack[j].ctx = threads[i].stack[j].ctx /\ f.stack[j].ctx # c
    BY <1>5
  <2>2. f.stack[j].ctx \in 1 .. Len(ctxs)
    BY <1>5, <2>1, HeldFacts
  <2>3. QED
    BY <1>1, <2>1, <2>2
<1>6. OwnsStack(i, f.stack, ctxs')
  BY <1>1, <1>2, <1>3, <1>4, <1>5, OwnsKept DEF Frames
<1>7. Owns(i, f, ctxs')
  BY <1>6 DEF Owns
<1>8. GoodThread(i, f, Len(scopes'), Len(ctxs'))
  BY <1>1
<1>9. \A d \in 1 .. Len(ctxs) : ctxs[d].by \notin {0, i} => ctxs'[d] = ctxs[d]
  BY <1>1
<1>10. Len(ctxs) <= Len(ctxs')
  BY <1>1
<1>11. QED
  BY <1>7, <1>8, <1>9, <1>10, StepBase

-----------------------------------------------------------------------------
(* The steps of a statement *)

\* Behind the statement that the goroutine is at.
LEMMA RestFacts ==
  ASSUME Base, NEW i \in Threads, threads[i].stack # << >>, Top(i).todo # << >>
  PROVE  /\ GoodStack(Rest(i), Len(scopes), Len(ctxs)) /\ Rest(i) # << >>
         /\ Len(Rest(i)) = Len(threads[i].stack)
         /\ \A j \in Frames(i) : /\ Rest(i)[j].scope = threads[i].stack[j].scope
                                 /\ Rest(i)[j].ctx = threads[i].stack[j].ctx
                                 /\ Rest(i)[j].env = threads[i].stack[j].env
         /\ \A j \in Frames(i) : j # Len(threads[i].stack) => Rest(i)[j] = threads[i].stack[j]
         /\ Rest(i)[Len(threads[i].stack)].todo = Tail(Top(i).todo)
<1>1. Rest(i) = Past(threads[i].stack)
  BY DEF Rest, Past, Replaced, PastHead
<1>2. Len(scopes) \in Nat /\ Len(ctxs) \in Nat
  BY BaseFacts
<1>3. GoodStack(threads[i].stack, Len(scopes), Len(ctxs))
  BY TopFacts
<1>4. threads[i].stack[Len(threads[i].stack)].todo # << >>
  BY DEF Top
<1>5. QED
  BY <1>1, <1>2, <1>3, <1>4, GoodPast DEF Frames, Top

\* And a variable of the scope has been set.
LEMMA KnownFacts ==
  ASSUME Base, NEW i \in Threads, threads[i].stack # << >>, Top(i).todo # << >>, NEW n \in Node
  PROVE  /\ GoodStack(Known(i, n), Len(scopes), Len(ctxs)) /\ Known(i, n) # << >>
         /\ Len(Known(i, n)) = Len(threads[i].stack)
         /\ \A j \in Frames(i) : /\ Known(i, n)[j].scope = threads[i].stack[j].scope
                                 /\ Known(i, n)[j].ctx = threads[i].stack[j].ctx
         /\ \A j \in Frames(i) : j # Len(threads[i].stack) => Known(i, n)[j] = threads[i].stack[j]
         /\ Known(i, n)[Len(threads[i].stack)].todo = Tail(Top(i).todo)
         /\ Known(i, n)[Len(threads[i].stack)].env = [Top(i).env EXCEPT ![Name[n]] = n]
<1>1. PICK rest : rest = Rest(i)
  OBVIOUS
<1>2. /\ GoodStack(rest, Len(scopes), Len(ctxs)) /\ rest # << >>
      /\ Len(rest) = Len(threads[i].stack)
      /\ \A j \in Frames(i) : /\ rest[j].scope = threads[i].stack[j].scope
                              /\ rest[j].ctx = threads[i].stack[j].ctx
                              /\ rest[j].env = threads[i].stack[j].env
      /\ \A j \in Frames(i) : j # Len(threads[i].stack) => rest[j] = threads[i].stack[j]
      /\ rest[Len(threads[i].stack)].todo = Tail(Top(i).todo)
  BY <1>1, RestFacts
<1>3. Len(threads[i].stack) \in Frames(i) /\ Top(i) = threads[i].stack[Len(threads[i].stack)]
  BY TopFacts DEF Top
<1>4. PICK f : f = [rest[Len(rest)] EXCEPT !.env = [@ EXCEPT ![Name[n]] = n]]
  OBVIOUS
<1>5. rest[Len(rest)] \in Frame
  BY <1>2, <1>3 DEF GoodStack, Frames
<1>6. /\ f \in Frame /\ f.scope = rest[Len(rest)].scope /\ f.ctx = rest[Len(rest)].ctx
      /\ f.todo = rest[Len(rest)].todo /\ f.env = [rest[Len(rest)].env EXCEPT ![Name[n]] = n]
  <2>1. rest[Len(rest)].env \in [Var -> Value] /\ Name[n] \in Var /\ n \in Value
    BY <1>5, FrameFields, NodeAssumption DEF Value
  <2>2. [rest[Len(rest)].env EXCEPT ![Name[n]] = n] \in [Var -> Value]
    BY <2>1
  <2>3. QED
    BY <1>4, <1>5, <2>2 DEF Frame
<1>7. Known(i, n) = Replaced(rest, f)
  BY <1>1, <1>2, <1>4 DEF Known, Replaced
<1>8. Len(scopes) \in Nat /\ Len(ctxs) \in Nat
  BY BaseFacts
<1>9. /\ GoodStack(Replaced(rest, f), Len(scopes), Len(ctxs))
      /\ Len(Replaced(rest, f)) = Len(rest) /\ Replaced(rest, f) # << >>
      /\ \A j \in 1 .. Len(rest) : /\ Replaced(rest, f)[j].scope = rest[j].scope
                                   /\ Replaced(rest, f)[j].ctx = rest[j].ctx
      /\ \A j \in 1 .. Len(rest) : j # Len(rest) => Replaced(rest, f)[j] = rest[j]
      /\ Replaced(rest, f)[Len(rest)] = f
  BY <1>2, <1>6, <1>8, GoodReplaced
<1>10. QED
  BY <1>2, <1>3, <1>6, <1>7, <1>9 DEF Frames

\* Maps and scopes are only added, but for the map of a scope behind the prototype.
LEMMA StoresGrown ==
  ASSUME Base,
         maps' \in Seq([Var -> Value]), Len(maps) <= Len(maps'), Len(maps') \in Nat,
         scopes' \in Seq([up : Nat, map : Nat]), Len(scopes) <= Len(scopes'), Len(scopes') \in Nat,
         scopes'[1] = scopes[1],
         \A s \in Scopes : scopes'[s].up = scopes[s].up,
         \A s \in Scopes' : s \notin Scopes => scopes'[s].up \in Scopes,
         \A s \in Scopes' : scopes'[s].map <= Len(maps'),
         ctxs' \in Seq([by : Nat, scope : Nat]),
         \A c \in 1 .. Len(ctxs') : ctxs'[c].by <= Len(threads') /\ ctxs'[c].scope \in Scopes,
         toRegister' \in [names : Seq(Var), busy : BOOLEAN],
         toRegister'.busy => toRegister'.names # << >>
  PROVE  Stores'
<1>1. Len(scopes) \in Nat /\ Len(maps) \in Nat /\ Len(maps) >= Len(Given) /\ Len(scopes) >= 1
      /\ Len(Given) \in Nat
  BY BaseFacts, DataAssumption DEF Base, Stores
<1>2. Scopes \subseteq Scopes' /\ Len(scopes') >= 1 /\ Len(maps') >= Len(Given)
  BY <1>1 DEF Scopes
<1>3. Prototype' = Prototype /\ Given' = Given
  BY DEF Prototype
<1>4. ASSUME NEW s \in Scopes', s # 1 PROVE scopes'[s].up \in 1 .. s - 1
  <2>1. CASE s \in Scopes
    <3>1. scopes[s].up \in 1 .. s - 1
      BY <1>4, <2>1 DEF Base, Stores
    <3>2. scopes'[s].up = scopes[s].up
      BY <2>1
    <3>3. QED
      BY <3>1, <3>2
  <2>2. CASE s \notin Scopes
    <3>1. PICK n \in Nat : n = Len(scopes)
      BY <1>1
    <3>2. scopes'[s].up \in 1 .. n /\ s \in Nat /\ s > n
      BY <1>1, <2>2, <3>1, SMTT(40) DEF Scopes
    <3>3. QED
      BY <3>2, SMTT(40)
  <2>3. QED
    BY <2>1, <2>2
<1>5. \A c \in 1 .. Len(ctxs') : ctxs'[c].scope \in Scopes'
  BY <1>2
<1>6. scopes'[1] = [up |-> 0, map |-> Prototype]
  BY DEF Base, Stores
<1>7. QED
  BY <1>2, <1>3, <1>4, <1>5, <1>6 DEF Stores

LEMMA PutBackTyped ==
  ASSUME Base, NEW c \in 1 .. Len(ctxs), PutBack(c)
  PROVE  /\ ctxs' \in Seq([by : Nat, scope : Nat])
         /\ \A d \in 1 .. Len(ctxs') : ctxs'[d].by <= Len(threads) /\ ctxs'[d].scope \in Scopes
<1>1. /\ ctxs' \in Seq([by : Nat, scope : Nat]) /\ Len(ctxs') = Len(ctxs)
      /\ ctxs'[c] = [by |-> 0, scope |-> Prototype]
      /\ \A d \in 1 .. Len(ctxs) : d # c => ctxs'[d] = ctxs[d]
  BY PutBackFacts
<1>2. \A d \in 1 .. Len(ctxs) : ctxs[d].by <= Len(threads) /\ ctxs[d].scope \in Scopes
  BY DEF Base, Stores
<1>3. 1 \in Scopes /\ Len(threads) \in Nat
  BY BaseFacts
<1>4. ctxs'[c].by <= Len(threads) /\ ctxs'[c].scope \in Scopes
  BY <1>1, <1>3 DEF Prototype
<1>5. QED
  BY <1>1, <1>2, <1>4

LEMMA SetToLen ==
  ASSUME Base, NEW i \in Threads, NEW f \in Thread, SetTo(i, f)
  PROVE  /\ threads' \in Seq(Thread) /\ Len(threads') = Len(threads) /\ Threads' = Threads
         /\ threads'[i] = f
         /\ \A j \in Threads : j # i => threads'[j] = threads[j]
<1>1. threads \in Seq(Thread)
  BY DEF Base, AllGood
<1>2. QED
  BY <1>1, ExceptSeq DEF Threads, SetTo

LEMMA WriteBase ==
  ASSUME Base, NEW i \in Threads, NEW n \in Node, Write(i, n)
  PROVE  Base'
<1>1. /\ threads[i].pc = "read" /\ n = Current(i) /\ PutBack(threads[i].ctx)
      /\ UNCHANGED <<maps, scopes, toRegister>>
      /\ SetTo(i, NewThread(threads[i].req, "run", Rest(i)))
  BY DEF Write, ReadFor
<1>2. /\ threads[i].stack # << >> /\ Top(i).todo # << >>
      /\ threads[i].ctx \in 1 .. Len(ctxs) /\ ctxs[threads[i].ctx].by = i
  BY <1>1, EvaluatingFacts DEF Evaluating
<1>3. PICK f : f = NewThread(threads[i].req, "run", Rest(i))
  OBVIOUS
<1>4. threads[i].req \in Request /\ Len(scopes) \in Nat /\ Len(ctxs) \in Nat
  BY BaseFacts, ThreadFields
<1>5. /\ GoodStack(Rest(i), Len(scopes), Len(ctxs)) /\ Rest(i) # << >>
      /\ Len(Rest(i)) = Len(threads[i].stack)
      /\ \A j \in Frames(i) : /\ Rest(i)[j].scope = threads[i].stack[j].scope
                              /\ Rest(i)[j].ctx = threads[i].stack[j].ctx
  BY <1>2, RestFacts
<1>6. /\ GoodThread(i, f, Len(scopes), Len(ctxs)) /\ f \in Thread /\ f.pc = "run"
      /\ f.stack = Rest(i) /\ f.ctx = 0
  BY <1>3, <1>4, <1>5, RunsOn
<1>7. SetTo(i, f) /\ Len(threads') = Len(threads)
  BY <1>1, <1>3, <1>6, SetToLen
<1>8. Stores'
  BY <1>1, <1>2, <1>7, PutBackTyped, StoresStep
<1>9. \A j \in 1 .. Len(f.stack) : f.stack[j].ctx # 0 =>
        j \in Frames(i) /\ f.stack[j].ctx = threads[i].stack[j].ctx /\ f.stack[j].ctx # threads[i].ctx
  BY <1>5, <1>6, HeldFacts DEF Frames
<1>10. \A j \in 1 .. Len(f.stack) : j \in Frames(i) => f.stack[j].scope = threads[i].stack[j].scope
  BY <1>5, <1>6
<1>11. /\ Len(scopes) <= Len(scopes') /\ Len(scopes') \in Nat /\ f.pc # "new"
       /\ GoodThread(i, f, Len(scopes'), Len(ctxs))
       /\ \A s \in Scopes' : scopes'[s].map \in Callers => s \in Scopes /\ scopes'[s].map = scopes[s].map
  BY <1>1, <1>4, <1>6 DEF Scopes
<1>12. QED
  BY <1>1, <1>2, <1>6, <1>7, <1>8, <1>9, <1>10, <1>11, EndedStep

\* A statement list has ended.
LEMMA ReturnBase ==
  ASSUME Base, NEW i \in Threads, Return(i)
  PROVE  Base'
<1> DEFINE old == threads[i].stack
           pc == IF Popped(old) = << >> THEN "done" ELSE "run"
<1>1. /\ threads[i].pc = "run" /\ old # << >>
      /\ UNCHANGED <<maps, scopes, toRegister>>
      /\ IF Top(i).ctx = 0 THEN UNCHANGED ctxs ELSE PutBack(Top(i).ctx)
      /\ SetTo(i, NewThread(threads[i].req, pc, Popped(old)))
  BY DEF Return, Popped
<1>2. PICK stack : stack = Popped(old)
  OBVIOUS
<1>3. PICK f : f = NewThread(threads[i].req, pc, stack)
  OBVIOUS
<1>4. threads[i].req \in Request /\ Len(scopes) \in Nat /\ Len(ctxs) \in Nat
  BY BaseFacts, ThreadFields
<1>5. /\ Len(old) \in Frames(i) /\ Len(old) \in Nat /\ Top(i) = old[Len(old)]
      /\ GoodStack(old, Len(scopes), Len(ctxs))
  BY <1>1, TopFacts DEF Top
<1>6. /\ GoodStack(stack, Len(scopes), Len(ctxs)) /\ Len(stack) = Len(old) - 1
      /\ \A j \in 1 .. Len(old) - 1 : stack[j] = old[j] /\ j \in 1 .. Len(old)
  BY <1>1, <1>2, <1>4, <1>5, GoodPopped
<1>7. stack \in Seq(Frame) /\ pc \in {"new", "run", "done"}
  BY <1>6 DEF GoodStack
<1>8. /\ f \in Thread /\ f.req = threads[i].req /\ f.pc = pc /\ f.stack = stack
      /\ f.ctx = 0 /\ f.uses = Unused
  BY <1>3, <1>4, <1>7 DEF NewThread, Thread, Unused, Value
<1>9. GoodThread(i, f, Len(scopes), Len(ctxs))
  <2>1. f.pc \notin Evaluating /\ f.pc # "new" /\ f.pc # "eval" /\ f.pc # "set"
    BY <1>8 DEF Evaluating
  <2>2. f.stack = << >> <=> f.pc \in {"new", "done"}
    BY <1>2, <1>8
  <2>3. f.req \in Request /\ f.ctx <= Len(ctxs)
    BY <1>4, <1>8
  <2>4. GoodStack(f.stack, Len(scopes), Len(ctxs))
    BY <1>6, <1>8
  <2>5. QED
    BY <1>8, <2>1, <2>2, <2>3, <2>4 DEF GoodThread
<1>10. SetTo(i, f) /\ Len(threads') = Len(threads)
  BY <1>1, <1>2, <1>3, <1>8, SetToLen
<1>11. \A j \in 1 .. Len(f.stack) : j \in Frames(i) /\ j # Len(old) /\ f.stack[j] = old[j]
  BY <1>5, <1>6, <1>8 DEF Frames
<1>12. /\ Len(scopes) <= Len(scopes') /\ Len(scopes') \in Nat /\ f.pc # "new"
       /\ GoodThread(i, f, Len(scopes'), Len(ctxs))
       /\ \A s \in Scopes' : s \in Scopes /\ scopes'[s].map = scopes[s].map
  BY <1>1, <1>4, <1>8, <1>9 DEF Scopes
<1>13. CASE Top(i).ctx # 0
  <2>1. /\ Top(i).ctx \in 1 .. Len(ctxs) /\ ctxs[Top(i).ctx].by = i /\ PutBack(Top(i).ctx)
        /\ \A k \in Frames(i) : k # Len(old) => old[k].ctx # Top(i).ctx
    BY <1>1, <1>5, <1>13, HeldFacts
  <2>2. Stores'
    BY <1>1, <1>10, <2>1, PutBackTyped, StoresStep
  <2>3. \A j \in 1 .. Len(f.stack) : f.stack[j].ctx # 0 =>
          j \in Frames(i) /\ f.stack[j].ctx = old[j].ctx /\ f.stack[j].ctx # Top(i).ctx
    BY <1>11, <2>1
  <2>4. \A j \in 1 .. Len(f.stack) : j \in Frames(i) => f.stack[j].scope = old[j].scope
    BY <1>11
  <2>5. QED
    BY <1>8, <1>10, <1>12, <2>1, <2>2, <2>3, <2>4, EndedStep
<1>14. CASE Top(i).ctx = 0
  <2>1. ctxs' = ctxs /\ Stores'
    BY <1>1, <1>10, <1>14, StoresStep DEF Base, Stores
  <2>2. Owns(i, threads[i], ctxs)
    BY DEF Base, AllOwn
  <2>3. Len(f.stack) \in Nat
    BY <1>8, ThreadFields
  <2>4. /\ OwnsStack(i, old, ctxs)
        /\ \A j \in 1 .. Len(f.stack) : f.stack[j].ctx # 0 => j \in 1 .. Len(old) /\ f.stack[j].ctx = old[j].ctx
        /\ \A j \in 1 .. Len(f.stack) : j \in 1 .. Len(old) => f.stack[j].scope = old[j].scope
    BY <1>11, <2>2 DEF Owns, Frames
  <2>5. OwnsStack(i, f.stack, ctxs)
    BY <1>4, <1>5, <2>3, <2>4, OwnsKept
  <2>6. Owns(i, f, ctxs')
    BY <1>8, <2>1, <2>5 DEF Owns
  <2>7. /\ GoodThread(i, f, Len(scopes'), Len(ctxs')) /\ Len(ctxs) <= Len(ctxs')
        /\ \A d \in 1 .. Len(ctxs) : ctxs[d].by \notin {0, i} => ctxs'[d] = ctxs[d]
    BY <1>4, <1>12, <2>1
  <2>8. QED
    BY <1>10, <1>12, <2>1, <2>6, <2>7, StepBase
<1>15. QED
  BY <1>13, <1>14

LEMMA CallersOld ==
  ASSUME Base
  PROVE  \A m \in Callers : m \in 2 .. Len(maps)
BY BaseFacts DEF Callers

\* A scope and a map that a directive writes.
LEMMA EndSetStores ==
  ASSUME Base, NEW i \in Threads, EndSet(i)
  PROVE  /\ maps' \in Seq([Var -> Value]) /\ Len(maps) <= Len(maps') /\ Len(maps') \in Nat
         /\ scopes' \in Seq([up : Nat, map : Nat]) /\ Len(scopes') = Len(scopes)
         /\ \A s \in Scopes : scopes'[s].up = scopes[s].up
         /\ \A s \in Scopes : s # Here(i) \/ scopes[s].map # 0 => scopes'[s] = scopes[s]
         /\ scopes[Here(i)].map = 0 =>
              /\ Len(maps') = Len(maps) + 1 /\ scopes'[Here(i)].map = Len(maps) + 1
              /\ \A m \in 1 .. Len(maps) : maps'[m] = maps[m]
              /\ maps'[Len(maps) + 1] = [NoVars EXCEPT ![Name[Current(i)]] = Current(i)]
         /\ scopes[Here(i)].map # 0 =>
              /\ Len(maps') = Len(maps)
              /\ \A m \in 1 .. Len(maps) : m # scopes[Here(i)].map => maps'[m] = maps[m]
              /\ maps'[scopes[Here(i)].map] = [maps[scopes[Here(i)].map] EXCEPT ![Name[Current(i)]] = Current(i)]
<1> DEFINE n == Current(i)
           s == Here(i)
           m == scopes[s].map
<1>1. threads[i].pc = "set" /\ threads[i].uses # Unused
  BY DEF EndSet
<1>2. threads[i].uses.scope = s
  BY <1>1 DEF Base, AllGood, GoodThread, Here, Top
<1>3. n \in Node /\ n \in Value /\ threads[i].stack # << >>
  BY <1>1, EvaluatingFacts DEF Evaluating, Value
<1>4. s \in Scopes /\ s \in Nat /\ s >= 2
  BY <1>3, TopFacts
<1>5. /\ maps \in Seq([Var -> Value]) /\ Len(maps) \in Nat
      /\ scopes \in Seq([up : Nat, map : Nat]) /\ Len(scopes) \in Nat
      /\ scopes[s] \in [up : Nat, map : Nat] /\ m <= Len(maps)
  BY <1>4, BaseFacts DEF Base, Stores
<1>6. Name[n] \in Var /\ NoVars \in [Var -> Value]
  BY <1>3, NodeAssumption DEF NoVars, Value
<1>7. CASE m = 0
  <2>1. PICK new : new = [NoVars EXCEPT ![Name[n]] = n]
    OBVIOUS
  <2>2. new \in [Var -> Value]
    BY <1>3, <1>6, <2>1
  <2>3. PICK sc : sc = [scopes[s] EXCEPT !.map = Len(maps) + 1]
    OBVIOUS
  <2>4. sc \in [up : Nat, map : Nat] /\ sc.up = scopes[s].up /\ sc.map = Len(maps) + 1
    <3>1. PICK k \in Nat : k = Len(maps) + 1
      BY <1>5
    <3>2. PICK old \in [up : Nat, map : Nat] : old = scopes[s]
      BY <1>5
    <3>3. sc = [old EXCEPT !.map = k]
      BY <2>3, <3>1, <3>2
    <3>4. QED
      BY <3>1, <3>2, <3>3
  <2>5. maps' = Append(maps, new) /\ scopes' = [scopes EXCEPT ![s] = sc]
    BY <1>2, <1>7, <2>1, <2>3 DEF EndSet
  <2>6. /\ maps' \in Seq([Var -> Value]) /\ Len(maps') = Len(maps) + 1
        /\ \A k \in 1 .. Len(maps) : maps'[k] = maps[k]
        /\ maps'[Len(maps) + 1] = new
    BY <1>5, <2>2, <2>5, AppendProperties
  <2>7. /\ scopes' \in Seq([up : Nat, map : Nat]) /\ Len(scopes') = Len(scopes)
        /\ \A k \in Scopes : scopes'[k] = IF k = s THEN sc ELSE scopes[k]
    BY <1>4, <1>5, <2>4, <2>5, ExceptSeq, SMTT(40) DEF Scopes
  <2>8. Len(maps) <= Len(maps') /\ Len(maps') \in Nat
    BY <1>5, <2>6
  <2>9. /\ \A t \in Scopes : scopes'[t].up = scopes[t].up
        /\ \A t \in Scopes : t # s \/ scopes[t].map # 0 => scopes'[t] = scopes[t]
        /\ scopes'[s].map = Len(maps) + 1
    BY <1>4, <1>7, <2>4, <2>7
  <2>10. QED
    BY <1>7, <2>1, <2>6, <2>7, <2>8, <2>9
<1>8. CASE m # 0
  <2>1. m \in 1 .. Len(maps)
    BY <1>5, <1>8
  <2>2. PICK new : new = [maps[m] EXCEPT ![Name[n]] = n]
    OBVIOUS
  <2>3. new \in [Var -> Value]
    BY <1>3, <1>5, <1>6, <2>1, <2>2
  <2>4. maps' = [maps EXCEPT ![m] = new] /\ scopes' = scopes
    BY <1>2, <1>8, <2>2 DEF EndSet
  <2>5. /\ maps' \in Seq([Var -> Value]) /\ Len(maps') = Len(maps)
        /\ \A k \in 1 .. Len(maps) : maps'[k] = IF k = m THEN new ELSE maps[k]
    BY <1>5, <2>1, <2>3, <2>4, ExceptSeq
  <2>6. Len(maps) <= Len(maps') /\ Len(maps') \in Nat
    BY <1>5, <2>5
  <2>7. QED
    BY <1>5, <1>8, <2>1, <2>2, <2>4, <2>5, <2>6, Zenon
<1>9. QED
  BY <1>7, <1>8

LEMMA EndSetBase ==
  ASSUME Base, NEW i \in Threads, EndSet(i)
  PROVE  Base'
<1> DEFINE n == Current(i)
           s == Here(i)
<1>1. /\ threads[i].pc = "set" /\ PutBack(threads[i].ctx) /\ UNCHANGED toRegister
      /\ SetTo(i, NewThread(threads[i].req, "run", Known(i, n)))
  BY DEF EndSet
<1>2. /\ threads[i].stack # << >> /\ Top(i).todo # << >> /\ n \in Node
      /\ threads[i].ctx \in 1 .. Len(ctxs) /\ ctxs[threads[i].ctx].by = i
  BY <1>1, EvaluatingFacts DEF Evaluating
<1>3. PICK f : f = NewThread(threads[i].req, "run", Known(i, n))
  OBVIOUS
<1>4. threads[i].req \in Request /\ Len(scopes) \in Nat /\ Len(ctxs) \in Nat /\ Len(maps) \in Nat
      /\ s \in Scopes /\ s \in Nat /\ s >= 2 /\ 1 \in Scopes
  BY <1>2, BaseFacts, ThreadFields, TopFacts
<1>5. /\ GoodStack(Known(i, n), Len(scopes), Len(ctxs)) /\ Known(i, n) # << >>
      /\ Len(Known(i, n)) = Len(threads[i].stack)
      /\ \A j \in Frames(i) : /\ Known(i, n)[j].scope = threads[i].stack[j].scope
                              /\ Known(i, n)[j].ctx = threads[i].stack[j].ctx
  BY <1>2, KnownFacts
<1>6. /\ GoodThread(i, f, Len(scopes), Len(ctxs)) /\ f \in Thread /\ f.pc = "run"
      /\ f.stack = Known(i, n) /\ f.ctx = 0
  BY <1>3, <1>4, <1>5, RunsOn
<1>7. SetTo(i, f) /\ Len(threads') = Len(threads)
  BY <1>1, <1>3, <1>6, SetToLen
<1>8. Scopes' = Scopes /\ Len(scopes') = Len(scopes)
  BY EndSetStores DEF Scopes
<1>9. Stores'
  <2>1. /\ maps' \in Seq([Var -> Value]) /\ Len(maps) <= Len(maps') /\ Len(maps') \in Nat
        /\ scopes' \in Seq([up : Nat, map : Nat]) /\ Len(scopes) <= Len(scopes') /\ Len(scopes') \in Nat
        /\ \A t \in Scopes : scopes'[t].up = scopes[t].up
        /\ \A t \in Scopes : t # s \/ scopes[t].map # 0 => scopes'[t] = scopes[t]
        /\ scopes[s].map = 0 => Len(maps') = Len(maps) + 1 /\ scopes'[s].map = Len(maps) + 1
    <3>1. Len(scopes) <= Len(scopes)
      BY <1>4
    <3>2. QED
      BY <1>4, <3>1, EndSetStores
  <2>2. scopes'[1] = scopes[1] /\ (\A t \in Scopes' : t \notin Scopes => scopes'[t].up \in Scopes)
    <3>1. 1 # s
      BY <1>4
    <3>2. QED
      BY <1>4, <1>8, <2>1, <3>1
  <2>3. ASSUME NEW t \in Scopes' PROVE scopes'[t].map <= Len(maps')
    <3>1. t \in Scopes /\ scopes[t].map <= Len(maps) /\ scopes[t].map \in Nat
      BY <1>8, BaseFacts DEF Base, Stores
    <3>2. CASE t = s /\ scopes[s].map = 0
      BY <1>4, <2>1, <3>2, SMTT(40)
    <3>3. CASE t # s \/ scopes[t].map # 0
      <4>1. scopes'[t] = scopes[t]
        BY <2>1, <3>1, <3>3
      <4>2. QED
        BY <1>4, <2>1, <3>1, <4>1, SMTT(40)
    <3>4. QED
      BY <3>2, <3>3
  <2>4. /\ ctxs' \in Seq([by : Nat, scope : Nat])
        /\ \A c \in 1 .. Len(ctxs') : ctxs'[c].by <= Len(threads') /\ ctxs'[c].scope \in Scopes
    BY <1>1, <1>2, <1>7, PutBackTyped
  <2>5. /\ toRegister' \in [names : Seq(Var), busy : BOOLEAN]
        /\ toRegister'.busy => toRegister'.names # << >>
    BY <1>1 DEF Base, Stores
  <2>6. QED
    BY <2>1, <2>2, <2>3, <2>4, <2>5, StoresGrown
<1>10. \A j \in 1 .. Len(f.stack) : f.stack[j].ctx # 0 =>
         j \in Frames(i) /\ f.stack[j].ctx = threads[i].stack[j].ctx /\ f.stack[j].ctx # threads[i].ctx
  BY <1>5, <1>6, HeldFacts DEF Frames
<1>11. \A j \in 1 .. Len(f.stack) : j \in Frames(i) => f.stack[j].scope = threads[i].stack[j].scope
  BY <1>5, <1>6
<1>12. ASSUME NEW t \in Scopes', scopes'[t].map \in Callers
       PROVE  t \in Scopes /\ scopes'[t].map = scopes[t].map
  <2>1. t \in Scopes /\ scopes'[t].map # Len(maps) + 1
    BY <1>4, <1>8, <1>12, CallersOld
  <2>2. t # s \/ scopes[t].map # 0
    BY <2>1, EndSetStores
  <2>3. QED
    BY <2>1, <2>2, EndSetStores
<1>13. /\ Len(scopes) <= Len(scopes') /\ Len(scopes') \in Nat /\ f.pc # "new"
       /\ GoodThread(i, f, Len(scopes'), Len(ctxs))
  BY <1>4, <1>6, <1>8
<1>14. QED
  BY <1>1, <1>2, <1>6, <1>7, <1>9, <1>10, <1>11, <1>12, <1>13, EndedStep

\* A map with some variables over it.
LEMMA MapsOf ==
  ASSUME NEW f \in [Var -> Value], NEW g \in [Var -> Value], NEW x \in Var, NEW v \in Value
  PROVE  /\ Extended(f, g) \in [Var -> Value] /\ WithProps(f) \in [Var -> Value]
         /\ [NoVars EXCEPT ![x] = v] \in [Var -> Value] /\ NoVars \in [Var -> Value]
         /\ WithProps([NoVars EXCEPT ![x] = v]) \in [Var -> Value]
<1>1. "$props" \in Var /\ Outside \in Value /\ Nil \in Value
  BY NodeAssumption DEF Value
<1>2. NoVars \in [Var -> Value] /\ [NoVars EXCEPT ![x] = v] \in [Var -> Value]
  BY <1>1 DEF NoVars
<1>3. \A h \in [Var -> Value] : WithProps(h) \in [Var -> Value]
  BY <1>1 DEF WithProps
<1>4. Extended(f, g) \in [Var -> Value]
  BY DEF Extended
<1>5. QED
  BY <1>2, <1>3, <1>4

LEMMA Row ==
  ASSUME NEW S, NEW k \in Nat, NEW s \in [1 .. k -> S]
  PROVE  s \in Seq(S) /\ Len(s) = k /\ DOMAIN s = 1 .. k
OBVIOUS

\* A v-for has read its value.
LEMMA ForStores ==
  ASSUME Base, NEW i \in Threads, threads[i].stack # << >>,
         NEW k \in Nat, NEW item \in [Var -> Value],
         maps' = maps \o [j \in 1 .. k |-> item],
         scopes' = scopes \o [j \in 1 .. k |-> [up |-> Here(i), map |-> Len(maps) + j]]
  PROVE  /\ maps' \in Seq([Var -> Value]) /\ Len(maps') = Len(maps) + k
         /\ scopes' \in Seq([up : Nat, map : Nat]) /\ Len(scopes') = Len(scopes) + k
         /\ \A s \in Scopes : scopes'[s] = scopes[s]
         /\ \A m \in 1 .. Len(maps) : maps'[m] = maps[m]
         /\ \A j \in 1 .. k : /\ scopes'[Len(scopes) + j] = [up |-> Here(i), map |-> Len(maps) + j]
                              /\ maps'[Len(maps) + j] = item
<1>1. PICK n \in Nat : n = Len(maps)
  BY BaseFacts, Zenon
<1>2. PICK p \in Nat : p = Len(scopes)
  BY BaseFacts
<1>3. maps \in Seq([Var -> Value]) /\ scopes \in Seq([up : Nat, map : Nat]) /\ Here(i) \in Nat
  BY TopFacts DEF Base, Stores
<1>4. PICK ms : ms = [j \in 1 .. k |-> item]
  OBVIOUS
<1>5. ms \in Seq([Var -> Value]) /\ Len(ms) = k /\ \A j \in 1 .. k : ms[j] = item
  <2>1. ms \in [1 .. k -> [Var -> Value]] /\ \A j \in 1 .. k : ms[j] = item
    BY <1>4
  <2>2. QED
    BY <2>1, Row
<1>6. PICK ss : ss = [j \in 1 .. k |-> [up |-> Here(i), map |-> n + j]]
  OBVIOUS
<1>7. /\ ss \in Seq([up : Nat, map : Nat]) /\ Len(ss) = k
      /\ \A j \in 1 .. k : ss[j] = [up |-> Here(i), map |-> n + j]
  <2>1. \A j \in 1 .. k : [up |-> Here(i), map |-> n + j] \in [up : Nat, map : Nat]
    BY <1>3
  <2>2. ss \in [1 .. k -> [up : Nat, map : Nat]]
    BY <1>6, <2>1
  <2>3. PICK S : S = [up : Nat, map : Nat]
    OBVIOUS
  <2>4. ss \in Seq(S) /\ Len(ss) = k
    <3>1. ss \in [1 .. k -> S]
      BY <2>2, <2>3
    <3>2. QED
      BY <3>1, Row
  <2>5. QED
    BY <1>6, <2>3, <2>4
<1>8. /\ maps' \in Seq([Var -> Value]) /\ Len(maps') = n + k
      /\ \A j \in 1 .. n + k : maps'[j] = IF j <= n THEN maps[j] ELSE ms[j - n]
  BY <1>1, <1>3, <1>4, <1>5, ConcatProperties
<1>9. /\ scopes' \in Seq([up : Nat, map : Nat]) /\ Len(scopes') = p + k
      /\ \A j \in 1 .. p + k : scopes'[j] = IF j <= p THEN scopes[j] ELSE ss[j - p]
  BY <1>1, <1>2, <1>3, <1>6, <1>7, ConcatProperties
<1>10. ASSUME NEW j \in 1 .. k
       PROVE  /\ p + j \in 1 .. p + k /\ ~ (p + j <= p) /\ p + j - p = j
              /\ n + j \in 1 .. n + k /\ ~ (n + j <= n) /\ n + j - n = j
  OBVIOUS
<1>11. ASSUME NEW j \in 1 .. k
       PROVE  scopes'[p + j] = ss[j] /\ maps'[n + j] = ms[j]
  <2>1. PICK a : a = p + j
    OBVIOUS
  <2>2. PICK b : b = n + j
    OBVIOUS
  <2>3. a \in 1 .. p + k /\ ~ (a <= p) /\ a - p = j
    BY <2>1
  <2>4. b \in 1 .. n + k /\ ~ (b <= n) /\ b - n = j
    BY <2>2
  <2>5. scopes'[a] = ss[j] /\ maps'[b] = ms[j]
    BY <1>8, <1>9, <2>3, <2>4
  <2>6. QED
    BY <2>1, <2>2, <2>5
<1>12. \A s \in 1 .. p : s \in 1 .. p + k /\ s <= p
  OBVIOUS
<1>13. \A s \in 1 .. n : s \in 1 .. n + k /\ s <= n
  OBVIOUS
<1>14. QED
  BY <1>1, <1>2, <1>5, <1>7, <1>8, <1>9, <1>11, <1>12, <1>13, ZenonT(60) DEF Scopes

\* The goroutine i becomes f, with k frames more: the rounds of the v-for n.
Rounds(i, n, k, f) ==
  /\ maps' \in Seq([Var -> Value]) /\ Len(maps') = Len(maps) + k
  /\ scopes' \in Seq([up : Nat, map : Nat]) /\ Len(scopes') = Len(scopes) + k
  /\ \A s \in Scopes : scopes'[s] = scopes[s]
  /\ \A m \in 1 .. Len(maps) : maps'[m] = maps[m]
  /\ \A s \in Scopes' : s \notin Scopes =>
       /\ s - Len(scopes) \in 1 .. k /\ scopes'[s].up = Here(i)
       /\ scopes'[s].map = Len(maps) + (s - Len(scopes))
       /\ maps'[scopes'[s].map] = [NoVars EXCEPT ![As[n]] = threads[i].val]
  /\ SetTo(i, f) /\ f.pc = "run" /\ f.ctx = 0 /\ f.uses = Unused
  /\ GoodThread(i, f, Len(scopes) + k, Len(ctxs))
  /\ \A b \in 1 .. Len(f.stack) :
       \/ b \in Frames(i) /\ f.stack[b] = Rest(i)[b]
       \/ /\ b \notin Frames(i) /\ f.stack[b].ctx = 0 /\ f.stack[b].todo = Kids[n]
          /\ f.stack[b].scope \in Scopes' /\ f.stack[b].scope \notin Scopes
          /\ f.stack[b].env = Extended(Top(i).env, [NoVars EXCEPT ![As[n]] = threads[i].val])

LEMMA ForFacts ==
  ASSUME Base, NEW i \in Threads, NEW n \in Node, For(i, n)
  PROVE  \E k \in Nat, f \in Thread : Rounds(i, n, k, f)
<1> DEFINE item == [NoVars EXCEPT ![As[n]] = threads[i].val]
           old == threads[i].stack
           round(j) == [todo |-> Kids[n], scope |-> Len(scopes) + j, ctx |-> 0,
                        env |-> Extended(Top(i).env, item)]
<1>1. threads[i].pc = "read" /\ n = Current(i) /\ PutBack(threads[i].ctx) /\ UNCHANGED toRegister
  BY DEF For, ReadFor
<1>2. PICK k \in 0 .. MaxRounds :
        /\ maps' = maps \o [j \in 1 .. k |-> item]
        /\ scopes' = scopes \o [j \in 1 .. k |-> [up |-> Here(i), map |-> Len(maps) + j]]
        /\ SetTo(i, NewThread(threads[i].req, "run", Rest(i) \o [j \in 1 .. k |-> round(j)]))
  BY DEF For
<1>3. /\ old # << >> /\ Top(i).todo # << >> /\ n \in Node
      /\ threads[i].ctx \in 1 .. Len(ctxs) /\ ctxs[threads[i].ctx].by = i
  BY <1>1, EvaluatingFacts DEF Evaluating
<1>4. threads[i].req \in Request /\ threads[i].val \in Value
  BY BaseFacts, ThreadFields
<1>5. PICK p \in Nat : p = Len(scopes)
  BY BaseFacts
<1>6. PICK q \in Nat : q = Len(maps)
  BY BaseFacts, ZenonT(60)
<1>7. PICK c \in Nat : c = Len(ctxs)
  BY BaseFacts, Zenon
<1>8. k \in Nat /\ MaxRounds \in Nat /\ Kids[n] \in Seq(Node) /\ As[n] \in Var
  BY <1>2, NodeAssumption
<1>9. Top(i) \in Frame /\ Top(i).env \in [Var -> Value] /\ Here(i) \in Scopes /\ Here(i) >= 2 /\ Here(i) \in Nat
  BY <1>3, TopFacts, FrameFields
<1>10. item \in [Var -> Value] /\ Extended(Top(i).env, item) \in [Var -> Value]
  BY <1>4, <1>8, <1>9, MapsOf
<1>11. /\ maps' \in Seq([Var -> Value]) /\ Len(maps') = q + k
       /\ scopes' \in Seq([up : Nat, map : Nat]) /\ Len(scopes') = p + k
       /\ \A s \in Scopes : scopes'[s] = scopes[s]
       /\ \A m \in 1 .. q : maps'[m] = maps[m]
       /\ \A j \in 1 .. k : /\ scopes'[p + j] = [up |-> Here(i), map |-> q + j]
                            /\ maps'[q + j] = item
  <2>1. PICK it : it = item
    OBVIOUS
  <2>2. it \in [Var -> Value] /\ maps' = maps \o [j \in 1 .. k |-> it]
    BY <1>2, <1>10, <2>1
  <2>3. scopes' = scopes \o [j \in 1 .. k |-> [up |-> Here(i), map |-> Len(maps) + j]]
    BY <1>2
  <2>4. /\ maps' \in Seq([Var -> Value]) /\ Len(maps') = Len(maps) + k
        /\ scopes' \in Seq([up : Nat, map : Nat]) /\ Len(scopes') = Len(scopes) + k
        /\ \A s \in Scopes : scopes'[s] = scopes[s]
        /\ \A m \in 1 .. Len(maps) : maps'[m] = maps[m]
        /\ \A j \in 1 .. k : /\ scopes'[Len(scopes) + j] = [up |-> Here(i), map |-> Len(maps) + j]
                             /\ maps'[Len(maps) + j] = it
    BY <1>3, <1>8, <2>2, <2>3, ForStores
  <2>5. QED
    BY <1>5, <1>6, <2>1, <2>4
<1>12. PICK fs : fs = [j \in 1 .. k |-> round(j)]
  OBVIOUS
<1>13. /\ fs \in Seq(Frame) /\ Len(fs) = k
       /\ \A j \in 1 .. k : /\ fs[j].scope = p + j /\ fs[j].ctx = 0
                            /\ fs[j].todo = Kids[n] /\ fs[j].env = Extended(Top(i).env, item)
  <2>1. PICK env \in [Var -> Value] : env = Extended(Top(i).env, item)
    BY <1>10
  <2>2. ASSUME NEW j \in 1 .. k
        PROVE  /\ round(j) \in Frame /\ round(j).scope = p + j /\ round(j).ctx = 0
               /\ round(j).todo = Kids[n] /\ round(j).env = env
    <3>1. round(j) = [todo |-> Kids[n], scope |-> p + j, ctx |-> 0, env |-> env]
      BY <1>5, <2>1
    <3>2. p + j \in Nat
      BY <1>8
    <3>3. QED
      BY <1>8, <3>1, <3>2 DEF Frame
  <2>3. fs \in [1 .. k -> Frame] /\ \A j \in 1 .. k : fs[j] = round(j)
    BY <1>12, <2>2
  <2>4. fs \in Seq(Frame) /\ Len(fs) = k
    BY <1>8, <2>3, Row
  <2>5. QED
    BY <2>1, <2>2, <2>3, <2>4
<1>14. PICK rest : rest = Rest(i)
  OBVIOUS
<1>15. /\ GoodStack(rest, p, c) /\ rest # << >> /\ Len(rest) = Len(old)
       /\ \A j \in Frames(i) : rest[j].scope = old[j].scope /\ rest[j].ctx = old[j].ctx
  BY <1>3, <1>5, <1>7, <1>14, RestFacts
<1>16. PICK more : more = rest \o fs /\ more = Joined(rest, fs)
  BY DEF Joined
<1>17. /\ GoodStack(more, p + k, c) /\ Len(more) = Len(rest) + k /\ more # << >>
       /\ \A j \in 1 .. Len(rest) : more[j] = rest[j]
       /\ \A j \in 1 .. Len(more) : j \notin 1 .. Len(rest) =>
            j - Len(rest) \in 1 .. k /\ more[j] = fs[j - Len(rest)]
  <2>1. AreRounds(fs, k, p)
    BY <1>13 DEF AreRounds
  <2>2. GoodStack(rest, p, c) /\ rest # << >>
    BY <1>15
  <2>3. k \in Nat
    BY <1>8
  <2>4. GoodStack(Joined(rest, fs), p + k, c) /\ Joined(rest, fs) # << >>
    BY <2>1, <2>2, <2>3, GoodRounds
  <2>5. Len(Joined(rest, fs)) = Len(rest) + k
    BY <2>1, <2>2, <2>3, GoodRounds
  <2>6. \A j \in 1 .. Len(rest) : Joined(rest, fs)[j] = rest[j]
    BY <2>1, <2>2, <2>3, GoodRounds
  <2>7. \A j \in 1 .. Len(Joined(rest, fs)) : j \notin 1 .. Len(rest) =>
          j - Len(rest) \in 1 .. k /\ Joined(rest, fs)[j] = fs[j - Len(rest)]
    BY <2>1, <2>2, <2>3, GoodRounds
  <2>8. QED
    BY <1>16, <2>4, <2>5, <2>6, <2>7
<1>18. PICK f : f = NewThread(threads[i].req, "run", more)
  OBVIOUS
<1>19. /\ GoodThread(i, f, p + k, c) /\ f \in Thread /\ f.pc = "run"
       /\ f.stack = more /\ f.ctx = 0 /\ f.uses = Unused
  <2>1. PICK r : r = threads[i].req
    OBVIOUS
  <2>2. PICK top : top = p + k
    OBVIOUS
  <2>3. r \in Request
    BY <1>4, <2>1
  <2>4. top \in Nat /\ c \in Nat
    BY <1>8, <2>2
  <2>5. GoodStack(more, top, c) /\ more # << >>
    BY <1>17, <2>2
  <2>6. f = NewThread(r, "run", more)
    BY <1>18, <2>1
  <2>7. /\ GoodThread(i, f, top, c) /\ f \in Thread /\ f.pc = "run" /\ f.stack = more
        /\ f.ctx = 0 /\ f.req = r /\ f.uses = Unused
    BY <2>3, <2>4, <2>5, <2>6 DEF GoodThread, GoodStack, NewThread, Thread, Unused, Value, Evaluating
  <2>8. QED
    BY <2>2, <2>7
<1>20. SetTo(i, f) /\ Len(threads') = Len(threads)
  BY <1>2, <1>12, <1>14, <1>16, <1>18, <1>19, SetToLen
<1>21. ASSUME NEW s \in Scopes', s \notin Scopes
       PROVE  /\ s - p \in 1 .. k /\ scopes'[s].up = Here(i) /\ scopes'[s].map = q + (s - p)
              /\ maps'[scopes'[s].map] = item
  <2>1. s \in 1 .. p + k /\ s \notin 1 .. p
    BY <1>5, <1>11, <1>21 DEF Scopes
  <2>2. s - p \in 1 .. k /\ s = p + (s - p)
    BY <1>8, <2>1
  <2>3. PICK j \in 1 .. k : s = p + j /\ j = s - p
    BY <2>2
  <2>4. scopes'[s] = [up |-> Here(i), map |-> q + j] /\ maps'[q + j] = item
    BY <1>11, <2>3
  <2>5. scopes'[s].up = Here(i) /\ scopes'[s].map = q + j
    BY <2>4
  <2>6. QED
    BY <2>2, <2>3, <2>4, <2>5
<1>22. ASSUME NEW b \in 1 .. Len(f.stack)
       PROVE  \/ b \in Frames(i) /\ f.stack[b] = Rest(i)[b]
              \/ /\ b \notin Frames(i) /\ f.stack[b].ctx = 0 /\ f.stack[b].todo = Kids[n]
                 /\ f.stack[b].scope \in Scopes' /\ f.stack[b].scope \notin Scopes
                 /\ f.stack[b].env = Extended(Top(i).env, item)
  <2>1. f.stack = more /\ b \in 1 .. Len(more) /\ Frames(i) = 1 .. Len(rest)
    BY <1>15, <1>19 DEF Frames
  <2>2. CASE b \in 1 .. Len(rest)
    BY <1>14, <1>17, <2>1, <2>2
  <2>3. CASE b \notin 1 .. Len(rest)
    <3>1. PICK j \in 1 .. k : more[b] = fs[j]
      BY <1>17, <2>1, <2>3
    <3>2. p + j \in 1 .. p + k /\ p + j \notin 1 .. p
      BY <1>8
    <3>3. p + j \in Scopes' /\ p + j \notin Scopes
      BY <1>5, <1>11, <3>2 DEF Scopes
    <3>4. QED
      BY <1>13, <2>1, <2>3, <3>1, <3>3
  <2>4. QED
    BY <2>2, <2>3
<1>23. k \in Nat /\ f \in Thread
  BY <1>8, <1>19
<1>24. Rounds(i, n, k, f)
  BY <1>5, <1>6, <1>7, <1>11, <1>19, <1>20, <1>21, <1>22 DEF Rounds
<1>25. QED
  BY <1>23, <1>24

LEMMA ForBase ==
  ASSUME Base, NEW i \in Threads, NEW n \in Node, For(i, n)
  PROVE  Base'
<1> DEFINE old == threads[i].stack
<1>1. threads[i].pc = "read" /\ n = Current(i) /\ PutBack(threads[i].ctx) /\ UNCHANGED toRegister
  BY DEF For, ReadFor
<1>2. /\ old # << >> /\ Top(i).todo # << >>
      /\ threads[i].ctx \in 1 .. Len(ctxs) /\ ctxs[threads[i].ctx].by = i
  BY <1>1, EvaluatingFacts DEF Evaluating
<1>0. PICK k \in Nat, f \in Thread : Rounds(i, n, k, f)
  BY ForFacts
<1>3. /\ maps' \in Seq([Var -> Value]) /\ Len(maps') = Len(maps) + k
      /\ scopes' \in Seq([up : Nat, map : Nat]) /\ Len(scopes') = Len(scopes) + k
      /\ \A s \in Scopes : scopes'[s] = scopes[s]
      /\ \A s \in Scopes' : s \notin Scopes =>
           /\ s - Len(scopes) \in 1 .. k /\ scopes'[s].up = Here(i)
           /\ scopes'[s].map = Len(maps) + (s - Len(scopes))
      /\ SetTo(i, f) /\ f.pc = "run" /\ f.ctx = 0
      /\ GoodThread(i, f, Len(scopes) + k, Len(ctxs))
      /\ \A b \in 1 .. Len(f.stack) :
           \/ b \in Frames(i) /\ f.stack[b] = Rest(i)[b]
           \/ b \notin Frames(i) /\ f.stack[b].ctx = 0
  BY <1>0 DEF Rounds
<1>4. PICK p \in Nat : p = Len(scopes)
  BY BaseFacts
<1>5. PICK q \in Nat : q = Len(maps)
  BY BaseFacts, Zenon
<1>6. Here(i) \in Scopes /\ Len(threads') = Len(threads)
  BY <1>2, <1>3, TopFacts, SetToLen
<1>7. ASSUME NEW s \in Scopes', s \notin Scopes
      PROVE  /\ scopes'[s].up \in Scopes /\ scopes'[s].map > q /\ scopes'[s].map <= q + k
  <2>1. PICK j \in 1 .. k : j = s - Len(scopes)
    BY <1>3, <1>7
  <2>2. scopes'[s].up = Here(i) /\ scopes'[s].map = q + j
    BY <1>3, <1>5, <1>7, <2>1
  <2>3. QED
    BY <1>6, <2>2
<1>8. Stores'
  <2>1. /\ Len(maps) <= Len(maps') /\ Len(maps') \in Nat
        /\ Len(scopes) <= Len(scopes') /\ Len(scopes') \in Nat
    BY <1>3, <1>4, <1>5
  <2>2. /\ scopes'[1] = scopes[1] /\ (\A s \in Scopes : scopes'[s].up = scopes[s].up)
    BY <1>3, BaseFacts
  <2>3. \A s \in Scopes' : s \notin Scopes => scopes'[s].up \in Scopes
    BY <1>7
  <2>4. ASSUME NEW s \in Scopes' PROVE scopes'[s].map <= Len(maps')
    <3>1. CASE s \in Scopes
      <4>1. scopes[s].map <= q /\ scopes[s].map \in Nat
        BY <1>5, <3>1, BaseFacts DEF Base, Stores
      <4>2. QED
        BY <1>3, <1>5, <3>1, <4>1
    <3>2. CASE s \notin Scopes
      BY <1>3, <1>5, <1>7, <3>2
    <3>3. QED
      BY <3>1, <3>2
  <2>5. /\ ctxs' \in Seq([by : Nat, scope : Nat])
        /\ \A d \in 1 .. Len(ctxs') : ctxs'[d].by <= Len(threads') /\ ctxs'[d].scope \in Scopes
    BY <1>1, <1>2, <1>6, PutBackTyped
  <2>6. /\ toRegister' \in [names : Seq(Var), busy : BOOLEAN]
        /\ toRegister'.busy => toRegister'.names # << >>
    BY <1>1 DEF Base, Stores
  <2>7. QED
    BY <1>3, <2>1, <2>2, <2>3, <2>4, <2>5, <2>6, StoresGrown
<1>9. \A j \in Frames(i) : Rest(i)[j].scope = old[j].scope /\ Rest(i)[j].ctx = old[j].ctx
  BY <1>2, RestFacts
<1>10. ASSUME NEW j \in 1 .. Len(f.stack), f.stack[j].ctx # 0
       PROVE  j \in Frames(i) /\ f.stack[j].ctx = old[j].ctx /\ f.stack[j].ctx # threads[i].ctx
  <2>1. j \in Frames(i) /\ f.stack[j] = Rest(i)[j]
    BY <1>3, <1>10
  <2>2. f.stack[j].ctx = old[j].ctx
    BY <1>9, <2>1
  <2>3. QED
    BY <1>10, <2>1, <2>2, HeldFacts
<1>11. \A j \in 1 .. Len(f.stack) : j \in Frames(i) => f.stack[j].scope = old[j].scope
  BY <1>3, <1>9
<1>12. ASSUME NEW s \in Scopes', scopes'[s].map \in Callers
       PROVE  s \in Scopes /\ scopes'[s].map = scopes[s].map
  <2>1. scopes'[s].map \in 2 .. q
    BY <1>5, <1>12, CallersOld
  <2>2. s \in Scopes
    BY <1>5, <1>7, <2>1
  <2>3. QED
    BY <1>3, <2>2
<1>13. /\ Len(scopes) <= Len(scopes') /\ Len(scopes') \in Nat /\ f.pc # "new"
       /\ GoodThread(i, f, Len(scopes'), Len(ctxs))
  <2>1. Len(scopes) <= Len(scopes') /\ Len(scopes') \in Nat
    BY <1>3, <1>4
  <2>2. QED
    BY <1>3, <2>1
<1>14. QED
  BY <1>1, <1>2, <1>3, <1>8, <1>10, <1>11, <1>12, <1>13, EndedStep

\* One more scope behind the prototype.
LEMMA OneScope ==
  ASSUME Base, NEW m \in Nat, scopes' = Append(scopes, [up |-> Prototype, map |-> m])
  PROVE  /\ scopes' \in Seq([up : Nat, map : Nat]) /\ Len(scopes') = Len(scopes) + 1
         /\ Len(scopes') \in Nat /\ Len(scopes) <= Len(scopes')
         /\ \A s \in Scopes : scopes'[s] = scopes[s]
         /\ scopes'[Len(scopes) + 1].up = 1 /\ scopes'[Len(scopes) + 1].map = m
         /\ \A s \in Scopes' : s \in Scopes \/ s = Len(scopes) + 1
         /\ Scopes \subseteq Scopes' /\ Len(scopes) + 1 \in Scopes' /\ Len(scopes) + 1 \notin Scopes
<1>1. scopes \in Seq([up : Nat, map : Nat]) /\ Len(scopes) \in Nat
  BY BaseFacts DEF Base, Stores
<1>2. PICK new : new = [up |-> Prototype, map |-> m]
  OBVIOUS
<1>3. new \in [up : Nat, map : Nat] /\ new.up = 1 /\ new.map = m
  BY <1>2 DEF Prototype
<1>4. /\ scopes' \in Seq([up : Nat, map : Nat]) /\ Len(scopes') = Len(scopes) + 1
      /\ \A s \in 1 .. Len(scopes) : scopes'[s] = scopes[s]
      /\ scopes'[Len(scopes) + 1] = new
  BY <1>1, <1>2, <1>3, AppendProperties
<1>5. PICK p \in Nat : p = Len(scopes)
  BY <1>1
<1>6. Scopes = 1 .. p /\ Scopes' = 1 .. p + 1
  BY <1>4, <1>5 DEF Scopes
<1>7. /\ \A s \in Scopes' : s \in Scopes \/ s = p + 1
      /\ Scopes \subseteq Scopes' /\ p + 1 \in Scopes' /\ p + 1 \notin Scopes
  BY <1>6
<1>8. QED
  BY <1>3, <1>4, <1>5, <1>6, <1>7

LEMMA OneScopeStores ==
  ASSUME Base, NEW m \in Nat, scopes' = Append(scopes, [up |-> Prototype, map |-> m]),
         maps' \in Seq([Var -> Value]), Len(maps) <= Len(maps'), Len(maps') \in Nat, m <= Len(maps'),
         Len(threads') = Len(threads), UNCHANGED <<ctxs, toRegister>>
  PROVE  Stores'
<1>1. /\ scopes' \in Seq([up : Nat, map : Nat]) /\ Len(scopes') \in Nat /\ Len(scopes) <= Len(scopes')
      /\ \A s \in Scopes : scopes'[s] = scopes[s]
      /\ scopes'[Len(scopes) + 1].up = 1 /\ scopes'[Len(scopes) + 1].map = m
      /\ \A s \in Scopes' : s \in Scopes \/ s = Len(scopes) + 1
  BY OneScope
<1>2. scopes'[1] = scopes[1] /\ (\A s \in Scopes : scopes'[s].up = scopes[s].up)
  BY <1>1, BaseFacts
<1>3. \A s \in Scopes' : s \notin Scopes => scopes'[s].up \in Scopes
  BY <1>1, BaseFacts
<1>4. ASSUME NEW s \in Scopes' PROVE scopes'[s].map <= Len(maps')
  <2>1. CASE s \in Scopes
    <3>1. scopes[s].map <= Len(maps) /\ scopes[s].map \in Nat /\ Len(maps) \in Nat
      BY <2>1, BaseFacts DEF Base, Stores
    <3>2. scopes'[s].map = scopes[s].map
      BY <1>1, <2>1
    <3>3. PICK k \in Nat : k = scopes'[s].map
      BY <3>1, <3>2
    <3>4. PICK a \in Nat : a = Len(maps)
      BY <3>1
    <3>5. PICK b \in Nat : b = Len(maps')
      OBVIOUS
    <3>6. k <= a /\ a <= b
      BY <3>1, <3>2, <3>3, <3>4, <3>5, Zenon
    <3>7. k <= b
      BY <3>6
    <3>8. QED
      BY <3>3, <3>5, <3>7
  <2>2. CASE s = Len(scopes) + 1
    BY <1>1, <2>2
  <2>3. QED
    BY <1>1, <2>1, <2>2
<1>5. /\ ctxs' \in Seq([by : Nat, scope : Nat])
      /\ \A c \in 1 .. Len(ctxs') : ctxs'[c].by <= Len(threads') /\ ctxs'[c].scope \in Scopes
      /\ toRegister' \in [names : Seq(Var), busy : BOOLEAN]
      /\ toRegister'.busy => toRegister'.names # << >>
  BY DEF Base, Stores
<1>6. QED
  BY <1>1, <1>2, <1>3, <1>4, <1>5, StoresGrown

\* A request gets its first scope.
LEMMA EnterStep ==
  ASSUME Base, NEW i \in Threads, threads[i].pc = "new",
         NEW data \in [Var -> Value], NEW m \in Nat,
         maps' \in Seq([Var -> Value]), Len(maps) <= Len(maps'), Len(maps') \in Nat, m <= Len(maps'),
         scopes' = Append(scopes, [up |-> Prototype, map |-> m]),
         m \in Callers => m = Data[i] /\ Entry[i] = "RenderTpl",
         SetTo(i, NewThread(threads[i].req, "run", <<FirstFrame(threads[i].req, Len(scopes) + 1, data)>>)),
         UNCHANGED <<ctxs, toRegister>>
  PROVE  Base'
<1> DEFINE r == threads[i].req
<1>1. r \in Request /\ threads[i].stack = << >> /\ threads[i].ctx = 0 /\ i = r /\ i \in Request
  BY BaseFacts, ThreadFields, ZenonT(60) DEF Base, AllGood, GoodThread, Evaluating
<1>2. PICK p \in Nat : p = Len(scopes)
  BY BaseFacts
<1>3. PICK c \in Nat : c = Len(ctxs)
  BY BaseFacts, Zenon
<1>4. PICK frame : frame = FirstFrame(r, Len(scopes) + 1, data)
  OBVIOUS
<1>5. frame \in Frame /\ frame.scope = p + 1 /\ frame.ctx = 0
  <2>1. maps[Prototype] \in [Var -> Value]
    BY BaseFacts DEF Prototype
  <2>2. PICK env : env = Extended(maps[Prototype], data)
    OBVIOUS
  <2>3. env \in [Var -> Value]
    BY <2>1, <2>2 DEF Extended
  <2>4. PICK todo : todo = StatementsOf[r]
    OBVIOUS
  <2>5. todo \in Seq(Node)
    BY <1>1, <2>4, RequestAssumption
  <2>6. frame = [todo |-> todo, scope |-> p + 1, ctx |-> 0, env |-> env]
    BY <1>2, <1>4, <2>2, <2>4 DEF FirstFrame
  <2>7. QED
    BY <2>3, <2>5, <2>6 DEF Frame
<1>6. p >= 1 /\ p + 1 \in 2 .. p + 1
  BY <1>2, BaseFacts DEF Scopes
<1>7. GoodStack(<<frame>>, p + 1, c) /\ <<frame>> # << >> /\ Len(<<frame>>) = 1 /\ <<frame>>[1] = frame
  BY <1>5, <1>6, GoodSingle
<1>8. PICK f : f = NewThread(r, "run", <<frame>>)
  OBVIOUS
<1>9. /\ GoodThread(i, f, p + 1, c) /\ f \in Thread /\ f.pc = "run" /\ f.stack = <<frame>> /\ f.ctx = 0
  <2>1. PICK n \in Nat : n = p + 1
    OBVIOUS
  <2>2. PICK stack : stack = <<frame>>
    OBVIOUS
  <2>3. GoodStack(stack, n, c) /\ stack # << >>
    BY <1>7, <2>1, <2>2
  <2>4. PICK rq \in Request : rq = r
    BY <1>1
  <2>5. f = NewThread(rq, "run", stack)
    BY <1>8, <2>2, <2>4
  <2>6. /\ GoodThread(i, f, n, c) /\ f \in Thread /\ f.pc = "run" /\ f.stack = stack /\ f.ctx = 0
    <3>1. GoodThread(i, f, n, c)
      BY <2>3, <2>5, RunsOn
    <3>2. f \in Thread
      BY <2>3, <2>5, RunsOn, ZenonT(60)
    <3>3. f.pc = "run" /\ f.stack = stack /\ f.ctx = 0
      BY <2>5 DEF NewThread
    <3>4. QED
      BY <3>1, <3>2, <3>3
  <2>7. QED
    BY <2>1, <2>2, <2>6
<1>10. SetTo(i, f) /\ Len(threads') = Len(threads)
  BY <1>4, <1>8, <1>9, SetToLen
<1>11. Stores'
  BY <1>10, OneScopeStores
<1>12. Owns(i, f, ctxs')
  <2>1. \A j \in 1 .. Len(f.stack) : f.stack[j].ctx = 0
    BY <1>5, <1>7, <1>9
  <2>2. QED
    BY <1>9, <2>1 DEF Owns, OwnsStack
<1>13. ASSUME NEW s \in Scopes', scopes'[s].map \in Callers
       PROVE  \/ s \in Scopes /\ scopes'[s].map = scopes[s].map
              \/ /\ scopes'[s].map = Data[i] /\ Entry[i] = "RenderTpl"
                 /\ i \in Request /\ f.pc # "new"
  BY <1>1, <1>9, <1>13, OneScope
<1>14. /\ GoodThread(i, f, Len(scopes'), Len(ctxs')) /\ Len(scopes) <= Len(scopes')
       /\ Len(ctxs) <= Len(ctxs')
       /\ \A d \in 1 .. Len(ctxs) : ctxs[d].by \notin {0, i} => ctxs'[d] = ctxs[d]
  BY <1>2, <1>3, <1>9, OneScope
<1>15. f.pc = "new" => threads[i].pc = "new"
  OBVIOUS
<1>16. QED
  BY <1>10, <1>11, <1>12, <1>13, <1>14, <1>15, StepBase

LEMMA PropsOf ==
  ASSUME Base, NEW r \in Request
  PROVE  WithProps(maps[Data[r]]) \in [Var -> Value]
BY BaseFacts, MapsOf, NodeAssumption DEF WithProps, Value

LEMMA EnterTplBase ==
  ASSUME Base, NEW i \in Threads, EnterTpl(i)
  PROVE  Base'
<1> DEFINE r == threads[i].req
<1>1. PICK data : data = WithProps(maps[Data[r]])
  OBVIOUS
<1>2. /\ threads[i].pc = "new" /\ Entry[r] = "RenderTpl"
      /\ maps' = [maps EXCEPT ![Data[r]] = data]
      /\ scopes' = Append(scopes, [up |-> Prototype, map |-> Data[r]])
      /\ SetTo(i, NewThread(r, "run", <<FirstFrame(r, Len(scopes) + 1, data)>>))
      /\ UNCHANGED <<ctxs, toRegister>>
  BY <1>1 DEF EnterTpl
<1>3. r \in Request /\ i = r /\ Data[r] \in 1 .. Len(maps) /\ Data[r] \in Nat /\ Len(maps) \in Nat
  BY <1>2, BaseFacts, ThreadFields DEF Base, AllGood, GoodThread
<1>4. data \in [Var -> Value]
  BY <1>1, <1>3, PropsOf
<1>5. maps' \in Seq([Var -> Value]) /\ Len(maps') = Len(maps)
  BY <1>2, <1>3, <1>4, ExceptSeq DEF Base, Stores
<1>6. Len(maps) <= Len(maps') /\ Len(maps') \in Nat /\ Data[r] <= Len(maps')
  BY <1>3, <1>5
<1>7. PICK m \in Nat : m = Data[r]
  BY <1>3
<1>8. QED
  BY <1>2, <1>3, <1>4, <1>5, <1>6, <1>7, EnterStep

LEMMA EnterComponentBase ==
  ASSUME Base, NEW i \in Threads, EnterComponent(i)
  PROVE  Base'
<1> DEFINE r == threads[i].req
<1>1. PICK data : data = WithProps(maps[Data[r]])
  OBVIOUS
<1>2. PICK m : m = Len(maps) + 1
  OBVIOUS
<1>3. /\ threads[i].pc = "new" /\ maps' = Append(maps, data)
      /\ scopes' = Append(scopes, [up |-> Prototype, map |-> m])
      /\ SetTo(i, NewThread(r, "run", <<FirstFrame(r, Len(scopes) + 1, data)>>))
      /\ UNCHANGED <<ctxs, toRegister>>
  BY <1>1, <1>2 DEF EnterComponent
<1>4. r \in Request /\ Len(maps) \in Nat /\ m \in Nat /\ maps \in Seq([Var -> Value])
  BY <1>2, BaseFacts, ThreadFields DEF Base, Stores
<1>5. data \in [Var -> Value]
  BY <1>1, <1>4, PropsOf
<1>6. maps' \in Seq([Var -> Value]) /\ Len(maps') = Len(maps) + 1
  BY <1>3, <1>4, <1>5, AppendProperties
<1>7. Len(maps) <= Len(maps') /\ Len(maps') \in Nat /\ m <= Len(maps')
  BY <1>2, <1>4, <1>6
<1>8. m \notin Callers
  BY <1>2, <1>4, CallersOld
<1>9. QED
  BY <1>3, <1>4, <1>5, <1>6, <1>7, <1>8, EnterStep

\* A component is called: its frame keeps the context of the call.
LEMMA CalledFrame ==
  ASSUME Base, NEW i \in Threads, NEW n \in Node, threads[i].pc \in Evaluating,
         NEW env \in [Var -> Value],
         NEW frame, frame = [todo |-> Kids[n], scope |-> Len(scopes) + 1,
                             ctx |-> threads[i].ctx, env |-> env]
  PROVE  frame \in Frame /\ frame.scope = Len(scopes) + 1 /\ frame.ctx = threads[i].ctx
<1>1. Kids[n] \in Seq(Node) /\ threads[i].ctx \in Nat /\ Len(scopes) + 1 \in Nat
  BY NodeAssumption, BaseFacts, ThreadFields
<1>2. QED
  BY <1>1 DEF Frame

\* A component has a scope of its own, in a frame that has the context of the call.
LEMMA CallStep ==
  ASSUME Base, NEW i \in Threads, NEW n \in Node, threads[i].pc \in Evaluating,
         NEW m \in Nat, m \notin Callers,
         NEW frame \in Frame, frame.scope = Len(scopes) + 1, frame.ctx = threads[i].ctx,
         maps' \in Seq([Var -> Value]), Len(maps) <= Len(maps'), Len(maps') \in Nat,
         m <= Len(maps'),
         scopes' = Append(scopes, [up |-> Prototype, map |-> m]),
         SetTo(i, NewThread(threads[i].req, "run", Append(Rest(i), frame))),
         UNCHANGED <<ctxs, toRegister>>
  PROVE  Base'
<1> DEFINE old == threads[i].stack
           ctx == threads[i].ctx
<1>1. /\ old # << >> /\ Top(i).todo # << >>
      /\ ctx \in 1 .. Len(ctxs) /\ ctxs[ctx] = [by |-> i, scope |-> Here(i)]
  BY EvaluatingFacts
<1>2. threads[i].req \in Request
  BY BaseFacts, ThreadFields
<1>3. PICK p \in Nat : p = Len(scopes)
  BY BaseFacts
<1>4. PICK c \in Nat : c = Len(ctxs)
  BY BaseFacts, Zenon
<1>5. frame \in Frame /\ frame.scope = p + 1 /\ frame.ctx = ctx /\ frame.ctx <= c
  BY <1>1, <1>3, <1>4
<1>6. PICK rest : rest = Rest(i)
  OBVIOUS
<1>7. /\ GoodStack(rest, p, c) /\ rest # << >> /\ Len(rest) = Len(old)
      /\ \A j \in Frames(i) : rest[j].scope = old[j].scope /\ rest[j].ctx = old[j].ctx
  BY <1>1, <1>3, <1>4, <1>6, RestFacts
<1>8. PICK more : more = Append(rest, frame)
  OBVIOUS
<1>9. /\ GoodStack(more, p + 1, c) /\ Len(more) = Len(rest) + 1 /\ more # << >>
      /\ \A j \in 1 .. Len(rest) : more[j] = rest[j]
      /\ more[Len(rest) + 1] = frame
  <2>1. GoodStack(rest, p, c) /\ rest # << >> /\ frame.scope = p + 1 /\ frame.ctx <= c
    BY <1>5, <1>7
  <2>2. /\ GoodStack(Append(rest, frame), p + 1, c)
        /\ Len(Append(rest, frame)) = Len(rest) + 1 /\ Append(rest, frame) # << >>
        /\ \A j \in 1 .. Len(rest) : Append(rest, frame)[j] = rest[j]
        /\ Append(rest, frame)[Len(rest) + 1] = frame
    BY <2>1, GoodPush
  <2>3. QED
    BY <1>8, <2>2, Zenon
<1>10. PICK f : f = NewThread(threads[i].req, "run", more)
  OBVIOUS
<1>11. /\ GoodThread(i, f, p + 1, c) /\ f \in Thread /\ f.pc = "run" /\ f.stack = more /\ f.ctx = 0
  <2>1. PICK q \in Nat : q = p + 1
    OBVIOUS
  <2>2. GoodStack(more, q, c) /\ more # << >>
    BY <1>9, <2>1
  <2>3. PICK r \in Request : r = threads[i].req
    BY <1>2
  <2>4. f = NewThread(r, "run", more)
    BY <1>10, <2>3
  <2>5. /\ GoodThread(i, f, q, c) /\ f \in Thread /\ f.pc = "run" /\ f.stack = more /\ f.ctx = 0
    BY <2>2, <2>4, RunsOn
  <2>6. QED
    BY <2>1, <2>5
<1>12. SetTo(i, f) /\ Len(threads') = Len(threads)
  BY <1>6, <1>8, <1>10, <1>11, SetToLen
<1>13. Stores'
  BY <1>12, OneScopeStores
<1>14. Owns(i, f, ctxs)
  <2>1. Len(old) \in Nat /\ Len(old) # 0 /\ Len(old) \in Frames(i)
    BY <1>1, TopFacts DEF Frames
  <2>2. PICK l \in Nat : l = Len(old) /\ l # 0
    BY <2>1
  <2>3. Frames(i) = 1 .. l /\ Len(more) = l + 1
    BY <1>7, <1>9, <2>2 DEF Frames
  <2>4. /\ \A j \in 1 .. l : more[j].scope = old[j].scope /\ more[j].ctx = old[j].ctx
        /\ more[l + 1].ctx = ctx
    BY <1>5, <1>7, <1>9, <2>2, <2>3
  <2>5. Owns(i, threads[i], ctxs)
    BY DEF Base, AllOwn
  <2>6. \A j \in 1 .. l : old[j].ctx # 0 =>
          old[j].ctx # ctx /\ (\A k \in 1 .. l : k # j => old[k].ctx # old[j].ctx)
    <3>1. SUFFICES ASSUME NEW j \in 1 .. l, old[j].ctx # 0
                   PROVE  old[j].ctx # ctx /\ (\A k \in 1 .. l : k # j => old[k].ctx # old[j].ctx)
      OBVIOUS
    <3>2. PICK b \in Frames(i) : b = j
      BY <2>3
    <3>3. threads[i].stack[b].ctx # 0
      BY <3>1, <3>2
    <3>4. /\ threads[i].stack[b].ctx # threads[i].ctx
          /\ \A k \in Frames(i) : k # b => threads[i].stack[k].ctx # threads[i].stack[b].ctx
      BY <3>3, HeldFacts
    <3>5. QED
      BY <2>3, <3>2, <3>4
  <2>7. ASSUME NEW j \in 1 .. l + 1, more[j].ctx # 0
        PROVE  /\ ctxs[more[j].ctx] = [by |-> i, scope |-> more[j - 1].scope]
               /\ \A k \in 1 .. l + 1 : k # j => more[k].ctx # more[j].ctx
    <3>1. CASE j \in 1 .. l
      <4>1. j # 1
        <5>1. GoodStack(old, Len(scopes), Len(ctxs))
          BY <1>1, TopFacts
        <5>2. more[j].ctx = old[j].ctx
          BY <2>4, <3>1
        <5>3. QED
          BY <2>2, <2>7, <3>1, <5>1, <5>2 DEF GoodStack
      <4>2. j - 1 \in 1 .. l
        BY <3>1, <4>1
      <4>3. ctxs[old[j].ctx] = [by |-> i, scope |-> old[j - 1].scope]
        BY <2>2, <2>4, <2>5, <2>7, <3>1 DEF Owns, OwnsStack
      <4>4. ASSUME NEW k \in 1 .. l + 1, k # j
            PROVE  more[k].ctx # more[j].ctx
        <5>1. more[j].ctx = old[j].ctx /\ old[j].ctx # 0
          BY <2>4, <2>7, <3>1
        <5>2. old[j].ctx # ctx /\ \A h \in 1 .. l : h # j => old[h].ctx # old[j].ctx
          BY <2>6, <3>1, <5>1
        <5>3. CASE k = l + 1
          BY <2>4, <5>1, <5>2, <5>3
        <5>4. CASE k \in 1 .. l
          <6>1. old[k].ctx # old[j].ctx
            BY <4>4, <5>2, <5>4
          <6>2. more[k].ctx = old[k].ctx
            BY <2>4, <5>4
          <6>3. QED
            BY <5>1, <6>1, <6>2
        <5>5. QED
          BY <2>2, <4>4, <5>3, <5>4
      <4>5. QED
        BY <2>4, <3>1, <4>2, <4>3, <4>4
    <3>2. CASE j = l + 1
      <4>1. l \in 1 .. l /\ j - 1 = l
        BY <2>2, <3>2
      <4>2. more[j - 1].scope = Here(i)
        BY <2>2, <2>4, <4>1 DEF Here, Top
      <4>3. \A k \in 1 .. l + 1 : k # j => k \in 1 .. l
        BY <3>2
      <4>4. \A k \in 1 .. l : more[k].ctx # ctx
        BY <1>1, <2>4, <2>6
      <4>5. QED
        BY <1>1, <2>4, <3>2, <4>2, <4>3, <4>4
    <3>3. QED
      BY <3>1, <3>2
  <2>8. OwnsStack(i, f.stack, ctxs)
    <3>1. f.stack = more /\ Len(more) = l + 1
      BY <1>11, <2>3
    <3>2. QED
      BY <2>7, <3>1 DEF OwnsStack
  <2>9. QED
    BY <1>11, <2>8 DEF Owns
<1>15. ASSUME NEW s \in Scopes', scopes'[s].map \in Callers
       PROVE  s \in Scopes /\ scopes'[s].map = scopes[s].map
  BY <1>15, OneScope
<1>16. /\ GoodThread(i, f, Len(scopes'), Len(ctxs')) /\ Len(scopes) <= Len(scopes')
       /\ Len(ctxs) <= Len(ctxs') /\ Owns(i, f, ctxs')
       /\ \A d \in 1 .. Len(ctxs) : ctxs[d].by \notin {0, i} => ctxs'[d] = ctxs[d]
  BY <1>3, <1>4, <1>11, <1>14, OneScope
<1>17. f.pc # "new"
  BY <1>11
<1>18. QED
  BY <1>12, <1>13, <1>15, <1>16, <1>17, StepBase

LEMMA CallBase ==
  ASSUME Base, NEW i \in Threads, NEW n \in Node, Call(i, n)
  PROVE  Base'
<1>1. PICK props : props = WithProps([NoVars EXCEPT ![As[n]] = threads[i].val])
  OBVIOUS
<1>2. PICK env : env = Extended(maps[Prototype], props)
  OBVIOUS
<1>3. PICK frame : frame = [todo |-> Kids[n], scope |-> Len(scopes) + 1,
                            ctx |-> threads[i].ctx, env |-> env]
  OBVIOUS
<1>4. PICK m : m = Len(maps) + 1
  OBVIOUS
<1>5. /\ threads[i].pc = "read" /\ maps' = Append(maps, props)
      /\ scopes' = Append(scopes, [up |-> Prototype, map |-> m])
      /\ SetTo(i, NewThread(threads[i].req, "run", Append(Rest(i), frame)))
      /\ UNCHANGED <<ctxs, toRegister>>
  BY <1>1, <1>2, <1>3, <1>4 DEF Call, ReadFor
<1>6. threads[i].val \in Value /\ maps \in Seq([Var -> Value]) /\ Len(maps) \in Nat
  BY BaseFacts, ThreadFields DEF Base, Stores
<1>7. maps[Prototype] \in [Var -> Value] /\ As[n] \in Var
  BY BaseFacts, NodeAssumption DEF Prototype
<1>8. props \in [Var -> Value]
  BY <1>1, <1>6, <1>7, MapsOf
<1>9. env \in [Var -> Value]
  BY <1>2, <1>7, <1>8 DEF Extended
<1>10. maps' \in Seq([Var -> Value]) /\ Len(maps') = Len(maps) + 1
  BY <1>5, <1>6, <1>8, AppendProperties
<1>11. m \in Nat /\ m \notin Callers
  BY <1>4, <1>6, CallersOld
<1>12. Len(maps) <= Len(maps') /\ Len(maps') \in Nat /\ m <= Len(maps')
  BY <1>4, <1>6, <1>10
<1>13. threads[i].pc \in Evaluating
  BY <1>5 DEF Evaluating
<1>14. frame \in Frame /\ frame.scope = Len(scopes) + 1 /\ frame.ctx = threads[i].ctx
  BY <1>3, <1>9, <1>13, CalledFrame
<1>15. QED
  BY <1>5, <1>10, <1>11, <1>12, <1>13, <1>14, CallStep

LEMMA CallBareBase ==
  ASSUME Base, NEW i \in Threads, NEW n \in Node, CallBare(i, n)
  PROVE  Base'
<1>1. PICK env : env = Extended(maps[Prototype], NoVars)
  OBVIOUS
<1>2. PICK frame : frame = [todo |-> Kids[n], scope |-> Len(scopes) + 1,
                            ctx |-> threads[i].ctx, env |-> env]
  OBVIOUS
<1>3. /\ threads[i].pc = "call" /\ maps' = maps
      /\ scopes' = Append(scopes, [up |-> Prototype, map |-> 0])
      /\ SetTo(i, NewThread(threads[i].req, "run", Append(Rest(i), frame)))
      /\ UNCHANGED <<ctxs, toRegister>>
  BY <1>1, <1>2 DEF CallBare
<1>4. maps \in Seq([Var -> Value]) /\ Len(maps) \in Nat /\ maps[Prototype] \in [Var -> Value]
  BY BaseFacts DEF Base, Stores, Prototype
<1>5. env \in [Var -> Value]
  BY <1>1, <1>4 DEF Extended, NoVars, Value
<1>6. 0 \notin Callers
  <2>1. DOMAIN Given = 1 .. Len(Given)
    BY DataAssumption
  <2>2. QED
    BY <2>1, DataAssumption DEF Callers
<1>7. threads[i].pc \in Evaluating
  BY <1>3 DEF Evaluating
<1>8. PICK m \in Nat : m = 0
  OBVIOUS
<1>9. /\ m \notin Callers /\ scopes' = Append(scopes, [up |-> Prototype, map |-> m])
      /\ maps' \in Seq([Var -> Value]) /\ Len(maps) <= Len(maps') /\ Len(maps') \in Nat
      /\ m <= Len(maps')
  BY <1>3, <1>4, <1>6, <1>8
<1>10. frame \in Frame /\ frame.scope = Len(scopes) + 1 /\ frame.ctx = threads[i].ctx
  BY <1>2, <1>5, <1>7, CalledFrame
<1>11. QED
  BY <1>3, <1>7, <1>9, <1>10, CallStep

\* <parallel>: one more goroutine, and this one goes on.
LEMMA SpawnThreads ==
  ASSUME Base, NEW i \in Threads, NEW n \in Node, Spawn(i, n)
  PROVE  /\ threads[i].pc = "run" /\ threads[i].stack # << >> /\ Top(i).todo # << >>
         /\ n = Head(Top(i).todo) /\ Kind[n] = "parallel"
         /\ threads' \in Seq(Thread) /\ Len(threads') = Len(threads) + 1
         /\ Threads \subseteq Threads' /\ Len(threads) + 1 \in Threads'
         /\ Len(threads) + 1 \notin Threads
         /\ \A j \in Threads' : j \in Threads \/ j = Len(threads) + 1
         /\ \A j \in Threads : j # i => threads'[j] = threads[j]
         /\ threads'[i].stack = Rest(i) /\ threads'[i].req = threads[i].req
         /\ threads'[i].pc = "run" /\ threads'[i].ctx = threads[i].ctx
         /\ threads'[i].uses = threads[i].uses
         /\ threads'[Len(threads) + 1] =
              NewThread(threads[i].req, "run", <<[Top(i) EXCEPT !.todo = Kids[n], !.ctx = 0]>>)
<1>1. /\ threads[i].pc = "run" /\ threads[i].stack # << >> /\ Top(i).todo # << >>
      /\ n = Head(Top(i).todo) /\ Kind[n] = "parallel"
  BY DEF Spawn, At
<1>2. threads \in Seq(Thread) /\ threads[i] \in Thread /\ threads[i].req \in Request
  BY BaseFacts, ThreadFields DEF Base, AllGood
<1>3. PICK p \in Nat : p = Len(threads)
  BY BaseFacts
<1>4. PICK rest : rest = Rest(i)
  OBVIOUS
<1>5. rest \in Seq(Frame)
  BY <1>1, <1>4, RestFacts DEF GoodStack
<1>6. PICK f : f = [threads[i] EXCEPT !.stack = rest]
  OBVIOUS
<1>7. /\ f \in Thread /\ f.stack = rest /\ f.req = threads[i].req /\ f.pc = threads[i].pc
      /\ f.ctx = threads[i].ctx /\ f.uses = threads[i].uses
  BY <1>2, <1>5, <1>6 DEF Thread
<1>8. PICK child : child = [Top(i) EXCEPT !.todo = Kids[n], !.ctx = 0]
  OBVIOUS
<1>9. child \in Frame
  <2>1. Top(i) \in Frame /\ Kids[n] \in Seq(Node)
    BY <1>1, TopFacts, NodeAssumption
  <2>2. QED
    BY <1>8, <2>1 DEF Frame
<1>10. PICK g : g = NewThread(threads[i].req, "run", <<child>>)
  OBVIOUS
<1>11. g \in Thread
  <2>1. PICK stack : stack = <<child>>
    OBVIOUS
  <2>2. stack \in Seq(Frame) /\ "run" \in {"new", "run", "done"}
    BY <1>9, <2>1
  <2>3. NewThread(threads[i].req, "run", stack) \in Thread
    BY <1>2, <2>2, NewThreadIsThread
  <2>4. QED
    BY <1>10, <2>1, <2>3
<1>12. PICK mid : mid = [threads EXCEPT ![i] = f]
  OBVIOUS
<1>13. mid \in Seq(Thread) /\ Len(mid) = p /\ \A j \in 1 .. p : mid[j] = IF j = i THEN f ELSE threads[j]
  BY <1>2, <1>3, <1>7, <1>12, ExceptSeq DEF Threads
<1>14. threads' = Append(mid, g)
  BY <1>4, <1>6, <1>8, <1>10, <1>12 DEF Spawn
<1>15. /\ threads' \in Seq(Thread) /\ Len(threads') = p + 1
       /\ \A j \in 1 .. p : threads'[j] = mid[j]
       /\ threads'[p + 1] = g
  BY <1>11, <1>13, <1>14, AppendProperties
<1>16. Threads = 1 .. p /\ Threads' = 1 .. p + 1
  BY <1>3, <1>15 DEF Threads
<1>17. /\ Threads \subseteq Threads' /\ p + 1 \in Threads' /\ p + 1 \notin Threads
       /\ \A j \in Threads' : j \in Threads \/ j = p + 1
  BY <1>16
<1>18. threads'[i] = f /\ \A j \in Threads : j # i => threads'[j] = threads[j]
  BY <1>13, <1>15, <1>16
<1>19. QED
  BY <1>1, <1>3, <1>4, <1>7, <1>8, <1>10, <1>15, <1>17, <1>18

LEMMA SpawnBase ==
  ASSUME Base, NEW i \in Threads, NEW n \in Node, Spawn(i, n)
  PROVE  Base'
<1> DEFINE q == Len(threads) + 1
           old == threads[i].stack
<1>1. /\ threads[i].pc = "run" /\ old # << >> /\ Top(i).todo # << >>
      /\ threads' \in Seq(Thread) /\ Len(threads') = Len(threads) + 1
      /\ Threads \subseteq Threads'
      /\ \A j \in Threads' : j \in Threads \/ j = q
      /\ \A j \in Threads : j # i => threads'[j] = threads[j]
      /\ threads'[i].stack = Rest(i) /\ threads'[i].req = threads[i].req
      /\ threads'[i].pc = "run" /\ threads'[i].ctx = threads[i].ctx
      /\ threads'[i].uses = threads[i].uses
      /\ threads'[q] = NewThread(threads[i].req, "run", <<[Top(i) EXCEPT !.todo = Kids[n], !.ctx = 0]>>)
  BY SpawnThreads, Zenon
<1>2. UNCHANGED <<maps, scopes, ctxs, toRegister>> /\ Scopes' = Scopes
  BY DEF Spawn, Scopes
<1>3. Len(scopes) \in Nat /\ Len(ctxs) \in Nat /\ Len(threads) \in Nat /\ threads[i] \in Thread
      /\ threads[i].req \in Request /\ threads'[i] \in Thread
  BY <1>1, BaseFacts, ThreadFields DEF Threads
<1>4. PICK p \in Nat : p = Len(scopes)
  BY <1>3
<1>5. PICK c \in Nat : c = Len(ctxs)
  BY <1>3
<1>6. GoodThread(i, threads[i], p, c) /\ Owns(i, threads[i], ctxs)
  BY <1>4, <1>5 DEF Base, AllGood, AllOwn
<1>7. PICK rest : rest = Rest(i)
  OBVIOUS
<1>8. /\ GoodStack(rest, p, c) /\ rest # << >> /\ Len(rest) = Len(old)
      /\ \A j \in Frames(i) : rest[j].scope = old[j].scope /\ rest[j].ctx = old[j].ctx
  BY <1>1, <1>4, <1>5, <1>7, RestFacts
<1>9. threads[i].ctx = 0 /\ threads[i].uses = Unused
  BY <1>1, <1>6 DEF GoodThread, Evaluating
<1>10. GoodThread(i, threads'[i], p, c)
  BY <1>1, <1>3, <1>7, <1>8, <1>9 DEF GoodThread, Evaluating
<1>11. Owns(i, threads'[i], ctxs)
  <2>1. OwnsStack(i, old, ctxs) /\ GoodStack(old, p, c)
    BY <1>6 DEF Owns, GoodThread
  <2>2. /\ Len(rest) \in Nat
        /\ \A j \in 1 .. Len(rest) : rest[j].ctx # 0 => j \in 1 .. Len(old) /\ rest[j].ctx = old[j].ctx
        /\ \A j \in 1 .. Len(rest) : j \in 1 .. Len(old) => rest[j].scope = old[j].scope
    BY <1>8 DEF Frames, GoodStack
  <2>3. OwnsStack(i, rest, ctxs)
    BY <2>1, <2>2, OwnsKept
  <2>4. QED
    BY <1>1, <1>7, <1>9, <2>3 DEF Owns
<1>12. PICK child : child = [Top(i) EXCEPT !.todo = Kids[n], !.ctx = 0]
  OBVIOUS
<1>13. child \in Frame /\ child.scope = Here(i) /\ child.ctx = 0 /\ Here(i) \in 2 .. p
  <2>1. Top(i) \in Frame /\ Kids[n] \in Seq(Node) /\ Here(i) \in Scopes /\ Here(i) >= 2 /\ Here(i) \in Nat
    BY <1>1, TopFacts, NodeAssumption
  <2>2. QED
    <3>1. Here(i) = Top(i).scope
      BY DEF Here
    <3>2. child \in Frame /\ child.scope = Top(i).scope /\ child.ctx = 0
      BY <1>12, <2>1 DEF Frame
    <3>3. Here(i) \in 2 .. p
      BY <1>4, <2>1 DEF Scopes
    <3>4. QED
      BY <3>1, <3>2, <3>3
<1>14. PICK stack : stack = <<child>>
  OBVIOUS
<1>15. GoodStack(stack, p, c) /\ stack # << >> /\ Len(stack) = 1 /\ stack[1] = child
  BY <1>13, <1>14, GoodSingle
<1>16. PICK g : g = NewThread(threads[i].req, "run", stack)
  OBVIOUS
<1>17. /\ GoodThread(q, g, p, c) /\ g \in Thread /\ g.pc = "run" /\ g.stack = stack /\ g.ctx = 0
  <2>1. PICK r \in Request : r = threads[i].req
    BY <1>3
  <2>2. g = NewThread(r, "run", stack)
    BY <1>16, <2>1
  <2>3. GoodStack(stack, p, c) /\ stack # << >>
    BY <1>15
  <2>4. QED
    BY <2>2, <2>3, RunsOn
<1>18. threads'[q] = g
  BY <1>1, <1>12, <1>14, <1>16
<1>19. Owns(q, g, ctxs)
  <2>1. \A j \in 1 .. Len(g.stack) : g.stack[j].ctx = 0
    <3>1. g.stack = stack /\ Len(stack) = 1 /\ stack[1].ctx = 0
      BY <1>13, <1>15, <1>17
    <3>2. \A j \in 1 .. 1 : j = 1
      OBVIOUS
    <3>3. QED
      BY <3>1, <3>2
  <2>2. QED
    BY <1>17, <2>1 DEF Owns, OwnsStack
<1>20. ASSUME NEW j \in Threads' PROVE GoodThread(j, threads'[j], p, c) /\ Owns(j, threads'[j], ctxs)
  <2>1. CASE j = q
    BY <1>17, <1>18, <1>19, <2>1
  <2>2. CASE j = i
    BY <1>10, <1>11, <2>2
  <2>3. CASE j \in Threads /\ j # i
    BY <1>1, <1>4, <1>5, <2>3 DEF Base, AllGood, AllOwn
  <2>4. QED
    BY <1>1, <2>1, <2>2, <2>3
<1>21. AllGood'
  <2>1. Len(threads') >= Len(StatementsOf)
    <3>1. Len(threads) >= Len(StatementsOf) /\ Len(StatementsOf) \in Nat
      BY RequestAssumption DEF Base, AllGood
    <3>2. QED
      BY <1>1, <1>3, <3>1
  <2>2. QED
    BY <1>1, <1>2, <1>4, <1>5, <1>20, <2>1 DEF AllGood
<1>22. AllOwn'
  BY <1>2, <1>20 DEF AllOwn
<1>23. Stores'
  <2>1. \A d \in 1 .. Len(ctxs) : ctxs[d].by <= Len(threads) /\ ctxs[d].scope \in Scopes /\ ctxs[d].by \in Nat
    BY BaseFacts DEF Base, Stores
  <2>2. \A d \in 1 .. Len(ctxs) : ctxs[d].by <= Len(threads')
    BY <1>1, <1>3, <2>1
  <2>3. /\ Len(maps) \in Nat /\ Len(maps) <= Len(maps') /\ Len(scopes) <= Len(scopes')
        /\ \A s \in Scopes : scopes[s].map <= Len(maps)
    BY <1>2, BaseFacts DEF Base, Stores
  <2>4. QED
    BY <1>2, <1>3, <2>1, <2>2, <2>3, StoresGrown DEF Base, Stores
<1>24. CallersInTpl'
  <2>1. ASSUME NEW s \in Scopes, scopes[s].map \in Callers
        PROVE  \E r \in Request : /\ Data[r] = scopes[s].map /\ Entry[r] = "RenderTpl"
                                  /\ threads'[r].pc # "new"
    <3>1. PICK r \in Request : /\ Data[r] = scopes[s].map /\ Entry[r] = "RenderTpl"
                               /\ threads[r].pc # "new"
      BY <2>1 DEF Base, CallersInTpl
    <3>2. r \in Threads
      BY BaseFacts
    <3>3. threads'[r].pc # "new"
      BY <1>1, <3>1, <3>2
    <3>4. QED
      BY <3>1, <3>3
  <2>2. Callers' = Callers
    BY DEF Callers
  <2>3. QED
    BY <1>2, <2>1, <2>2 DEF CallersInTpl
<1>25. QED
  BY <1>21, <1>22, <1>23, <1>24 DEF Base

-----------------------------------------------------------------------------
(* Every step *)

LEMMA BeginGlobalBase == Base /\ BeginGlobal => Base'
<1> SUFFICES ASSUME Base, BeginGlobal PROVE Base'
  OBVIOUS
<1>1. UNCHANGED <<maps, scopes, ctxs, threads>> /\ toRegister' = [toRegister EXCEPT !.busy = TRUE]
      /\ toRegister.names # << >>
  BY DEF BeginGlobal
<1>2. toRegister' \in [names : Seq(Var), busy : BOOLEAN] /\ toRegister'.names # << >>
  BY <1>1 DEF Base, Stores
<1>3. Stores'
  BY <1>1, <1>2 DEF Base, Stores, Scopes, Prototype
<1>4. AllGood' /\ AllOwn'
  BY <1>1 DEF Base, AllGood, AllOwn, Threads
<1>5. CallersInTpl'
  BY <1>1 DEF Base, CallersInTpl, Callers, Scopes
<1>6. QED
  BY <1>3, <1>4, <1>5 DEF Base

LEMMA EndGlobalMaps ==
  ASSUME Base, EndGlobal
  PROVE  /\ maps' \in Seq([Var -> Value]) /\ Len(maps') = Len(maps)
         /\ \A m \in 1 .. Len(maps) : m # Prototype => maps'[m] = maps[m]
         /\ toRegister' \in [names : Seq(Var), busy : BOOLEAN] /\ ~ toRegister'.busy
<1>1. toRegister \in [names : Seq(Var), busy : BOOLEAN] /\ toRegister.names # << >>
  BY DEF Base, Stores, EndGlobal
<1>2. PICK names \in Seq(Var) : names = toRegister.names
  BY <1>1
<1>3. Head(names) \in Var /\ Tail(names) \in Seq(Var)
  BY <1>1, <1>2, HeadTailProperties
<1>4. toRegister' \in [names : Seq(Var), busy : BOOLEAN] /\ ~ toRegister'.busy
  BY <1>2, <1>3 DEF EndGlobal
<1>5. 1 \in 1 .. Len(maps) /\ maps \in Seq([Var -> Value]) /\ maps[1] \in [Var -> Value]
  BY BaseFacts DEF Base, Stores
<1>6. PICK new : new = [maps[1] EXCEPT ![Head(names)] = Outside]
  OBVIOUS
<1>7. new \in [Var -> Value]
  BY <1>3, <1>5, <1>6 DEF Value
<1>8. maps' = [maps EXCEPT ![1] = new]
  BY <1>2, <1>6 DEF EndGlobal, Prototype
<1>9. QED
  BY <1>4, <1>5, <1>7, <1>8, ExceptSeq DEF Prototype

LEMMA EndGlobalBase == Base /\ EndGlobal => Base'
<1> SUFFICES ASSUME Base, EndGlobal PROVE Base'
  OBVIOUS
<1>1. UNCHANGED <<scopes, ctxs, threads>>
  BY DEF EndGlobal
<1>2. Stores'
  BY <1>1, EndGlobalMaps DEF Base, Stores, Scopes, Prototype
<1>3. AllGood' /\ AllOwn'
  BY <1>1 DEF Base, AllGood, AllOwn, Threads
<1>4. CallersInTpl'
  BY <1>1 DEF Base, CallersInTpl, Callers, Scopes
<1>5. QED
  BY <1>2, <1>3, <1>4 DEF Base

LEMMA StutterBase == Base /\ UNCHANGED vars => Base'
<1> SUFFICES ASSUME Base, UNCHANGED vars PROVE Base'
  OBVIOUS
<1>1. UNCHANGED <<maps, scopes, ctxs, threads, toRegister>>
  BY DEF vars
<1>2. Stores'
  BY <1>1 DEF Base, Stores, Scopes, Prototype
<1>3. AllGood' /\ AllOwn'
  BY <1>1 DEF Base, AllGood, AllOwn, Threads
<1>4. CallersInTpl'
  BY <1>1 DEF Base, CallersInTpl, Callers, Scopes
<1>5. QED
  BY <1>2, <1>3, <1>4 DEF Base

LEMMA NextBase == Base /\ [Next]_vars => Base'
<1> SUFFICES ASSUME Base, [Next]_vars PROVE Base'
  OBVIOUS
<1>1. DOMAIN threads = Threads
  BY BaseFacts
<1>2. CASE UNCHANGED vars
  BY <1>2, StutterBase
<1>3. CASE BeginGlobal
  BY <1>3, BeginGlobalBase
<1>4. CASE EndGlobal
  BY <1>4, EndGlobalBase
<1>5. CASE Ended
  BY <1>5, StutterBase DEF Ended
<1>6. ASSUME NEW i \in Threads,
             \/ Begin(i) \/ EnterTpl(i) \/ EnterComponent(i)
             \/ BeginLook(i) \/ EndLook(i) \/ BeginSet(i) \/ EndSet(i) \/ Return(i)
      PROVE  Base'
  BY <1>6, BeginBase, EnterTplBase, EnterComponentBase, BeginLookBase, EndLookBase,
     BeginSetBase, EndSetBase, ReturnBase
<1>7. ASSUME NEW i \in Threads, NEW n \in Node,
             Open(i, n) \/ Write(i, n) \/ For(i, n) \/ Call(i, n) \/ CallBare(i, n)
             \/ Spawn(i, n)
      PROVE  Base'
  BY <1>7, OpenBase, WriteBase, ForBase, CallBase, CallBareBase, SpawnBase
<1>8. QED
  BY <1>1, <1>2, <1>3, <1>4, <1>5, <1>6, <1>7 DEF Next

LEMMA Invariance == Spec => []Base
<1>1. Init => Base
  BY InitBase
<1>2. Base /\ [Next]_vars => Base'
  BY NextBase
<1>3. QED
  BY <1>1, <1>2, PTL DEF Spec

\* A goroutine, its frames and its expressions refer to scopes, maps and contexts that
\* are there, and a goroutine has a context of the pool from when it opens an expression
\* (statement.go:1293) until the value is used.
THEOREM TypeCorrect == Spec => []TypeOK
<1>1. Base => TypeOK
  BY BaseImpliesTypes
<1>2. QED
  BY <1>1, Invariance, PTL

\* ctxPool: a RenderCtx (statement.go:1293) belongs to one goroutine, and to one of its
\* expressions or component calls, until it is put back; it carries the scope of that.
THEOREM PoolIsOwned == Spec => []OwnContext
<1>1. Base => OwnContext
  BY BaseImpliesTypes
<1>2. QED
  BY <1>1, Invariance, PTL

-----------------------------------------------------------------------------
(* The Props of a caller *)

LEMMA IntactStep ==
  ASSUME Base, [Next]_vars, NEW m \in Callers,
         \A r \in Request : Data[r] = m => Entry[r] = "RenderComponent"
  PROVE  maps'[m] = maps[m]
<1>1. m \in 2 .. Len(maps) /\ m \in 1 .. Len(maps) /\ m # Prototype /\ Len(maps) \in Nat
      /\ DOMAIN threads = Threads /\ maps \in Seq([Var -> Value])
  BY CallersOld, BaseFacts DEF Prototype, Base, Stores
<1>2. \A s \in Scopes : scopes[s].map # m
  BY DEF Base, CallersInTpl
<1>3. CASE UNCHANGED maps
  BY <1>3
<1>4. CASE EndGlobal
  BY <1>1, <1>4, EndGlobalMaps
<1>5. ASSUME NEW i \in Threads, EnterTpl(i) PROVE maps'[m] = maps[m]
  <2>1. threads[i].req \in Request /\ Entry[threads[i].req] = "RenderTpl"
    BY <1>5, BaseFacts, ThreadFields DEF EnterTpl
  <2>2. Data[threads[i].req] # m
    BY <2>1
  <2>3. QED
    BY <1>1, <1>5, <2>2 DEF EnterTpl
<1>6. ASSUME NEW i \in Threads, EnterComponent(i) PROVE maps'[m] = maps[m]
  <2>1. threads[i].req \in Request
    BY BaseFacts, ThreadFields
  <2>2. PICK data : data = WithProps(maps[Data[threads[i].req]])
    OBVIOUS
  <2>3. data \in [Var -> Value] /\ maps' = Append(maps, data)
    BY <1>6, <2>1, <2>2, PropsOf DEF EnterComponent
  <2>4. QED
    BY <1>1, <2>3, AppendProperties
<1>7. ASSUME NEW i \in Threads, EndSet(i) PROVE maps'[m] = maps[m]
  <2>1. Here(i) \in Scopes
    BY <1>7, EvaluatingFacts, TopFacts DEF EndSet, Evaluating
  <2>2. scopes[Here(i)].map # m
    BY <1>2, <2>1
  <2>3. QED
    BY <1>1, <1>7, <2>2, EndSetStores
<1>8. ASSUME NEW i \in Threads, NEW n \in Node, For(i, n) PROVE maps'[m] = maps[m]
  <2>1. PICK k \in 0 .. MaxRounds :
          maps' = maps \o [j \in 1 .. k |-> [NoVars EXCEPT ![As[n]] = threads[i].val]]
    BY <1>8 DEF For
  <2>2. PICK item : item = [NoVars EXCEPT ![As[n]] = threads[i].val]
    OBVIOUS
  <2>3. threads[i].val \in Value /\ As[n] \in Var /\ k \in Nat
    BY BaseFacts, ThreadFields, NodeAssumption
  <2>4. item \in [Var -> Value]
    BY <2>2, <2>3 DEF NoVars, Value
  <2>5. PICK ms : ms = [j \in 1 .. k |-> item]
    OBVIOUS
  <2>6. ms \in Seq([Var -> Value]) /\ Len(ms) = k
    BY <2>3, <2>4, <2>5, Row
  <2>7. maps' = maps \o ms
    BY <2>1, <2>2, <2>5
  <2>8. QED
    BY <1>1, <2>3, <2>6, <2>7, ConcatProperties
<1>9. ASSUME NEW i \in Threads, NEW n \in Node, Call(i, n) PROVE maps'[m] = maps[m]
  <2>1. PICK props : maps' = Append(maps, props)
    BY <1>9 DEF Call
  <2>2. QED
    BY <1>1, <2>1
<1>10. ASSUME NEW i \in Threads,
              \/ Begin(i) \/ BeginLook(i) \/ EndLook(i) \/ BeginSet(i) \/ Return(i)
       PROVE  UNCHANGED maps
  BY <1>10 DEF Begin, BeginLook, EndLook, BeginSet, Return
<1>11. ASSUME NEW i \in Threads, NEW n \in Node, Open(i, n) \/ Write(i, n) \/ CallBare(i, n) \/ Spawn(i, n)
       PROVE  UNCHANGED maps
  BY <1>11 DEF Open, Write, CallBare, Spawn
<1>12. CASE UNCHANGED vars \/ BeginGlobal \/ Ended
  BY <1>12 DEF vars, BeginGlobal, Ended
<1>13. QED
  BY <1>1, <1>3, <1>4, <1>5, <1>6, <1>7, <1>8, <1>9, <1>10, <1>11, <1>12 DEF Next

\* RenderComponent (vpl.go:304) copies the map of its caller and never writes it: nothing
\* that the templates and directives of any number of requests set is in it.
THEOREM CallersUnchanged == Spec => []CallerDataIntact
<1>1. Init => CallerDataIntact
  <2>1. \A m \in Callers : m \in DOMAIN Given
    BY DataAssumption DEF Callers
  <2>2. QED
    BY <2>1 DEF Init, CallerDataIntact
<1>2. CallerDataIntact /\ Base /\ [Next]_vars => CallerDataIntact'
  <2> SUFFICES ASSUME CallerDataIntact, Base, [Next]_vars PROVE CallerDataIntact'
    OBVIOUS
  <2>1. ASSUME NEW m \in Callers, \A r \in Request : Data[r] = m => Entry[r] = "RenderComponent"
        PROVE  maps'[m] = Given[m]
    <3>1. maps[m] = Given[m]
      BY <2>1 DEF CallerDataIntact
    <3>2. QED
      BY <2>1, <3>1, IntactStep
  <2>2. Callers' = Callers
    BY DEF Callers
  <2>3. QED
    BY <2>1, <2>2 DEF CallerDataIntact
<1>3. QED
  BY <1>1, <1>2, Invariance, PTL DEF Spec

-----------------------------------------------------------------------------
(* What holds for the use that is meant: Late is FALSE, OwnProps,          *)
(* SetsBeforeParallel.                                                     *)

\* The scopes that GetDeep searches from s: the least set that has s and is closed
\* under Parent.
Closed(sc, C) == \A c \in C : sc[c].up \in C \cup {0}
Chain(sc, s) ==
  {t \in 1 .. Len(sc) :
     \A C \in SUBSET (1 .. Len(sc)) : s \in C /\ Closed(sc, C) => t \in C}

Linked(sc) ==
  /\ sc \in Seq([up : Nat, map : Nat]) /\ Len(sc) >= 1
  /\ sc[1].up = 0
  /\ \A s \in 1 .. Len(sc) : s # 1 => sc[s].up \in 1 .. s - 1

LEMMA LinkedUp ==
  ASSUME NEW sc, Linked(sc), NEW s \in 1 .. Len(sc), sc[s].up # 0
  PROVE  sc[s].up \in 1 .. Len(sc) /\ sc[s].up < s /\ s # 1
<1>1. s # 1
  BY DEF Linked
<1>2. sc[s].up \in 1 .. s - 1
  BY <1>1 DEF Linked
<1>3. PICK n \in Nat : n = Len(sc)
  BY DEF Linked
<1>4. QED
  BY <1>1, <1>2, <1>3

LEMMA ChainIn ==
  ASSUME NEW sc, NEW s, NEW C \in SUBSET (1 .. Len(sc)), s \in C, Closed(sc, C)
  PROVE  Chain(sc, s) \subseteq C
BY DEF Chain

LEMMA ChainSelf ==
  ASSUME NEW sc, NEW s \in 1 .. Len(sc)
  PROVE  s \in Chain(sc, s)
BY DEF Chain

LEMMA ChainUp ==
  ASSUME NEW sc, Linked(sc), NEW s, NEW t \in Chain(sc, s), sc[t].up # 0
  PROVE  sc[t].up \in Chain(sc, s)
<1>1. t \in 1 .. Len(sc)
  BY DEF Chain
<1>2. sc[t].up \in 1 .. Len(sc)
  BY <1>1, LinkedUp
<1>3. ASSUME NEW C \in SUBSET (1 .. Len(sc)), s \in C, Closed(sc, C) PROVE sc[t].up \in C
  <2>1. t \in C
    BY <1>3 DEF Chain
  <2>2. QED
    BY <1>3, <2>1 DEF Closed
<1>4. QED
  BY <1>2, <1>3 DEF Chain

LEMMA ChainStep ==
  ASSUME NEW sc, Linked(sc), NEW s \in 1 .. Len(sc), NEW t \in Chain(sc, s), t # s
  PROVE  sc[s].up # 0 /\ t \in Chain(sc, sc[s].up)
<1>1. CASE sc[s].up = 0
  <2>1. {s} \in SUBSET (1 .. Len(sc)) /\ s \in {s} /\ Closed(sc, {s})
    BY <1>1 DEF Closed
  <2>2. QED
    BY <2>1, ChainIn
<1>2. CASE sc[s].up # 0
  <2>1. PICK C : C = {s} \cup Chain(sc, sc[s].up)
    OBVIOUS
  <2>2. sc[s].up \in 1 .. Len(sc)
    BY <1>2, LinkedUp
  <2>3. C \in SUBSET (1 .. Len(sc)) /\ s \in C
    BY <2>1 DEF Chain
  <2>4. sc[s].up \in Chain(sc, sc[s].up)
    BY <2>2, ChainSelf
  <2>5. \A c \in Chain(sc, sc[s].up) : sc[c].up \in Chain(sc, sc[s].up) \cup {0}
    BY ChainUp
  <2>6. Closed(sc, C)
    BY <2>1, <2>4, <2>5 DEF Closed
  <2>7. t \in C
    BY <2>3, <2>6, ChainIn
  <2>8. QED
    BY <1>2, <2>1, <2>7
<1>3. QED
  BY <1>1, <1>2

LEMMA ChainLe ==
  ASSUME NEW sc, Linked(sc), NEW s \in 1 .. Len(sc), NEW t \in Chain(sc, s)
  PROVE  t \in 1 .. Len(sc) /\ t <= s
<1>1. PICK n \in Nat : n = Len(sc)
  BY DEF Linked
<1>2. PICK C : C = 1 .. s
  OBVIOUS
<1>3. C \in SUBSET (1 .. Len(sc)) /\ s \in C
  BY <1>1, <1>2
<1>4. ASSUME NEW c \in C PROVE sc[c].up \in C \cup {0}
  <2>1. c \in 1 .. Len(sc)
    BY <1>3
  <2>2. CASE sc[c].up = 0
    BY <2>2
  <2>3. CASE sc[c].up # 0
    <3>1. sc[c].up \in 1 .. n /\ sc[c].up < c
      BY <1>1, <2>1, <2>3, LinkedUp
    <3>2. QED
      BY <1>1, <1>2, <3>1
  <2>4. QED
    BY <2>2, <2>3
<1>5. t \in C
  BY <1>3, <1>4, ChainIn DEF Closed
<1>6. QED
  BY <1>2, <1>3, <1>5

LEMMA ChainTrans ==
  ASSUME NEW sc, NEW s, NEW t \in Chain(sc, s), NEW u \in Chain(sc, t)
  PROVE  u \in Chain(sc, s)
BY DEF Chain

\* Two scopes that are searched from a third one: one is searched from the other.
LEMMA ChainLinear ==
  ASSUME NEW sc, Linked(sc), NEW s \in 1 .. Len(sc), NEW t \in Chain(sc, s), NEW u \in Chain(sc, s)
  PROVE  u \in Chain(sc, t) \/ t \in Chain(sc, u)
<1>1. PICK C : C = {c \in 1 .. Len(sc) : c \in Chain(sc, t) \/ t \in Chain(sc, c)}
  OBVIOUS
<1>2. C \in SUBSET (1 .. Len(sc)) /\ s \in C
  BY <1>1
<1>3. ASSUME NEW c \in C, sc[c].up # 0 PROVE sc[c].up \in C
  <2>1. c \in 1 .. Len(sc) /\ sc[c].up \in 1 .. Len(sc)
    BY <1>1, <1>3, LinkedUp
  <2>2. CASE c \in Chain(sc, t)
    BY <1>1, <1>3, <2>1, <2>2, ChainUp
  <2>3. CASE c \notin Chain(sc, t)
    <3>1. t \in Chain(sc, c)
      BY <1>1, <2>3
    <3>2. t # c
      BY <2>1, <2>3, ChainSelf
    <3>3. t \in Chain(sc, sc[c].up)
      BY <2>1, <3>1, <3>2, ChainStep
    <3>4. QED
      BY <1>1, <2>1, <3>3
  <2>4. QED
    BY <2>2, <2>3
<1>4. Closed(sc, C)
  BY <1>3 DEF Closed
<1>5. u \in C
  BY <1>2, <1>4, ChainIn
<1>6. QED
  BY <1>1, <1>5

\* More scopes, and the parents of those that were there as they were.
Extends(sc, more) ==
  /\ Linked(sc) /\ Linked(more) /\ Len(sc) <= Len(more)
  /\ \A s \in 1 .. Len(sc) : more[s].up = sc[s].up

LEMMA ExtendsLen ==
  ASSUME NEW sc, NEW more, Extends(sc, more)
  PROVE  /\ 1 .. Len(sc) \subseteq 1 .. Len(more) /\ Len(sc) \in Nat /\ Len(more) \in Nat
         /\ 1 \in 1 .. Len(sc)
<1>1. PICK n \in Nat : n = Len(sc)
  BY DEF Extends, Linked
<1>2. PICK m \in Nat : m = Len(more)
  BY DEF Extends, Linked
<1>3. n <= m /\ n >= 1
  BY <1>1, <1>2 DEF Extends, Linked
<1>4. QED
  BY <1>1, <1>2, <1>3

LEMMA ChainKept ==
  ASSUME NEW sc, NEW more, Extends(sc, more), NEW s \in 1 .. Len(sc)
  PROVE  Chain(more, s) = Chain(sc, s)
<1>1. 1 .. Len(sc) \subseteq 1 .. Len(more)
  BY ExtendsLen
<1>2. ASSUME NEW C \in SUBSET (1 .. Len(sc))
      PROVE  Closed(sc, C) <=> Closed(more, C)
  BY DEF Closed, Extends
<1>3. Chain(more, s) \subseteq Chain(sc, s)
  <2>1. ASSUME NEW t \in Chain(more, s), NEW C \in SUBSET (1 .. Len(sc)), s \in C, Closed(sc, C)
        PROVE  t \in C
    BY <1>1, <1>2, <2>1, ChainIn
  <2>2. Closed(sc, 1 .. Len(sc))
    BY LinkedUp DEF Closed, Extends
  <2>3. \A t \in Chain(more, s) : t \in 1 .. Len(sc)
    BY <2>1, <2>2
  <2>4. QED
    BY <2>1, <2>3 DEF Chain
<1>4. Chain(sc, s) \subseteq Chain(more, s)
  <2>1. ASSUME NEW t \in Chain(sc, s), NEW C \in SUBSET (1 .. Len(more)), s \in C, Closed(more, C)
        PROVE  t \in C
    <3>1. PICK D : D = C \cap (1 .. Len(sc))
      OBVIOUS
    <3>2. D \in SUBSET (1 .. Len(sc)) /\ s \in D
      BY <2>1, <3>1
    <3>3. ASSUME NEW c \in D PROVE sc[c].up \in D \cup {0}
      <4>1. c \in C /\ c \in 1 .. Len(sc) /\ more[c].up = sc[c].up
        BY <3>1 DEF Extends
      <4>2. sc[c].up \in C \cup {0}
        BY <2>1, <4>1 DEF Closed
      <4>3. sc[c].up # 0 => sc[c].up \in 1 .. Len(sc)
        BY <4>1, LinkedUp DEF Extends
      <4>4. QED
        BY <3>1, <4>2, <4>3
    <3>4. t \in D
      BY <3>2, <3>3, ChainIn DEF Closed
    <3>5. QED
      BY <3>1, <3>4
  <2>2. QED
    BY <1>1, <2>1 DEF Chain
<1>5. QED
  BY <1>3, <1>4

LEMMA ChainRoot ==
  ASSUME NEW sc, Linked(sc)
  PROVE  Chain(sc, 1) = {1}
<1>1. 1 \in 1 .. Len(sc) /\ sc[1].up = 0
  BY DEF Linked
<1>2. \A t \in Chain(sc, 1) : t = 1
  BY <1>1, ChainStep
<1>3. QED
  BY <1>1, <1>2, ChainSelf

\* The chain of a new scope.
LEMMA ChainNew ==
  ASSUME NEW sc, NEW more, Extends(sc, more), NEW s \in 1 .. Len(more), s \notin 1 .. Len(sc),
         NEW up \in 1 .. Len(sc), more[s].up = up
  PROVE  Chain(more, s) = {s} \cup Chain(sc, up)
<1>1. Linked(more) /\ up # 0
  BY ExtendsLen DEF Extends
<1>2. Chain(more, up) = Chain(sc, up)
  BY ChainKept
<1>3. Chain(more, s) \subseteq {s} \cup Chain(sc, up)
  BY <1>1, <1>2, ChainStep
<1>4. s \in Chain(more, s)
  BY ChainSelf
<1>5. up \in Chain(more, s)
  BY <1>1, <1>4, ChainUp
<1>6. Chain(more, up) \subseteq Chain(more, s)
  BY <1>5, ChainTrans
<1>7. QED
  BY <1>2, <1>3, <1>4, <1>6

\* Scope s is put above scope up of those there were.
Above(sc, more, s, up) ==
  /\ Extends(sc, more) /\ up \in 1 .. Len(sc)
  /\ s \in 1 .. Len(more) /\ s \notin 1 .. Len(sc) /\ more[s].up = up

\* Then its chain is that scope and the chain below.
LEMMA NewAbove ==
  \A sc, more, s, up : Above(sc, more, s, up) => Chain(more, s) = {s} \cup Chain(sc, up)
BY ChainNew DEF Above

\* What a statement list still does.
HasSet(todo) == \E x \in 1 .. Len(todo) : Kind[todo[x]] = "set"
Forks(todo) == \E x \in 1 .. Len(todo) : todo[x] \in Forking
InOrder(todo) ==
  \A x, y \in 1 .. Len(todo) : Kind[todo[x]] = "set" /\ todo[y] \in Forking => x < y

\* Scopes have maps of their own.
Separate(sc) ==
  \A s, t \in 1 .. Len(sc) : s # t /\ sc[s].map # 0 => sc[s].map # sc[t].map

HeldIn(ms, sc, s, x) == IF sc[s].map = 0 THEN Nil ELSE ms[sc[s].map][x]

\* Where the frames of p will set a variable, those of q do not search.
Apart(sc, p, q) ==
  \A a \in 1 .. Len(p), b \in 1 .. Len(q) :
    HasSet(p[a].todo) => p[a].scope \notin Chain(sc, q[b].scope)

\* Where a frame will set a variable, it does so before goroutines start that search.
SetsFirst(sc, stack) ==
  \A a, b \in 1 .. Len(stack) :
    /\ InOrder(stack[a].todo)
    /\ /\ stack[a].scope \in Chain(sc, stack[b].scope)
       /\ HasSet(stack[a].todo) /\ Forks(stack[b].todo)
       => a = b

\* The first scope searched from s that has x, or else the last one, holds what env says.
SeesFrom(ms, sc, s, env) ==
  \A x \in Var : \A t \in Chain(sc, s) :
    /\ \A u \in Chain(sc, s) : u > t => HeldIn(ms, sc, u, x) = Nil
    /\ HeldIn(ms, sc, t, x) # Nil \/ sc[t].up = 0
    => env[x] = HeldIn(ms, sc, t, x)

StackSees(ms, sc, stack) ==
  \A a \in 1 .. Len(stack) : SeesFrom(ms, sc, stack[a].scope, stack[a].env)

Highest(stack) == stack[Len(stack)]
Reading(t) == Name[Head(Highest(t.stack).todo)]

UsingIn(sc, s, mode) == [scope |-> s, map |-> sc[s].map, mode |-> mode]

\* The maps in use are those of the scopes in use.
UsesNow(sc, t) ==
  \/ t.uses = Unused
  \/ t.pc = "new" /\ t.uses = [scope |-> 0, map |-> Data[t.req],
                               mode |-> IF Entry[t.req] = "RenderTpl" THEN "w" ELSE "r"]
  \/ t.pc = "eval" /\ t.uses = UsingIn(sc, t.look, "r")
  \/ t.pc = "set" /\ t.uses = UsingIn(sc, Highest(t.stack).scope, "w")

\* GetDeep has not found the variable in the scopes it has been to.
Walked(ms, sc, t) ==
  t.pc = "eval" =>
    /\ t.look \in Chain(sc, Highest(t.stack).scope)
    /\ \A u \in Chain(sc, Highest(t.stack).scope) : u > t.look => HeldIn(ms, sc, u, Reading(t)) = Nil

ReadsRight(t) == t.pc = "read" => t.val = Read(Highest(t.stack).env[Reading(t)])

GoodUse(ms, sc, t) ==
  /\ UsesNow(sc, t) /\ Walked(ms, sc, t) /\ ReadsRight(t)
  /\ SetsFirst(sc, t.stack) /\ StackSees(ms, sc, t.stack)

AllApart == \A i, j \in Threads : i # j => Apart(scopes, threads[i].stack, threads[j].stack)
AllGoodUse == \A i \in Threads : GoodUse(maps, scopes, threads[i])

GlobalFirst ==
  toRegister.names # << >> =>
    \A i \in Threads : threads[i].pc = "new" /\ threads[i].uses = Unused

Discipline == Separate(scopes) /\ AllApart /\ AllGoodUse /\ GlobalFirst

\* The scope s is as it was.
SameAt(ms, sc, ms2, sc2, s) ==
  /\ sc2[s].map = sc[s].map
  /\ sc[s].map # 0 => ms2[sc[s].map] = ms[sc[s].map]

LEMMA HeldSame ==
  ASSUME NEW ms, NEW sc, NEW ms2, NEW sc2, NEW s, SameAt(ms, sc, ms2, sc2, s), NEW x
  PROVE  HeldIn(ms2, sc2, s, x) = HeldIn(ms, sc, s, x)
BY DEF SameAt, HeldIn

LEMMA SeesKept ==
  ASSUME NEW ms, NEW sc, NEW ms2, NEW sc2, Extends(sc, sc2), NEW s \in 1 .. Len(sc),
         NEW env, SeesFrom(ms, sc, s, env),
         \A u \in Chain(sc, s) : SameAt(ms, sc, ms2, sc2, u)
  PROVE  SeesFrom(ms2, sc2, s, env)
<1>1. PICK ch : ch = Chain(sc, s) /\ ch = Chain(sc2, s)
  BY ChainKept
<1>2. \A u \in ch : u \in 1 .. Len(sc) /\ sc2[u].up = sc[u].up
  BY <1>1 DEF Chain, Extends
<1>3. \A u \in ch : \A x \in Var : HeldIn(ms2, sc2, u, x) = HeldIn(ms, sc, u, x)
  BY <1>1, HeldSame
<1>4. ASSUME NEW x \in Var, NEW t \in ch,
             \A u \in ch : u > t => HeldIn(ms2, sc2, u, x) = Nil,
             HeldIn(ms2, sc2, t, x) # Nil \/ sc2[t].up = 0
      PROVE  env[x] = HeldIn(ms2, sc2, t, x)
  <2>1. \A u \in ch : u > t => HeldIn(ms, sc, u, x) = Nil
    BY <1>3, <1>4
  <2>2. HeldIn(ms, sc, t, x) # Nil \/ sc[t].up = 0
    BY <1>2, <1>3, <1>4
  <2>3. env[x] = HeldIn(ms, sc, t, x)
    BY <1>1, <2>1, <2>2 DEF SeesFrom
  <2>4. QED
    BY <1>3, <2>3
<1>5. QED
  BY <1>1, <1>4 DEF SeesFrom

LEMMA SetsFirstKept ==
  ASSUME NEW sc, NEW sc2, Extends(sc, sc2), NEW stack, NEW c, GoodStack(stack, Len(sc), c),
         SetsFirst(sc, stack)
  PROVE  SetsFirst(sc2, stack)
<1>1. \A b \in 1 .. Len(stack) : stack[b].scope \in 1 .. Len(sc)
  BY ExtendsLen DEF GoodStack
<1>2. \A b \in 1 .. Len(stack) : Chain(sc2, stack[b].scope) = Chain(sc, stack[b].scope)
  BY <1>1, ChainKept
<1>3. QED
  BY <1>2 DEF SetsFirst

\* A goroutine whose scopes are as they were.
LEMMA Unaffected ==
  ASSUME NEW ms, NEW sc, NEW ms2, NEW sc2, Extends(sc, sc2),
         NEW i, NEW t, NEW c, GoodThread(i, t, Len(sc), c), GoodUse(ms, sc, t),
         \A b \in 1 .. Len(t.stack) : \A s \in Chain(sc, t.stack[b].scope) : SameAt(ms, sc, ms2, sc2, s)
  PROVE  GoodUse(ms2, sc2, t)
<1>1. GoodStack(t.stack, Len(sc), c)
  BY DEF GoodThread
<1>2. \A b \in 1 .. Len(t.stack) : t.stack[b].scope \in 1 .. Len(sc)
  BY <1>1, ExtendsLen DEF GoodStack
<1>3. SetsFirst(sc2, t.stack)
  BY <1>1, SetsFirstKept DEF GoodUse
<1>4. StackSees(ms2, sc2, t.stack)
  <2>1. ASSUME NEW a \in 1 .. Len(t.stack)
        PROVE  SeesFrom(ms2, sc2, t.stack[a].scope, t.stack[a].env)
    <3>1. SeesFrom(ms, sc, t.stack[a].scope, t.stack[a].env)
      BY DEF GoodUse, StackSees
    <3>2. QED
      BY <1>2, <3>1, SeesKept
  <2>2. QED
    BY <2>1 DEF StackSees
<1>5. t.pc \in {"eval", "set"} => Len(t.stack) \in 1 .. Len(t.stack)
  <2>1. t.stack \in Seq(Frame) /\ (t.pc \in {"eval", "set"} => t.stack # << >>)
    BY <1>1 DEF GoodThread, GoodStack
  <2>2. QED
    BY <2>1
<1>6. Walked(ms2, sc2, t)
  <2>1. ASSUME t.pc = "eval"
        PROVE  /\ t.look \in Chain(sc2, Highest(t.stack).scope)
               /\ \A u \in Chain(sc2, Highest(t.stack).scope) :
                    u > t.look => HeldIn(ms2, sc2, u, Reading(t)) = Nil
    <3>1. PICK s : s = Highest(t.stack).scope
      OBVIOUS
    <3>2. s \in 1 .. Len(sc) /\ \A u \in Chain(sc, s) : SameAt(ms, sc, ms2, sc2, u)
      BY <1>2, <1>5, <2>1, <3>1 DEF Highest
    <3>3. Chain(sc2, s) = Chain(sc, s)
      BY <3>2, ChainKept
    <3>4. t.look \in Chain(sc, s) /\ \A u \in Chain(sc, s) : u > t.look => HeldIn(ms, sc, u, Reading(t)) = Nil
      BY <2>1, <3>1 DEF GoodUse, Walked
    <3>5. \A u \in Chain(sc, s) : HeldIn(ms2, sc2, u, Reading(t)) = HeldIn(ms, sc, u, Reading(t))
      BY <3>2, HeldSame
    <3>6. QED
      BY <3>1, <3>3, <3>4, <3>5
  <2>2. QED
    BY <2>1 DEF Walked
<1>7. UsesNow(sc2, t)
  <2>1. CASE t.pc = "eval"
    <3>1. t.look \in Chain(sc, Highest(t.stack).scope)
      BY <2>1 DEF GoodUse, Walked
    <3>2. sc2[t.look].map = sc[t.look].map
      BY <1>5, <2>1, <3>1 DEF Highest, SameAt
    <3>3. QED
      BY <2>1, <3>2 DEF GoodUse, UsesNow, UsingIn
  <2>2. CASE t.pc = "set"
    <3>1. PICK s : s = Highest(t.stack).scope
      OBVIOUS
    <3>2. s \in Chain(sc, s)
      BY <1>2, <1>5, <2>2, <3>1, ChainSelf DEF Highest
    <3>3. sc2[s].map = sc[s].map
      BY <1>5, <2>2, <3>1, <3>2 DEF Highest, SameAt
    <3>4. QED
      BY <2>2, <3>1, <3>3 DEF GoodUse, UsesNow, UsingIn
  <2>3. CASE t.pc \notin {"eval", "set"}
    BY <2>3 DEF GoodUse, UsesNow
  <2>4. QED
    BY <2>1, <2>2, <2>3
<1>8. QED
  BY <1>3, <1>4, <1>6, <1>7 DEF GoodUse

\* The frames of a goroutine after a step: each does less of what it did, or it is of a
\* new scope, behind which are the prototype or the scopes of the old top.
Follows(sc, sc2, old, new) ==
  \A b \in 1 .. Len(new) :
    \/ /\ b \in 1 .. Len(old) /\ new[b].scope = old[b].scope
       /\ HasSet(new[b].todo) => HasSet(old[b].todo)
    \/ /\ new[b].scope \in 1 .. Len(sc2) /\ new[b].scope \notin 1 .. Len(sc)
       /\ \A t \in Chain(sc2, new[b].scope) :
            \/ t = new[b].scope \/ t = 1
            \/ Len(old) \in 1 .. Len(old) /\ t \in Chain(sc, old[Len(old)].scope)

LEMMA ApartFollows ==
  ASSUME NEW sc, NEW sc2, Extends(sc, sc2), NEW c, NEW old, NEW new, NEW other,
         GoodStack(old, Len(sc), c), GoodStack(other, Len(sc), c), Follows(sc, sc2, old, new),
         Apart(sc, old, other), Apart(sc, other, old)
  PROVE  Apart(sc2, new, other) /\ Apart(sc2, other, new)
<1>1. /\ \A b \in 1 .. Len(old) : old[b].scope \in 1 .. Len(sc)
      /\ \A b \in 1 .. Len(other) : other[b].scope \in 1 .. Len(sc) /\ other[b].scope # 1
  BY ExtendsLen DEF GoodStack
<1>2. ASSUME NEW a \in 1 .. Len(new), NEW b \in 1 .. Len(other), HasSet(new[a].todo)
      PROVE  new[a].scope \notin Chain(sc2, other[b].scope)
  <2>1. Chain(sc2, other[b].scope) = Chain(sc, other[b].scope)
    BY <1>1, ChainKept
  <2>2. CASE /\ a \in 1 .. Len(old) /\ new[a].scope = old[a].scope
             /\ HasSet(new[a].todo) => HasSet(old[a].todo)
    BY <1>2, <2>1, <2>2 DEF Apart
  <2>3. CASE new[a].scope \notin 1 .. Len(sc)
    BY <2>1, <2>3 DEF Chain
  <2>4. QED
    BY <2>2, <2>3 DEF Follows
<1>3. ASSUME NEW a \in 1 .. Len(other), NEW b \in 1 .. Len(new), HasSet(other[a].todo)
      PROVE  other[a].scope \notin Chain(sc2, new[b].scope)
  <2>1. CASE b \in 1 .. Len(old) /\ new[b].scope = old[b].scope
    <3>1. Chain(sc2, new[b].scope) = Chain(sc, old[b].scope)
      BY <1>1, <2>1, ChainKept
    <3>2. QED
      BY <1>3, <2>1, <3>1 DEF Apart
  <2>2. CASE /\ new[b].scope \notin 1 .. Len(sc)
             /\ \A t \in Chain(sc2, new[b].scope) :
                  \/ t = new[b].scope \/ t = 1
                  \/ Len(old) \in 1 .. Len(old) /\ t \in Chain(sc, old[Len(old)].scope)
    <3>1. Len(old) \in 1 .. Len(old) => other[a].scope \notin Chain(sc, old[Len(old)].scope)
      BY <1>3 DEF Apart
    <3>2. QED
      BY <1>1, <2>2, <3>1
  <2>3. QED
    BY <2>1, <2>2 DEF Follows
<1>4. QED
  BY <1>2, <1>3 DEF Apart

LEMMA BaseLinked == Base => Linked(scopes)
BY DEF Base, Stores, Linked, Scopes

LEMMA NextLinked == Base' => Linked(scopes')
BY DEF Base, Stores, Linked, Scopes

\* A step of the goroutine i, which becomes f.
LEMMA StepUse ==
  ASSUME Base, Discipline, NEW i \in Threads, NEW f \in Thread, SetTo(i, f),
         Extends(scopes, scopes'), Separate(scopes'),
         Follows(scopes, scopes', threads[i].stack, f.stack),
         GoodUse(maps', scopes', f),
         \A j \in Threads : j # i => \A b \in Frames(j) : \A s \in Chain(scopes, threads[j].stack[b].scope) :
           SameAt(maps, scopes, maps', scopes', s),
         toRegister.names = << >>, UNCHANGED toRegister
  PROVE  Discipline'
<1>1. /\ Threads' = Threads /\ threads'[i] = f
      /\ \A j \in Threads : j # i => threads'[j] = threads[j]
  BY SetToLen
<1>2. \A j \in Threads : /\ GoodThread(j, threads[j], Len(scopes), Len(ctxs))
                         /\ GoodStack(threads[j].stack, Len(scopes), Len(ctxs))
  BY DEF Base, AllGood, GoodThread
<1>3. ASSUME NEW j \in Threads PROVE GoodUse(maps', scopes', threads'[j])
  <2>1. CASE j = i
    BY <1>1, <2>1
  <2>2. CASE j # i
    <3>1. GoodUse(maps, scopes, threads[j])
      BY DEF Discipline, AllGoodUse
    <3>2. \A b \in 1 .. Len(threads[j].stack) : \A s \in Chain(scopes, threads[j].stack[b].scope) :
            SameAt(maps, scopes, maps', scopes', s)
      BY <2>2 DEF Frames
    <3>3. GoodUse(maps', scopes', threads[j])
      BY <1>2, <3>1, <3>2, Unaffected
    <3>4. QED
      BY <1>1, <2>2, <3>3
  <2>3. QED
    BY <2>1, <2>2
<1>4. ASSUME NEW j \in Threads, NEW k \in Threads, j # k
      PROVE  Apart(scopes', threads'[j].stack, threads'[k].stack)
  <2>1. Apart(scopes, threads[j].stack, threads[k].stack) /\ Apart(scopes, threads[k].stack, threads[j].stack)
    BY <1>4 DEF Discipline, AllApart
  <2>2. CASE j = i
    BY <1>1, <1>2, <1>4, <2>1, <2>2, ApartFollows
  <2>3. CASE k = i
    BY <1>1, <1>2, <1>4, <2>1, <2>3, ApartFollows
  <2>4. CASE j # i /\ k # i
    <3>1. \A b \in 1 .. Len(threads[k].stack) : threads[k].stack[b].scope \in 1 .. Len(scopes)
      BY <1>2, ExtendsLen DEF GoodStack
    <3>2. \A b \in 1 .. Len(threads[k].stack) :
            Chain(scopes', threads[k].stack[b].scope) = Chain(scopes, threads[k].stack[b].scope)
      BY <3>1, ChainKept
    <3>3. Apart(scopes', threads[j].stack, threads[k].stack)
      BY <2>1, <3>2 DEF Apart
    <3>4. QED
      BY <1>1, <2>4, <3>3
  <2>5. QED
    BY <2>2, <2>3, <2>4
<1>5. AllApart' /\ AllGoodUse'
  BY <1>1, <1>3, <1>4 DEF AllApart, AllGoodUse
<1>6. GlobalFirst'
  BY DEF GlobalFirst
<1>7. QED
  BY <1>5, <1>6 DEF Discipline

LEMMA NoNames ==
  ASSUME Base, Discipline, NEW i \in Threads, threads[i].pc # "new" \/ threads[i].uses # Unused
  PROVE  toRegister.names = << >>
BY DEF Discipline, GlobalFirst

LEMMA SameStores ==
  ASSUME Base, Discipline, UNCHANGED <<maps, scopes>>
  PROVE  /\ Extends(scopes, scopes') /\ Separate(scopes')
         /\ \A s : SameAt(maps, scopes, maps', scopes', s)
<1>1. Linked(scopes) /\ Len(scopes) \in Nat
  BY BaseLinked, BaseFacts
<1>2. Extends(scopes, scopes')
  BY <1>1 DEF Extends
<1>3. \A s : SameAt(maps, scopes, maps', scopes', s)
  BY DEF SameAt
<1>4. QED
  BY <1>2, <1>3 DEF Discipline

LEMMA UseOf ==
  ASSUME Base, Discipline, NEW i \in Threads
  PROVE  /\ GoodThread(i, threads[i], Len(scopes), Len(ctxs)) /\ threads[i] \in Thread
         /\ GoodStack(threads[i].stack, Len(scopes), Len(ctxs)) /\ threads[i].stack \in Seq(Frame)
         /\ UsesNow(scopes, threads[i]) /\ Walked(maps, scopes, threads[i]) /\ ReadsRight(threads[i])
         /\ SetsFirst(scopes, threads[i].stack) /\ StackSees(maps, scopes, threads[i].stack)
         /\ \A b \in 1 .. Len(threads[i].stack) : threads[i].stack[b].scope \in 1 .. Len(scopes)
<1>1. GoodThread(i, threads[i], Len(scopes), Len(ctxs)) /\ GoodUse(maps, scopes, threads[i])
  BY DEF Base, AllGood, Discipline, AllGoodUse
<1>2. GoodStack(threads[i].stack, Len(scopes), Len(ctxs)) /\ threads[i] \in Thread
  BY <1>1 DEF GoodThread
<1>3. Len(scopes) \in Nat
  BY BaseFacts
<1>4. \A b \in 1 .. Len(threads[i].stack) : threads[i].stack[b].scope \in 1 .. Len(scopes)
  BY <1>2, <1>3 DEF GoodStack
<1>5. QED
  BY <1>1, <1>2, <1>4 DEF GoodUse, GoodStack

\* A step in the middle of an expression, or before the goroutine begins.
LEMMA LocalUse ==
  ASSUME Base, Discipline, NEW i \in Threads, NEW f \in Thread, SetTo(i, f),
         UNCHANGED <<maps, scopes, toRegister>>, toRegister.names = << >>,
         f.stack = threads[i].stack,
         UsesNow(scopes, f), Walked(maps, scopes, f), ReadsRight(f)
  PROVE  Discipline'
<1>1. /\ Extends(scopes, scopes') /\ Separate(scopes') /\ scopes' = scopes /\ maps' = maps
      /\ \A s : SameAt(maps, scopes, maps', scopes', s)
  BY SameStores
<1>2. Follows(scopes, scopes', threads[i].stack, f.stack)
  BY DEF Follows
<1>3. GoodUse(maps', scopes', f)
  BY <1>1, UseOf DEF GoodUse
<1>4. QED
  BY <1>1, <1>2, <1>3, StepUse

LEMMA BeginUse ==
  ASSUME Base, Discipline, ~ Late, NEW i \in Threads, Begin(i)
  PROVE  Discipline'
<1> DEFINE r == threads[i].req
<1>1. PICK u : u = [scope |-> 0, map |-> Data[r], mode |-> IF Entry[r] = "RenderTpl" THEN "w" ELSE "r"]
  OBVIOUS
<1>2. PICK f : f = [threads[i] EXCEPT !.uses = u]
  OBVIOUS
<1>3. threads[i] \in Thread /\ r \in Request /\ Data[r] \in Nat /\ threads[i].pc = "new"
  BY BaseFacts, ThreadFields DEF Begin
<1>4. u \in [scope : Nat, map : Nat, mode : {"r", "w", "-"}]
  BY <1>1, <1>3
<1>5. f \in Thread /\ f.req = r /\ f.stack = threads[i].stack /\ f.pc = "new" /\ f.uses = u
  BY <1>2, <1>3, <1>4 DEF Thread
<1>6. SetTo(i, f) /\ UNCHANGED <<maps, scopes, toRegister>> /\ toRegister.names = << >>
  BY <1>1, <1>2 DEF Begin, MayStart
<1>7. UsesNow(scopes, f) /\ Walked(maps, scopes, f) /\ ReadsRight(f)
  BY <1>1, <1>5 DEF UsesNow, Walked, ReadsRight
<1>8. QED
  BY <1>5, <1>6, <1>7, LocalUse

LEMMA BeginLookUse ==
  ASSUME Base, Discipline, NEW i \in Threads, BeginLook(i)
  PROVE  Discipline'
<1>1. threads[i] \in Thread /\ threads[i].pc = "eval" /\ UNCHANGED <<maps, scopes, toRegister>>
  BY BaseFacts DEF BeginLook
<1>2. ctxs[threads[i].ctx].scope = Here(i) /\ threads[i].stack # << >>
  BY <1>1, EvaluatingFacts DEF Evaluating
<1>3. threads[i].look \in 1 .. Len(scopes) /\ threads[i].look \in Nat
  BY <1>1, UseOf DEF GoodThread
<1>4. PICK f : f = [threads[i] EXCEPT !.uses = UsingIn(scopes, threads[i].look, "r")]
  OBVIOUS
<1>5. UsingIn(scopes, threads[i].look, "r") \in [scope : Nat, map : Nat, mode : {"r", "w", "-"}]
  <2>1. scopes[threads[i].look].map \in Nat
    BY <1>3, BaseFacts DEF Scopes
  <2>2. QED
    BY <1>3, <2>1 DEF UsingIn
<1>6. /\ f \in Thread /\ f.stack = threads[i].stack /\ f.pc = "eval" /\ f.look = threads[i].look
      /\ f.uses = UsingIn(scopes, f.look, "r")
  BY <1>1, <1>4, <1>5 DEF Thread
<1>7. f = [threads[i] EXCEPT !.look = threads[i].look, !.uses = Using(threads[i].look, "r")]
  BY <1>1, <1>4 DEF Thread, Using, UsingIn
<1>8. SetTo(i, f)
  <2>1. (IF threads[i].look = Here(i) THEN ctxs[threads[i].ctx].scope ELSE threads[i].look) = threads[i].look
    BY <1>2
  <2>2. QED
    BY <1>7, <2>1 DEF BeginLook
<1>9. Walked(maps, scopes, f)
  BY <1>1, <1>6, UseOf DEF Walked, Reading
<1>10. UsesNow(scopes, f) /\ ReadsRight(f)
  BY <1>6 DEF UsesNow, ReadsRight
<1>11. toRegister.names = << >>
  BY <1>1, NoNames
<1>12. QED
  BY <1>1, <1>6, <1>8, <1>9, <1>10, <1>11, LocalUse

\* GetDeep goes on with the parent, or it has found the value.
LEMMA EndLookUse ==
  ASSUME Base, Discipline, NEW i \in Threads, EndLook(i)
  PROVE  Discipline'
<1> DEFINE s == threads[i].look
           x == Name[Current(i)]
           v == Holds(s, x)
           top == Highest(threads[i].stack)
<1>1. threads[i] \in Thread /\ threads[i].pc = "eval" /\ UNCHANGED <<maps, scopes, toRegister>>
  BY BaseFacts DEF EndLook
<1>2. toRegister.names = << >>
  BY <1>1, NoNames
<1>3. /\ threads[i].stack # << >> /\ x \in Var /\ x = Reading(threads[i])
      /\ Here(i) = top.scope /\ top.scope \in 1 .. Len(scopes) /\ Linked(scopes)
      /\ Len(threads[i].stack) \in 1 .. Len(threads[i].stack)
  <2>1. threads[i].stack # << >> /\ Current(i) \in Node
    BY <1>1, EvaluatingFacts DEF Evaluating
  <2>2. Here(i) \in Scopes /\ Len(threads[i].stack) \in Frames(i)
    BY <2>1, TopFacts
  <2>3. QED
    BY <2>1, <2>2, NodeAssumption, BaseLinked DEF Here, Top, Highest, Reading, Current, Scopes, Frames
<1>4. /\ s \in Chain(scopes, top.scope) /\ s \in 1 .. Len(scopes) /\ s \in Nat
      /\ \A u \in Chain(scopes, top.scope) : u > s => HeldIn(maps, scopes, u, x) = Nil
  BY <1>1, <1>3, UseOf DEF Walked, Chain
<1>5. v = HeldIn(maps, scopes, s, x) /\ v \in Value
  <2>1. v = HeldIn(maps, scopes, s, x)
    BY DEF Holds, HeldIn
  <2>2. scopes[s].map # 0 => maps[scopes[s].map] \in [Var -> Value]
    <3>1. s \in Scopes
      BY <1>4 DEF Scopes
    <3>2. scopes[s].map \in Nat /\ scopes[s].map <= Len(maps) /\ Len(maps) \in Nat
      BY <3>1, BaseFacts DEF Base, Stores
    <3>3. scopes[s].map # 0 => scopes[s].map \in 1 .. Len(maps)
      BY <3>2
    <3>4. QED
      BY <3>3, BaseFacts
  <2>3. PICK f : f = maps[scopes[s].map]
    OBVIOUS
  <2>4. CASE scopes[s].map = 0
    BY <2>1, <2>4, NilIsValue DEF HeldIn
  <2>5. CASE scopes[s].map # 0
    <3>1. f \in [Var -> Value] /\ v = f[x]
      BY <2>2, <2>3, <2>5 DEF Holds
    <3>2. QED
      BY <1>3, <2>1, <3>1
  <2>6. QED
    BY <2>4, <2>5
<1>6. Unused \in [scope : Nat, map : Nat, mode : {"r", "w", "-"}]
  BY DEF Unused
<1>7. CASE v = Nil /\ scopes[s].up # 0
  <2>1. PICK f : f = [threads[i] EXCEPT !.uses = Unused, !.look = scopes[s].up]
    OBVIOUS
  <2>2. scopes[s].up \in Chain(scopes, top.scope) /\ scopes[s].up \in Nat
    <3>1. scopes[s].up \in Chain(scopes, top.scope)
      BY <1>3, <1>4, <1>7, ChainUp
    <3>2. QED
      BY <3>1 DEF Chain
  <2>3. /\ f \in Thread /\ f.stack = threads[i].stack /\ f.pc = "eval" /\ f.look = scopes[s].up
        /\ f.uses = Unused
    BY <1>1, <1>6, <2>1, <2>2 DEF Thread
  <2>4. SetTo(i, f)
    BY <1>7, <2>1 DEF EndLook
  <2>5. ASSUME NEW u \in Chain(scopes, top.scope), u > scopes[s].up
        PROVE  HeldIn(maps, scopes, u, x) = Nil
    <3>1. u \in 1 .. Len(scopes)
      BY DEF Chain
    <3>2. CASE u > s
      BY <1>4, <3>2
    <3>3. CASE u = s
      BY <1>5, <1>7, <3>3
    <3>4. CASE u < s
      <4>1. s \notin Chain(scopes, u)
        <5>1. s \in Chain(scopes, u) => s <= u
          BY <1>3, <3>1, ChainLe
        <5>2. QED
          BY <1>4, <3>1, <3>4, <5>1
      <4>2. u \in Chain(scopes, s) /\ u # s
        BY <1>3, <1>4, <3>4, <4>1, ChainLinear
      <4>3. u \in Chain(scopes, scopes[s].up)
        BY <1>3, <1>4, <4>2, ChainStep
      <4>4. scopes[s].up \in 1 .. Len(scopes)
        BY <2>2 DEF Chain
      <4>5. u <= scopes[s].up
        BY <1>3, <4>3, <4>4, ChainLe
      <4>6. QED
        BY <2>2, <2>5, <3>1, <4>5
    <3>5. QED
      BY <1>4, <3>1, <3>2, <3>3, <3>4
  <2>6. Walked(maps, scopes, f)
    BY <1>3, <2>2, <2>3, <2>5 DEF Walked, Reading
  <2>7. UsesNow(scopes, f) /\ ReadsRight(f)
    BY <2>3 DEF UsesNow, ReadsRight
  <2>8. QED
    BY <1>1, <1>2, <2>3, <2>4, <2>6, <2>7, LocalUse
<1>8. CASE ~ (v = Nil /\ scopes[s].up # 0)
  <2>1. PICK f : f = [threads[i] EXCEPT !.uses = Unused, !.look = 0, !.val = Read(v), !.pc = "read"]
    OBVIOUS
  <2>2. /\ f \in Thread /\ f.stack = threads[i].stack /\ f.pc = "read" /\ f.val = Read(v)
        /\ f.uses = Unused
    <3>1. Read(v) \in Value
      BY <1>5 DEF Read, Value
    <3>2. QED
      BY <1>1, <1>6, <2>1, <3>1 DEF Thread
  <2>3. SetTo(i, f)
    BY <1>8, <2>1 DEF EndLook
  <2>4. SeesFrom(maps, scopes, top.scope, top.env)
    BY <1>3, UseOf DEF StackSees, Highest
  <2>5. top.env[x] = HeldIn(maps, scopes, s, x)
    BY <1>3, <1>4, <1>5, <1>8, <2>4 DEF SeesFrom
  <2>6. ReadsRight(f)
    BY <1>3, <1>5, <2>2, <2>5 DEF ReadsRight, Reading
  <2>7. UsesNow(scopes, f) /\ Walked(maps, scopes, f)
    BY <2>2 DEF UsesNow, Walked
  <2>8. QED
    BY <1>1, <1>2, <2>2, <2>3, <2>6, <2>7, LocalUse
<1>9. QED
  BY <1>7, <1>8

LEMMA BeginSetUse ==
  ASSUME Base, Discipline, NEW i \in Threads, BeginSet(i)
  PROVE  Discipline'
<1>1. threads[i] \in Thread /\ threads[i].pc = "set" /\ UNCHANGED <<maps, scopes, toRegister>>
  BY BaseFacts DEF BeginSet
<1>2. ctxs[threads[i].ctx].scope = Here(i) /\ threads[i].stack # << >>
  BY <1>1, EvaluatingFacts DEF Evaluating
<1>3. Here(i) \in Scopes /\ Here(i) = Highest(threads[i].stack).scope
  BY <1>2, TopFacts DEF Highest
<1>4. PICK f : f = [threads[i] EXCEPT !.uses = Using(Here(i), "w")]
  OBVIOUS
<1>5. Using(Here(i), "w") \in [scope : Nat, map : Nat, mode : {"r", "w", "-"}]
  BY <1>3, UsingTyped
<1>6. /\ f \in Thread /\ f.stack = threads[i].stack /\ f.pc = "set" /\ f.uses = Using(Here(i), "w")
  BY <1>1, <1>4, <1>5 DEF Thread
<1>7. SetTo(i, f)
  BY <1>2, <1>4 DEF BeginSet
<1>8. UsesNow(scopes, f) /\ Walked(maps, scopes, f) /\ ReadsRight(f)
  <2>1. f.uses = UsingIn(scopes, Highest(f.stack).scope, "w")
    BY <1>3, <1>6 DEF Using, UsingIn
  <2>2. QED
    BY <1>6, <2>1 DEF UsesNow, Walked, ReadsRight
<1>9. toRegister.names = << >>
  BY <1>1, NoNames
<1>10. QED
  BY <1>1, <1>6, <1>7, <1>8, <1>9, LocalUse

LEMMA OpenUse ==
  ASSUME Base, Discipline, NEW i \in Threads, NEW n \in Node, Open(i, n)
  PROVE  Discipline'
<1>1. /\ threads[i] \in Thread /\ threads[i].pc = "run" /\ threads[i].stack # << >>
      /\ UNCHANGED <<maps, scopes, toRegister>>
  BY BaseFacts DEF Open, At
<1>2. Here(i) \in 1 .. Len(scopes) /\ Here(i) \in Nat /\ Here(i) = Highest(threads[i].stack).scope
  BY <1>1, TopFacts DEF Highest, Scopes
<1>3. PICK pc \in {"eval", "set", "call"} : pc = First(n)
  BY DEF First
<1>4. PICK f : f = [threads[i] EXCEPT !.pc = pc, !.ctx = NextCtx, !.look = Here(i)]
  OBVIOUS
<1>5. SetTo(i, f)
  BY <1>3, <1>4 DEF Open, Opened
<1>6. NextCtx \in Nat
  BY NextCtxFacts, BaseFacts
<1>7. /\ f \in Thread /\ f.pc = pc /\ f.look = Here(i) /\ f.stack = threads[i].stack
      /\ f.uses = threads[i].uses
  BY <1>1, <1>2, <1>3, <1>4, <1>6 DEF Thread
<1>8. f.uses = Unused
  BY <1>1, <1>7, UseOf DEF GoodThread
<1>9. Walked(maps, scopes, f)
  <2>1. Here(i) \in Chain(scopes, Here(i))
    BY <1>2, ChainSelf
  <2>2. \A u \in Chain(scopes, Here(i)) : ~ (u > Here(i))
    <3>1. \A u \in Chain(scopes, Here(i)) : u \in 1 .. Len(scopes) /\ u <= Here(i)
      BY <1>2, BaseLinked, ChainLe
    <3>2. QED
      BY <1>2, <3>1
  <2>3. QED
    BY <1>2, <1>7, <2>1, <2>2 DEF Walked
<1>10. UsesNow(scopes, f) /\ ReadsRight(f)
  BY <1>3, <1>7, <1>8 DEF UsesNow, ReadsRight
<1>11. toRegister.names = << >>
  BY <1>1, NoNames
<1>12. QED
  BY <1>1, <1>5, <1>7, <1>9, <1>10, <1>11, LocalUse

\* What is left of a statement list.
LEMMA TailFacts ==
  ASSUME NEW todo \in Seq(Node), todo # << >>
  PROVE  /\ Tail(todo) \in Seq(Node)
         /\ HasSet(Tail(todo)) => HasSet(todo)
         /\ Forks(Tail(todo)) => Forks(todo)
         /\ InOrder(todo) => InOrder(Tail(todo))
         /\ InOrder(todo) /\ Head(todo) \in Forking => ~ HasSet(Tail(todo))
         /\ Kind[Head(todo)] = "set" => HasSet(todo)
         /\ Head(todo) \in Forking => Forks(todo)
<1>1. PICK l \in Nat : l = Len(todo)
  OBVIOUS
<1>2. /\ Tail(todo) \in Seq(Node) /\ Len(Tail(todo)) = l - 1 /\ l >= 1 /\ Head(todo) = todo[1]
      /\ \A x \in 1 .. l - 1 : Tail(todo)[x] = todo[x + 1]
  BY <1>1, HeadTailProperties
<1>3. PICK rest : rest = Tail(todo)
  OBVIOUS
<1>4. \A x \in 1 .. Len(rest) : x \in Nat /\ x + 1 \in 1 .. Len(todo) /\ rest[x] = todo[x + 1]
  BY <1>1, <1>2, <1>3
<1>5. HasSet(rest) => HasSet(todo)
  BY <1>4 DEF HasSet
<1>6. Forks(rest) => Forks(todo)
  BY <1>4 DEF Forks
<1>7. ASSUME InOrder(todo) PROVE InOrder(rest)
  <2>1. ASSUME NEW x \in 1 .. Len(rest), NEW y \in 1 .. Len(rest),
               Kind[rest[x]] = "set", rest[y] \in Forking
        PROVE  x < y
    <3>1. x + 1 < y + 1
      BY <1>4, <1>7, <2>1 DEF InOrder
    <3>2. QED
      BY <1>4, <3>1
  <2>2. QED
    BY <2>1 DEF InOrder
<1>8. 1 \in 1 .. Len(todo)
  BY <1>1, <1>2
<1>9. ASSUME InOrder(todo), Head(todo) \in Forking, HasSet(rest) PROVE FALSE
  <2>1. PICK x \in 1 .. Len(rest) : Kind[rest[x]] = "set"
    BY <1>9 DEF HasSet
  <2>2. x + 1 < 1
    BY <1>2, <1>4, <1>8, <1>9, <2>1 DEF InOrder
  <2>3. QED
    BY <1>4, <2>2
<1>10. Kind[Head(todo)] = "set" => HasSet(todo)
  BY <1>2, <1>8 DEF HasSet
<1>11. Head(todo) \in Forking => Forks(todo)
  BY <1>2, <1>8 DEF Forks
<1>12. QED
  BY <1>2, <1>3, <1>5, <1>6, <1>7, <1>9, <1>10, <1>11

\* The frames of a goroutine that goes on with less of what it did.
Shrinks(old, new) ==
  \A b \in 1 .. Len(new) :
    /\ b \in 1 .. Len(old) /\ new[b].scope = old[b].scope
    /\ HasSet(new[b].todo) => HasSet(old[b].todo)
    /\ Forks(new[b].todo) => Forks(old[b].todo)
    /\ InOrder(old[b].todo) => InOrder(new[b].todo)

LEMMA ShrinksUse ==
  ASSUME NEW sc, NEW sc2, NEW old, NEW new, Shrinks(old, new)
  PROVE  Follows(sc, sc2, old, new) /\ (SetsFirst(sc, old) => SetsFirst(sc, new))
<1>1. Follows(sc, sc2, old, new)
  BY DEF Shrinks, Follows
<1>2. ASSUME SetsFirst(sc, old) PROVE SetsFirst(sc, new)
  <2>1. ASSUME NEW a \in 1 .. Len(new), NEW b \in 1 .. Len(new)
        PROVE  /\ InOrder(new[a].todo)
               /\ /\ new[a].scope \in Chain(sc, new[b].scope)
                  /\ HasSet(new[a].todo) /\ Forks(new[b].todo)
                  => a = b
    BY <1>2 DEF Shrinks, SetsFirst
  <2>2. QED
    BY <2>1 DEF SetsFirst
<1>3. QED
  BY <1>1, <1>2

\* Behind the statement at the top.
LEMMA RestShrinks ==
  ASSUME Base, NEW i \in Threads, threads[i].stack # << >>, Top(i).todo # << >>
  PROVE  Shrinks(threads[i].stack, Rest(i))
<1>1. PICK old : old = threads[i].stack
  OBVIOUS
<1>2. PICK rest : rest = Rest(i)
  OBVIOUS
<1>3. Top(i) = old[Len(old)] /\ Top(i).todo \in Seq(Node) /\ Len(old) \in 1 .. Len(old)
  BY <1>1, TopFacts, FrameFields DEF Top, Frames
<1>4. /\ Len(rest) = Len(old)
      /\ \A j \in 1 .. Len(old) : rest[j].scope = old[j].scope
      /\ \A j \in 1 .. Len(old) : j # Len(old) => rest[j] = old[j]
      /\ rest[Len(old)].todo = Tail(Top(i).todo)
  BY <1>1, <1>2, RestFacts DEF Frames
<1>5. ASSUME NEW b \in 1 .. Len(rest)
      PROVE  /\ b \in 1 .. Len(old) /\ rest[b].scope = old[b].scope
             /\ HasSet(rest[b].todo) => HasSet(old[b].todo)
             /\ Forks(rest[b].todo) => Forks(old[b].todo)
             /\ InOrder(old[b].todo) => InOrder(rest[b].todo)
  <2>1. CASE b # Len(old)
    BY <1>4, <2>1
  <2>2. CASE b = Len(old)
    BY <1>3, <1>4, <2>2, TailFacts
  <2>3. QED
    BY <2>1, <2>2
<1>6. QED
  BY <1>1, <1>2, <1>5 DEF Shrinks

LEMMA RestSees ==
  ASSUME Base, Discipline, NEW i \in Threads, threads[i].stack # << >>, Top(i).todo # << >>
  PROVE  StackSees(maps, scopes, Rest(i)) /\ SetsFirst(scopes, Rest(i))
<1>1. /\ Len(Rest(i)) = Len(threads[i].stack)
      /\ \A j \in 1 .. Len(threads[i].stack) : /\ Rest(i)[j].scope = threads[i].stack[j].scope
                                               /\ Rest(i)[j].env = threads[i].stack[j].env
  BY RestFacts DEF Frames
<1>2. StackSees(maps, scopes, threads[i].stack) /\ SetsFirst(scopes, threads[i].stack)
  BY UseOf
<1>3. StackSees(maps, scopes, Rest(i))
  BY <1>1, <1>2 DEF StackSees
<1>4. QED
  BY <1>2, <1>3, RestShrinks, ShrinksUse

\* A goroutine whose scopes stay goes on to run.
LEMMA RunUse ==
  ASSUME Base, Discipline, NEW i \in Threads, threads[i].pc # "new",
         NEW f \in Thread, SetTo(i, f), UNCHANGED <<maps, scopes, toRegister>>,
         f.pc \in {"run", "done"}, f.uses = Unused,
         Shrinks(threads[i].stack, f.stack), StackSees(maps, scopes, f.stack)
  PROVE  Discipline'
<1>1. /\ Extends(scopes, scopes') /\ Separate(scopes') /\ scopes' = scopes /\ maps' = maps
      /\ \A s : SameAt(maps, scopes, maps', scopes', s)
  BY SameStores
<1>2. SetsFirst(scopes, f.stack) /\ Follows(scopes, scopes', threads[i].stack, f.stack)
  BY UseOf, ShrinksUse
<1>3. UsesNow(scopes, f) /\ Walked(maps, scopes, f) /\ ReadsRight(f)
  BY DEF UsesNow, Walked, ReadsRight
<1>4. GoodUse(maps', scopes', f)
  BY <1>1, <1>2, <1>3 DEF GoodUse
<1>5. toRegister.names = << >>
  BY NoNames
<1>6. QED
  BY <1>1, <1>2, <1>4, <1>5, StepUse

LEMMA WriteUse ==
  ASSUME Base, Discipline, NEW i \in Threads, NEW n \in Node, Write(i, n)
  PROVE  Discipline'
<1>1. /\ threads[i].pc = "read" /\ UNCHANGED <<maps, scopes, toRegister>>
      /\ SetTo(i, NewThread(threads[i].req, "run", Rest(i)))
  BY DEF Write, ReadFor
<1>2. threads[i].stack # << >> /\ Top(i).todo # << >>
  BY <1>1, EvaluatingFacts DEF Evaluating
<1>3. PICK f : f = NewThread(threads[i].req, "run", Rest(i))
  OBVIOUS
<1>4. threads[i].req \in Request /\ Rest(i) \in Seq(Frame)
  BY <1>2, RestFacts, BaseFacts, ThreadFields DEF GoodStack
<1>5. f \in Thread /\ f.pc = "run" /\ f.stack = Rest(i) /\ f.uses = Unused
  BY <1>3, <1>4, NewThreadIsThread
<1>6. Shrinks(threads[i].stack, f.stack) /\ StackSees(maps, scopes, f.stack)
  BY <1>2, <1>5, RestShrinks, RestSees
<1>7. QED
  BY <1>1, <1>3, <1>5, <1>6, RunUse

LEMMA ReturnUse ==
  ASSUME Base, Discipline, NEW i \in Threads, Return(i)
  PROVE  Discipline'
<1> DEFINE old == threads[i].stack
           pc == IF Popped(old) = << >> THEN "done" ELSE "run"
<1>1. /\ threads[i].pc = "run" /\ old # << >> /\ UNCHANGED <<maps, scopes, toRegister>>
      /\ SetTo(i, NewThread(threads[i].req, pc, Popped(old)))
  BY DEF Return, Popped
<1>2. PICK stack : stack = Popped(old)
  OBVIOUS
<1>3. PICK f : f = NewThread(threads[i].req, pc, stack)
  OBVIOUS
<1>4. threads[i].req \in Request /\ Len(scopes) \in Nat /\ Len(ctxs) \in Nat
  BY BaseFacts, ThreadFields
<1>5. /\ stack \in Seq(Frame) /\ Len(stack) = Len(old) - 1 /\ Len(old) \in Nat
      /\ \A j \in 1 .. Len(old) - 1 : stack[j] = old[j] /\ j \in 1 .. Len(old)
  BY <1>1, <1>2, <1>4, TopFacts, GoodPopped, ZenonT(60) DEF GoodStack
<1>6. pc \in {"new", "run", "done"} /\ pc \in {"run", "done"}
  OBVIOUS
<1>7. f \in Thread /\ f.pc = pc /\ f.stack = stack /\ f.uses = Unused
  BY <1>3, <1>4, <1>5, <1>6, NewThreadIsThread
<1>8. Shrinks(old, stack)
  BY <1>5 DEF Shrinks
<1>9. StackSees(maps, scopes, stack)
  BY <1>5, UseOf DEF StackSees
<1>10. QED
  BY <1>1, <1>2, <1>3, <1>6, <1>7, <1>8, <1>9, RunUse

\* Where goroutines start to search, the goroutine that starts them sets no variable
\* any more.
LEMMA HeadForks ==
  ASSUME Base, Discipline, NEW i \in Threads, threads[i].stack # << >>, Top(i).todo # << >>,
         Head(Top(i).todo) \in Forking,
         NEW a \in 1 .. Len(Rest(i)), HasSet(Rest(i)[a].todo)
  PROVE  Rest(i)[a].scope \notin Chain(scopes, Here(i))
<1>1. PICK old : old = threads[i].stack
  OBVIOUS
<1>2. PICK rest : rest = Rest(i)
  OBVIOUS
<1>3. /\ Top(i) = old[Len(old)] /\ Top(i).todo \in Seq(Node) /\ Len(old) \in 1 .. Len(old)
      /\ Here(i) = old[Len(old)].scope
  BY <1>1, TopFacts, FrameFields DEF Top, Frames
<1>4. /\ a \in 1 .. Len(old) /\ rest[a].scope = old[a].scope
      /\ a # Len(old) => rest[a] = old[a]
      /\ rest[Len(old)].todo = Tail(Top(i).todo)
  BY <1>1, <1>2, RestFacts DEF Frames
<1>5. SetsFirst(scopes, old)
  BY <1>1, UseOf
<1>6. InOrder(Top(i).todo) /\ Forks(Top(i).todo)
  BY <1>3, <1>5, TailFacts DEF SetsFirst
<1>7. ASSUME old[a].scope \in Chain(scopes, Here(i)) PROVE FALSE
  <2>1. CASE a = Len(old)
    BY <1>2, <1>3, <1>4, <1>6, <2>1, TailFacts
  <2>2. CASE a # Len(old)
    <3>1. HasSet(old[a].todo)
      BY <1>2, <1>4, <2>2
    <3>2. QED
      BY <1>3, <1>4, <1>5, <1>6, <1>7, <2>2, <3>1 DEF SetsFirst
  <2>3. QED
    BY <2>1, <2>2
<1>8. QED
  BY <1>2, <1>4, <1>7

\* A directive has set a variable in the scope of the frame at the top.
LEMMA EndSetUse ==
  ASSUME Base, Discipline, NEW i \in Threads, EndSet(i)
  PROVE  Discipline'
<1> DEFINE n == Current(i)
           s == Here(i)
           old == threads[i].stack
           stack == Known(i, n)
<1>1. /\ threads[i].pc = "set" /\ UNCHANGED toRegister
      /\ SetTo(i, NewThread(threads[i].req, "run", stack))
  BY DEF EndSet
<1>2. /\ old # << >> /\ Top(i).todo # << >> /\ Top(i).todo \in Seq(Node) /\ n \in Node
      /\ Kind[n] = "set"
  BY <1>1, EvaluatingFacts DEF Evaluating
<1>3. PICK f : f = NewThread(threads[i].req, "run", stack)
  OBVIOUS
<1>4. /\ GoodStack(stack, Len(scopes), Len(ctxs)) /\ stack # << >> /\ Len(stack) = Len(old)
      /\ \A j \in Frames(i) : /\ stack[j].scope = old[j].scope /\ stack[j].ctx = old[j].ctx
      /\ \A j \in Frames(i) : j # Len(old) => stack[j] = old[j]
      /\ stack[Len(old)].todo = Tail(Top(i).todo)
      /\ stack[Len(old)].env = [Top(i).env EXCEPT ![Name[n]] = n]
  BY <1>2, KnownFacts
<1>5. threads[i].req \in Request /\ stack \in Seq(Frame)
  BY <1>4, BaseFacts, ThreadFields DEF GoodStack
<1>6. f \in Thread /\ f.pc = "run" /\ f.stack = stack /\ f.uses = Unused
  BY <1>3, <1>5, NewThreadIsThread
<1>7. SetTo(i, f)
  BY <1>1, <1>3
<1>8. /\ Len(old) \in Frames(i) /\ Len(old) \in Nat /\ s = old[Len(old)].scope /\ s \in Scopes /\ s \in Nat
      /\ Top(i) = old[Len(old)] /\ Top(i).env \in [Var -> Value]
      /\ GoodStack(old, Len(scopes), Len(ctxs))
  BY <1>2, TopFacts, FrameFields DEF Top
<1>9. Linked(scopes) /\ Linked(scopes') /\ Extends(scopes, scopes')
  <2>1. Linked(scopes) /\ Base'
    BY BaseLinked, EndSetBase
  <2>2. Linked(scopes')
    BY <2>1 DEF Base, Stores, Linked, Scopes
  <2>3. Len(scopes') = Len(scopes) /\ \A t \in 1 .. Len(scopes) : scopes'[t].up = scopes[t].up
    BY EndSetStores DEF Scopes
  <2>4. Len(scopes) <= Len(scopes')
    BY <2>3, BaseFacts
  <2>5. QED
    BY <2>1, <2>2, <2>3, <2>4 DEF Extends
<1>10. /\ Scopes' = Scopes /\ Scopes = 1 .. Len(scopes) /\ Scopes = 1 .. Len(scopes')
       /\ Len(maps) \in Nat
  BY EndSetStores, BaseFacts DEF Scopes
<1>11. \A t \in Scopes : scopes[t].map \in 0 .. Len(maps)
  BY <1>10, BaseFacts DEF Base, Stores
<1>12. Separate(scopes)
  BY DEF Discipline
<1>13. /\ \A t \in Scopes : t # s \/ scopes[t].map # 0 => scopes'[t] = scopes[t]
       /\ scopes[s].map = 0 =>
              /\ scopes'[s].map = Len(maps) + 1
              /\ \A m \in 1 .. Len(maps) : maps'[m] = maps[m]
              /\ maps'[Len(maps) + 1] = [NoVars EXCEPT ![Name[n]] = n]
       /\ scopes[s].map # 0 =>
              /\ \A m \in 1 .. Len(maps) : m # scopes[s].map => maps'[m] = maps[m]
              /\ maps'[scopes[s].map] = [maps[scopes[s].map] EXCEPT ![Name[n]] = n]
  BY EndSetStores
<1>14. Separate(scopes')
  <2>1. ASSUME NEW t \in Scopes, NEW u \in Scopes, t # u, scopes'[t].map # 0
        PROVE  scopes'[t].map # scopes'[u].map
    <3>1. CASE scopes[s].map # 0
      BY <1>10, <1>12, <1>13, <2>1, <3>1 DEF Separate
    <3>2. CASE scopes[s].map = 0 /\ t # s /\ u # s
      BY <1>10, <1>12, <1>13, <2>1, <3>2 DEF Separate
    <3>3. CASE scopes[s].map = 0 /\ (t = s \/ u = s)
      <4>1. /\ t = s => scopes'[t].map = Len(maps) + 1 /\ scopes'[u].map = scopes[u].map
            /\ u = s => scopes'[u].map = Len(maps) + 1 /\ scopes'[t].map = scopes[t].map
        BY <1>13, <2>1, <3>3
      <4>2. QED
        BY <1>10, <1>11, <2>1, <3>3, <4>1
    <3>4. QED
      BY <3>1, <3>2, <3>3
  <2>2. QED
    BY <1>10, <2>1 DEF Separate
<1>15. ASSUME NEW t \in Scopes, t # s PROVE SameAt(maps, scopes, maps', scopes', t)
  <2>1. scopes'[t] = scopes[t]
    BY <1>13, <1>15
  <2>2. ASSUME scopes[t].map # 0 PROVE maps'[scopes[t].map] = maps[scopes[t].map]
    <3>1. scopes[t].map \in 1 .. Len(maps)
      BY <1>10, <1>11, <2>2
    <3>2. scopes[t].map # scopes[s].map
      BY <1>8, <1>10, <1>12, <1>15, <2>2 DEF Separate
    <3>3. QED
      BY <1>13, <3>1, <3>2
  <2>3. QED
    BY <2>1, <2>2 DEF SameAt
<1>16. HasSet(Top(i).todo)
  BY <1>2, TailFacts DEF Current
<1>17. ASSUME NEW j \in Threads, j # i, NEW b \in Frames(j), NEW t \in Chain(scopes, threads[j].stack[b].scope)
       PROVE  SameAt(maps, scopes, maps', scopes', t)
  <2>1. Apart(scopes, old, threads[j].stack)
    BY <1>17 DEF Discipline, AllApart
  <2>2. t # s
    BY <1>8, <1>16, <1>17, <2>1 DEF Apart, Frames
  <2>3. QED
    BY <1>10, <1>15, <2>2 DEF Chain
<1>18. Shrinks(old, stack)
  <2>1. ASSUME NEW b \in 1 .. Len(stack)
        PROVE  /\ b \in 1 .. Len(old) /\ stack[b].scope = old[b].scope
               /\ HasSet(stack[b].todo) => HasSet(old[b].todo)
               /\ Forks(stack[b].todo) => Forks(old[b].todo)
               /\ InOrder(old[b].todo) => InOrder(stack[b].todo)
    <3>1. CASE b # Len(old)
      BY <1>4, <3>1 DEF Frames
    <3>2. CASE b = Len(old)
      BY <1>2, <1>4, <1>8, <3>2, TailFacts DEF Frames
    <3>3. QED
      BY <3>1, <3>2
  <2>2. QED
    BY <2>1 DEF Shrinks
<1>19. SetsFirst(scopes', stack) /\ Follows(scopes, scopes', old, stack)
  <2>1. SetsFirst(scopes, stack) /\ Follows(scopes, scopes', old, stack)
    BY <1>18, ShrinksUse, UseOf
  <2>2. QED
    BY <1>4, <1>9, <2>1, SetsFirstKept
<1>20. StackSees(maps, scopes, old) /\ \A b \in 1 .. Len(old) : old[b].scope \in 1 .. Len(scopes)
  BY UseOf
<1>21. ASSUME NEW b \in 1 .. Len(stack), b # Len(old)
       PROVE  SeesFrom(maps', scopes', stack[b].scope, stack[b].env)
  <2>1. b \in 1 .. Len(old) /\ stack[b] = old[b] /\ old[b].scope \in 1 .. Len(scopes)
    BY <1>4, <1>20, <1>21 DEF Frames
  <2>2. old[b].scope < s
    <3>1. b < Len(old)
      BY <1>8, <1>21, <2>1
    <3>2. QED
      BY <1>8, <2>1, <3>1 DEF GoodStack, Frames
  <2>3. ASSUME NEW u \in Chain(scopes, old[b].scope) PROVE SameAt(maps, scopes, maps', scopes', u)
    <3>1. u \in 1 .. Len(scopes) /\ u <= old[b].scope
      BY <1>9, <2>1, ChainLe
    <3>2. u # s
      BY <1>8, <2>1, <2>2, <3>1
    <3>3. QED
      BY <1>10, <1>15, <3>1, <3>2
  <2>4. SeesFrom(maps, scopes, old[b].scope, old[b].env)
    BY <1>20, <2>1 DEF StackSees
  <2>5. QED
    BY <1>9, <2>1, <2>3, <2>4, SeesKept
<1>22. SeesFrom(maps', scopes', s, [Top(i).env EXCEPT ![Name[n]] = n])
  <2>1. PICK ch : ch = Chain(scopes, s) /\ ch = Chain(scopes', s)
    BY <1>8, <1>9, <1>10, ChainKept
  <2>2. PICK env \in [Var -> Value] : env = Top(i).env
    BY <1>8
  <2>3. SeesFrom(maps, scopes, s, env)
    BY <1>8, <1>20, <2>2 DEF StackSees, Frames
  <2>4. s \in ch /\ \A u \in ch : u \in Scopes /\ u <= s /\ scopes'[u].up = scopes[u].up
    <3>1. s \in ch /\ \A u \in ch : u \in Scopes /\ u <= s
      BY <1>8, <1>9, <1>10, <2>1, ChainSelf, ChainLe
    <3>2. QED
      BY <1>9, <1>10, <3>1 DEF Extends
  <2>5. Name[n] \in Var /\ n # Nil
    BY <1>2, NodeAssumption
  <2>6. HeldIn(maps', scopes', s, Name[n]) = n
    <3>1. CASE scopes[s].map = 0
      <4>1. scopes'[s].map = Len(maps) + 1 /\ Len(maps) + 1 # 0
        BY <1>10, <1>13, <3>1
      <4>2. [NoVars EXCEPT ![Name[n]] = n][Name[n]] = n
        BY <2>5 DEF NoVars
      <4>3. QED
        BY <1>13, <3>1, <4>1, <4>2 DEF HeldIn
    <3>2. CASE scopes[s].map # 0
      <4>1. PICK mm \in [Var -> Value] : mm = maps[scopes[s].map]
        <5>1. scopes[s].map \in 1 .. Len(maps)
          BY <1>8, <1>10, <1>11, <3>2, SMTT(40)
        <5>2. QED
          BY <5>1, BaseFacts
      <4>2. scopes'[s] = scopes[s]
        BY <1>8, <1>13, <3>2, Zenon
      <4>3. QED
        BY <1>13, <2>5, <3>2, <4>1, <4>2 DEF HeldIn
    <3>3. QED
      BY <3>1, <3>2
  <2>7. ASSUME NEW u \in ch, NEW x \in Var, u # s \/ x # Name[n]
        PROVE  HeldIn(maps', scopes', u, x) = HeldIn(maps, scopes, u, x)
    <3>1. CASE u # s
      BY <1>15, <2>4, <3>1, HeldSame
    <3>2. CASE u = s /\ x # Name[n] /\ scopes[s].map = 0
      <4>1. scopes'[s].map = Len(maps) + 1 /\ Len(maps) + 1 # 0
        BY <1>10, <1>13, <3>2
      <4>2. [NoVars EXCEPT ![Name[n]] = n][x] = Nil
        BY <3>2 DEF NoVars
      <4>3. QED
        BY <1>13, <3>2, <4>1, <4>2 DEF HeldIn
    <3>3. CASE u = s /\ x # Name[n] /\ scopes[s].map # 0
      <4>1. PICK mm \in [Var -> Value] : mm = maps[scopes[s].map]
        <5>1. scopes[s].map \in 1 .. Len(maps)
          BY <1>8, <1>10, <1>11, <3>3, SMTT(40)
        <5>2. QED
          BY <5>1, BaseFacts
      <4>2. scopes'[s] = scopes[s]
        BY <1>8, <1>13, <3>3, Zenon
      <4>3. QED
        BY <1>13, <3>3, <4>1, <4>2 DEF HeldIn
    <3>4. QED
      BY <2>7, <3>1, <3>2, <3>3
  <2>8. PICK now : now = [env EXCEPT ![Name[n]] = n]
    OBVIOUS
  <2>9. ASSUME NEW x \in Var, NEW t \in ch,
               \A u \in ch : u > t => HeldIn(maps', scopes', u, x) = Nil,
               HeldIn(maps', scopes', t, x) # Nil \/ scopes'[t].up = 0
        PROVE  now[x] = HeldIn(maps', scopes', t, x)
    <3>1. CASE x = Name[n]
      <4>1. ~ (s > t)
        BY <2>4, <2>5, <2>6, <2>9, <3>1
      <4>2. t = s
        BY <1>8, <1>10, <2>4, <4>1
      <4>3. QED
        BY <2>5, <2>6, <2>8, <3>1, <4>2
    <3>2. CASE x # Name[n]
      <4>1. \A u \in ch : HeldIn(maps', scopes', u, x) = HeldIn(maps, scopes, u, x)
        BY <2>7, <3>2
      <4>2. \A u \in ch : u > t => HeldIn(maps, scopes, u, x) = Nil
        BY <2>9, <4>1
      <4>3. HeldIn(maps, scopes, t, x) # Nil \/ scopes[t].up = 0
        BY <2>4, <2>9, <4>1
      <4>4. env[x] = HeldIn(maps, scopes, t, x)
        BY <2>1, <2>3, <4>2, <4>3 DEF SeesFrom
      <4>5. QED
        BY <2>8, <3>2, <4>1, <4>4
    <3>3. QED
      BY <3>1, <3>2
  <2>10. QED
    BY <2>1, <2>2, <2>8, <2>9 DEF SeesFrom
<1>23. StackSees(maps', scopes', stack)
  <2>1. SeesFrom(maps', scopes', stack[Len(old)].scope, stack[Len(old)].env)
    BY <1>4, <1>8, <1>22
  <2>2. QED
    BY <1>21, <2>1 DEF StackSees
<1>24. GoodUse(maps', scopes', f)
  BY <1>6, <1>19, <1>23 DEF GoodUse, UsesNow, Walked, ReadsRight
<1>25. toRegister.names = << >>
  BY <1>1, NoNames
<1>26. QED
  BY <1>1, <1>6, <1>7, <1>9, <1>14, <1>17, <1>19, <1>24, <1>25, StepUse

\* The statement lists of components, rounds and slots.
LEMMA ListsInOrder ==
  ASSUME SetsBeforeParallel
  PROVE  /\ \A r \in Request : InOrder(StatementsOf[r])
         /\ \A n \in Node : Kind[n] \in {"for", "call", "bare"} => InOrder(Kids[n])
         /\ \A n \in Node : Kind[n] = "parallel" => InOrder(Kids[n]) /\ ~ HasSet(Kids[n])
         /\ \A n \in Node : Kind[n] = "for" /\ Forks(Kids[n]) => n \in Forking
<1>1. /\ \A todo \in Lists : \A x, y \in DOMAIN todo :
           Kind[todo[x]] = "set" /\ todo[y] \in Forking => x < y
      /\ \A p \in Node : Kind[p] = "parallel" => \A x \in DOMAIN Kids[p] : Kind[Kids[p][x]] # "set"
  BY DEF SetsBeforeParallel
<1>2. ASSUME NEW todo \in Lists, todo \in Seq(Node) PROVE InOrder(todo)
  <2>1. DOMAIN todo = 1 .. Len(todo)
    BY <1>2
  <2>2. QED
    BY <1>1, <2>1 DEF InOrder
<1>3. ASSUME NEW r \in Request PROVE InOrder(StatementsOf[r])
  <2>1. StatementsOf[r] \in Seq(Node) /\ StatementsOf[r] \in Lists
    BY RequestAssumption DEF Lists
  <2>2. QED
    BY <1>2, <2>1
<1>4. ASSUME NEW n \in Node, Kind[n] \in {"for", "call", "bare"} PROVE InOrder(Kids[n])
  <2>1. Kids[n] \in Seq(Node) /\ Kids[n] \in Lists
    BY <1>4, NodeAssumption DEF Lists
  <2>2. QED
    BY <1>2, <2>1
<1>5. ASSUME NEW n \in Node, Kind[n] = "parallel" PROVE InOrder(Kids[n]) /\ ~ HasSet(Kids[n])
  <2>1. Kids[n] \in Seq(Node)
    BY NodeAssumption
  <2>2. DOMAIN Kids[n] = 1 .. Len(Kids[n])
    BY <2>1
  <2>3. QED
    BY <1>1, <1>5, <2>2 DEF InOrder, HasSet
<1>6. ASSUME NEW n \in Node, Kind[n] = "for", Forks(Kids[n]) PROVE n \in Forking
  <2>1. Kids[n] \in Seq(Node)
    BY NodeAssumption
  <2>2. DOMAIN Kids[n] = 1 .. Len(Kids[n])
    BY <2>1
  <2>3. QED
    BY <1>6, <2>2, ForkingAssumption DEF Forks
<1>7. QED
  BY <1>3, <1>4, <1>5, <1>6

\* The child of a <parallel> sets nothing, and its parent nothing any more that it sees.
LEMMA SpawnUse ==
  ASSUME Base, Discipline, SetsBeforeParallel, NEW i \in Threads, NEW n \in Node, Spawn(i, n)
  PROVE  Discipline'
<1> DEFINE q == Len(threads) + 1
           old == threads[i].stack
<1>1. /\ threads[i].pc = "run" /\ old # << >> /\ Top(i).todo # << >>
      /\ n = Head(Top(i).todo) /\ Kind[n] = "parallel"
      /\ Len(threads') = Len(threads) + 1
      /\ \A j \in Threads' : j \in Threads \/ j = q
      /\ q \notin Threads
      /\ \A j \in Threads : j # i => threads'[j] = threads[j]
      /\ threads'[i].stack = Rest(i) /\ threads'[i].pc = "run" /\ threads'[i].uses = threads[i].uses
      /\ threads'[q] = NewThread(threads[i].req, "run", <<[Top(i) EXCEPT !.todo = Kids[n], !.ctx = 0]>>)
  BY SpawnThreads, Zenon
<1>2. maps' = maps /\ scopes' = scopes /\ toRegister' = toRegister
  BY DEF Spawn
<1>3. Top(i) \in Frame /\ Kids[n] \in Seq(Node) /\ Top(i) = old[Len(old)] /\ Len(old) \in 1 .. Len(old)
      /\ threads[i].req \in Request /\ Here(i) = Top(i).scope
  BY <1>1, TopFacts, NodeAssumption, BaseFacts, ThreadFields DEF Top, Here, Frames
<1>4. PICK child : child = [Top(i) EXCEPT !.todo = Kids[n], !.ctx = 0]
  OBVIOUS
<1>5. /\ child \in Frame /\ child.scope = Here(i) /\ child.todo = Kids[n] /\ child.env = Top(i).env
  BY <1>3, <1>4 DEF Frame
<1>6. PICK stack : stack = <<child>>
  OBVIOUS
<1>7. stack \in Seq(Frame) /\ Len(stack) = 1 /\ \A b \in 1 .. Len(stack) : b = 1 /\ stack[b] = child
  BY <1>5, <1>6
<1>8. threads'[q].pc = "run" /\ threads'[q].stack = stack /\ threads'[q].uses = Unused
  <2>1. PICK r \in Request : r = threads[i].req
    BY <1>3
  <2>2. PICK g : g = NewThread(r, "run", stack)
    OBVIOUS
  <2>3. g.pc = "run" /\ g.stack = stack /\ g.uses = Unused
    BY <2>2 DEF NewThread
  <2>4. threads'[q] = g
    BY <1>1, <1>4, <1>6, <2>1, <2>2
  <2>5. QED
    BY <2>3, <2>4
<1>9. InOrder(Kids[n]) /\ ~ HasSet(Kids[n]) /\ n \in Forking
  BY <1>1, ListsInOrder, ForkingAssumption
<1>10. GoodUse(maps, scopes, threads'[q])
  <2>1. SetsFirst(scopes, stack)
    BY <1>5, <1>7, <1>9 DEF SetsFirst
  <2>2. SeesFrom(maps, scopes, Here(i), Top(i).env)
    BY <1>3, UseOf DEF StackSees
  <2>3. StackSees(maps, scopes, stack)
    BY <1>5, <1>7, <2>2 DEF StackSees
  <2>4. QED
    BY <1>8, <2>1, <2>3 DEF GoodUse, UsesNow, Walked, ReadsRight
<1>11. GoodUse(maps, scopes, threads'[i])
  <2>1. threads'[i].uses = Unused
    BY <1>1, UseOf DEF GoodThread
  <2>2. StackSees(maps, scopes, Rest(i)) /\ SetsFirst(scopes, Rest(i))
    BY <1>1, RestSees
  <2>3. QED
    BY <1>1, <2>1, <2>2 DEF GoodUse, UsesNow, Walked, ReadsRight
<1>12. AllGoodUse'
  <2>1. ASSUME NEW j \in Threads' PROVE GoodUse(maps', scopes', threads'[j])
    <3>1. CASE j = q
      BY <1>2, <1>10, <3>1
    <3>2. CASE j = i
      BY <1>2, <1>11, <3>2
    <3>3. CASE j \in Threads /\ j # i
      BY <1>1, <1>2, <3>3 DEF Discipline, AllGoodUse
    <3>4. QED
      BY <1>1, <3>1, <3>2, <3>3
  <2>2. QED
    BY <2>1 DEF AllGoodUse
<1>13. Shrinks(old, Rest(i))
  BY <1>1, RestShrinks
<1>14. ASSUME NEW j \in Threads, NEW k \in Threads, j # k
       PROVE  Apart(scopes, threads'[j].stack, threads'[k].stack)
  <2>1. Apart(scopes, threads[j].stack, threads[k].stack)
    BY <1>14 DEF Discipline, AllApart
  <2>2. CASE j = i
    BY <1>1, <1>13, <1>14, <2>1, <2>2 DEF Apart, Shrinks
  <2>3. CASE k = i
    BY <1>1, <1>13, <1>14, <2>1, <2>3 DEF Apart, Shrinks
  <2>4. CASE j # i /\ k # i
    BY <1>1, <2>1, <2>4
  <2>5. QED
    BY <2>2, <2>3, <2>4
<1>15. ASSUME NEW j \in Threads PROVE Apart(scopes, stack, threads'[j].stack)
  BY <1>5, <1>7, <1>9 DEF Apart
<1>16. ASSUME NEW j \in Threads PROVE Apart(scopes, threads'[j].stack, stack)
  <2>1. CASE j = i
    <3>1. ASSUME NEW a \in 1 .. Len(Rest(i)), HasSet(Rest(i)[a].todo)
          PROVE  Rest(i)[a].scope \notin Chain(scopes, Here(i))
      BY <1>1, <1>9, <3>1, HeadForks, SMTT(40)
    <3>2. QED
      BY <1>1, <1>5, <1>7, <2>1, <3>1 DEF Apart
  <2>2. CASE j # i
    <3>1. Apart(scopes, threads[j].stack, old)
      BY <2>2 DEF Discipline, AllApart
    <3>2. QED
      BY <1>1, <1>3, <1>5, <1>7, <2>2, <3>1, ZenonT(60) DEF Apart
  <2>3. QED
    BY <2>1, <2>2
<1>17. AllApart'
  <2>1. ASSUME NEW j \in Threads', NEW k \in Threads', j # k
        PROVE  Apart(scopes', threads'[j].stack, threads'[k].stack)
    <3>1. CASE j = q
      <4>1. k \in Threads
        BY <1>1, <2>1, <3>1
      <4>2. QED
        BY <1>2, <1>8, <1>15, <3>1, <4>1
    <3>2. CASE k = q
      <4>1. j \in Threads
        BY <1>1, <2>1, <3>2
      <4>2. QED
        BY <1>2, <1>8, <1>16, <3>2, <4>1
    <3>3. CASE j # q /\ k # q
      <4>1. j \in Threads /\ k \in Threads
        BY <1>1, <3>3
      <4>2. QED
        BY <1>2, <1>14, <2>1, <4>1
    <3>4. QED
      BY <3>1, <3>2, <3>3
  <2>2. QED
    BY <2>1 DEF AllApart
<1>18. Separate(scopes')
  BY <1>2 DEF Discipline
<1>19. GlobalFirst'
  <2>1. toRegister.names = << >>
    BY <1>1, NoNames
  <2>2. QED
    BY <1>2, <2>1 DEF GlobalFirst
<1>20. QED
  BY <1>12, <1>17, <1>18, <1>19 DEF Discipline

\* What is seen from a new scope.
LEMMA SeesNew ==
  ASSUME NEW ms, NEW sc, NEW ms2, NEW sc2, Extends(sc, sc2),
         NEW s \in 1 .. Len(sc2), s \notin 1 .. Len(sc),
         NEW up \in 1 .. Len(sc), sc2[s].up = up,
         NEW item \in [Var -> Value], \A x \in Var : HeldIn(ms2, sc2, s, x) = item[x],
         NEW env \in [Var -> Value], SeesFrom(ms, sc, up, env),
         \A u \in Chain(sc, up) : SameAt(ms, sc, ms2, sc2, u)
  PROVE  SeesFrom(ms2, sc2, s, Extended(env, item))
<1>1. PICK low : low = Chain(sc, up) /\ low = Chain(sc2, up)
  BY ChainKept
<1>2. PICK ch : ch = Chain(sc2, s)
  OBVIOUS
<1>3. ch = {s} \cup low
  <2>1. Chain(sc2, s) = {s} \cup Chain(sc, up)
    BY ChainNew
  <2>2. QED
    BY <1>1, <1>2, <2>1
<1>4. s \in ch /\ \A u \in low : u < s
  <2>1. PICK l \in Nat : l = Len(sc)
    BY ExtendsLen
  <2>2. PICK m \in Nat : m = Len(sc2)
    BY ExtendsLen
  <2>3. \A u \in low : u \in 1 .. l
    BY <1>1, <2>1 DEF Chain
  <2>4. s \in 1 .. m /\ s \notin 1 .. l
    BY <2>1, <2>2
  <2>5. QED
    BY <1>3, <2>3, <2>4
<1>5. SeesFrom(ms2, sc2, up, env)
  BY SeesKept
<1>6. \A x \in Var : HeldIn(ms2, sc2, s, x) = item[x]
  OBVIOUS
<1>7. sc2[s].up # 0
  BY ExtendsLen
<1>8. PICK now : now = Extended(env, item)
  OBVIOUS
<1>9. \A x \in Var : now[x] = IF item[x] # Nil THEN item[x] ELSE env[x]
  BY <1>8 DEF Extended
<1>10. ASSUME NEW x \in Var, NEW t \in ch,
              \A u \in ch : u > t => HeldIn(ms2, sc2, u, x) = Nil,
              HeldIn(ms2, sc2, t, x) # Nil \/ sc2[t].up = 0
       PROVE  now[x] = HeldIn(ms2, sc2, t, x)
  <2>1. CASE t = s
    BY <1>6, <1>7, <1>9, <1>10, <2>1
  <2>2. CASE t # s
    <3>1. t \in low /\ s > t
      <4>1. t \in low
        BY <1>3, <2>2
      <4>2. PICK l \in Nat : l = Len(sc)
        BY ExtendsLen
      <4>3. PICK m \in Nat : m = Len(sc2)
        BY ExtendsLen
      <4>4. t \in 1 .. l /\ s \in 1 .. m /\ t < s
        BY <1>1, <1>4, <4>1, <4>2, <4>3 DEF Chain
      <4>5. QED
        BY <4>1, <4>4
    <3>2. HeldIn(ms2, sc2, s, x) = Nil
      BY <1>4, <1>10, <3>1
    <3>3. now[x] = env[x]
      BY <1>6, <1>9, <3>2
    <3>4. \A u \in low : u > t => HeldIn(ms2, sc2, u, x) = Nil
      BY <1>3, <1>10
    <3>5. env[x] = HeldIn(ms2, sc2, t, x)
      BY <1>1, <1>5, <1>10, <3>1, <3>4 DEF SeesFrom
    <3>6. QED
      BY <3>3, <3>5
  <2>3. QED
    BY <2>1, <2>2
<1>11. QED
  BY <1>2, <1>8, <1>10 DEF SeesFrom

\* New frames, each of a new scope from which the scopes D are searched.
MoreFrames(sc, sc2, rest, more, D) ==
  /\ \A b \in 1 .. Len(more) :
       \/ b \in 1 .. Len(rest) /\ more[b] = rest[b]
       \/ /\ more[b].scope \notin 1 .. Len(sc) /\ InOrder(more[b].todo)
          /\ Chain(sc2, more[b].scope) = {more[b].scope} \cup D
          /\ Forks(more[b].todo) =>
               \A a \in 1 .. Len(rest) : HasSet(rest[a].todo) => rest[a].scope \notin D
  /\ \A a, b \in 1 .. Len(more) : a # b => more[a].scope # more[b].scope

LEMMA SetsFirstMore ==
  ASSUME NEW sc, NEW sc2, Extends(sc, sc2), NEW c, NEW rest, GoodStack(rest, Len(sc), c),
         SetsFirst(sc, rest), NEW D \in SUBSET (1 .. Len(sc)), NEW more,
         MoreFrames(sc, sc2, rest, more, D)
  PROVE  SetsFirst(sc2, more)
<1>0. /\ \A b \in 1 .. Len(more) :
           \/ b \in 1 .. Len(rest) /\ more[b] = rest[b]
           \/ /\ more[b].scope \notin 1 .. Len(sc) /\ InOrder(more[b].todo)
              /\ Chain(sc2, more[b].scope) = {more[b].scope} \cup D
              /\ Forks(more[b].todo) =>
                   \A a \in 1 .. Len(rest) : HasSet(rest[a].todo) => rest[a].scope \notin D
      /\ \A a, b \in 1 .. Len(more) : a # b => more[a].scope # more[b].scope
  BY DEF MoreFrames
<1>1. \A b \in 1 .. Len(rest) : /\ rest[b].scope \in 1 .. Len(sc)
                                /\ Chain(sc2, rest[b].scope) = Chain(sc, rest[b].scope)
  <2>1. \A b \in 1 .. Len(rest) : rest[b].scope \in 1 .. Len(sc)
    BY ExtendsLen DEF GoodStack
  <2>2. QED
    BY <2>1, ChainKept
<1>2. \A b \in 1 .. Len(more) : InOrder(more[b].todo)
  BY <1>0 DEF SetsFirst
<1>3. ASSUME NEW a \in 1 .. Len(more), NEW b \in 1 .. Len(more),
             more[a].scope \in Chain(sc2, more[b].scope), HasSet(more[a].todo), Forks(more[b].todo)
      PROVE  a = b
  <2>1. CASE a \in 1 .. Len(rest) /\ more[a] = rest[a] /\ b \in 1 .. Len(rest) /\ more[b] = rest[b]
    BY <1>1, <1>3, <2>1 DEF SetsFirst
  <2>2. CASE more[a].scope \notin 1 .. Len(sc) /\ b \in 1 .. Len(rest) /\ more[b] = rest[b]
    BY <1>1, <1>3, <2>2 DEF Chain
  <2>3. CASE /\ a \in 1 .. Len(rest) /\ more[a] = rest[a]
             /\ more[b].scope \notin 1 .. Len(sc) /\ Chain(sc2, more[b].scope) = {more[b].scope} \cup D
             /\ \A e \in 1 .. Len(rest) : HasSet(rest[e].todo) => rest[e].scope \notin D
    BY <1>1, <1>3, <2>3
  <2>4. CASE /\ more[a].scope \notin 1 .. Len(sc)
             /\ more[b].scope \notin 1 .. Len(sc) /\ Chain(sc2, more[b].scope) = {more[b].scope} \cup D
    BY <1>0, <1>3, <2>4
  <2>5. QED
    BY <1>0, <1>3, <2>1, <2>2, <2>3, <2>4
<1>4. QED
  BY <1>2, <1>3 DEF SetsFirst

\* New scopes behind up, each with a map of its own that holds what item does, or with no
\* map and nothing, and with a frame of the goroutine i, which becomes f.
Grows(i, up, env, item, todo, f) ==
  /\ Len(scopes) <= Len(scopes')
  /\ \A s \in Scopes : scopes'[s] = scopes[s]
  /\ \A m \in 1 .. Len(maps) : maps'[m] = maps[m]
  /\ \A s \in Scopes' : s \notin Scopes =>
       /\ scopes'[s].up = up
       /\ \/ scopes'[s].map > Len(maps) /\ maps'[scopes'[s].map] = item
          \/ scopes'[s].map = 0 /\ item = NoVars
  /\ \A s, t \in Scopes' : s \notin Scopes /\ t \notin Scopes /\ s # t =>
       scopes'[s].map # scopes'[t].map
  /\ SetTo(i, f) /\ f.pc = "run" /\ f.uses = Unused
  /\ \A b \in 1 .. Len(f.stack) :
       \/ b \in Frames(i) /\ f.stack[b] = Rest(i)[b]
       \/ /\ f.stack[b].scope \in Scopes' /\ f.stack[b].scope \notin Scopes
          /\ f.stack[b].todo = todo /\ f.stack[b].env = Extended(env, item)

\* A list that may be run in scopes behind up.
MayGrow(i, up, todo) ==
  /\ up = 1 \/ up = Here(i)
  /\ InOrder(todo)
  /\ Forks(todo) => \A a \in 1 .. Len(Rest(i)) :
       HasSet(Rest(i)[a].todo) => Rest(i)[a].scope \notin Chain(scopes, up)

LEMMA GrowUse ==
  ASSUME Base, Discipline, Base', NEW i \in Threads, threads[i].pc # "new",
         threads[i].stack # << >>, Top(i).todo # << >>, UNCHANGED toRegister,
         NEW up \in Scopes, NEW env \in [Var -> Value], SeesFrom(maps, scopes, up, env),
         NEW item \in [Var -> Value], NEW todo, NEW f \in Thread,
         MayGrow(i, up, todo), Grows(i, up, env, item, todo, f)
  PROVE  Discipline'
<1> USE DEF MayGrow, Grows
<1>1. /\ Linked(scopes) /\ Linked(scopes') /\ Extends(scopes, scopes')
  <2>1. Linked(scopes)
    BY BaseLinked
  <2>2. Linked(scopes')
    BY NextLinked
  <2>3. QED
    BY <2>1, <2>2 DEF Extends, Scopes
<1>2. /\ Scopes = 1 .. Len(scopes) /\ Scopes' = 1 .. Len(scopes') /\ Scopes \subseteq Scopes'
      /\ Len(maps) \in Nat
      /\ \A s \in Scopes' : scopes'[s].map \in Nat
  <2>1. Scopes = 1 .. Len(scopes) /\ Scopes' = 1 .. Len(scopes') /\ Len(maps) \in Nat
    BY BaseFacts DEF Scopes
  <2>2. ASSUME NEW s \in 1 .. Len(scopes') PROVE scopes'[s].map \in Nat
    <3>1. PICK sc : sc = scopes'
      OBVIOUS
    <3>2. sc \in Seq([up : Nat, map : Nat]) /\ s \in 1 .. Len(sc)
      BY <1>1, <3>1 DEF Linked
    <3>3. sc[s] \in [up : Nat, map : Nat]
      BY <3>2, ElementOfSeq
    <3>4. QED
      BY <3>1, <3>3
  <2>3. QED
    BY <1>1, <2>1, <2>2, ExtendsLen
<1>3. ASSUME NEW s \in Scopes PROVE scopes[s].map \in 0 .. Len(maps)
  <2>1. scopes[s].map <= Len(maps)
    BY DEF Base, Stores
  <2>2. scopes[s].map \in Nat
    BY BaseFacts
  <2>3. QED
    BY <1>2, <2>1, <2>2
<1>4. ASSUME NEW s \in Scopes PROVE SameAt(maps, scopes, maps', scopes', s)
  <2>1. scopes'[s].map = scopes[s].map
    OBVIOUS
  <2>2. scopes[s].map # 0 => scopes[s].map \in 1 .. Len(maps)
    BY <1>2, <1>3
  <2>3. QED
    BY <2>1, <2>2 DEF SameAt
<1>5. Separate(scopes')
  <2>1. Separate(scopes)
    BY DEF Discipline
  <2>2. ASSUME NEW s \in Scopes', NEW t \in Scopes', s # t, scopes'[s].map # 0
        PROVE  scopes'[s].map # scopes'[t].map
    <3>1. CASE s \in Scopes /\ t \in Scopes
      BY <1>2, <2>1, <2>2, <3>1 DEF Separate
    <3>2. CASE s \in Scopes /\ t \notin Scopes
      <4>1. scopes'[s].map <= Len(maps) /\ (scopes'[t].map > Len(maps) \/ scopes'[t].map = 0)
        BY <1>2, <1>3, <3>2
      <4>2. QED
        BY <1>2, <2>2, <4>1
    <3>3. CASE s \notin Scopes /\ t \in Scopes
      <4>1. scopes'[t].map <= Len(maps) /\ (scopes'[s].map > Len(maps) \/ scopes'[s].map = 0)
        BY <1>2, <1>3, <3>3
      <4>2. QED
        BY <1>2, <2>2, <4>1
    <3>4. CASE s \notin Scopes /\ t \notin Scopes
      BY <2>2, <3>4
    <3>5. QED
      BY <3>1, <3>2, <3>3, <3>4
  <2>3. QED
    BY <1>2, <2>2 DEF Separate
<1>6. PICK stack : stack = f.stack
  OBVIOUS
<1>7. PICK rest : rest = Rest(i)
  OBVIOUS
<1>8. PICK old : old = threads[i].stack
  OBVIOUS
<1>9. /\ GoodStack(rest, Len(scopes), Len(ctxs)) /\ Len(rest) = Len(old) /\ Frames(i) = 1 .. Len(rest)
      /\ SetsFirst(scopes, rest) /\ StackSees(maps, scopes, rest) /\ Shrinks(old, rest)
  BY <1>7, <1>8, RestFacts, RestSees, RestShrinks DEF Frames
<1>10. ASSUME NEW s \in Scopes', s \notin Scopes
       PROVE  Chain(scopes', s) = {s} \cup Chain(scopes, up)
  <2>1. s \in 1 .. Len(scopes') /\ s \notin 1 .. Len(scopes) /\ up \in 1 .. Len(scopes) /\ scopes'[s].up = up
    BY <1>2, <1>10
  <2>2. QED
    BY <1>1, <2>1, ChainNew
<1>11. ASSUME NEW a \in 1 .. Len(stack), NEW b \in 1 .. Len(stack), a # b
       PROVE  stack[a].scope # stack[b].scope
  <2>1. threads'[i] = f /\ i \in Threads'
    BY SetToLen
  <2>2. GoodThread(i, f, Len(scopes'), Len(ctxs'))
    BY <2>1 DEF Base, AllGood
  <2>3. GoodStack(stack, Len(scopes'), Len(ctxs'))
    BY <1>6, <2>2 DEF GoodThread
  <2>4. stack[a].scope \in Nat /\ stack[b].scope \in Nat
    BY <2>3, FrameFields DEF GoodStack
  <2>5. a < b \/ b < a
    BY <1>11, <2>3 DEF GoodStack
  <2>6. QED
    BY <2>3, <2>4, <2>5 DEF GoodStack
<1>12. SetsFirst(scopes', stack)
  <2>1. PICK D : D = Chain(scopes, up)
    OBVIOUS
  <2>2. D \in SUBSET (1 .. Len(scopes))
    BY <2>1 DEF Chain
  <2>3. ASSUME NEW b \in 1 .. Len(stack)
        PROVE  \/ b \in 1 .. Len(rest) /\ stack[b] = rest[b]
               \/ /\ stack[b].scope \notin 1 .. Len(scopes) /\ InOrder(stack[b].todo)
                  /\ Chain(scopes', stack[b].scope) = {stack[b].scope} \cup D
                  /\ Forks(stack[b].todo) =>
                       \A a \in 1 .. Len(rest) : HasSet(rest[a].todo) => rest[a].scope \notin D
    <3>1. CASE b \in Frames(i) /\ stack[b] = rest[b]
      BY <1>9, <3>1
    <3>2. CASE stack[b].scope \in Scopes' /\ stack[b].scope \notin Scopes /\ stack[b].todo = todo
      BY <1>2, <1>7, <1>10, <2>1, <3>2
    <3>3. QED
      BY <1>6, <1>7, <3>1, <3>2
  <2>4. GoodStack(rest, Len(scopes), Len(ctxs)) /\ SetsFirst(scopes, rest)
    BY <1>9
  <2>5. \A a, b \in 1 .. Len(stack) : a # b => stack[a].scope # stack[b].scope
    BY <1>11
  <2>6. MoreFrames(scopes, scopes', rest, stack, D)
    BY <2>3, <2>5 DEF MoreFrames
  <2>7. QED
    BY <1>1, <2>2, <2>4, <2>6, SetsFirstMore
<1>13. StackSees(maps', scopes', stack)
  <2>1. ASSUME NEW b \in 1 .. Len(stack) PROVE SeesFrom(maps', scopes', stack[b].scope, stack[b].env)
    <3>1. CASE b \in Frames(i) /\ stack[b] = rest[b]
      <4>1. rest[b].scope \in 1 .. Len(scopes)
        BY <1>1, <1>9, <3>1, ExtendsLen DEF GoodStack
      <4>2. \A u \in Chain(scopes, rest[b].scope) : SameAt(maps, scopes, maps', scopes', u)
        BY <1>2, <1>4 DEF Chain
      <4>3. SeesFrom(maps, scopes, rest[b].scope, rest[b].env)
        BY <1>9, <3>1 DEF StackSees
      <4>4. QED
        BY <1>1, <3>1, <4>1, <4>2, <4>3, SeesKept
    <3>2. CASE /\ stack[b].scope \in Scopes' /\ stack[b].scope \notin Scopes
               /\ stack[b].env = Extended(env, item)
      <4>1. PICK s : s = stack[b].scope
        OBVIOUS
      <4>2. /\ s \in 1 .. Len(scopes') /\ s \notin 1 .. Len(scopes) /\ up \in 1 .. Len(scopes)
            /\ scopes'[s].up = up
            /\ \A x \in Var : HeldIn(maps', scopes', s, x) = item[x]
        <5>1. CASE scopes'[s].map > Len(maps) /\ maps'[scopes'[s].map] = item
          BY <1>2, <3>2, <4>1, <5>1 DEF HeldIn
        <5>2. CASE scopes'[s].map = 0 /\ item = NoVars
          BY <1>2, <3>2, <4>1, <5>2 DEF HeldIn, NoVars
        <5>3. QED
          BY <3>2, <4>1, <5>1, <5>2
      <4>3. \A u \in Chain(scopes, up) : SameAt(maps, scopes, maps', scopes', u)
        BY <1>2, <1>4 DEF Chain
      <4>4. SeesFrom(maps', scopes', s, Extended(env, item))
        BY <1>1, <4>2, <4>3, SeesNew
      <4>5. QED
        BY <3>2, <4>1, <4>4
    <3>3. QED
      BY <1>6, <1>7, <3>1, <3>2
  <2>2. QED
    BY <2>1 DEF StackSees
<1>14. Follows(scopes, scopes', old, stack)
  <2>1. Len(old) \in 1 .. Len(old) /\ Here(i) = old[Len(old)].scope
    BY <1>8, TopFacts DEF Frames
  <2>2. ASSUME NEW b \in 1 .. Len(stack)
        PROVE  \/ /\ b \in 1 .. Len(old) /\ stack[b].scope = old[b].scope
                  /\ HasSet(stack[b].todo) => HasSet(old[b].todo)
               \/ /\ stack[b].scope \in 1 .. Len(scopes') /\ stack[b].scope \notin 1 .. Len(scopes)
                  /\ \A t \in Chain(scopes', stack[b].scope) :
                       \/ t = stack[b].scope \/ t = 1
                       \/ Len(old) \in 1 .. Len(old) /\ t \in Chain(scopes, old[Len(old)].scope)
    <3>1. CASE b \in Frames(i) /\ stack[b] = rest[b]
      BY <1>9, <3>1 DEF Shrinks
    <3>2. CASE stack[b].scope \in Scopes' /\ stack[b].scope \notin Scopes
      <4>1. Chain(scopes', stack[b].scope) = {stack[b].scope} \cup Chain(scopes, up)
        BY <1>10, <3>2
      <4>2. up = 1 => Chain(scopes, up) = {1}
        BY <1>1, ChainRoot
      <4>3. QED
        BY <1>2, <2>1, <3>2, <4>1, <4>2
    <3>3. QED
      BY <1>6, <1>7, <3>1, <3>2
  <2>3. QED
    BY <2>2 DEF Follows
<1>15. GoodUse(maps', scopes', f)
  BY <1>6, <1>12, <1>13 DEF GoodUse, UsesNow, Walked, ReadsRight
<1>16. \A j \in Threads : j # i => \A b \in Frames(j) : \A s \in Chain(scopes, threads[j].stack[b].scope) :
         SameAt(maps, scopes, maps', scopes', s)
  BY <1>2, <1>4 DEF Chain
<1>17. toRegister.names = << >>
  BY NoNames
<1>18. QED
  BY <1>1, <1>5, <1>6, <1>8, <1>14, <1>15, <1>16, <1>17, StepUse

\* A v-for: each round sees what its place sees, and its item.
LEMMA ForUse ==
  ASSUME Base, Discipline, SetsBeforeParallel, NEW i \in Threads, NEW n \in Node, For(i, n)
  PROVE  Discipline'
<1>1. threads[i].pc = "read" /\ n = Current(i) /\ Kind[n] = "for" /\ UNCHANGED toRegister
  BY DEF For, ReadFor
<1>2. threads[i].stack # << >> /\ Top(i).todo # << >> /\ n = Head(Top(i).todo)
  BY <1>1, EvaluatingFacts DEF Evaluating, Current
<1>3. PICK k \in Nat, f \in Thread : Rounds(i, n, k, f)
  BY ForFacts
<1>4. PICK item \in [Var -> Value] : item = [NoVars EXCEPT ![As[n]] = threads[i].val]
  <2>1. threads[i].val \in Value /\ As[n] \in Var
    BY BaseFacts, ThreadFields, NodeAssumption
  <2>2. NoVars \in [Var -> Value]
    BY DEF NoVars, Value
  <2>3. [NoVars EXCEPT ![As[n]] = threads[i].val] \in [Var -> Value]
    BY <2>1, <2>2
  <2>4. QED
    BY <2>3
<1>5. PICK env \in [Var -> Value] : env = Top(i).env
  BY <1>2, TopFacts, FrameFields
<1>6. PICK up \in Scopes : up = Here(i)
  BY <1>2, TopFacts
<1>7. /\ Len(scopes') = Len(scopes) + k
      /\ \A s \in Scopes : scopes'[s] = scopes[s]
      /\ \A m \in 1 .. Len(maps) : maps'[m] = maps[m]
      /\ \A s \in Scopes' : s \notin Scopes =>
           /\ s - Len(scopes) \in 1 .. k /\ scopes'[s].up = up
           /\ scopes'[s].map = Len(maps) + (s - Len(scopes)) /\ maps'[scopes'[s].map] = item
      /\ SetTo(i, f) /\ f.pc = "run" /\ f.uses = Unused
      /\ \A b \in 1 .. Len(f.stack) :
           \/ b \in Frames(i) /\ f.stack[b] = Rest(i)[b]
           \/ /\ f.stack[b].scope \in Scopes' /\ f.stack[b].scope \notin Scopes
              /\ f.stack[b].todo = Kids[n] /\ f.stack[b].env = Extended(env, item)
  BY <1>3, <1>4, <1>5, <1>6 DEF Rounds
<1>8. PICK p \in Nat : p = Len(scopes)
  BY BaseFacts
<1>9. PICK q \in Nat : q = Len(maps)
  BY BaseFacts, Zenon
<1>10. Len(scopes) <= Len(scopes')
  BY <1>7, <1>8
<1>11. ASSUME NEW s \in Scopes', s \notin Scopes
       PROVE  scopes'[s].up = up /\ scopes'[s].map > Len(maps) /\ maps'[scopes'[s].map] = item
  <2>1. PICK j \in 1 .. k : j = s - Len(scopes)
    BY <1>7, <1>11
  <2>2. scopes'[s].map = q + j
    BY <1>7, <1>9, <1>11, <2>1
  <2>3. scopes'[s].map > Len(maps)
    BY <1>9, <2>2
  <2>4. QED
    BY <1>7, <1>11, <2>3
<1>12. ASSUME NEW s \in Scopes', NEW t \in Scopes', s \notin Scopes, t \notin Scopes, s # t
       PROVE  scopes'[s].map # scopes'[t].map
  <2>1. s \in Int /\ t \in Int
    BY DEF Scopes
  <2>2. scopes'[s].map = q + (s - p) /\ scopes'[t].map = q + (t - p)
    BY <1>7, <1>8, <1>9, <1>12
  <2>3. QED
    BY <1>8, <1>9, <1>12, <2>1, <2>2
<1>13. SeesFrom(maps, scopes, up, env)
  <2>1. Len(threads[i].stack) \in 1 .. Len(threads[i].stack) /\ Here(i) = threads[i].stack[Len(threads[i].stack)].scope
    BY <1>2, TopFacts DEF Frames
  <2>2. StackSees(maps, scopes, threads[i].stack)
    BY UseOf
  <2>3. QED
    BY <1>5, <1>6, <2>1, <2>2 DEF StackSees, Top
<1>14. InOrder(Kids[n])
  BY <1>1, ListsInOrder
<1>15. ASSUME Forks(Kids[n])
       PROVE  \A a \in 1 .. Len(Rest(i)) :
                HasSet(Rest(i)[a].todo) => Rest(i)[a].scope \notin Chain(scopes, up)
  <2>1. Head(Top(i).todo) \in Forking
    BY <1>1, <1>2, <1>15, ListsInOrder
  <2>2. QED
    BY <1>2, <1>6, <2>1, HeadForks
<1>16. Base' /\ threads[i].pc # "new"
  BY <1>1, ForBase
<1>17. MayGrow(i, up, Kids[n])
  BY <1>6, <1>14, <1>15 DEF MayGrow
<1>18. Grows(i, up, env, item, Kids[n], f)
  BY <1>7, <1>10, <1>11, <1>12 DEF Grows
<1>19. QED
  BY <1>1, <1>2, <1>13, <1>16, <1>17, <1>18, GrowUse

\* Global and Function have set what is seen from the prototype.
LEMMA RootSees ==
  ASSUME Base
  PROVE  /\ SeesFrom(maps, scopes, 1, maps[1]) /\ maps[1] \in [Var -> Value]
         /\ Chain(scopes, 1) = {1} /\ 1 \in Scopes
<1>1. scopes[1].map = 1 /\ 1 \in Scopes
  BY BaseFacts DEF Base, Stores, Prototype
<1>2. Chain(scopes, 1) = {1}
  BY BaseLinked, ChainRoot
<1>3. maps[1] \in [Var -> Value]
  BY BaseFacts
<1>4. SeesFrom(maps, scopes, 1, maps[1])
  BY <1>1, <1>2 DEF SeesFrom, HeldIn
<1>5. QED
  BY <1>1, <1>2, <1>3, <1>4

\* A component sees its props and what Global has set, whatever its caller sets.
LEMMA CallStepUse ==
  ASSUME Base, Discipline, Base', SetsBeforeParallel, NEW i \in Threads, NEW n \in Node,
         threads[i].pc \in Evaluating, Kind[n] \in {"call", "bare"},
         NEW item \in [Var -> Value], NEW m \in Nat,
         scopes' = Append(scopes, [up |-> Prototype, map |-> m]),
         \A k \in 1 .. Len(maps) : maps'[k] = maps[k],
         (m > Len(maps) /\ maps'[m] = item) \/ (m = 0 /\ item = NoVars),
         NEW frame, frame = [todo |-> Kids[n], scope |-> Len(scopes) + 1,
                             ctx |-> threads[i].ctx, env |-> Extended(maps[Prototype], item)],
         SetTo(i, NewThread(threads[i].req, "run", Append(Rest(i), frame))),
         UNCHANGED toRegister
  PROVE  Discipline'
<1>1. threads[i].stack # << >> /\ Top(i).todo # << >>
  BY EvaluatingFacts
<1>2. /\ threads[i].req \in Request /\ Len(scopes) \in Nat /\ threads[i].ctx \in Nat
  BY BaseFacts, ThreadFields
<1>3. PICK env \in [Var -> Value] : env = maps[1]
  BY RootSees
<1>4. frame \in Frame /\ frame.scope = Len(scopes) + 1 /\ frame.todo = Kids[n] /\ frame.env = Extended(env, item)
  <2>1. PICK e \in [Var -> Value] : e = Extended(env, item)
    BY DEF Extended
  <2>2. frame = [todo |-> Kids[n], scope |-> Len(scopes) + 1, ctx |-> threads[i].ctx, env |-> e]
    BY <1>3, <2>1 DEF Prototype
  <2>3. Kids[n] \in Seq(Node) /\ Len(scopes) + 1 \in Nat
    BY <1>2, NodeAssumption
  <2>4. QED
    BY <1>2, <2>1, <2>2, <2>3 DEF Frame
<1>5. PICK rest : rest = Rest(i)
  OBVIOUS
<1>6. rest \in Seq(Frame) /\ Frames(i) = 1 .. Len(rest)
  BY <1>1, <1>5, RestFacts DEF GoodStack, Frames
<1>7. PICK more : more = Append(rest, frame)
  OBVIOUS
<1>8. /\ more \in Seq(Frame)
      /\ \A b \in 1 .. Len(more) : (b \in Frames(i) /\ more[b] = rest[b]) \/ more[b] = frame
  <2>1. PICK l \in Nat : l = Len(rest)
    BY <1>6
  <2>2. /\ more \in Seq(Frame) /\ Len(more) = l + 1
        /\ \A b \in 1 .. l : more[b] = rest[b]
        /\ more[l + 1] = frame
    BY <1>4, <1>6, <1>7, <2>1, AppendProperties
  <2>3. QED
    BY <1>6, <2>1, <2>2
<1>9. PICK f : f = NewThread(threads[i].req, "run", more)
  OBVIOUS
<1>10. f \in Thread /\ f.pc = "run" /\ f.stack = more /\ f.uses = Unused
  <2>1. PICK r \in Request : r = threads[i].req
    BY <1>2
  <2>2. f = NewThread(r, "run", more)
    BY <1>9, <2>1
  <2>3. NewThread(r, "run", more) \in Thread
    BY <1>8, NewThreadIsThread
  <2>4. QED
    BY <2>2, <2>3 DEF NewThread
<1>11. SetTo(i, f)
  BY <1>5, <1>7, <1>9
<1>12. /\ Len(scopes) <= Len(scopes') /\ \A s \in Scopes : scopes'[s] = scopes[s]
       /\ scopes'[Len(scopes) + 1].up = 1 /\ scopes'[Len(scopes) + 1].map = m
       /\ \A s \in Scopes' : s \in Scopes \/ s = Len(scopes) + 1
       /\ Len(scopes) + 1 \in Scopes' /\ Len(scopes) + 1 \notin Scopes
  BY OneScope
<1>13. Grows(i, 1, env, item, Kids[n], f)
  <2>1. \A s \in Scopes' : s \notin Scopes => scopes'[s].up = 1 /\ scopes'[s].map = m
    BY <1>12
  <2>2. \A s, t \in Scopes' : s \notin Scopes /\ t \notin Scopes => s = t
    BY <1>12
  <2>3. \A b \in 1 .. Len(f.stack) :
          \/ b \in Frames(i) /\ f.stack[b] = Rest(i)[b]
          \/ /\ f.stack[b].scope \in Scopes' /\ f.stack[b].scope \notin Scopes
             /\ f.stack[b].todo = Kids[n] /\ f.stack[b].env = Extended(env, item)
    BY <1>4, <1>5, <1>8, <1>10, <1>12
  <2>4. QED
    BY <1>10, <1>11, <1>12, <2>1, <2>2, <2>3 DEF Grows
<1>14. MayGrow(i, 1, Kids[n])
  <2>1. InOrder(Kids[n])
    BY ListsInOrder
  <2>2. ASSUME NEW a \in 1 .. Len(rest) PROVE rest[a].scope \notin Chain(scopes, 1)
    <3>1. rest[a].scope \in 2 .. Len(scopes)
      BY <1>1, <1>5, RestFacts DEF GoodStack
    <3>2. QED
      BY <3>1, RootSees
  <2>3. QED
    BY <1>5, <2>1, <2>2 DEF MayGrow
<1>15. threads[i].pc # "new"
  BY DEF Evaluating
<1>16. SeesFrom(maps, scopes, 1, env) /\ 1 \in Scopes
  BY <1>3, RootSees
<1>17. QED
  BY <1>1, <1>3, <1>10, <1>13, <1>14, <1>15, <1>16, GrowUse

LEMMA CallUse ==
  ASSUME Base, Discipline, SetsBeforeParallel, NEW i \in Threads, NEW n \in Node, Call(i, n)
  PROVE  Discipline'
<1>1. PICK item : item = WithProps([NoVars EXCEPT ![As[n]] = threads[i].val])
  OBVIOUS
<1>2. PICK frame : frame = [todo |-> Kids[n], scope |-> Len(scopes) + 1, ctx |-> threads[i].ctx,
                            env |-> Extended(maps[Prototype], item)]
  OBVIOUS
<1>3. PICK m : m = Len(maps) + 1
  OBVIOUS
<1>4. /\ threads[i].pc = "read" /\ Kind[n] = "call" /\ maps' = Append(maps, item)
      /\ scopes' = Append(scopes, [up |-> Prototype, map |-> m])
      /\ SetTo(i, NewThread(threads[i].req, "run", Append(Rest(i), frame)))
      /\ UNCHANGED toRegister
  BY <1>1, <1>2, <1>3 DEF Call, ReadFor
<1>5. /\ threads[i].val \in Value /\ maps \in Seq([Var -> Value])
      /\ Len(maps) \in Nat /\ As[n] \in Var
  BY BaseFacts, ThreadFields, NodeAssumption DEF Base, Stores
<1>6. item \in [Var -> Value]
  <2>1. maps[1] \in [Var -> Value]
    BY RootSees
  <2>2. QED
    BY <1>1, <1>5, <2>1, MapsOf
<1>7. m \in Nat /\ m > Len(maps)
  BY <1>3, <1>5
<1>8. (\A k \in 1 .. Len(maps) : maps'[k] = maps[k]) /\ maps'[m] = item
  BY <1>3, <1>4, <1>5, <1>6, AppendProperties
<1>9. Base' /\ threads[i].pc \in Evaluating
  BY <1>4, CallBase DEF Evaluating
<1>10. QED
  BY <1>2, <1>4, <1>6, <1>7, <1>8, <1>9, CallStepUse

\* Without props it sees only what Global has set.
LEMMA CallBareUse ==
  ASSUME Base, Discipline, SetsBeforeParallel, NEW i \in Threads, NEW n \in Node, CallBare(i, n)
  PROVE  Discipline'
<1>1. PICK frame : frame = [todo |-> Kids[n], scope |-> Len(scopes) + 1, ctx |-> threads[i].ctx,
                            env |-> Extended(maps[Prototype], NoVars)]
  OBVIOUS
<1>2. /\ threads[i].pc = "call" /\ Kind[n] = "bare" /\ maps' = maps
      /\ scopes' = Append(scopes, [up |-> Prototype, map |-> 0])
      /\ SetTo(i, NewThread(threads[i].req, "run", Append(Rest(i), frame)))
      /\ UNCHANGED toRegister
  BY <1>1 DEF CallBare
<1>3. NoVars \in [Var -> Value]
  BY DEF NoVars, Value
<1>4. Base' /\ threads[i].pc \in Evaluating
  BY <1>2, CallBareBase DEF Evaluating
<1>5. QED
  BY <1>1, <1>2, <1>3, <1>4, CallStepUse

-----------------------------------------------------------------------------
(* A request begins *)

LEMMA EnterUse ==
  ASSUME Base, Discipline, Base', SetsBeforeParallel,
         NEW i \in Threads, threads[i].pc = "new", threads[i].uses # Unused,
         NEW data \in [Var -> Value], NEW m \in Nat, m \notin {0, 1},
         \A s \in Scopes : scopes[s].map # m,
         maps'[m] = data, \A k \in 1 .. Len(maps) : k # m => maps'[k] = maps[k],
         scopes' = Append(scopes, [up |-> Prototype, map |-> m]),
         SetTo(i, NewThread(threads[i].req, "run", <<FirstFrame(threads[i].req, Len(scopes) + 1, data)>>)),
         UNCHANGED toRegister
  PROVE  Discipline'
<1> DEFINE r == threads[i].req
           new == Len(scopes) + 1
<1>1. r \in Request /\ threads[i].stack = << >>
  BY BaseFacts, ThreadFields, UseOf DEF GoodThread
<1>2. PICK frame : frame = FirstFrame(r, Len(scopes) + 1, data)
  OBVIOUS
<1>3. PICK env \in [Var -> Value] : env = maps[1]
  BY RootSees
<1>4. Len(scopes) \in Nat /\ Len(maps) \in Nat
  BY BaseFacts
<1>5. /\ frame \in Frame /\ frame.scope = new /\ frame.todo = StatementsOf[r]
      /\ frame.env = Extended(env, data)
  <2>1. PICK e \in [Var -> Value] : e = Extended(env, data)
    BY DEF Extended
  <2>2. PICK todo \in Seq(Node) : todo = StatementsOf[r]
    BY <1>1, RequestAssumption
  <2>3. frame = [todo |-> todo, scope |-> new, ctx |-> 0, env |-> e]
    BY <1>2, <1>3, <2>1, <2>2 DEF FirstFrame, Prototype
  <2>4. new \in Nat
    BY <1>4
  <2>5. QED
    BY <2>1, <2>2, <2>3, <2>4 DEF Frame
<1>6. PICK stack : stack = <<frame>>
  OBVIOUS
<1>7. stack \in Seq(Frame) /\ Len(stack) = 1 /\ \A b \in 1 .. Len(stack) : b = 1 /\ stack[b] = frame
  BY <1>5, <1>6
<1>8. PICK f : f = NewThread(r, "run", stack)
  OBVIOUS
<1>9. f \in Thread /\ f.pc = "run" /\ f.stack = stack /\ f.uses = Unused
  <2>1. PICK q \in Request : q = r
    BY <1>1
  <2>2. f = NewThread(q, "run", stack)
    BY <1>8, <2>1
  <2>3. NewThread(q, "run", stack) \in Thread
    BY <1>7, NewThreadIsThread
  <2>4. QED
    BY <2>2, <2>3 DEF NewThread
<1>10. SetTo(i, f)
  BY <1>2, <1>6, <1>8
<1>11. /\ Len(scopes) <= Len(scopes') /\ \A s \in Scopes : scopes'[s] = scopes[s]
       /\ scopes'[new].up = 1 /\ scopes'[new].map = m
       /\ \A s \in Scopes' : s \in Scopes \/ s = new
       /\ new \in Scopes' /\ new \notin Scopes
  BY OneScope
<1>12. Scopes = 1 .. Len(scopes) /\ Scopes' = 1 .. Len(scopes')
  BY DEF Scopes
<1>13. Linked(scopes) /\ Linked(scopes') /\ Extends(scopes, scopes')
  <2>1. Linked(scopes)
    BY BaseLinked
  <2>2. Linked(scopes')
    BY NextLinked
  <2>3. QED
    BY <1>11, <1>12, <2>1, <2>2 DEF Extends
<1>14. Separate(scopes')
  <2>1. Separate(scopes)
    BY DEF Discipline
  <2>2. ASSUME NEW s \in Scopes', NEW t \in Scopes', s # t, scopes'[s].map # 0
        PROVE  scopes'[s].map # scopes'[t].map
    <3>1. CASE s \in Scopes /\ t \in Scopes
      BY <1>11, <1>12, <2>1, <2>2, <3>1 DEF Separate
    <3>2. CASE s = new /\ t \in Scopes
      BY <1>11, <3>2
    <3>3. CASE t = new /\ s \in Scopes
      BY <1>11, <3>3
    <3>4. QED
      BY <1>11, <2>2, <3>1, <3>2, <3>3
  <2>3. QED
    BY <1>12, <2>2 DEF Separate
<1>15. ASSUME NEW s \in Scopes PROVE SameAt(maps, scopes, maps', scopes', s)
  <2>1. scopes[s].map <= Len(maps)
    BY DEF Base, Stores
  <2>2. scopes[s].map \in Nat
    BY BaseFacts
  <2>3. scopes[s].map # 0 => scopes[s].map \in 1 .. Len(maps)
    BY <1>4, <2>1, <2>2
  <2>4. QED
    BY <1>11, <2>3 DEF SameAt
<1>16. Chain(scopes', new) = {new, 1}
  <2>1. new \in 1 .. Len(scopes') /\ new \notin 1 .. Len(scopes) /\ 1 \in 1 .. Len(scopes)
    BY <1>11, <1>12, RootSees
  <2>2. PICK up : up = 1
    OBVIOUS
  <2>3. PICK s : s = new
    OBVIOUS
  <2>4. s \in 1 .. Len(scopes') /\ s \notin 1 .. Len(scopes) /\ up \in 1 .. Len(scopes)
    BY <2>1, <2>2, <2>3
  <2>5. scopes'[s].up = up
    BY <1>11, <2>2, <2>3
  <2>6. Above(scopes, scopes', s, up)
    BY <1>13, <2>4, <2>5 DEF Above
  <2>7. Chain(scopes', s) = {s} \cup Chain(scopes, up)
    BY <2>6, NewAbove
  <2>8. QED
    BY <2>2, <2>3, <2>7, RootSees
<1>17. Follows(scopes, scopes', threads[i].stack, stack)
  BY <1>5, <1>7, <1>11, <1>12, <1>16 DEF Follows
<1>18. SetsFirst(scopes', stack)
  <2>1. InOrder(StatementsOf[r])
    BY <1>1, ListsInOrder
  <2>2. QED
    BY <1>5, <1>7, <2>1 DEF SetsFirst
<1>19. StackSees(maps', scopes', stack)
  <2>1. /\ new \in 1 .. Len(scopes') /\ new \notin 1 .. Len(scopes) /\ 1 \in 1 .. Len(scopes)
        /\ scopes'[new].up = 1 /\ scopes'[new].map # 0 /\ maps'[scopes'[new].map] = data
    BY <1>11, <1>12, RootSees
  <2>2. \A u \in Chain(scopes, 1) : SameAt(maps, scopes, maps', scopes', u)
    BY <1>15, RootSees
  <2>3. SeesFrom(maps, scopes, 1, env)
    BY <1>3, RootSees
  <2>4. PICK ms2 : ms2 = maps'
    OBVIOUS
  <2>5. PICK sc2 : sc2 = scopes'
    OBVIOUS
  <2>6. \A x \in Var : HeldIn(ms2, sc2, new, x) = data[x]
    BY <2>1, <2>4, <2>5 DEF HeldIn
  <2>7. SeesFrom(ms2, sc2, new, Extended(env, data))
    <3>1. PICK s : s = new
      OBVIOUS
    <3>2. PICK up : up = 1
      OBVIOUS
    <3>3. /\ Extends(scopes, sc2) /\ s \in 1 .. Len(sc2) /\ s \notin 1 .. Len(scopes)
          /\ up \in 1 .. Len(scopes) /\ sc2[s].up = up
          /\ SeesFrom(maps, scopes, up, env)
          /\ \A u \in Chain(scopes, up) : SameAt(maps, scopes, ms2, sc2, u)
          /\ \A x \in Var : HeldIn(ms2, sc2, s, x) = data[x]
      BY <1>13, <2>1, <2>2, <2>3, <2>4, <2>5, <2>6, <3>1, <3>2
    <3>4. SeesFrom(ms2, sc2, s, Extended(env, data))
      BY <3>3, SeesNew
    <3>5. QED
      BY <3>1, <3>4
  <2>8. QED
    BY <1>5, <1>7, <2>4, <2>5, <2>7 DEF StackSees
<1>20. GoodUse(maps', scopes', f)
  BY <1>9, <1>18, <1>19 DEF GoodUse, UsesNow, Walked, ReadsRight
<1>21. \A j \in Threads : j # i => \A b \in Frames(j) : \A s \in Chain(scopes, threads[j].stack[b].scope) :
         SameAt(maps, scopes, maps', scopes', s)
  BY <1>12, <1>15 DEF Chain
<1>22. toRegister.names = << >>
  BY NoNames
<1>23. QED
  BY <1>9, <1>10, <1>13, <1>14, <1>17, <1>20, <1>21, <1>22, StepUse

\* RenderTpl: no other request has its Props.
LEMMA EnterTplUse ==
  ASSUME Base, Discipline, SetsBeforeParallel, OwnProps, NEW i \in Threads, EnterTpl(i)
  PROVE  Discipline'
<1> DEFINE r == threads[i].req
<1>1. PICK data : data = WithProps(maps[Data[r]])
  OBVIOUS
<1>2. /\ threads[i].pc = "new" /\ threads[i].uses # Unused /\ Entry[r] = "RenderTpl"
      /\ maps' = [maps EXCEPT ![Data[r]] = data]
      /\ scopes' = Append(scopes, [up |-> Prototype, map |-> Data[r]])
      /\ SetTo(i, NewThread(r, "run", <<FirstFrame(r, Len(scopes) + 1, data)>>))
      /\ UNCHANGED toRegister
  BY <1>1 DEF EnterTpl
<1>3. r \in Request /\ i = r /\ Data[r] \in 2 .. Len(maps) /\ Len(maps) \in Nat
  BY <1>2, BaseFacts, ThreadFields DEF Base, AllGood, GoodThread
<1>4. data \in [Var -> Value]
  BY <1>1, <1>3, PropsOf
<1>5. PICK m \in Nat : m = Data[r]
  BY <1>3
<1>6. m \notin {0, 1} /\ m \in 1 .. Len(maps)
  BY <1>3, <1>5
<1>7. maps'[m] = data /\ \A k \in 1 .. Len(maps) : k # m => maps'[k] = maps[k]
  BY <1>2, <1>4, <1>5, <1>6, ExceptSeq DEF Base, Stores
<1>8. ASSUME NEW s \in Scopes, scopes[s].map = m PROVE FALSE
  <2>1. scopes[s].map \in Callers
    BY <1>3, <1>5, <1>8 DEF Callers
  <2>2. PICK q \in Request : /\ Data[q] = m /\ Entry[q] = "RenderTpl" /\ threads[q].pc # "new"
    BY <1>8, <2>1 DEF Base, CallersInTpl
  <2>3. q # r
    BY <1>2, <1>3, <2>2
  <2>4. QED
    BY <1>3, <1>5, <2>2, <2>3 DEF OwnProps
<1>9. scopes' = Append(scopes, [up |-> Prototype, map |-> m])
  BY <1>2, <1>5
<1>10. Base' /\ \A s \in Scopes : scopes[s].map # m
  BY <1>8, EnterTplBase
<1>11. QED
  BY <1>2, <1>4, <1>6, <1>7, <1>9, <1>10, EnterUse

\* RenderComponent: the scope has a copy.
LEMMA EnterComponentUse ==
  ASSUME Base, Discipline, SetsBeforeParallel, NEW i \in Threads, EnterComponent(i)
  PROVE  Discipline'
<1> DEFINE r == threads[i].req
<1>1. PICK data : data = WithProps(maps[Data[r]])
  OBVIOUS
<1>2. /\ threads[i].pc = "new" /\ threads[i].uses # Unused
      /\ maps' = Append(maps, data)
      /\ scopes' = Append(scopes, [up |-> Prototype, map |-> Len(maps) + 1])
      /\ SetTo(i, NewThread(r, "run", <<FirstFrame(r, Len(scopes) + 1, data)>>))
      /\ UNCHANGED toRegister
  BY <1>1 DEF EnterComponent
<1>3. r \in Request /\ Len(maps) \in Nat /\ 1 \in 1 .. Len(maps) /\ maps \in Seq([Var -> Value])
  BY BaseFacts, ThreadFields DEF Base, Stores
<1>4. data \in [Var -> Value]
  BY <1>1, <1>3, PropsOf
<1>5. PICK m \in Nat : m = Len(maps) + 1
  BY <1>3
<1>6. m \notin {0, 1}
  BY <1>3, <1>5
<1>7. maps'[m] = data /\ \A k \in 1 .. Len(maps) : maps'[k] = maps[k]
  BY <1>2, <1>3, <1>4, <1>5, AppendProperties
<1>8. ASSUME NEW s \in Scopes PROVE scopes[s].map # m
  <2>1. scopes[s].map <= Len(maps)
    BY DEF Base, Stores
  <2>2. scopes[s].map \in Nat
    BY BaseFacts
  <2>3. QED
    BY <1>3, <1>5, <2>1, <2>2
<1>9. scopes' = Append(scopes, [up |-> Prototype, map |-> m])
  BY <1>2, <1>5
<1>10. Base'
  BY EnterComponentBase
<1>11. QED
  BY <1>2, <1>4, <1>6, <1>7, <1>8, <1>9, <1>10, EnterUse

-----------------------------------------------------------------------------
(* Global, and every step *)

\* While there is something to register, no request has begun.
LEMMA AllNew ==
  ASSUME Base, Discipline, toRegister.names # << >>, UNCHANGED <<scopes, threads>>
  PROVE  Discipline'
<1>1. \A j \in Threads : threads[j].pc = "new" /\ threads[j].uses = Unused
  BY DEF Discipline, GlobalFirst
<1>2. ASSUME NEW j \in Threads PROVE threads[j].stack = << >> /\ 1 .. Len(threads[j].stack) = {}
  BY <1>1, UseOf DEF GoodThread
<1>3. Threads' = Threads
  BY DEF Threads
<1>4. ASSUME NEW j \in Threads PROVE GoodUse(maps', scopes, threads[j])
  <2>1. SetsFirst(scopes, threads[j].stack) /\ StackSees(maps', scopes, threads[j].stack)
    BY <1>2 DEF SetsFirst, StackSees
  <2>2. UsesNow(scopes, threads[j]) /\ Walked(maps', scopes, threads[j]) /\ ReadsRight(threads[j])
    BY <1>1 DEF UsesNow, Walked, ReadsRight
  <2>3. QED
    BY <2>1, <2>2 DEF GoodUse
<1>5. AllGoodUse'
  BY <1>3, <1>4 DEF AllGoodUse
<1>6. AllApart'
  BY <1>2, <1>3 DEF AllApart, Apart
<1>7. GlobalFirst'
  BY <1>1, <1>3 DEF GlobalFirst
<1>8. Separate(scopes')
  BY DEF Discipline
<1>9. QED
  BY <1>5, <1>6, <1>7, <1>8 DEF Discipline

LEMMA GlobalUse == Base /\ Discipline /\ (BeginGlobal \/ EndGlobal) => Discipline'
<1> SUFFICES ASSUME Base, Discipline, BeginGlobal \/ EndGlobal PROVE Discipline'
  OBVIOUS
<1>1. toRegister.names # << >>
  BY DEF BeginGlobal, EndGlobal, Base, Stores
<1>2. UNCHANGED <<scopes, threads>>
  BY DEF BeginGlobal, EndGlobal
<1>3. QED
  BY <1>1, <1>2, AllNew

LEMMA StutterUse == Discipline /\ UNCHANGED vars => Discipline'
<1> SUFFICES ASSUME Discipline, UNCHANGED vars PROVE Discipline'
  OBVIOUS
<1>1. UNCHANGED <<maps, scopes, ctxs, threads, toRegister>>
  BY DEF vars
<1>2. AllApart' /\ AllGoodUse' /\ GlobalFirst'
  BY <1>1 DEF Discipline, AllApart, AllGoodUse, GlobalFirst, Threads
<1>3. QED
  BY <1>1, <1>2 DEF Discipline

LEMMA InitDiscipline == Init => Discipline
<1> SUFFICES ASSUME Init PROVE Discipline
  OBVIOUS
<1>1. Len(scopes) = 1
  BY DEF Init
<1>2. Separate(scopes)
  <2>1. \A s, t \in 1 .. 1 : s = t
    OBVIOUS
  <2>2. QED
    BY <1>1, <2>1 DEF Separate
<1>3. Base
  BY InitBase
<1>4. Threads = Request
  <2>1. DOMAIN threads = Request
    BY DEF Init
  <2>2. QED
    BY <1>3, <2>1, BaseFacts
<1>5. ASSUME NEW j \in Threads
      PROVE  /\ threads[j].pc = "new" /\ threads[j].uses = Unused /\ threads[j].stack = << >>
             /\ 1 .. Len(threads[j].stack) = {}
  BY <1>4 DEF Init, NewThread
<1>6. ASSUME NEW j \in Threads PROVE GoodUse(maps, scopes, threads[j])
  <2>1. SetsFirst(scopes, threads[j].stack) /\ StackSees(maps, scopes, threads[j].stack)
    BY <1>5 DEF SetsFirst, StackSees
  <2>2. UsesNow(scopes, threads[j]) /\ Walked(maps, scopes, threads[j]) /\ ReadsRight(threads[j])
    BY <1>5 DEF UsesNow, Walked, ReadsRight
  <2>3. QED
    BY <2>1, <2>2 DEF GoodUse
<1>7. AllApart
  BY <1>5 DEF AllApart, Apart
<1>8. GlobalFirst
  BY <1>5 DEF GlobalFirst
<1>9. QED
  BY <1>2, <1>6, <1>7, <1>8 DEF Discipline, AllGoodUse

LEMMA NextDiscipline ==
  ASSUME ~ Late, OwnProps, SetsBeforeParallel, Base, Discipline, [Next]_vars
  PROVE  Discipline'
<1>1. DOMAIN threads = Threads
  BY BaseFacts
<1>2. CASE UNCHANGED vars
  BY <1>2, StutterUse
<1>3. CASE BeginGlobal \/ EndGlobal
  BY <1>3, GlobalUse
<1>4. CASE Ended
  BY <1>4, StutterUse DEF Ended
<1>5. ASSUME NEW i \in Threads,
             \/ Begin(i) \/ EnterTpl(i) \/ EnterComponent(i)
             \/ BeginLook(i) \/ EndLook(i) \/ BeginSet(i) \/ EndSet(i) \/ Return(i)
      PROVE  Discipline'
  BY <1>5, BeginUse, EnterTplUse, EnterComponentUse, BeginLookUse, EndLookUse, BeginSetUse,
     EndSetUse, ReturnUse
<1>6. ASSUME NEW i \in Threads, NEW n \in Node,
             Open(i, n) \/ Write(i, n) \/ For(i, n) \/ Call(i, n) \/ CallBare(i, n)
             \/ Spawn(i, n)
      PROVE  Discipline'
  BY <1>6, OpenUse, WriteUse, ForUse, CallUse, CallBareUse, SpawnUse
<1>7. QED
  BY <1>1, <1>2, <1>3, <1>4, <1>5, <1>6 DEF Next

LEMMA DisciplineInvariance ==
  ASSUME ~ Late, OwnProps, SetsBeforeParallel
  PROVE  Spec => [](Base /\ Discipline)
<1>1. Init => Base /\ Discipline
  BY InitBase, InitDiscipline
<1>2. Base /\ Discipline /\ [Next]_vars => Base' /\ Discipline'
  BY NextBase, NextDiscipline
<1>3. QED
  BY <1>1, <1>2, PTL DEF Spec

-----------------------------------------------------------------------------
(* The maps in use, and what is read *)

\* What a goroutine that has begun uses: a scope that it searches from its top, or sets.
LEMMA UsesFacts ==
  ASSUME Base, Discipline, NEW i \in Threads, threads[i].uses # Unused, threads[i].pc # "new"
  PROVE  /\ Len(threads[i].stack) \in 1 .. Len(threads[i].stack)
         /\ threads[i].uses.scope \in Chain(scopes, Highest(threads[i].stack).scope)
         /\ threads[i].uses.scope \in 1 .. Len(scopes)
         /\ threads[i].uses.map = scopes[threads[i].uses.scope].map
         /\ threads[i].uses.mode = "w" =>
              /\ threads[i].uses.scope = Highest(threads[i].stack).scope
              /\ HasSet(Highest(threads[i].stack).todo)
<1>1. \/ threads[i].pc = "eval" /\ threads[i].uses = UsingIn(scopes, threads[i].look, "r")
      \/ threads[i].pc = "set" /\ threads[i].uses = UsingIn(scopes, Highest(threads[i].stack).scope, "w")
  BY UseOf DEF UsesNow
<1>2. threads[i].stack # << >> /\ Top(i).todo \in Seq(Node) /\ Top(i).todo # << >>
  BY <1>1, EvaluatingFacts DEF Evaluating
<1>3. /\ Len(threads[i].stack) \in 1 .. Len(threads[i].stack)
      /\ Highest(threads[i].stack).scope \in 1 .. Len(scopes) /\ Highest(threads[i].stack) = Top(i)
  BY <1>2, TopFacts DEF Frames, Scopes, Highest, Top
<1>4. Highest(threads[i].stack).scope \in Chain(scopes, Highest(threads[i].stack).scope)
  BY <1>3, ChainSelf
<1>5. CASE threads[i].pc = "eval" /\ threads[i].uses = UsingIn(scopes, threads[i].look, "r")
  <2>1. threads[i].look \in Chain(scopes, Highest(threads[i].stack).scope)
    BY <1>5, UseOf DEF Walked
  <2>2. /\ threads[i].uses.scope = threads[i].look /\ threads[i].uses.mode = "r"
        /\ threads[i].uses.map = scopes[threads[i].look].map
    BY <1>5 DEF UsingIn
  <2>3. QED
    BY <1>3, <2>1, <2>2 DEF Chain
<1>6. CASE threads[i].pc = "set" /\ threads[i].uses = UsingIn(scopes, Highest(threads[i].stack).scope, "w")
  <2>1. Kind[Head(Top(i).todo)] = "set"
    BY <1>6, EvaluatingFacts DEF Evaluating, Current
  <2>2. HasSet(Highest(threads[i].stack).todo)
    BY <1>2, <1>3, <2>1, TailFacts
  <2>3. /\ threads[i].uses.scope = Highest(threads[i].stack).scope
        /\ threads[i].uses.map = scopes[Highest(threads[i].stack).scope].map
    BY <1>6 DEF UsingIn
  <2>4. QED
    BY <1>3, <1>4, <2>2, <2>3
<1>7. QED
  BY <1>1, <1>5, <1>6

\* One that has not begun uses the Props of its request.
LEMMA NewUses ==
  ASSUME Base, Discipline, NEW i \in Threads, threads[i].uses # Unused, threads[i].pc = "new"
  PROVE  /\ i \in Request /\ threads[i].uses.scope = 0 /\ threads[i].uses.map = Data[i]
         /\ threads[i].uses.mode = "w" => Entry[i] = "RenderTpl"
<1>1. threads[i].uses = [scope |-> 0, map |-> Data[threads[i].req],
                         mode |-> IF Entry[threads[i].req] = "RenderTpl" THEN "w" ELSE "r"]
  BY UseOf DEF UsesNow
<1>2. i = threads[i].req /\ i \in Request
  BY UseOf DEF GoodThread
<1>3. QED
  BY <1>1, <1>2

\* i writes.
LEMMA NoConflict ==
  ASSUME OwnProps, Base, Discipline, NEW i \in Threads, NEW j \in Threads, i # j,
         threads[i].uses # Unused, threads[j].uses # Unused, threads[i].uses.mode = "w"
  PROVE  /\ ~ (threads[i].uses.scope = threads[j].uses.scope /\ threads[i].uses.scope # 0)
         /\ ~ (threads[i].uses.map = threads[j].uses.map /\ threads[i].uses.map # 0)
<1> DEFINE u == threads[i].uses
           v == threads[j].uses
<1>1. \A r, q \in Request : r # q /\ Entry[r] = "RenderTpl" => Data[r] # Data[q]
  BY DEF OwnProps
<1>2. \A s \in Scopes : scopes[s].map \in Callers =>
        \E r \in Request : /\ Data[r] = scopes[s].map /\ Entry[r] = "RenderTpl"
                           /\ threads[r].pc # "new"
  BY DEF Base, CallersInTpl
<1>3. CASE threads[i].pc = "new" /\ threads[j].pc = "new"
  BY <1>1, <1>3, NewUses
<1>4. ASSUME NEW k \in Threads, NEW l \in Threads, threads[k].uses # Unused, threads[l].uses # Unused,
             threads[k].pc = "new", threads[l].pc # "new"
      PROVE  threads[k].uses.scope # threads[l].uses.scope /\ threads[k].uses.map # threads[l].uses.map
  <2>1. k \in Request /\ threads[k].uses.scope = 0 /\ threads[k].uses.map = Data[k]
    BY <1>4, NewUses
  <2>2. /\ threads[l].uses.scope \in Scopes
        /\ threads[l].uses.map = scopes[threads[l].uses.scope].map
    BY <1>4, UsesFacts DEF Scopes
  <2>3. ASSUME threads[l].uses.map = Data[k] PROVE FALSE
    <3>1. PICK r \in Request : Data[r] = Data[k] /\ Entry[r] = "RenderTpl" /\ threads[r].pc # "new"
      BY <1>2, <2>1, <2>2, <2>3 DEF Callers
    <3>2. r # k
      BY <1>4, <3>1
    <3>3. QED
      BY <1>1, <2>1, <3>1, <3>2
  <2>4. threads[l].uses.scope # 0
    BY <2>2 DEF Scopes
  <2>5. QED
    BY <2>1, <2>3, <2>4
<1>5. CASE threads[i].pc # "new" /\ threads[j].pc # "new"
  <2>1. /\ u.scope = Highest(threads[i].stack).scope /\ HasSet(Highest(threads[i].stack).todo)
        /\ Len(threads[i].stack) \in 1 .. Len(threads[i].stack)
        /\ u.scope \in 1 .. Len(scopes) /\ u.map = scopes[u.scope].map
    BY <1>5, UsesFacts
  <2>2. /\ v.scope \in Chain(scopes, Highest(threads[j].stack).scope)
        /\ Len(threads[j].stack) \in 1 .. Len(threads[j].stack)
        /\ v.scope \in 1 .. Len(scopes) /\ v.map = scopes[v.scope].map
    BY <1>5, UsesFacts
  <2>3. Apart(scopes, threads[i].stack, threads[j].stack)
    BY DEF Discipline, AllApart
  <2>4. u.scope \notin Chain(scopes, Highest(threads[j].stack).scope)
    BY <2>1, <2>2, <2>3 DEF Apart, Highest
  <2>5. u.scope # v.scope
    BY <2>2, <2>4
  <2>6. u.map # 0 => u.map # v.map
    BY <2>1, <2>2, <2>5 DEF Discipline, Separate
  <2>7. QED
    BY <2>5, <2>6
<1>6. QED
  BY <1>3, <1>4, <1>5

LEMMA NoConflicts ==
  ASSUME OwnProps, Base, Discipline
  PROVE  NoConcurrentMapUse
<1>1. DOMAIN threads = Threads
  BY BaseFacts
<1>2. ASSUME NEW i \in Threads PROVE ~ Conflict(threads[i].uses, GlobalUses)
  <2>1. CASE toRegister.busy
    <3>1. threads[i].uses = Unused
      BY <2>1 DEF Base, Stores, Discipline, GlobalFirst
    <3>2. QED
      BY <3>1 DEF Conflict, Unused
  <2>2. CASE ~ toRegister.busy
    BY <2>2 DEF Conflict, GlobalUses, Using
  <2>3. QED
    BY <2>1, <2>2
<1>3. ASSUME NEW i \in Threads, NEW j \in Threads \ {i}, Conflict(threads[i].uses, threads[j].uses)
      PROVE  FALSE
  <2>1. threads[i].uses # Unused /\ threads[j].uses # Unused
    BY <1>3 DEF Conflict, Unused
  <2>2. CASE threads[i].uses.mode = "w"
    BY <1>3, <2>1, <2>2, NoConflict DEF Conflict
  <2>3. CASE threads[j].uses.mode = "w"
    BY <1>3, <2>1, <2>3, NoConflict DEF Conflict
  <2>4. QED
    BY <1>3, <2>2, <2>3 DEF Conflict
<1>4. QED
  BY <1>1, <1>2, <1>3 DEF NoConcurrentMapUse

\* No map of variables (Scope.Value, the Props, prototype) is read or written by one
\* goroutine while another one writes it, for any templates and any number of requests:
\* as long as Global and Function are called before the first render, RenderTpl has
\* Props of its own, and a directive sets a variable in front of the <parallel> that
\* sees it (vpl.go:287, statement.go:1275, vpl.go:222).
THEOREM NoMapRaces ==
  ASSUME ~ Late, OwnProps, SetsBeforeParallel
  PROVE  Spec => []NoConcurrentMapUse
<1>1. Base /\ Discipline => NoConcurrentMapUse
  BY NoConflicts
<1>2. Spec => [](Base /\ Discipline)
  BY DisciplineInvariance
<1>3. QED
  BY <1>1, <1>2, PTL

\* With the same use, GetDeep finds for every expression what it would find if everything
\* were done in the order of the template: no goroutine changes what another one sees
\* (statement.go:63-64).
THEOREM ReadsInPlace ==
  ASSUME ~ Late, OwnProps, SetsBeforeParallel
  PROVE  Spec => []ReadsAsInPlace
<1>1. Base /\ Discipline => ReadsAsInPlace
  <2> SUFFICES ASSUME Base, Discipline PROVE ReadsAsInPlace
    OBVIOUS
  <2>1. DOMAIN threads = Threads
    BY BaseFacts
  <2>2. ASSUME NEW i \in Threads, threads[i].pc = "read"
        PROVE  threads[i].val = Read(Top(i).env[Name[Current(i)]])
    BY <2>2, UseOf DEF ReadsRight, Highest, Reading, Top, Current
  <2>3. QED
    BY <2>1, <2>2 DEF ReadsAsInPlace
<1>2. Spec => [](Base /\ Discipline)
  BY DisciplineInvariance
<1>3. QED
  BY <1>1, <1>2, PTL
=============================================================================
