-------------------------- MODULE SlotScopeProofs ---------------------------
(***************************************************************************)
(* What SlotScope guarantees for programs of any size and any render: the  *)
(* options always know the slots that the scope belongs to, and so a       *)
(* <slot> shows what its call contains, where it is written.               *)
(***************************************************************************)
EXTENDS SlotScope, SequenceTheorems, WellFoundedInduction, TLAPS

FrameType == [todo : Seq(Node), opt : Nat, given : BOOLEAN]
OptType   == [slots : {Nil} \cup [call : Node, decl : Nat], scope : Nat]
ScopeType == [up : Nat, binder : Node \cup {None}]
InstType  == [own : Nat, from : Nat]

\* The slots of the options o are those of the component their scope belongs to.
KnowsSlots(o) ==
  LET s == opts[o].scope IN
    IF CallOf(s) = None THEN opts[o].slots = Nil
    ELSE /\ opts[o].slots # Nil
         /\ opts[o].slots.call = CallOf(s)
         /\ opts[opts[o].slots.decl].scope = inst[s].from

\* Wherever a <slot> may still be run, and wherever one was when a call was made.
FramesKnow ==
  \A i \in 1 .. Len(frames) : \A j \in 1 .. Len(frames[i].todo) :
    frames[i].todo[j] \in Slotted => KnowsSlots(frames[i].opt)

DeclarersKnow ==
  \A o \in 1 .. Len(opts) :
    opts[o].slots # Nil /\ opts[o].slots.call \in Slotted => KnowsSlots(opts[o].slots.decl)

IInv == TypeOK /\ FramesKnow /\ DeclarersKnow

-----------------------------------------------------------------------------
(* The program *)

LEMMA Contents ==
  ASSUME NEW c \in Node, NEW name, NEW g \in Content(c, name)
  PROVE  /\ g.todo \in Seq(Node) /\ g.key \in Node \cup {None}
         /\ \A j \in 1 .. Len(g.todo) : g.todo[j] \in Slotted => c \in Slotted
<1>1. CASE g = BodyContent(c)
  BY <1>1, BodyAssumption, SlottedAssumption DEF BodyContent
<1>2. CASE g \in NamedContent(c, name)
  <2>1. PICK k \in SlotsOf(c) : g = [todo |-> <<k>>, key |-> IF k \in HasKey THEN k ELSE None]
    BY <1>2 DEF NamedContent
  <2>2. k \in Node
    BY <2>1, SlotAssumption
  <2>3. QED
    BY <2>1, <2>2, SlottedAssumption
<1>3. QED
  BY <1>1, <1>2 DEF Content

-----------------------------------------------------------------------------
(* The stack of frames *)

\* Of the frame i no more is left than before the step.
Shrunk(i) ==
  /\ i \in 1 .. Len(frames) /\ frames'[i].opt = frames[i].opt
  /\ frames'[i].given = frames[i].given
  /\ \A j \in 1 .. Len(frames'[i].todo) :
       \E k \in 1 .. Len(frames[i].todo) : frames'[i].todo[j] = frames[i].todo[k]

LEMMA TailProperties ==
  ASSUME NEW S, NEW s \in Seq(S), s # <<>>
  PROVE  /\ Tail(s) \in Seq(S) /\ Head(s) \in S /\ Head(s) = s[1] /\ 1 \in 1 .. Len(s)
         /\ \A j \in 1 .. Len(Tail(s)) : \E k \in 1 .. Len(s) : Tail(s)[j] = s[k]
<1>1. /\ Head(s) \in S /\ Tail(s) \in Seq(S) /\ Len(Tail(s)) = Len(s) - 1
      /\ \A i \in 1 .. Len(Tail(s)) : Tail(s)[i] = s[i + 1]
  BY HeadTailProperties
<1>2. Len(s) \in Nat \ {0}
  BY LenProperties, EmptySeq
<1>3. ASSUME NEW j \in 1 .. Len(Tail(s)) PROVE \E k \in 1 .. Len(s) : Tail(s)[j] = s[k]
  <2>1. j + 1 \in 1 .. Len(s)
    BY <1>1, <1>2
  <2>2. QED
    BY <1>1, <2>1
<1>4. QED
  BY <1>1, <1>2, <1>3

LEMMA RunningTyping ==
  ASSUME TypeOK, NEW n, Running(n)
  PROVE  /\ Depth \in Nat \ {0} /\ frames \in Seq(FrameType) /\ frames[Depth] \in FrameType
         /\ frames[Depth].todo \in Seq(Node) /\ frames[Depth].todo # <<>>
         /\ Opt \in 1 .. Len(opts) /\ Here \in 1 .. Len(scopes)
         /\ n \in Node /\ n = frames[Depth].todo[1] /\ 1 \in 1 .. Len(frames[Depth].todo)
<1>1. Depth \in Nat \ {0} /\ frames \in Seq(FrameType)
  BY LenProperties DEF TypeOK, FrameType, Running, Depth
<1>2. frames[Depth] \in FrameType /\ Depth \in 1 .. Len(frames)
  BY <1>1, ElementOfSeq DEF Depth
<1>3. frames[Depth].todo \in Seq(Node) /\ frames[Depth].todo # <<>>
  BY <1>2 DEF FrameType, Running
<1>4. n \in Node /\ n = frames[Depth].todo[1] /\ 1 \in 1 .. Len(frames[Depth].todo)
  <2> HIDE DEF Depth
  <2>1. QED
    BY <1>3, TailProperties DEF Running
<1>5. Opt \in 1 .. Len(opts) /\ Here \in 1 .. Len(scopes)
  BY <1>2 DEF TypeOK, Opt, Here
<1>6. QED
  BY <1>1, <1>2, <1>3, <1>4, <1>5

LEMMA WithTodo ==
  ASSUME NEW r \in FrameType, NEW t
  PROVE  [r EXCEPT !.todo = t] = [todo |-> t, opt |-> r.opt, given |-> r.given]
BY DEF FrameType

\* Behind the running statement there is less to do.
LEMMA RestProperties ==
  ASSUME TypeOK, NEW n, Running(n)
  PROVE  /\ Rest \in Seq(FrameType) /\ Len(Rest) = Depth
         /\ \A i \in 1 .. Depth : i # Depth => Rest[i] = frames[i]
         /\ Rest[Depth] = [todo |-> Tail(frames[Depth].todo), opt |-> Opt,
                           given |-> frames[Depth].given]
         /\ \A i \in 1 .. Depth : \A j \in 1 .. Len(Rest[i].todo) :
              \E k \in 1 .. Len(frames[i].todo) : Rest[i].todo[j] = frames[i].todo[k]
         /\ \A i \in 1 .. Depth : /\ Rest[i].opt = frames[i].opt
                                  /\ Rest[i].given = frames[i].given
<1> DEFINE f == [frames[Depth] EXCEPT !.todo = Tail(@)]
<1>0. /\ Depth \in 1 .. Len(frames) /\ frames \in Seq(FrameType)
      /\ frames[Depth] \in FrameType
  BY RunningTyping DEF Depth
<1>1. f = [todo |-> Tail(frames[Depth].todo), opt |-> Opt, given |-> frames[Depth].given]
  BY <1>0, WithTodo DEF Opt
<1>2. /\ Tail(frames[Depth].todo) \in Seq(Node)
      /\ \A j \in 1 .. Len(Tail(frames[Depth].todo)) :
           \E k \in 1 .. Len(frames[Depth].todo) :
             Tail(frames[Depth].todo)[j] = frames[Depth].todo[k]
  <2>1. frames[Depth].todo \in Seq(Node) /\ frames[Depth].todo # <<>>
    BY RunningTyping
  <2> DEFINE d == frames[Depth].todo
  <2> HIDE DEF d
  <2>2. d \in Seq(Node) /\ d # <<>>
    BY <2>1 DEF d
  <2>3. /\ Tail(d) \in Seq(Node)
        /\ \A j \in 1 .. Len(Tail(d)) : \E k \in 1 .. Len(d) : Tail(d)[j] = d[k]
    BY <2>2, TailProperties
  <2>4. QED
    BY <2>3 DEF d
<1>3. f \in FrameType
  BY <1>0, <1>1, <1>2 DEF FrameType, Opt
<1>4. Rest = [frames EXCEPT ![Depth] = f]
  BY DEF Rest
<1> HIDE DEF f
<1>5. Rest \in Seq(FrameType) /\ Len(Rest) = Len(frames) /\ Rest[Depth] = f
      /\ \A i \in 1 .. Len(frames) : i # Depth => Rest[i] = frames[i]
  BY <1>0, <1>3, <1>4, ExceptSeq
<1>6. Depth = Len(frames)
  BY DEF Depth
<1>7. \A i \in 1 .. Depth : \A j \in 1 .. Len(Rest[i].todo) :
         \E k \in 1 .. Len(frames[i].todo) : Rest[i].todo[j] = frames[i].todo[k]
  <2> SUFFICES ASSUME NEW i \in 1 .. Depth, NEW j \in 1 .. Len(Rest[i].todo)
               PROVE  \E k \in 1 .. Len(frames[i].todo) : Rest[i].todo[j] = frames[i].todo[k]
    OBVIOUS
  <2>1. CASE i = Depth
    <3>1. Rest[Depth] = [todo |-> Tail(frames[Depth].todo), opt |-> Opt,
                         given |-> frames[Depth].given]
      BY <1>1, <1>5, Zenon
    <3>2. Rest[Depth].todo = Tail(frames[Depth].todo)
      BY <3>1
    <3>3. Rest[i].todo = Tail(frames[Depth].todo) /\ frames[i].todo = frames[Depth].todo
      BY <2>1, <3>2, Zenon
    <3>4. QED
      BY <1>2, <3>3
  <2>2. CASE i # Depth
    BY <1>5, <1>6, <2>2
  <2>3. QED
    BY <2>1, <2>2
<1>8. \A i \in 1 .. Depth : Rest[i].opt = frames[i].opt /\ Rest[i].given = frames[i].given
  BY <1>1, <1>5, <1>6 DEF Opt
<1>9. QED
  BY <1>1, <1>5, <1>6, <1>7, <1>8

LEMMA RestFrames ==
  ASSUME TypeOK, NEW n, Running(n), frames' = Rest
  PROVE  /\ frames' \in Seq(FrameType)
         /\ \A i \in 1 .. Len(frames') : Shrunk(i)
<1>1. Len(frames') = Depth /\ Depth = Len(frames)
  BY RestProperties DEF Depth
<1>2. ASSUME NEW i \in 1 .. Depth PROVE Shrunk(i)
  BY <1>1, RestProperties DEF Shrunk
<1>3. QED
  BY <1>1, <1>2, RestProperties

LEMMA EnterFrames ==
  ASSUME TypeOK, NEW n, Running(n), NEW todo \in Seq(Node), NEW o \in Nat,
         NEW given \in BOOLEAN, Enter(todo, o, given)
  PROVE  /\ frames' \in Seq(FrameType)
         /\ \A i \in 1 .. Len(frames') :
              Shrunk(i) \/ frames'[i] = [todo |-> todo, opt |-> o, given |-> given]
<1>1. CASE todo = <<>>
  BY <1>1, RestFrames DEF Enter
<1>2. CASE todo # <<>>
  <2> DEFINE f == [todo |-> todo, opt |-> o, given |-> given]
  <2>1. frames' = Append(Rest, f) /\ f \in FrameType
    BY <1>2 DEF Enter, FrameType
  <2>2. Rest \in Seq(FrameType) /\ Len(Rest) = Depth
    BY RestProperties
  <2> HIDE DEF f
  <2>3. /\ frames' \in Seq(FrameType) /\ Len(frames') = Depth + 1
        /\ frames'[Depth + 1] = f /\ \A i \in 1 .. Depth : frames'[i] = Rest[i]
    BY <2>1, <2>2, AppendProperties
  <2>4. ASSUME NEW i \in 1 .. Depth PROVE Shrunk(i)
    <3>1. frames'[i] = Rest[i] /\ i \in 1 .. Len(frames)
      BY <2>3 DEF Depth
    <3>2. /\ Rest[i].opt = frames[i].opt /\ Rest[i].given = frames[i].given
          /\ \A j \in 1 .. Len(Rest[i].todo) :
               \E k \in 1 .. Len(frames[i].todo) : Rest[i].todo[j] = frames[i].todo[k]
      BY RestProperties
    <3>3. QED
      BY <3>1, <3>2, Zenon DEF Shrunk
  <2>5. QED
    BY <2>3, <2>4, RunningTyping DEF f
<1>3. QED
  BY <1>1, <1>2

LEMMA CutFrames ==
  ASSUME TypeOK, NEW k \in 0 .. Len(frames), frames' = SubSeq(frames, 1, k)
  PROVE  /\ frames' \in Seq(FrameType) /\ Len(frames') = k
         /\ \A i \in 1 .. k : frames'[i] = frames[i]
         /\ \A i \in 1 .. Len(frames') : Shrunk(i)
<1>1. frames \in Seq(FrameType) /\ Len(frames) \in Nat
  BY LenProperties DEF TypeOK, FrameType
<1>2. /\ frames' \in Seq(FrameType) /\ Len(frames') = k
      /\ \A i \in 1 .. k : frames'[i] = frames[i]
  BY <1>1, SubSeqProperties
<1>3. QED
  BY <1>1, <1>2 DEF Shrunk

-----------------------------------------------------------------------------
(* Options and scopes: what there is stays as it is *)

HeapType ==
  /\ opts \in Seq(OptType)
  /\ \A o \in 1 .. Len(opts) :
       /\ opts[o].scope \in 1 .. Len(scopes)
       /\ opts[o].slots # Nil => opts[o].slots.decl \in 1 .. o - 1
  /\ scopes \in Seq(ScopeType)
  /\ \A s \in 1 .. Len(scopes) : scopes[s].up < s
  /\ inst \in Seq(InstType)
  /\ Len(inst) = Len(scopes)
  /\ \A s \in 1 .. Len(scopes) : inst[s].own \in 1 .. s /\ inst[s].from < s

HeapGrows ==
  /\ Len(opts) <= Len(opts') /\ \A o \in 1 .. Len(opts) : opts'[o] = opts[o]
  /\ Len(scopes) <= Len(scopes')
  /\ \A s \in 1 .. Len(scopes) : scopes'[s] = scopes[s] /\ inst'[s] = inst[s]

LEMMA TypeParts ==
  TypeOK <=> /\ HeapType
             /\ frames \in Seq(FrameType)
             /\ \A i \in 1 .. Len(frames) : frames[i].opt \in 1 .. Len(opts)
             /\ out \in Seq(Node \X Nat)
             /\ \A i \in 1 .. Len(out) : out[i][2] \in 1 .. Len(scopes)
BY DEF TypeOK, HeapType, FrameType, OptType, ScopeType, InstType

LEMMA HeapLens ==
  ASSUME HeapType
  PROVE  /\ Len(opts) \in Nat /\ Len(scopes) \in Nat
         /\ NewOpt \in Nat \ {0} /\ NewScope \in Nat \ {0}
         /\ \A o \in 1 .. Len(opts) : opts[o] \in OptType
         /\ \A s \in 1 .. Len(scopes) : scopes[s] \in ScopeType /\ inst[s] \in InstType
<1>1. Len(opts) \in Nat /\ Len(scopes) \in Nat
  BY LenProperties DEF HeapType
<1>2. \A o \in 1 .. Len(opts) : opts[o] \in OptType
  BY ElementOfSeq DEF HeapType
<1>3. \A s \in 1 .. Len(scopes) : scopes[s] \in ScopeType /\ inst[s] \in InstType
  BY ElementOfSeq DEF HeapType
<1>4. QED
  BY <1>1, <1>2, <1>3 DEF NewOpt, NewScope

\* The step makes new options in an old scope.
LEMMA NewOptions ==
  ASSUME HeapType, NEW o \in OptType, opts' = Append(opts, o), UNCHANGED <<scopes, inst>>,
         o.scope \in 1 .. Len(scopes), o.slots # Nil => o.slots.decl \in 1 .. Len(opts)
  PROVE  /\ HeapType' /\ HeapGrows
         /\ Len(opts') = NewOpt /\ opts'[NewOpt] = o
         /\ NewOpt \in 1 .. Len(opts')
<1>1. /\ opts' \in Seq(OptType) /\ Len(opts') = Len(opts) + 1
      /\ opts'[Len(opts) + 1] = o /\ \A i \in 1 .. Len(opts) : opts'[i] = opts[i]
  BY AppendProperties DEF HeapType
<1>2. Len(opts) \in Nat /\ Len(scopes) \in Nat
  BY HeapLens
<1>3. HeapGrows
  BY <1>1, <1>2 DEF HeapGrows
<1>4. ASSUME NEW i \in 1 .. Len(opts')
      PROVE  /\ opts'[i].scope \in 1 .. Len(scopes')
             /\ opts'[i].slots # Nil => opts'[i].slots.decl \in 1 .. i - 1
  <2>1. CASE i = Len(opts) + 1
    <3>1. opts'[i] = o /\ i - 1 = Len(opts)
      BY <1>1, <1>2, <2>1
    <3>2. QED
      BY <3>1
  <2>2. CASE i \in 1 .. Len(opts)
    BY <1>1, <2>2 DEF HeapType
  <2>3. QED
    BY <1>1, <1>2, <2>1, <2>2
<1>5. HeapType'
  BY <1>1, <1>4 DEF HeapType
<1>6. QED
  BY <1>1, <1>2, <1>3, <1>5 DEF NewOpt

\* The step makes new options and a new scope.
LEMMA NewOptionsAndScope ==
  ASSUME HeapType, NEW o \in OptType, opts' = Append(opts, o),
         NEW s \in ScopeType, scopes' = Append(scopes, s), s.up \in 0 .. Len(scopes),
         NEW p \in InstType, inst' = Append(inst, p),
         p.own \in 1 .. NewScope, p.from \in 0 .. Len(scopes),
         o.scope \in 1 .. NewScope, o.slots # Nil => o.slots.decl \in 1 .. Len(opts)
  PROVE  /\ HeapType' /\ HeapGrows
         /\ Len(opts') = NewOpt /\ opts'[NewOpt] = o
         /\ NewOpt \in 1 .. Len(opts')
         /\ Len(scopes') = NewScope /\ scopes'[NewScope] = s /\ inst'[NewScope] = p
<1>1. /\ opts' \in Seq(OptType) /\ Len(opts') = Len(opts) + 1
      /\ opts'[Len(opts) + 1] = o /\ \A i \in 1 .. Len(opts) : opts'[i] = opts[i]
  BY AppendProperties DEF HeapType
<1>2. Len(opts) \in Nat /\ Len(scopes) \in Nat
  BY HeapLens
<1>3. /\ scopes' \in Seq(ScopeType) /\ Len(scopes') = Len(scopes) + 1
      /\ scopes'[Len(scopes) + 1] = s /\ \A i \in 1 .. Len(scopes) : scopes'[i] = scopes[i]
  BY AppendProperties DEF HeapType
<1>4. /\ inst' \in Seq(InstType) /\ Len(inst') = Len(scopes) + 1
      /\ inst'[Len(scopes) + 1] = p /\ \A i \in 1 .. Len(scopes) : inst'[i] = inst[i]
  BY AppendProperties DEF HeapType
<1>5. HeapGrows
  BY <1>1, <1>2, <1>3, <1>4 DEF HeapGrows
<1>6. ASSUME NEW i \in 1 .. Len(opts')
      PROVE  /\ opts'[i].scope \in 1 .. Len(scopes')
             /\ opts'[i].slots # Nil => opts'[i].slots.decl \in 1 .. i - 1
  <2>1. CASE i = Len(opts) + 1
    <3>1. opts'[i] = o /\ i - 1 = Len(opts)
      BY <1>1, <1>2, <2>1
    <3>2. QED
      BY <1>3, <3>1 DEF NewScope
  <2>2. CASE i \in 1 .. Len(opts)
    <3>1. opts'[i] = opts[i] /\ opts[i].scope \in 1 .. Len(scopes)
      BY <1>1, <2>2 DEF HeapType
    <3>2. opts'[i].scope \in 1 .. Len(scopes')
      BY <1>2, <1>3, <3>1
    <3>3. QED
      BY <2>2, <3>1, <3>2 DEF HeapType
  <2>3. QED
    BY <1>1, <1>2, <2>1, <2>2
<1>7. ASSUME NEW i \in 1 .. Len(scopes')
      PROVE  scopes'[i].up < i /\ inst'[i].own \in 1 .. i /\ inst'[i].from < i
  <2>1. CASE i = Len(scopes) + 1
    <3>1. scopes'[i] = s /\ inst'[i] = p /\ i = NewScope
      BY <1>3, <1>4, <2>1 DEF NewScope
    <3>2. s.up < i /\ p.from < i /\ p.own \in 1 .. i
      BY <1>2, <2>1 DEF NewScope
    <3>3. QED
      BY <3>1, <3>2, Zenon
  <2>2. CASE i \in 1 .. Len(scopes)
    BY <1>3, <1>4, <2>2 DEF HeapType
  <2>3. i = Len(scopes) + 1 \/ i \in 1 .. Len(scopes)
    BY <1>2, <1>3
  <2>4. QED
    BY <2>1, <2>2, <2>3, Zenon
<1>8. HeapType'
  BY <1>1, <1>3, <1>4, <1>6, <1>7 DEF HeapType
<1>9. QED
  BY <1>1, <1>2, <1>3, <1>4, <1>5, <1>8 DEF NewOpt, NewScope

\* Options know their slots if they have the slots and the instance of others.
LEMMA KnowsAlike ==
  ASSUME HeapType, HeapGrows, NEW o \in 1 .. Len(opts), NEW p,
         opts'[p].slots = opts[o].slots,
         inst'[opts'[p].scope] = inst[opts[o].scope]
  PROVE  KnowsSlots(p)' <=> KnowsSlots(o)
<1>1. inst[opts[o].scope].own \in 1 .. Len(scopes)
  BY HeapLens DEF HeapType
<1>2. CallOf(opts[p].scope)' = CallOf(opts[o].scope)
  BY <1>1 DEF HeapGrows, CallOf
<1>3. opts[o].slots # Nil => opts'[opts[o].slots.decl] = opts[opts[o].slots.decl]
  <2>1. opts[o].slots # Nil => opts[o].slots.decl \in 1 .. Len(opts)
    BY HeapLens DEF HeapType
  <2>2. QED
    BY <2>1 DEF HeapGrows
<1>4. QED
  BY <1>2, <1>3 DEF KnowsSlots, CallOf

LEMMA Stable ==
  ASSUME HeapType, HeapGrows, NEW o \in 1 .. Len(opts)
  PROVE  KnowsSlots(o)' <=> KnowsSlots(o)
<1>1. opts'[o] = opts[o] /\ opts[o].scope \in 1 .. Len(scopes)
  BY DEF HeapType, HeapGrows
<1>2. inst'[opts'[o].scope] = inst[opts[o].scope]
  BY <1>1 DEF HeapGrows
<1>3. QED
  BY <1>1, <1>2, KnowsAlike

-----------------------------------------------------------------------------
(* What the actions do to options and scopes *)

LEMMA RoundEffect ==
  ASSUME TypeOK, NEW n \in Node, Round(n)
  PROVE  /\ HeapType' /\ HeapGrows /\ NewOpt \in 1 .. Len(opts') /\ Len(opts') = NewOpt
         /\ opts'[NewOpt] = [slots |-> Nil, scope |-> NewScope]
         /\ scopes' = Append(scopes, [up |-> Here, binder |-> n])
         /\ inst' = Append(inst, inst[Here]) /\ inst'[NewScope] = inst[Here]
         /\ Here \in 1 .. Len(scopes) /\ out' = out /\ Body(n) \in Seq(Node)
<1> DEFINE o == [slots |-> Nil, scope |-> NewScope]
           s == [up |-> Here, binder |-> n]
<1>1. Here \in 1 .. Len(scopes) /\ HeapType
  BY RunningTyping, TypeParts DEF Round
<1>2. /\ inst[Here] \in InstType /\ inst[Here].own \in 1 .. NewScope
      /\ inst[Here].from \in 0 .. Len(scopes) /\ NewScope \in Nat /\ Len(scopes) \in Nat
      /\ NewScope \in 1 .. NewScope
  BY <1>1, HeapLens DEF HeapType, InstType, NewScope
<1>3. o \in OptType /\ s \in ScopeType /\ s.up \in 0 .. Len(scopes)
      /\ o.slots = Nil /\ o.scope = NewScope
  BY <1>1, <1>2 DEF OptType, ScopeType
<1>4. opts' = Append(opts, o) /\ scopes' = Append(scopes, s) /\ inst' = Append(inst, inst[Here])
  BY DEF Round, Extend
<1> HIDE DEF o, s
<1>5. /\ HeapType' /\ HeapGrows /\ NewOpt \in 1 .. Len(opts') /\ Len(opts') = NewOpt
      /\ opts'[NewOpt] = o /\ inst'[NewScope] = inst[Here]
  BY <1>1, <1>2, <1>3, <1>4, NewOptionsAndScope
<1>6. QED
  BY <1>1, <1>4, <1>5, BodyAssumption DEF o, s, Round

LEMMA CallEffect ==
  ASSUME TypeOK, NEW n \in Node, Call(n)
  PROVE  /\ HeapType' /\ HeapGrows /\ NewOpt \in 1 .. Len(opts') /\ Len(opts') = NewOpt
         /\ opts'[NewOpt] = [slots |-> [call |-> n, decl |-> Opt], scope |-> NewScope]
         /\ scopes' = Append(scopes, [up |-> 0, binder |-> n])
         /\ scopes'[NewScope] = [up |-> 0, binder |-> n]
         /\ inst' = Append(inst, [own |-> NewScope, from |-> Here])
         /\ inst'[NewScope] = [own |-> NewScope, from |-> Here]
         /\ Opt \in 1 .. Len(opts) /\ out' = out
         /\ \E c \in Targets[n] : Enter(Roots[c], NewOpt, FALSE) /\ Roots[c] \in Seq(Node)
<1> DEFINE o == [slots |-> [call |-> n, decl |-> Opt], scope |-> NewScope]
           s == [up |-> 0, binder |-> n]
           p == [own |-> NewScope, from |-> Here]
<1>1. Opt \in 1 .. Len(opts) /\ Here \in 1 .. Len(scopes) /\ HeapType
  BY RunningTyping, TypeParts DEF Call
<1>2. NewScope \in Nat /\ NewScope \in 1 .. NewScope /\ Len(scopes) \in Nat /\ Len(opts) \in Nat
  BY <1>1, HeapLens
<1>3. /\ o \in OptType /\ o.scope \in 1 .. NewScope /\ o.slots.decl \in 1 .. Len(opts)
      /\ s \in ScopeType /\ s.up \in 0 .. Len(scopes)
      /\ p \in InstType /\ p.own \in 1 .. NewScope /\ p.from \in 0 .. Len(scopes)
  BY <1>1, <1>2 DEF OptType, ScopeType, InstType
<1>4. opts' = Append(opts, o) /\ scopes' = Append(scopes, s) /\ inst' = Append(inst, p)
  BY DEF Call, EnterWith, Wrapped
<1> HIDE DEF o, s, p
<1>5. /\ HeapType' /\ HeapGrows /\ NewOpt \in 1 .. Len(opts') /\ Len(opts') = NewOpt
      /\ opts'[NewOpt] = o /\ scopes'[NewScope] = s /\ inst'[NewScope] = p
  BY <1>1, <1>2, <1>3, <1>4, NewOptionsAndScope
<1>6. \E c \in Targets[n] : Enter(Roots[c], NewOpt, FALSE) /\ Roots[c] \in Seq(Node)
  BY ProgramAssumption DEF Call, EnterWith
<1>7. QED
  BY <1>1, <1>4, <1>5, <1>6 DEF o, s, p, Call

LEMMA OwnEffect ==
  ASSUME TypeOK, NEW n \in Node, Running(n), NEW given, OwnChildren(n, given)
  PROVE  /\ HeapType' /\ HeapGrows /\ NewOpt \in 1 .. Len(opts') /\ Len(opts') = NewOpt
         /\ opts'[NewOpt] = [slots |-> opts[Opt].slots, scope |-> Here]
         /\ UNCHANGED <<scopes, inst, out>> /\ Opt \in 1 .. Len(opts)
         /\ Enter(Body(n), NewOpt, given) /\ Body(n) \in Seq(Node)
<1> DEFINE o == [slots |-> opts[Opt].slots, scope |-> Here]
<1>1. Opt \in 1 .. Len(opts) /\ Here \in 1 .. Len(scopes) /\ HeapType
  BY RunningTyping, TypeParts
<1>2. /\ o \in OptType /\ o.scope \in 1 .. Len(scopes)
      /\ o.slots # Nil => o.slots.decl \in 1 .. Len(opts)
  BY <1>1, HeapLens DEF HeapType, OptType
<1>3. opts' = Append(opts, o) /\ UNCHANGED <<scopes, inst, out>> /\ Enter(Body(n), NewOpt, given)
  BY DEF OwnChildren, EnterWith
<1> HIDE DEF o
<1>4. HeapType' /\ HeapGrows /\ NewOpt \in 1 .. Len(opts') /\ Len(opts') = NewOpt
        /\ opts'[NewOpt] = o
  BY <1>1, <1>2, <1>3, NewOptions
<1>5. QED
  BY <1>1, <1>3, <1>4, BodyAssumption DEF o

\* The content of a slot runs with the slots of the declarer, in its scope or in one
\* made from it.
LEMMA SlotEffect ==
  ASSUME TypeOK, NEW n \in Node, Slot(n)
  PROVE  LET d == opts[Opt].slots.decl
             c == opts[Opt].slots.call IN
         /\ HeapType' /\ HeapGrows /\ NewOpt \in 1 .. Len(opts') /\ Len(opts') = NewOpt
         /\ opts[Opt].slots # Nil /\ c \in Node /\ d \in 1 .. Len(opts)
         /\ Opt \in 1 .. Len(opts) /\ out' = out
         /\ \E g \in Content(c, Asks[n]) :
              /\ Enter(g.todo, NewOpt, TRUE)
              /\ IF g.key = None
                 THEN /\ opts'[NewOpt] = [slots |-> opts[d].slots, scope |-> opts[d].scope]
                      /\ UNCHANGED <<scopes, inst>>
                 ELSE /\ opts'[NewOpt] = [slots |-> opts[d].slots, scope |-> NewScope]
                      /\ scopes' = Append(scopes, [up |-> opts[d].scope, binder |-> g.key])
                      /\ inst' = Append(inst, inst[opts[d].scope])
                      /\ inst'[NewScope] = inst[opts[d].scope]
<1> DEFINE d == opts[Opt].slots.decl
           c == opts[Opt].slots.call
<1>1. Opt \in 1 .. Len(opts) /\ Here \in 1 .. Len(scopes) /\ HeapType
  BY RunningTyping, TypeParts DEF Slot
<1>2. PICK g \in Found(n) :
         IF g.key = None
         THEN /\ EnterWith(g.todo, opts[d].slots, opts[d].scope, TRUE)
              /\ UNCHANGED <<scopes, inst>>
         ELSE /\ EnterWith(g.todo, opts[d].slots, NewScope, TRUE)
              /\ Extend(g.key, opts[d].scope)
  BY DEF Slot
<1>3. opts[Opt].slots # Nil /\ g \in Content(c, Asks[n])
  BY <1>2 DEF Found
<1>4. c \in Node /\ d \in 1 .. Len(opts)
  <2>1. PICK o \in 1 .. Len(opts) : o = Opt
    BY <1>1
  <2>2. opts[o] \in OptType /\ opts[o].slots # Nil
    BY <1>1, <1>3, <2>1, HeapLens
  <2>3. opts[o].slots \in [call : Node, decl : Nat]
    BY <2>2 DEF OptType
  <2>4. opts[o].slots.decl \in 1 .. o - 1 /\ Len(opts) \in Nat
    BY <1>1, <2>2, HeapLens DEF HeapType
  <2>5. opts[o].slots.decl \in 1 .. Len(opts) /\ opts[o].slots.call \in Node
    BY <2>3, <2>4
  <2>6. QED
    BY <2>1, <2>5
<1>5. /\ opts[d] \in OptType /\ opts[d].scope \in 1 .. Len(scopes)
      /\ opts[d].slots # Nil => opts[d].slots.decl \in 1 .. Len(opts)
  BY <1>1, <1>4, HeapLens DEF HeapType
<1>6. g.key \in Node \cup {None}
  BY <1>3, <1>4, Contents
<1>7. CASE g.key = None
  <2> DEFINE o == [slots |-> opts[d].slots, scope |-> opts[d].scope]
  <2>1. /\ o \in OptType /\ o.scope \in 1 .. Len(scopes)
        /\ o.slots # Nil => o.slots.decl \in 1 .. Len(opts)
    BY <1>5 DEF OptType
  <2>2. /\ opts' = Append(opts, o) /\ UNCHANGED <<scopes, inst>>
        /\ Enter(g.todo, NewOpt, TRUE)
    BY <1>2, <1>7 DEF EnterWith
  <2> HIDE DEF o, d, c
  <2>3. HeapType' /\ HeapGrows /\ NewOpt \in 1 .. Len(opts') /\ Len(opts') = NewOpt
        /\ opts'[NewOpt] = o
    BY <1>1, <2>1, <2>2, NewOptions
  <2>4. QED
    BY <1>1, <1>3, <1>4, <1>7, <2>2, <2>3 DEF o, c, d, Slot
<1>8. CASE g.key # None
  <2> DEFINE o == [slots |-> opts[d].slots, scope |-> NewScope]
             s == [up |-> opts[d].scope, binder |-> g.key]
  <2>1. /\ NewScope \in Nat /\ NewScope \in 1 .. NewScope /\ Len(scopes) \in Nat
        /\ inst[opts[d].scope] \in InstType /\ inst[opts[d].scope].own \in 1 .. NewScope
        /\ inst[opts[d].scope].from \in 0 .. Len(scopes)
    <3>1. /\ NewScope \in Nat /\ NewScope \in 1 .. NewScope /\ Len(scopes) \in Nat
          /\ \A t \in 1 .. Len(scopes) : /\ inst[t] \in InstType /\ inst[t].own \in 1 .. NewScope
                                         /\ inst[t].from \in 0 .. Len(scopes)
      BY <1>1, HeapLens DEF HeapType, InstType, NewScope
    <3> HIDE DEF d
    <3>2. QED
      BY <1>5, <3>1
  <2>2. /\ o \in OptType /\ o.scope \in 1 .. NewScope
        /\ o.slots # Nil => o.slots.decl \in 1 .. Len(opts)
        /\ s \in ScopeType /\ s.up \in 0 .. Len(scopes)
    BY <1>5, <1>6, <2>1 DEF OptType, ScopeType
  <2>3. /\ opts' = Append(opts, o) /\ scopes' = Append(scopes, s)
        /\ inst' = Append(inst, inst[opts[d].scope]) /\ Enter(g.todo, NewOpt, TRUE)
    BY <1>2, <1>8 DEF EnterWith, Extend
  <2> HIDE DEF o, s, d, c
  <2>4. /\ HeapType' /\ HeapGrows /\ NewOpt \in 1 .. Len(opts') /\ Len(opts') = NewOpt
        /\ opts'[NewOpt] = o
        /\ inst'[NewScope] = inst[opts[d].scope]
    BY <1>1, <2>1, <2>2, <2>3, NewOptionsAndScope
  <2>5. QED
    BY <1>1, <1>3, <1>4, <1>8, <2>3, <2>4 DEF o, s, c, d, Slot
<1>9. QED
  BY <1>7, <1>8

-----------------------------------------------------------------------------
(* The invariant *)

LEMMA FramesTyped ==
  ASSUME TypeOK, HeapGrows, HeapType', NEW todo, NEW o \in 1 .. Len(opts'), NEW given,
         \A i \in 1 .. Len(frames') :
           Shrunk(i) \/ frames'[i] = [todo |-> todo, opt |-> o, given |-> given]
  PROVE  \A i \in 1 .. Len(frames') : frames'[i].opt \in 1 .. Len(opts')
<1> SUFFICES ASSUME NEW i \in 1 .. Len(frames') PROVE frames'[i].opt \in 1 .. Len(opts')
  OBVIOUS
<1>1. CASE Shrunk(i)
  <2>1. frames'[i].opt \in 1 .. Len(opts)
    BY <1>1 DEF Shrunk, TypeOK
  <2>2. Len(opts) \in Nat /\ Len(opts') \in Nat /\ Len(opts) <= Len(opts')
    BY TypeParts, LenProperties DEF HeapType, HeapGrows
  <2>3. QED
    BY <2>1, <2>2
<1>2. CASE frames'[i] = [todo |-> todo, opt |-> o, given |-> given]
  BY <1>2
<1>3. QED
  BY <1>1, <1>2

LEMMA FramesKnown ==
  ASSUME TypeOK, FramesKnow, HeapGrows, NEW todo, NEW o, NEW given,
         \A i \in 1 .. Len(frames') :
           Shrunk(i) \/ frames'[i] = [todo |-> todo, opt |-> o, given |-> given],
         \A j \in 1 .. Len(todo) : todo[j] \in Slotted => KnowsSlots(o)'
  PROVE  FramesKnow'
<1> SUFFICES ASSUME NEW i \in 1 .. Len(frames'), NEW j \in 1 .. Len(frames'[i].todo),
                    frames'[i].todo[j] \in Slotted
             PROVE  KnowsSlots(frames[i].opt)'
  BY DEF FramesKnow
<1>1. CASE Shrunk(i)
  <2>1. PICK k \in 1 .. Len(frames[i].todo) : frames'[i].todo[j] = frames[i].todo[k]
    BY <1>1 DEF Shrunk
  <2>2. /\ KnowsSlots(frames[i].opt) /\ frames[i].opt \in 1 .. Len(opts)
        /\ frames'[i].opt = frames[i].opt
    BY <1>1, <2>1 DEF Shrunk, FramesKnow, TypeOK
  <2> DEFINE p == frames[i].opt
  <2>3. KnowsSlots(p) /\ p \in 1 .. Len(opts)
    BY <2>2
  <2>4. opts'[p] = opts[p] /\ opts[p].scope \in 1 .. Len(scopes)
    BY <2>3, TypeParts DEF HeapType, HeapGrows
  <2>5. /\ opts'[frames'[i].opt].slots = opts[p].slots
        /\ inst'[opts'[frames'[i].opt].scope] = inst[opts[p].scope]
    BY <2>2, <2>4 DEF HeapGrows
  <2>6. HeapType
    BY TypeParts
  <2>7. QED
    BY <2>3, <2>5, <2>6, KnowsAlike
<1>2. CASE frames'[i] = [todo |-> todo, opt |-> o, given |-> given]
  BY <1>2
<1>3. QED
  BY <1>1, <1>2

\* The statements of a step with Enter.
LEMMA EnterStep ==
  ASSUME TypeOK, NEW n, Running(n), HeapGrows, HeapType', NEW todo \in Seq(Node),
         NEW o \in 1 .. Len(opts'), NEW given \in BOOLEAN, Enter(todo, o, given)
  PROVE  /\ frames' \in Seq(FrameType)
         /\ \A i \in 1 .. Len(frames') : frames'[i].opt \in 1 .. Len(opts')
         /\ FramesKnow /\ (\A j \in 1 .. Len(todo) : todo[j] \in Slotted => KnowsSlots(o)')
              => FramesKnow'
<1>1. o \in Nat
  BY LenProperties DEF HeapType
<1>2. /\ frames' \in Seq(FrameType)
      /\ \A i \in 1 .. Len(frames') :
           Shrunk(i) \/ frames'[i] = [todo |-> todo, opt |-> o, given |-> given]
  BY <1>1, EnterFrames
<1>3. QED
  BY <1>2, FramesTyped, FramesKnown

\* A step that leaves less to do.
LEMMA ShrinkStep ==
  ASSUME TypeOK, UNCHANGED <<opts, scopes, inst>>,
         \A i \in 1 .. Len(frames') : Shrunk(i)
  PROVE  /\ HeapGrows /\ HeapType'
         /\ \A i \in 1 .. Len(frames') : frames'[i].opt \in 1 .. Len(opts')
         /\ FramesKnow => FramesKnow'
<1>1. HeapType /\ HeapType'
  BY TypeParts DEF HeapType
<1>2. HeapGrows
  BY <1>1, HeapLens DEF HeapGrows
<1>3. \A i \in 1 .. Len(frames') : frames'[i].opt \in 1 .. Len(opts')
  BY DEF Shrunk, TypeOK
<1>4. ASSUME FramesKnow PROVE FramesKnow'
  <2> SUFFICES ASSUME NEW i \in 1 .. Len(frames'), NEW j \in 1 .. Len(frames'[i].todo),
                      frames'[i].todo[j] \in Slotted
               PROVE  KnowsSlots(frames[i].opt)'
    BY DEF FramesKnow
  <2>1. PICK k \in 1 .. Len(frames[i].todo) : frames'[i].todo[j] = frames[i].todo[k]
    BY DEF Shrunk
  <2>2. KnowsSlots(frames[i].opt) /\ frames'[i].opt = frames[i].opt
    BY <1>4, <2>1 DEF Shrunk, FramesKnow
  <2>3. QED
    BY <2>2 DEF KnowsSlots, CallOf
<1>5. QED
  BY <1>1, <1>2, <1>3, <1>4

LEMMA OutTyped ==
  ASSUME TypeOK, HeapGrows, HeapType', out' = out
  PROVE  /\ out' \in Seq(Node \X Nat)
         /\ \A i \in 1 .. Len(out') : out'[i][2] \in 1 .. Len(scopes')
<1>1. Len(scopes) \in Nat /\ Len(scopes') \in Nat /\ Len(scopes) <= Len(scopes')
  BY TypeParts, LenProperties DEF HeapType, HeapGrows
<1>2. QED
  BY <1>1 DEF TypeOK

LEMMA DeclarersKept ==
  ASSUME TypeOK, HeapGrows, HeapType', DeclarersKnow, Len(opts') = NewOpt,
         opts'[NewOpt].slots # Nil /\ opts'[NewOpt].slots.call \in Slotted =>
           /\ opts'[NewOpt].slots.decl \in 1 .. Len(opts)
           /\ KnowsSlots(opts'[NewOpt].slots.decl)
  PROVE  DeclarersKnow'
<1>1. HeapType
  BY TypeParts
<1> SUFFICES ASSUME NEW o \in 1 .. Len(opts'), opts'[o].slots # Nil,
                    opts'[o].slots.call \in Slotted
             PROVE  KnowsSlots(opts[o].slots.decl)'
  BY DEF DeclarersKnow
<1>2. CASE o = NewOpt
  <2>1. /\ opts'[o].slots.decl \in 1 .. Len(opts)
        /\ KnowsSlots(opts'[o].slots.decl)
    BY <1>2
  <2>2. QED
    BY <1>1, <2>1, Stable
<1>3. CASE o \in 1 .. Len(opts)
  <2>1. opts'[o] = opts[o]
    BY <1>3 DEF HeapGrows
  <2>2. KnowsSlots(opts'[o].slots.decl) /\ opts'[o].slots.decl \in 1 .. Len(opts)
    BY <1>1, <1>3, <2>1, HeapLens DEF HeapType, DeclarersKnow
  <2>3. QED
    BY <1>1, <2>2, Stable
<1>4. QED
  BY <1>1, <1>2, <1>3, HeapLens DEF NewOpt

LEMMA HeapSame ==
  ASSUME HeapType, UNCHANGED <<opts, scopes, inst>>
  PROVE  HeapType' /\ HeapGrows
BY HeapLens DEF HeapType, HeapGrows

\* The statement that is run is one of those for which the slots must be known.
LEMMA RunningKnows ==
  ASSUME IInv, NEW n, Running(n), n \in Slotted
  PROVE  KnowsSlots(Opt)
<1>1. Depth \in 1 .. Len(frames) /\ n = frames[Depth].todo[1]
      /\ 1 \in 1 .. Len(frames[Depth].todo)
  BY RunningTyping DEF IInv, Depth
<1>2. QED
  BY <1>1 DEF IInv, FramesKnow, Opt

LEMMA BodySlotted ==
  ASSUME NEW n \in Node, NEW j \in 1 .. Len(Body(n)), Body(n)[j] \in Slotted
  PROVE  n \in Slotted
BY BodyAssumption, SlottedAssumption

LEMMA RoundFrames ==
  ASSUME TypeOK, NEW n \in Node, Round(n)
  PROVE  /\ frames' \in Seq(FrameType)
         /\ \A i \in 1 .. Len(frames') :
              Shrunk(i) \/ frames'[i] = [todo |-> Body(n), opt |-> NewOpt, given |-> FALSE]
<1> DEFINE f == [todo |-> Body(n), opt |-> NewOpt, given |-> FALSE]
<1>1. frames \in Seq(FrameType) /\ f \in FrameType /\ Len(frames) \in Nat
  BY TypeParts, HeapLens, BodyAssumption, LenProperties DEF FrameType
<1>2. frames' = frames \/ frames' = Append(frames, f)
  BY DEF Round
<1> HIDE DEF f
<1>3. CASE frames' = frames
  BY <1>1, <1>3 DEF Shrunk
<1>4. CASE frames' = Append(frames, f)
  <2>1. /\ frames' \in Seq(FrameType) /\ Len(frames') = Len(frames) + 1
        /\ frames'[Len(frames) + 1] = f
        /\ \A i \in 1 .. Len(frames) : frames'[i] = frames[i]
    BY <1>1, <1>4, AppendProperties
  <2>2. \A i \in 1 .. Len(frames) : Shrunk(i)
    BY <2>1 DEF Shrunk
  <2>3. QED
    BY <1>1, <2>1, <2>2 DEF f
<1>5. QED
  BY <1>2, <1>3, <1>4

\* A component knows the slots of its call, in which its scope was made.
LEMMA CallKnows ==
  ASSUME TypeOK, NEW n \in Node, Call(n), NEW q, q = NewOpt
  PROVE  KnowsSlots(q)'
<1>1. /\ opts'[q] = [slots |-> [call |-> n, decl |-> Opt], scope |-> NewScope]
      /\ scopes'[NewScope] = [up |-> 0, binder |-> n]
      /\ inst'[NewScope] = [own |-> NewScope, from |-> Here]
      /\ Opt \in 1 .. Len(opts) /\ HeapGrows
  BY CallEffect
<1>2. opts'[q].slots = [call |-> n, decl |-> Opt] /\ opts'[q].scope = NewScope
  BY <1>1
<1>3. opts'[opts'[q].slots.decl].scope = inst'[opts'[q].scope].from
  <2>1. opts'[Opt].scope = Here
    BY <1>1 DEF HeapGrows, Here
  <2>2. opts'[q].slots.decl = Opt /\ inst'[opts'[q].scope].from = Here
    BY <1>1, <1>2
  <2>3. QED
    BY <2>1, <2>2
<1>4. scopes'[inst'[opts'[q].scope].own].binder = n
  <2>1. inst'[opts'[q].scope].own = NewScope
    BY <1>1, <1>2
  <2>2. QED
    BY <1>1, <2>1
<1>5. n # None /\ opts'[q].slots # Nil
  <2>1. Opt \in Nat
    BY <1>1, TypeParts, HeapLens
  <2>2. QED
    BY <1>2, <2>1, ProgramAssumption, NilAssumption
<1>6. opts'[q].slots.call = n
  BY <1>2
<1>7. QED
  BY <1>3, <1>4, <1>5, <1>6 DEF KnowsSlots, CallOf

\* What every step keeps; the second part is for programs without a <slot> in a v-for.
LEMMA NextKeeps ==
  ASSUME TypeOK, Next
  PROVE  /\ HeapGrows /\ TypeOK'
         /\ NoSlotInLoop /\ IInv => FramesKnow' /\ DeclarersKnow'
<1> DEFINE Kept == /\ HeapGrows /\ TypeOK'
                   /\ NoSlotInLoop /\ IInv => FramesKnow' /\ DeclarersKnow'
<1>0. HeapType /\ Depth = Len(frames) /\ Depth \in Nat
  BY TypeParts, LenProperties DEF Depth, TypeOK
<1>1. ASSUME UNCHANGED <<opts, scopes, inst>>, frames' \in Seq(FrameType),
             \A i \in 1 .. Len(frames') : Shrunk(i), out' \in Seq(Node \X Nat),
             \A i \in 1 .. Len(out') : out'[i][2] \in 1 .. Len(scopes')
      PROVE  Kept
  <2>1. /\ HeapGrows /\ HeapType'
        /\ \A i \in 1 .. Len(frames') : frames'[i].opt \in 1 .. Len(opts')
        /\ FramesKnow => FramesKnow'
    BY <1>1, ShrinkStep
  <2>2. TypeOK'
    BY <1>1, <2>1 DEF TypeOK, HeapType, FrameType, OptType, ScopeType, InstType
  <2>3. DeclarersKnow => DeclarersKnow'
    BY <1>1 DEF DeclarersKnow, KnowsSlots, CallOf
  <2>4. QED
    BY <2>1, <2>2, <2>3 DEF IInv
<1>2. ASSUME HeapGrows, HeapType', out' = out, frames' \in Seq(FrameType),
             \A i \in 1 .. Len(frames') : frames'[i].opt \in 1 .. Len(opts'),
             NoSlotInLoop /\ IInv => FramesKnow' /\ DeclarersKnow'
      PROVE  Kept
  <2>1. /\ out' \in Seq(Node \X Nat)
        /\ \A i \in 1 .. Len(out') : out'[i][2] \in 1 .. Len(scopes')
    BY <1>2, OutTyped
  <2>2. TypeOK'
    BY <1>2, <2>1 DEF TypeOK, HeapType, FrameType, OptType, ScopeType, InstType
  <2>3. QED
    BY <1>2, <2>2
<1>3. ASSUME Return PROVE Kept
  <2>1. frames' = SubSeq(frames, 1, Depth - 1) /\ Depth - 1 \in 0 .. Len(frames)
    BY <1>0, <1>3 DEF Return
  <2>2. frames' \in Seq(FrameType) /\ \A i \in 1 .. Len(frames') : Shrunk(i)
    BY <2>1, CutFrames
  <2>3. QED
    BY <1>1, <1>3, <2>2 DEF Return, TypeOK
<1>4. ASSUME NEW n \in Node, Write(n) PROVE Kept
  <2>1. Running(n) /\ frames' = Rest /\ UNCHANGED <<opts, scopes, inst>>
        /\ out' = Append(out, <<n, Here>>)
    BY <1>4 DEF Write
  <2>2. frames' \in Seq(FrameType) /\ \A i \in 1 .. Len(frames') : Shrunk(i)
    BY <2>1, RestFrames
  <2>3. Here \in 1 .. Len(scopes) /\ Here \in Nat
    BY <1>0, <2>1, RunningTyping, HeapLens
  <2> DEFINE w == <<n, Here>>
  <2>4. w \in Node \X Nat /\ w[2] = Here
    BY <2>3
  <2> HIDE DEF w
  <2>5. /\ out' \in Seq(Node \X Nat) /\ Len(out') = Len(out) + 1
        /\ out'[Len(out) + 1] = w /\ \A i \in 1 .. Len(out) : out'[i] = out[i]
    BY <2>1, <2>4, AppendProperties DEF TypeOK, w
  <2>6. ASSUME NEW i \in 1 .. Len(out') PROVE out'[i][2] \in 1 .. Len(scopes')
    <3>1. Len(out) \in Nat
      BY LenProperties DEF TypeOK
    <3>2. i = Len(out) + 1 \/ i \in 1 .. Len(out)
      BY <2>5, <3>1
    <3>3. CASE i = Len(out) + 1
      BY <2>1, <2>3, <2>4, <2>5, <3>3
    <3>4. CASE i \in 1 .. Len(out)
      BY <2>1, <2>5, <3>4 DEF TypeOK
    <3>5. QED
      BY <3>2, <3>3, <3>4
  <2>7. QED
    BY <1>1, <2>1, <2>2, <2>5, <2>6
<1>5. ASSUME NEW n \in Node, Fail(n) PROVE Kept
  <2>1. UNCHANGED <<opts, scopes, inst>>
    BY <1>5 DEF Fail
  <2>2. CASE frames' = <<>> /\ out' = <<>>
    <3>1. /\ frames' \in Seq(FrameType) /\ out' \in Seq(Node \X Nat)
          /\ Len(frames') = 0 /\ Len(out') = 0
      BY <2>2, EmptySeq
    <3>2. QED
      BY <1>1, <2>1, <3>1
  <2>3. ASSUME NEW i \in 1 .. Depth, frames' = SubSeq(frames, 1, i - 1), UNCHANGED out
        PROVE  Kept
    <3>1. i - 1 \in 0 .. Len(frames)
      BY <1>0
    <3>2. frames' \in Seq(FrameType) /\ \A k \in 1 .. Len(frames') : Shrunk(k)
      BY <2>3, <3>1, CutFrames
    <3>3. QED
      BY <1>1, <2>1, <2>3, <3>2 DEF TypeOK
  <2>4. QED
    BY <1>5, <2>2, <2>3 DEF Fail
<1>6. ASSUME NEW n \in Node, Inside(n) PROVE Kept
  <2>1. Running(n) /\ Enter(Body(n), Opt, FALSE) /\ UNCHANGED <<opts, scopes, inst, out>>
    BY <1>6 DEF Inside
  <2>0. PICK o \in 1 .. Len(opts) : o = Opt
    BY <2>1, RunningTyping
  <2>2. HeapGrows /\ HeapType' /\ o \in 1 .. Len(opts') /\ Body(n) \in Seq(Node)
        /\ Enter(Body(n), o, FALSE)
    BY <1>0, <2>0, <2>1, HeapSame, BodyAssumption
  <2>3. /\ frames' \in Seq(FrameType)
        /\ \A i \in 1 .. Len(frames') : frames'[i].opt \in 1 .. Len(opts')
        /\ FramesKnow /\ (\A j \in 1 .. Len(Body(n)) : Body(n)[j] \in Slotted => KnowsSlots(o)')
             => FramesKnow'
    BY <2>1, <2>2, EnterStep
  <2>4. ASSUME IInv PROVE FramesKnow' /\ DeclarersKnow'
    <3>1. \A j \in 1 .. Len(Body(n)) : Body(n)[j] \in Slotted => KnowsSlots(o)'
      <4>1. n \in Slotted => KnowsSlots(o)
        BY <2>0, <2>1, <2>4, RunningKnows
      <4>2. QED
        BY <1>0, <2>2, <4>1, BodySlotted, Stable
    <3>2. DeclarersKnow'
      BY <2>1, <2>4 DEF IInv, DeclarersKnow, KnowsSlots, CallOf
    <3>3. QED
      BY <2>3, <2>4, <3>1, <3>2 DEF IInv
  <2>5. QED
    BY <1>2, <2>1, <2>2, <2>3, <2>4
<1>7. ASSUME NEW n \in Node, Skip(n) PROVE Kept
  <2>1. Running(n) /\ frames' = Rest /\ UNCHANGED <<opts, scopes, inst, out>>
    BY <1>7 DEF Skip
  <2>2. frames' \in Seq(FrameType) /\ \A i \in 1 .. Len(frames') : Shrunk(i)
    BY <2>1, RestFrames
  <2>3. QED
    BY <1>1, <2>1, <2>2 DEF TypeOK
<1>8. ASSUME NEW n \in Node, Round(n) PROVE Kept
  <2>0. PICK q : q = NewOpt
    OBVIOUS
  <2>1. /\ HeapType' /\ HeapGrows /\ q \in 1 .. Len(opts') /\ Len(opts') = NewOpt
        /\ opts'[NewOpt] = [slots |-> Nil, scope |-> NewScope] /\ out' = out
    BY <1>8, <2>0, RoundEffect
  <2>2. /\ frames' \in Seq(FrameType)
        /\ \A i \in 1 .. Len(frames') :
             Shrunk(i) \/ frames'[i] = [todo |-> Body(n), opt |-> q, given |-> FALSE]
    BY <1>8, <2>0, RoundFrames
  <2>3. \A i \in 1 .. Len(frames') : frames'[i].opt \in 1 .. Len(opts')
    BY <2>1, <2>2, FramesTyped
  <2>4. ASSUME IInv, NoSlotInLoop PROVE FramesKnow' /\ DeclarersKnow'
    <3>1. n \notin Slotted
      BY <1>8, <2>4 DEF Round, NoSlotInLoop
    <3>2. \A j \in 1 .. Len(Body(n)) : Body(n)[j] \in Slotted => KnowsSlots(q)'
      BY <3>1, BodySlotted
    <3>3. FramesKnow'
      BY <2>1, <2>2, <2>4, <3>2, FramesKnown DEF IInv
    <3>4. DeclarersKnow'
      BY <2>1, <2>4, DeclarersKept DEF IInv
    <3>5. QED
      BY <3>3, <3>4
  <2>5. QED
    BY <1>2, <2>1, <2>2, <2>3, <2>4
<1>9. ASSUME NEW n \in Node, Call(n) PROVE Kept
  <2>0. PICK q : q = NewOpt
    OBVIOUS
  <2>1. /\ HeapType' /\ HeapGrows /\ q \in 1 .. Len(opts') /\ Len(opts') = NewOpt
        /\ opts'[NewOpt] = [slots |-> [call |-> n, decl |-> Opt], scope |-> NewScope]
        /\ out' = out /\ Opt \in 1 .. Len(opts)
    BY <1>9, <2>0, CallEffect
  <2>2. PICK todo \in Seq(Node) : Enter(todo, q, FALSE)
    BY <1>9, <2>0, CallEffect
  <2>3. Running(n)
    BY <1>9 DEF Call
  <2>4. /\ frames' \in Seq(FrameType)
        /\ \A i \in 1 .. Len(frames') : frames'[i].opt \in 1 .. Len(opts')
        /\ FramesKnow /\ (\A j \in 1 .. Len(todo) : todo[j] \in Slotted => KnowsSlots(q)')
             => FramesKnow'
    BY <2>1, <2>2, <2>3, EnterStep
  <2>5. ASSUME IInv PROVE FramesKnow' /\ DeclarersKnow'
    <3>1. FramesKnow'
      BY <1>9, <2>0, <2>4, <2>5, CallKnows DEF IInv
    <3>2. n \in Slotted => KnowsSlots(Opt)
      BY <2>3, <2>5, RunningKnows
    <3>3. /\ opts'[NewOpt].slots.call = n
          /\ opts'[NewOpt].slots.decl = Opt
      BY <2>1
    <3>4. DeclarersKnow'
      BY <2>1, <2>5, <3>2, <3>3, DeclarersKept DEF IInv
    <3>5. QED
      BY <3>1, <3>4
  <2>6. QED
    BY <1>2, <2>1, <2>4, <2>5
<1>10. ASSUME NEW n \in Node, Running(n), NEW given \in BOOLEAN, OwnChildren(n, given)
       PROVE  Kept
  <2>0. PICK q : q = NewOpt
    OBVIOUS
  <2>1. PICK o \in 1 .. Len(opts) : o = Opt
    BY <1>10, RunningTyping
  <2>2. /\ HeapType' /\ HeapGrows /\ q \in 1 .. Len(opts') /\ Len(opts') = NewOpt
        /\ opts'[q] = [slots |-> opts[o].slots, scope |-> opts[o].scope]
        /\ UNCHANGED <<scopes, inst, out>>
        /\ Enter(Body(n), q, given) /\ Body(n) \in Seq(Node)
    BY <1>10, <2>0, <2>1, OwnEffect DEF Here
  <2>3. /\ frames' \in Seq(FrameType)
        /\ \A i \in 1 .. Len(frames') : frames'[i].opt \in 1 .. Len(opts')
        /\ FramesKnow /\ (\A j \in 1 .. Len(Body(n)) : Body(n)[j] \in Slotted => KnowsSlots(q)')
             => FramesKnow'
    BY <1>10, <2>2, EnterStep
  <2>4. ASSUME IInv PROVE FramesKnow' /\ DeclarersKnow'
    <3>1. n \in Slotted => KnowsSlots(o)
      BY <1>10, <2>1, <2>4, RunningKnows
    <3>2. opts'[q].slots = opts[o].slots /\ inst'[opts'[q].scope] = inst[opts[o].scope]
      BY <2>2
    <3>3. KnowsSlots(q)' <=> KnowsSlots(o)
      BY <1>0, <2>2, <3>2, KnowsAlike
    <3>4. \A j \in 1 .. Len(Body(n)) : Body(n)[j] \in Slotted => KnowsSlots(q)'
      BY <3>1, <3>3, BodySlotted
    <3>5. opts[o].slots # Nil /\ opts[o].slots.call \in Slotted =>
            opts[o].slots.decl \in 1 .. Len(opts) /\ KnowsSlots(opts[o].slots.decl)
      BY <1>0, <2>4, HeapLens DEF IInv, DeclarersKnow, HeapType
    <3>6. DeclarersKnow'
      BY <2>0, <2>2, <2>4, <3>2, <3>5, DeclarersKept DEF IInv
    <3>7. QED
      BY <2>3, <2>4, <3>4, <3>6 DEF IInv
  <2>5. QED
    BY <1>2, <2>2, <2>3, <2>4
<1>11. ASSUME NEW n \in Node, Slot(n) PROVE Kept
  <2>0. PICK q : q = NewOpt
    OBVIOUS
  <2>1. PICK c \in Node, d \in 1 .. Len(opts) :
          c = opts[Opt].slots.call /\ d = opts[Opt].slots.decl
    BY <1>11, SlotEffect
  <2>2. /\ HeapType' /\ HeapGrows /\ q \in 1 .. Len(opts') /\ Len(opts') = NewOpt
        /\ Opt \in 1 .. Len(opts) /\ opts[Opt].slots # Nil /\ out' = out
    BY <1>11, <2>0, SlotEffect
  <2>3. Running(n)
    BY <1>11 DEF Slot
  <2>4. PICK g \in Content(c, Asks[n]) :
          /\ Enter(g.todo, q, TRUE)
          /\ IF g.key = None
             THEN /\ opts'[q] = [slots |-> opts[d].slots, scope |-> opts[d].scope]
                  /\ UNCHANGED <<scopes, inst>>
             ELSE /\ opts'[q] = [slots |-> opts[d].slots, scope |-> NewScope]
                  /\ scopes' = Append(scopes, [up |-> opts[d].scope, binder |-> g.key])
                  /\ inst' = Append(inst, inst[opts[d].scope])
                  /\ inst'[NewScope] = inst[opts[d].scope]
    BY <1>11, <2>0, <2>1, SlotEffect
  <2>5. opts'[q].slots = opts[d].slots /\ inst'[opts'[q].scope] = inst[opts[d].scope]
    BY <2>4
  <2>6. /\ g.todo \in Seq(Node)
        /\ \A j \in 1 .. Len(g.todo) : g.todo[j] \in Slotted => c \in Slotted
    BY <2>4, Contents
  <2>7. /\ frames' \in Seq(FrameType)
        /\ \A i \in 1 .. Len(frames') : frames'[i].opt \in 1 .. Len(opts')
        /\ FramesKnow /\ (\A j \in 1 .. Len(g.todo) : g.todo[j] \in Slotted => KnowsSlots(q)')
             => FramesKnow'
    BY <2>2, <2>3, <2>4, <2>6, EnterStep
  <2>8. ASSUME IInv PROVE FramesKnow' /\ DeclarersKnow'
    <3>1. c \in Slotted => KnowsSlots(d)
      BY <2>1, <2>2, <2>8 DEF IInv, DeclarersKnow
    <3>2. KnowsSlots(q)' <=> KnowsSlots(d)
      BY <1>0, <2>2, <2>5, KnowsAlike
    <3>3. FramesKnow'
      BY <2>6, <2>7, <2>8, <3>1, <3>2 DEF IInv
    <3>4. opts[d].slots # Nil /\ opts[d].slots.call \in Slotted =>
            opts[d].slots.decl \in 1 .. Len(opts) /\ KnowsSlots(opts[d].slots.decl)
      BY <1>0, <2>8, HeapLens DEF IInv, DeclarersKnow, HeapType
    <3>5. DeclarersKnow'
      BY <2>0, <2>2, <2>5, <2>8, <3>4, DeclarersKept DEF IInv
    <3>6. QED
      BY <3>3, <3>5
  <2>9. QED
    BY <1>2, <2>2, <2>7, <2>8
<1>12. ASSUME Rendered PROVE Kept
  <2>1. \A i \in 1 .. Len(frames') : Shrunk(i)
    BY <1>12 DEF Rendered, vars, Shrunk
  <2>2. QED
    BY <1>1, <1>12, <2>1, TypeParts DEF Rendered, vars
<1>13. ASSUME NEW n \in Node, Wrap(n) \/ Missing(n) \/ Fallback(n) PROVE Kept
  <2>1. Running(n) /\ \E given \in BOOLEAN : OwnChildren(n, given)
    BY <1>13 DEF Wrap, Missing, Fallback
  <2>2. QED
    BY <1>10, <2>1
<1> HIDE DEF Kept
<1>14. Kept
  <2>1. CASE Return
    BY <1>3, <2>1
  <2>2. CASE Rendered
    BY <1>12, <2>2
  <2>3. ASSUME NEW n \in Node,
               \/ Write(n) \/ Fail(n) \/ Inside(n) \/ Skip(n) \/ Round(n)
               \/ Call(n) \/ Wrap(n) \/ Missing(n) \/ Slot(n) \/ Fallback(n)
        PROVE  Kept
    BY <1>4, <1>5, <1>6, <1>7, <1>8, <1>9, <1>11, <1>13, <2>3
  <2>4. QED
    BY <2>1, <2>2, <2>3 DEF Next
<1>15. QED
  BY <1>14 DEF Kept

-----------------------------------------------------------------------------
(* The invariant *)

LEMMA InitInvariant ==
  ASSUME Init
  PROVE  IInv
<1>1. /\ Len(frames) = 1 /\ frames[1] = [todo |-> Roots[Main], opt |-> 1, given |-> FALSE]
      /\ Len(opts) = 1 /\ opts[1] = [slots |-> Nil, scope |-> 1]
      /\ Len(scopes) = 1 /\ scopes[1] = [up |-> 0, binder |-> None]
      /\ Len(inst) = 1 /\ inst[1] = [own |-> 1, from |-> 0]
      /\ Len(out) = 0
  BY DEF Init
<1>2. Roots[Main] \in Seq(Node)
  BY ProgramAssumption
<1>3. TypeOK
  <2>1. frames \in Seq(FrameType) /\ out \in Seq(Node \X Nat)
    BY <1>2 DEF Init, FrameType
  <2>2. opts \in Seq(OptType) /\ scopes \in Seq(ScopeType) /\ inst \in Seq(InstType)
    BY DEF Init, OptType, ScopeType, InstType
  <2>3. HeapType
    BY <1>1, <2>2 DEF HeapType
  <2>4. QED
    BY <1>1, <2>1, <2>3, TypeParts
<1>4. opts[1].slots = Nil /\ CallOf(opts[1].scope) = None
  BY <1>1 DEF CallOf
<1>5. KnowsSlots(1)
  BY <1>4 DEF KnowsSlots
<1>6. FramesKnow /\ DeclarersKnow
  BY <1>1, <1>4, <1>5 DEF FramesKnow, DeclarersKnow
<1>7. QED
  BY <1>3, <1>6 DEF IInv

\* Whatever the program is, the state of a render is well formed: options and scopes
\* refer to options and scopes that exist, a Declarer is older than what it has
\* declared, and no Scope is its own Parent.
THEOREM TypeCorrect == Spec => []TypeOK
<1>1. Init => TypeOK
  BY InitInvariant DEF IInv
<1>2. TypeOK /\ [Next]_vars => TypeOK'
  <2> SUFFICES ASSUME TypeOK, [Next]_vars PROVE TypeOK'
    OBVIOUS
  <2>1. CASE Next
    BY <2>1, NextKeeps
  <2>2. CASE UNCHANGED vars
    BY <2>2 DEF vars, TypeOK
  <2>3. QED
    BY <2>1, <2>2
<1>3. QED
  BY <1>1, <1>2, PTL DEF Spec

\* If no <slot> is inside a v-for, the options of every statement that may still come
\* to a <slot> hold the slots of the very call that its scope belongs to, declared in
\* the scope of that call: StatementOptions carry the two apart, and nothing in the
\* code ties them.
THEOREM OptionsKnowTheirSlots ==
  ASSUME NoSlotInLoop
  PROVE  Spec => []IInv
<1>1. IInv /\ [Next]_vars => IInv'
  <2> SUFFICES ASSUME IInv, [Next]_vars PROVE IInv'
    OBVIOUS
  <2>1. CASE Next
    BY <2>1, NextKeeps DEF IInv
  <2>2. CASE UNCHANGED vars
    BY <2>2 DEF vars, IInv, TypeOK, FramesKnow, DeclarersKnow, KnowsSlots, CallOf
  <2>3. QED
    BY <2>1, <2>2
<1>2. QED
  BY <1>1, InitInvariant, PTL DEF Spec

-----------------------------------------------------------------------------
(* What a <slot> shows *)

\* Slots are those of component calls.
CallersAreCalls ==
  \A o \in 1 .. Len(opts) : opts[o].slots # Nil => Kind[opts[o].slots.call] \in {"call", "dyn"}

\* The slots of new options are those of a call, or have been there before.
LEMMA SlotsMade ==
  ASSUME TypeOK, Next
  PROVE  \/ opts' = opts
         \/ /\ Len(opts') = NewOpt
            /\ \/ opts'[NewOpt].slots = Nil
               \/ Kind[opts'[NewOpt].slots.call] \in {"call", "dyn"}
               \/ \E o \in 1 .. Len(opts) : opts'[NewOpt].slots = opts[o].slots
<1> DEFINE Made == \/ opts' = opts
                   \/ /\ Len(opts') = NewOpt
                      /\ \/ opts'[NewOpt].slots = Nil
                         \/ Kind[opts'[NewOpt].slots.call] \in {"call", "dyn"}
                         \/ \E o \in 1 .. Len(opts) : opts'[NewOpt].slots = opts[o].slots
<1>1. ASSUME NEW n \in Node, Round(n) PROVE Made
  <2>1. Len(opts') = NewOpt /\ opts'[NewOpt] = [slots |-> Nil, scope |-> NewScope]
    BY <1>1, RoundEffect
  <2>2. opts'[NewOpt].slots = Nil
    BY <2>1
  <2>3. QED
    BY <2>1, <2>2
<1>2. ASSUME NEW n \in Node, Call(n) PROVE Made
  <2>1. /\ opts'[NewOpt] = [slots |-> [call |-> n, decl |-> Opt], scope |-> NewScope]
        /\ Len(opts') = NewOpt
    BY <1>2, CallEffect
  <2>2. opts'[NewOpt].slots.call = n
    BY <2>1
  <2>3. QED
    BY <1>2, <2>1, <2>2 DEF Call
<1>3. ASSUME NEW n \in Node, NEW given, Running(n), OwnChildren(n, given) PROVE Made
  BY <1>3, OwnEffect
<1>4. ASSUME NEW n \in Node, Slot(n) PROVE Made
  <2>1. PICK d \in 1 .. Len(opts) : d = opts[Opt].slots.decl
    BY <1>4, SlotEffect
  <2>2. PICK s : opts'[NewOpt] = [slots |-> opts[d].slots, scope |-> s]
    BY <1>4, <2>1, SlotEffect
  <2>3. Len(opts') = NewOpt
    BY <1>4, SlotEffect
  <2>4. opts'[NewOpt].slots = opts[d].slots
    BY <2>2
  <2>5. QED
    BY <2>3, <2>4
<1>5. ASSUME NEW n \in Node, Write(n) \/ Fail(n) \/ Inside(n) \/ Skip(n) PROVE Made
  BY <1>5 DEF Write, Fail, Inside, Skip
<1>6. ASSUME NEW n \in Node, Wrap(n) \/ Missing(n) \/ Fallback(n) PROVE Made
  BY <1>3, <1>6 DEF Wrap, Missing, Fallback
<1>7. ASSUME Return \/ Rendered PROVE Made
  BY <1>7 DEF Return, Rendered, vars
<1> HIDE DEF Made
<1>8. Made
  BY <1>1, <1>2, <1>4, <1>5, <1>6, <1>7 DEF Next
<1>9. QED
  BY <1>8 DEF Made

LEMMA CallersStay ==
  ASSUME TypeOK, CallersAreCalls, [Next]_vars
  PROVE  CallersAreCalls'
<1>1. CASE UNCHANGED vars
  BY <1>1 DEF vars, CallersAreCalls
<1>2. CASE Next
  <2>1. CASE opts' = opts
    BY <2>1 DEF CallersAreCalls
  <2>2. CASE opts' # opts
    <3>1. Len(opts') = NewOpt /\ HeapGrows /\ Len(opts) \in Nat
      BY <1>2, <2>2, SlotsMade, NextKeeps, TypeParts, HeapLens
    <3>2. ASSUME NEW o \in 1 .. Len(opts'), opts'[o].slots # Nil
          PROVE  Kind[opts'[o].slots.call] \in {"call", "dyn"}
      <4>1. CASE o = NewOpt
        BY <1>2, <2>2, <3>2, <4>1, SlotsMade DEF CallersAreCalls
      <4>2. CASE o \in 1 .. Len(opts)
        <5>1. opts'[o] = opts[o]
          BY <3>1, <4>2 DEF HeapGrows
        <5>2. QED
          BY <3>2, <4>2, <5>1 DEF CallersAreCalls
      <4>3. QED
        BY <3>1, <4>1, <4>2 DEF NewOpt
    <3>3. QED
      BY <3>2 DEF CallersAreCalls
  <2>3. QED
    BY <2>1, <2>2
<1>3. QED
  BY <1>1, <1>2

\* What the code finds for a <slot> is what is written for it.
LEMMA WhatIsShown ==
  ASSUME IInv, CallersAreCalls, DefaultsAreBodies, NEW n \in Node, Running(n),
         Kind[n] = "slot"
  PROVE  /\ Found(n) = {} => WrittenFor(n) = {}
         /\ \A g \in Found(n) :
              \/ g \in WrittenFor(n)
              \/ /\ g.todo = <<>> /\ g.key = None
                 /\ Body(n) = <<>> /\ WrittenFor(n) = {}
         /\ \A g \in WrittenFor(n) : g.todo # <<>>
<1>1. KnowsSlots(Opt) /\ Opt \in 1 .. Len(opts)
  BY SlottedAssumption, RunningKnows, RunningTyping DEF IInv
<1>2. CASE CallOf(Here) = None
  <2>1. opts[Opt].slots = Nil
    BY <1>1, <1>2 DEF KnowsSlots, Here
  <2>2. QED
    BY <1>2, <2>1 DEF Found, WrittenFor
<1>3. CASE CallOf(Here) # None
  <2>1. opts[Opt].slots # Nil /\ opts[Opt].slots.call = CallOf(Here)
    BY <1>1, <1>3 DEF KnowsSlots, Here
  <2>2. PICK c : c = CallOf(Here)
    OBVIOUS
  <2>3. c \in Node /\ Kind[c] \in {"call", "dyn"}
    BY <1>1, <2>1, <2>2, TypeParts, HeapLens DEF IInv, OptType, CallersAreCalls
  <2>4. Found(n) = Content(c, Asks[n])
    BY <2>1, <2>2 DEF Found
  <2>5. \A name : \A g \in NamedContent(c, name) : g.todo # <<>>
    BY DEF NamedContent
  <2>6. CASE Asks[n] = "default"
    <3>1. Found(n) = {BodyContent(c)} /\ NamedContent(c, "default") = {}
      BY <2>3, <2>4, <2>6 DEF Content, DefaultsAreBodies
    <3>2. CASE Body(c) # <<>>
      <4>1. WrittenFor(n) = {BodyContent(c)}
        BY <1>3, <2>2, <2>6, <3>1, <3>2 DEF WrittenFor
      <4>2. QED
        BY <3>1, <3>2, <4>1 DEF BodyContent
    <3>3. CASE Body(c) = <<>>
      <4>1. WrittenFor(n) = {}
        BY <1>3, <2>2, <2>6, <3>1, <3>3 DEF WrittenFor
      <4>2. Body(n) = <<>>
        BY <2>3, <2>6, <3>3 DEF DefaultsAreBodies
      <4>3. QED
        BY <3>1, <3>3, <4>1, <4>2 DEF BodyContent
    <3>4. QED
      BY <3>2, <3>3
  <2>7. CASE Asks[n] # "default"
    BY <1>3, <2>2, <2>4, <2>5, <2>7 DEF Content, WrittenFor
  <2>8. QED
    BY <2>6, <2>7
<1>4. QED
  BY <1>2, <1>3

LEMMA SlotStep ==
  ASSUME Next, NEW n \in Node, Running(n), Kind[n] = "slot"
  PROVE  Slot(n) \/ Fallback(n)
<1>1. ~ Return /\ ~ Rendered
  BY DEF Return, Rendered, Running
<1>2. PICK m \in Node : \/ Write(m) \/ Fail(m) \/ Inside(m) \/ Skip(m) \/ Round(m)
                       \/ Call(m) \/ Wrap(m) \/ Missing(m) \/ Slot(m) \/ Fallback(m)
  BY <1>1 DEF Next
<1>3. m = n
  BY <1>2 DEF Write, Fail, Inside, Skip, Round, Call, Wrap, Missing, Slot, Fallback, Running
<1>4. QED
  BY <1>2, <1>3 DEF Write, Fail, Inside, Skip, Round, Call, Wrap, Missing

LEMMA Entered ==
  ASSUME TypeOK, NEW n, Running(n), NEW todo, todo # <<>>, NEW o, NEW given,
         todo \in Seq(Node), o \in Nat, given \in BOOLEAN, Enter(todo, o, given)
  PROVE  Len(frames') = Depth + 1 /\ frames'[Depth + 1].todo = todo
<1> DEFINE f == [todo |-> todo, opt |-> o, given |-> given]
<1>1. f \in FrameType /\ Rest \in Seq(FrameType) /\ Len(Rest) = Depth
  BY RestProperties DEF FrameType
<1>2. frames' = Append(Rest, f) /\ f.todo = todo
  BY DEF Enter
<1> HIDE DEF f
<1>3. QED
  BY <1>1, <1>2, AppendProperties

\* A component that is written between the tags of a call is shown where the called
\* component has its <slot>, and what the <slot> contains only if nothing is written:
\* through any number of calls and slots in slots, if no <slot> is inside a v-for and
\* nothing depends on the difference between no default slot and an empty one.
THEOREM ShowsWhatIsWritten ==
  ASSUME NoSlotInLoop, DefaultsAreBodies
  PROVE  Spec => SlotsReplaced
<1>1. ASSUME IInv, CallersAreCalls, [Next]_vars PROVE [ReplacedByContent]_vars
  <2> SUFFICES ASSUME ~ UNCHANGED vars, NEW n \in Node, Running(n), Kind[n] = "slot"
               PROVE  LET todo == IF WrittenFor(n) = {} THEN {Body(n)}
                                  ELSE {g.todo : g \in WrittenFor(n)} IN
                      IF todo \subseteq {<<>>} THEN frames' = Rest
                      ELSE Len(frames') = Depth + 1 /\ frames'[Depth + 1].todo \in todo
    BY DEF ReplacedByContent
  <2> DEFINE todo == IF WrittenFor(n) = {} THEN {Body(n)}
                     ELSE {g.todo : g \in WrittenFor(n)}
  <2>1. TypeOK /\ (Slot(n) \/ Fallback(n))
    BY <1>1, SlotStep DEF IInv
  <2>2. /\ Found(n) = {} => WrittenFor(n) = {}
        /\ \A g \in Found(n) : \/ g \in WrittenFor(n)
                               \/ g.todo = <<>> /\ Body(n) = <<>> /\ WrittenFor(n) = {}
        /\ \A g \in WrittenFor(n) : g.todo # <<>>
    BY <1>1, WhatIsShown
  <2>3. PICK t \in Seq(Node), o \in Nat, given \in BOOLEAN :
          Enter(t, o, given) /\ t \in todo
    <3>1. NewOpt \in Nat
      BY <2>1, TypeParts, HeapLens
    <3>2. CASE Slot(n)
      <4>1. PICK g \in Content(opts[Opt].slots.call, Asks[n]) : Enter(g.todo, NewOpt, TRUE)
        BY <2>1, <3>2, SlotEffect
      <4>2. /\ g \in Found(n) /\ opts[Opt].slots.call \in Node
        BY <2>1, <3>2, <4>1, SlotEffect DEF Found
      <4>3. g.todo \in todo
        BY <2>2, <4>2
      <4>4. QED
        BY <3>1, <4>1, <4>2, <4>3, Contents
    <3>3. CASE Fallback(n)
      BY <2>2, <3>1, <3>3, BodyAssumption DEF Fallback, OwnChildren, EnterWith
    <3>4. QED
      BY <2>1, <3>2, <3>3
  <2>4. todo \subseteq {<<>>} => t = <<>>
    BY <2>3
  <2>5. t = <<>> => todo \subseteq {<<>>}
    BY <2>2, <2>3
  <2>6. t = <<>> => frames' = Rest
    BY <2>3 DEF Enter
  <2>7. t # <<>> => Len(frames') = Depth + 1 /\ frames'[Depth + 1].todo = t
    BY <2>1, <2>3, Entered
  <2> HIDE DEF todo
  <2>8. IF todo \subseteq {<<>>} THEN frames' = Rest
        ELSE Len(frames') = Depth + 1 /\ frames'[Depth + 1].todo \in todo
    BY <2>3, <2>4, <2>5, <2>6, <2>7
  <2>9. QED
    BY <2>8 DEF todo
<1>2. Init => CallersAreCalls
  BY DEF Init, CallersAreCalls
<1>3. IInv /\ CallersAreCalls /\ [Next]_vars => CallersAreCalls'
  BY CallersStay DEF IInv
<1>4. Spec => []IInv
  BY OptionsKnowTheirSlots
<1>5. QED
  BY <1>1, <1>2, <1>3, <1>4, PTL DEF Spec, SlotsReplaced

-----------------------------------------------------------------------------
(* The abstract interpreter *)

AbsType == [todo : Seq(Node), scope : Nat, given : BOOLEAN]

\* The frames of LexicalSlots that the frames f with the options o stand for.
AbsOf(f, o) ==
  [i \in 1 .. Len(f) |-> [todo |-> f[i].todo, scope |-> o[f[i].opt].scope,
                          given |-> f[i].given]]

LEMMA AbsSeq ==
  ASSUME NEW f \in Seq(FrameType), NEW o \in Seq(OptType),
         \A i \in 1 .. Len(f) : f[i].opt \in 1 .. Len(o)
  PROVE  /\ AbsOf(f, o) \in Seq(AbsType) /\ Len(AbsOf(f, o)) = Len(f)
         /\ \A i \in 1 .. Len(f) :
              /\ AbsOf(f, o)[i].todo = f[i].todo /\ AbsOf(f, o)[i].given = f[i].given
              /\ AbsOf(f, o)[i].scope = o[f[i].opt].scope
              /\ AbsOf(f, o)[i] = [todo |-> f[i].todo, scope |-> o[f[i].opt].scope,
                                   given |-> f[i].given]
<1>1. Len(f) \in Nat /\ \A i \in 1 .. Len(f) : f[i] \in FrameType
  BY LenProperties, ElementOfSeq
<1>2. \A i \in 1 .. Len(f) : o[f[i].opt] \in OptType
  BY ElementOfSeq
<1>3. \A i \in 1 .. Len(f) :
         [todo |-> f[i].todo, scope |-> o[f[i].opt].scope, given |-> f[i].given] \in AbsType
  BY <1>1, <1>2 DEF FrameType, OptType, AbsType
<1>4. AbsOf(f, o) \in [1 .. Len(f) -> AbsType]
  BY <1>3 DEF AbsOf
<1>5. AbsOf(f, o) \in Seq(AbsType) /\ Len(AbsOf(f, o)) = Len(f)
  BY <1>1, <1>4, SeqDef, LenProperties
<1>6. QED
  BY <1>5 DEF AbsOf

\* The abstract stack, now and after the step.
LEMMA AbsStack ==
  ASSUME TypeOK
  PROVE  /\ AbsOf(frames, opts) \in Seq(AbsType) /\ Len(AbsOf(frames, opts)) = Depth
         /\ Depth \in Nat
BY AbsSeq, TypeParts, LenProperties DEF HeapType, Depth

LEMMA AbsStackNext ==
  ASSUME TypeOK'
  PROVE  AbsOf(frames', opts') \in Seq(AbsType) /\ Len(AbsOf(frames', opts')) = Len(frames')
<1>1. /\ frames' \in Seq(FrameType) /\ opts' \in Seq(OptType)
      /\ \A i \in 1 .. Len(frames') : frames'[i].opt \in 1 .. Len(opts')
  BY DEF TypeOK, FrameType, OptType
<1>2. QED
  BY <1>1, AbsSeq

LEMMA AbsRunning ==
  ASSUME TypeOK, NEW n, Running(n)
  PROVE  /\ Lexical!Depth = Depth /\ Lexical!Running(n) /\ Lexical!Here = Here
         /\ AbsOf(frames, opts)[Depth].todo = frames[Depth].todo
         /\ Depth \in 1 .. Len(frames)
<1> DEFINE a == AbsOf(frames, opts)
<1>1. a \in Seq(AbsType) /\ Len(a) = Depth /\ Depth \in 1 .. Len(frames)
  BY AbsStack, RunningTyping DEF Depth
<1>2. a[Depth].todo = frames[Depth].todo /\ a[Depth].scope = Here
  <2>1. /\ frames \in Seq(FrameType) /\ opts \in Seq(OptType)
        /\ \A i \in 1 .. Len(frames) : frames[i].opt \in 1 .. Len(opts)
    BY TypeParts DEF HeapType
  <2>2. \A i \in 1 .. Len(frames) :
          /\ AbsOf(frames, opts)[i].todo = frames[i].todo
          /\ AbsOf(frames, opts)[i].scope = opts[frames[i].opt].scope
    BY <2>1, AbsSeq
  <2>3. QED
    BY <1>1, <2>2 DEF Here, Opt
<1>3. Lexical!Depth = Len(a) /\ Lexical!Here = a[Lexical!Depth].scope
  BY DEF AbsOf, Lexical!Depth, Lexical!Here
<1>4. Lexical!Running(n) <=> /\ Lexical!Depth # 0
                             /\ a[Lexical!Depth].todo # <<>>
                             /\ n = Head(a[Lexical!Depth].todo)
  BY DEF AbsOf, Lexical!Running
<1> HIDE DEF a
<1>5. Lexical!Depth = Depth /\ Lexical!Here = Here
  BY <1>1, <1>2, <1>3
<1>6. Lexical!Running(n)
  BY <1>2, <1>4, <1>5 DEF Running
<1>7. QED
  BY <1>1, <1>2, <1>5, <1>6 DEF a

LEMMA AbsWithTodo ==
  ASSUME NEW r \in AbsType, NEW t
  PROVE  [r EXCEPT !.todo = t] = [todo |-> t, scope |-> r.scope, given |-> r.given]
BY DEF AbsType

\* Old frames stand for the same when options are added.
LEMMA AbsRest ==
  ASSUME TypeOK, HeapGrows, HeapType', NEW n, Running(n)
  PROVE  AbsOf(Rest, opts') = Lexical!Rest /\ Lexical!Rest \in Seq(AbsType)
<1> DEFINE a == AbsOf(frames, opts)
           b == AbsOf(Rest, opts')
           h == [a[Depth] EXCEPT !.todo = Tail(@)]
<1>1. /\ Rest \in Seq(FrameType) /\ Len(Rest) = Depth
      /\ \A i \in 1 .. Depth : i # Depth => Rest[i] = frames[i]
      /\ Rest[Depth] = [todo |-> Tail(frames[Depth].todo), opt |-> Opt,
                        given |-> frames[Depth].given]
      /\ \A i \in 1 .. Depth : Rest[i].opt = frames[i].opt
  BY RestProperties
<1>2. /\ Depth = Len(frames) /\ Depth \in 1 .. Len(frames) /\ opts \in Seq(OptType)
      /\ opts' \in Seq(OptType) /\ frames \in Seq(FrameType)
      /\ \A i \in 1 .. Len(frames) : frames[i].opt \in 1 .. Len(opts)
      /\ Len(opts) \in Nat /\ Len(opts') \in Nat
  BY TypeParts, AbsRunning, LenProperties DEF HeapType, Depth
<1>3. \A i \in 1 .. Depth : Rest[i].opt \in 1 .. Len(opts')
                            /\ opts'[Rest[i].opt] = opts[frames[i].opt]
  BY <1>1, <1>2 DEF HeapGrows
<1>4. /\ b \in Seq(AbsType) /\ Len(b) = Depth
      /\ \A i \in 1 .. Depth :
           b[i] = [todo |-> Rest[i].todo, scope |-> opts'[Rest[i].opt].scope,
                   given |-> Rest[i].given]
  BY <1>1, <1>2, <1>3, AbsSeq
<1>5. /\ a \in Seq(AbsType) /\ Len(a) = Depth
      /\ \A i \in 1 .. Depth :
           a[i] = [todo |-> frames[i].todo, scope |-> opts[frames[i].opt].scope,
                   given |-> frames[i].given]
  BY <1>2, AbsSeq
<1>6. Lexical!Rest = [a EXCEPT ![Depth] = h]
  BY AbsRunning DEF AbsOf, Lexical!Rest
<1> HIDE DEF a, b
<1>7. h = b[Depth]
  <2>1. a[Depth] = [todo |-> frames[Depth].todo, scope |-> opts[frames[Depth].opt].scope,
                    given |-> frames[Depth].given]
    BY <1>2, <1>5
  <2>2. h = [todo |-> Tail(frames[Depth].todo), scope |-> opts[frames[Depth].opt].scope,
             given |-> frames[Depth].given]
    <3>1. a[Depth] \in AbsType
      BY <1>2, <1>5, ElementOfSeq
    <3>2. h = [todo |-> Tail(a[Depth].todo), scope |-> a[Depth].scope,
               given |-> a[Depth].given]
      BY <3>1, AbsWithTodo
    <3>3. /\ a[Depth].todo = frames[Depth].todo /\ a[Depth].given = frames[Depth].given
          /\ a[Depth].scope = opts[frames[Depth].opt].scope
      BY <2>1
    <3>4. QED
      BY <3>2, <3>3
  <2>3. /\ Rest[Depth].todo = Tail(frames[Depth].todo)
        /\ Rest[Depth].given = frames[Depth].given
    BY <1>1
  <2>4. opts'[Rest[Depth].opt].scope = opts[frames[Depth].opt].scope
    BY <1>2, <1>3
  <2>5. b[Depth] = [todo |-> Rest[Depth].todo, scope |-> opts'[Rest[Depth].opt].scope,
                    given |-> Rest[Depth].given]
    BY <1>2, <1>4
  <2>6. QED
    BY <2>2, <2>3, <2>4, <2>5
<1>8. \A i \in 1 .. Depth : i # Depth => a[i] = b[i]
  <2> SUFFICES ASSUME NEW i \in 1 .. Depth, i # Depth PROVE a[i] = b[i]
    OBVIOUS
  <2>1. Rest[i] = frames[i] /\ opts'[Rest[i].opt].scope = opts[frames[i].opt].scope
    BY <1>1, <1>3
  <2>2. QED
    BY <1>4, <1>5, <2>1
<1>9. b[Depth] \in AbsType
  BY <1>2, <1>4, ElementOfSeq
<1> HIDE DEF h
<1>10. /\ Lexical!Rest \in Seq(AbsType) /\ Len(Lexical!Rest) = Depth
       /\ Lexical!Rest[Depth] = h
       /\ \A i \in 1 .. Depth : i # Depth => Lexical!Rest[i] = a[i]
  BY <1>2, <1>5, <1>6, <1>7, <1>9, ExceptSeq
<1>11. \A i \in 1 .. Len(b) : b[i] = Lexical!Rest[i]
  BY <1>4, <1>7, <1>8, <1>10
<1>12. b = Lexical!Rest
  BY <1>4, <1>10, <1>11, SeqEqual
<1>13. QED
  BY <1>10, <1>12 DEF b

LEMMA AbsAppend ==
  ASSUME NEW r \in Seq(FrameType), NEW o \in Seq(OptType),
         \A i \in 1 .. Len(r) : r[i].opt \in 1 .. Len(o),
         NEW f \in FrameType, f.opt \in 1 .. Len(o)
  PROVE  AbsOf(Append(r, f), o) =
           Append(AbsOf(r, o), [todo |-> f.todo, scope |-> o[f.opt].scope, given |-> f.given])
<1> DEFINE g == [todo |-> f.todo, scope |-> o[f.opt].scope, given |-> f.given]
           a == AbsOf(r, o)
           b == AbsOf(Append(r, f), o)
           c == Append(a, g)
<1>1. /\ Append(r, f) \in Seq(FrameType) /\ Len(Append(r, f)) = Len(r) + 1
      /\ Append(r, f)[Len(r) + 1] = f /\ \A i \in 1 .. Len(r) : Append(r, f)[i] = r[i]
      /\ Len(r) \in Nat
  BY AppendProperties, LenProperties
<1>2. \A i \in 1 .. Len(r) + 1 : i \in 1 .. Len(r) \/ i = Len(r) + 1
  BY <1>1
<1>3. \A i \in 1 .. Len(r) + 1 : Append(r, f)[i].opt \in 1 .. Len(o)
  BY <1>1, <1>2
<1>4. /\ b \in Seq(AbsType) /\ Len(b) = Len(r) + 1
      /\ \A i \in 1 .. Len(r) + 1 :
           b[i] = [todo |-> Append(r, f)[i].todo, scope |-> o[Append(r, f)[i].opt].scope,
                   given |-> Append(r, f)[i].given]
  <2>1. PICK e : e = Append(r, f)
    OBVIOUS
  <2>2. e \in Seq(FrameType) /\ Len(e) = Len(r) + 1
        /\ \A i \in 1 .. Len(e) : e[i].opt \in 1 .. Len(o)
    BY <1>1, <1>3, <2>1
  <2>3. /\ AbsOf(e, o) \in Seq(AbsType) /\ Len(AbsOf(e, o)) = Len(e)
        /\ \A i \in 1 .. Len(e) :
             AbsOf(e, o)[i] = [todo |-> e[i].todo, scope |-> o[e[i].opt].scope,
                               given |-> e[i].given]
    BY <2>2, AbsSeq
  <2>4. QED
    BY <2>1, <2>2, <2>3
<1>5. /\ a \in Seq(AbsType) /\ Len(a) = Len(r)
      /\ \A i \in 1 .. Len(r) :
           a[i] = [todo |-> r[i].todo, scope |-> o[r[i].opt].scope, given |-> r[i].given]
  BY AbsSeq
<1>6. g \in AbsType
  <2>1. o[f.opt] \in OptType
    BY ElementOfSeq
  <2>2. QED
    BY <2>1 DEF AbsType, OptType, FrameType
<1> HIDE DEF a, b
<1>7. b[Len(r) + 1] = g
  BY <1>1, <1>4
<1> HIDE DEF g
<1>8. /\ c \in Seq(AbsType) /\ Len(c) = Len(r) + 1 /\ c[Len(r) + 1] = g
      /\ \A i \in 1 .. Len(r) : c[i] = a[i]
  BY <1>5, <1>6, AppendProperties
<1>9. ASSUME NEW i \in 1 .. Len(r) PROVE b[i] = c[i]
  <2>1. b[i] = [todo |-> r[i].todo, scope |-> o[r[i].opt].scope, given |-> r[i].given]
    BY <1>1, <1>4
  <2>2. QED
    BY <1>5, <1>8, <2>1
<1>10. \A i \in 1 .. Len(b) : b[i] = c[i]
  BY <1>2, <1>4, <1>7, <1>8, <1>9
<1> HIDE DEF c
<1>11. b = c
  BY <1>4, <1>8, <1>10, SeqEqual
<1>12. QED
  BY <1>11 DEF b, c, a, g

\* Exec with options is Exec in their scope.
LEMMA AbsEnter ==
  ASSUME TypeOK, HeapGrows, TypeOK', NEW n, Running(n), NEW todo \in Seq(Node),
         NEW o \in 1 .. Len(opts'), NEW given \in BOOLEAN, Enter(todo, o, given),
         NEW s, s = opts'[o].scope
  PROVE  Lexical!Enter(todo, s, given)
<1> DEFINE f == [todo |-> todo, opt |-> o, given |-> given]
<1>1. /\ HeapType' /\ opts' \in Seq(OptType) /\ Len(opts') \in Nat /\ Len(opts) \in Nat
      /\ Len(opts) <= Len(opts')
  BY LenProperties DEF TypeOK, HeapType, OptType, ScopeType, InstType, HeapGrows
<1>2. AbsOf(Rest, opts') = Lexical!Rest
  BY <1>1, AbsRest
<1>3. CASE todo = <<>>
  <2>1. AbsOf(frames', opts') = Lexical!Rest
    BY <1>2, <1>3 DEF Enter
  <2>2. QED
    BY <1>3, <2>1 DEF AbsOf, Lexical!Enter
<1>4. CASE todo # <<>>
  <2>1. /\ Rest \in Seq(FrameType) /\ Len(Rest) = Depth
        /\ \A i \in 1 .. Depth : Rest[i].opt = frames[i].opt
    BY RestProperties
  <2>2. \A i \in 1 .. Len(Rest) : Rest[i].opt \in 1 .. Len(opts')
    <3>1. \A i \in 1 .. Depth : frames[i].opt \in 1 .. Len(opts)
      BY DEF TypeOK, Depth
    <3>2. QED
      BY <1>1, <2>1, <3>1
  <2>3. f \in FrameType /\ f.opt \in 1 .. Len(opts') /\ frames' = Append(Rest, f)
    BY <1>1, <1>4 DEF Enter, FrameType
  <2>4. f.todo = todo /\ f.given = given /\ opts'[f.opt].scope = s
    OBVIOUS
  <2> HIDE DEF f
  <2>5. AbsOf(frames', opts') =
          Append(Lexical!Rest, [todo |-> todo, scope |-> s, given |-> given])
    BY <1>1, <1>2, <2>1, <2>2, <2>3, <2>4, AbsAppend
  <2>6. QED
    BY <1>4, <2>5 DEF AbsOf, Lexical!Enter
<1>5. QED
  BY <1>3, <1>4

LEMMA AbsCut ==
  ASSUME TypeOK, TypeOK', opts' = opts, NEW k \in 0 .. Len(frames),
         frames' = SubSeq(frames, 1, k)
  PROVE  AbsOf(frames', opts') = SubSeq(AbsOf(frames, opts), 1, k)
<1> DEFINE a == AbsOf(frames, opts)
           b == AbsOf(frames', opts')
           c == SubSeq(a, 1, k)
<1>1. /\ frames' \in Seq(FrameType) /\ opts' \in Seq(OptType)
      /\ \A i \in 1 .. Len(frames') : frames'[i].opt \in 1 .. Len(opts')
      /\ frames \in Seq(FrameType) /\ opts \in Seq(OptType) /\ Len(frames) \in Nat
      /\ \A i \in 1 .. Len(frames) : frames[i].opt \in 1 .. Len(opts)
  BY LenProperties DEF TypeOK, FrameType, OptType
<1>2. Len(frames') = k /\ \A i \in 1 .. k : frames'[i] = frames[i]
  BY CutFrames
<1>3. /\ b \in Seq(AbsType) /\ Len(b) = k
      /\ \A i \in 1 .. k : b[i] = [todo |-> frames[i].todo,
                                   scope |-> opts[frames[i].opt].scope,
                                   given |-> frames[i].given]
  <2>1. PICK f \in Seq(FrameType), o \in Seq(OptType) : f = frames' /\ o = opts'
    BY <1>1
  <2>2. \A i \in 1 .. Len(f) : f[i].opt \in 1 .. Len(o)
    BY <1>1, <2>1
  <2>3. /\ AbsOf(f, o) \in Seq(AbsType) /\ Len(AbsOf(f, o)) = Len(f)
        /\ \A i \in 1 .. Len(f) :
             AbsOf(f, o)[i] = [todo |-> f[i].todo, scope |-> o[f[i].opt].scope,
                               given |-> f[i].given]
    BY <2>2, AbsSeq
  <2>4. Len(f) = k /\ o = opts /\ (\A i \in 1 .. k : f[i] = frames[i]) /\ b = AbsOf(f, o)
    BY <1>2, <2>1
  <2>5. QED
    BY <2>3, <2>4
<1>4. /\ a \in Seq(AbsType) /\ Len(a) = Len(frames)
      /\ \A i \in 1 .. Len(frames) : a[i] = [todo |-> frames[i].todo,
                                             scope |-> opts[frames[i].opt].scope,
                                             given |-> frames[i].given]
  BY <1>1, AbsSeq
<1> HIDE DEF a, b
<1>5. c \in Seq(AbsType) /\ Len(c) = k /\ \A i \in 1 .. k : c[i] = a[i]
  BY <1>1, <1>4, SubSeqProperties
<1>6. \A i \in 1 .. Len(b) : b[i] = c[i]
  BY <1>1, <1>3, <1>4, <1>5
<1> HIDE DEF c
<1>7. b = c
  BY <1>3, <1>5, <1>6, SeqEqual
<1>8. QED
  BY <1>7 DEF a, b, c

LEMMA AbsEmpty == AbsOf(<<>>, opts') = <<>>
BY DEF AbsOf

LEMMA AbsSame ==
  ASSUME TypeOK, HeapGrows
  PROVE  AbsOf(frames, opts') = AbsOf(frames, opts)
BY DEF TypeOK, HeapGrows, AbsOf

LEMMA AbsRound ==
  ASSUME TypeOK, TypeOK', NEW n \in Node, Round(n)
  PROVE  Lexical!Round(n)
<1> DEFINE f == [todo |-> Body(n), opt |-> NewOpt, given |-> FALSE]
<1>1. /\ HeapGrows /\ NewOpt \in 1 .. Len(opts') /\ NewOpt \in Nat
      /\ opts'[NewOpt] = [slots |-> Nil, scope |-> NewScope] /\ Body(n) \in Seq(Node)
      /\ opts' \in Seq(OptType) /\ Len(opts) \in Nat /\ Len(opts') \in Nat
  BY RoundEffect, TypeParts, HeapLens, LenProperties DEF HeapType
<1>2. AbsOf(frames, opts') = AbsOf(frames, opts)
  BY <1>1, AbsSame
<1>3. Lexical!Running(n) /\ Lexical!Here = Here
  BY AbsRunning DEF Round
<1>4. Lexical!Bind(n, Lexical!Here)
  BY <1>3 DEF Round, Extend, Lexical!Bind
<1>5. CASE Body(n) = <<>>
  <2>1. AbsOf(frames', opts') = AbsOf(frames, opts)
    BY <1>2, <1>5 DEF Round
  <2>2. QED
    BY <1>3, <1>4, <1>5, <2>1 DEF Round, AbsOf, Lexical!Round
<1>6. CASE Body(n) # <<>>
  <2>1. /\ f \in FrameType /\ f.opt \in 1 .. Len(opts') /\ frames' = Append(frames, f)
        /\ f.todo = Body(n) /\ f.given = FALSE /\ opts'[f.opt].scope = NewScope
    BY <1>1, <1>6 DEF Round, FrameType
  <2>2. /\ frames \in Seq(FrameType)
        /\ \A i \in 1 .. Len(frames) : frames[i].opt \in 1 .. Len(opts')
    BY <1>1, TypeParts DEF HeapGrows
  <2> HIDE DEF f
  <2>3. AbsOf(frames', opts') =
          Append(AbsOf(frames, opts),
                 [todo |-> Body(n), scope |-> NewScope, given |-> FALSE])
    BY <1>1, <1>2, <2>1, <2>2, AbsAppend
  <2>4. QED
    BY <1>3, <1>4, <1>6, <2>3 DEF Round, AbsOf, Lexical!Round, Lexical!NewScope, NewScope
<1>7. QED
  BY <1>5, <1>6

LEMMA AbsSkip ==
  ASSUME TypeOK, TypeOK', NEW n, Running(n), frames' = Rest, UNCHANGED <<opts, scopes, inst>>
  PROVE  AbsOf(frames', opts') = Lexical!Rest
BY TypeParts, HeapSame, AbsRest

\* Own children run where the statement is.
LEMMA AbsOwn ==
  ASSUME TypeOK, TypeOK', NEW n \in Node, Running(n), NEW given \in BOOLEAN,
         OwnChildren(n, given)
  PROVE  /\ Lexical!Running(n) /\ Lexical!Enter(Body(n), Lexical!Here, given)
         /\ UNCHANGED <<scopes, inst, out>>
<1>1. PICK q : q = NewOpt
  OBVIOUS
<1>2. /\ HeapGrows /\ q \in 1 .. Len(opts') /\ opts'[q] = [slots |-> opts[Opt].slots, scope |-> Here]
      /\ UNCHANGED <<scopes, inst, out>>
      /\ Enter(Body(n), q, given) /\ Body(n) \in Seq(Node)
  BY <1>1, OwnEffect
<1>3. Here = opts'[q].scope
  BY <1>2
<1>4. Lexical!Enter(Body(n), Here, given)
  BY <1>2, <1>3, AbsEnter
<1>5. QED
  BY <1>2, <1>4, AbsRunning

LEMMA AbsFail ==
  ASSUME TypeOK, TypeOK', NEW n \in Node, Fail(n)
  PROVE  Lexical!Fail(n)
<1> DEFINE a == AbsOf(frames, opts)
           b == AbsOf(frames', opts')
<1>1. Running(n) /\ Kind[n] = "func" /\ UNCHANGED <<opts, scopes, inst>> /\ Depth \in Nat
      /\ Depth = Len(frames)
  BY AbsStack DEF Fail, Depth
<1>2. Lexical!Running(n) /\ Lexical!Depth = Depth
  BY <1>1, AbsRunning
<1>3. \A i \in 1 .. Depth : a[i].given = frames[i].given
  BY DEF AbsOf, Depth
<1>4. CASE \E i \in 1 .. Depth :
             /\ frames[i].given /\ \A j \in i + 1 .. Depth : ~ frames[j].given
             /\ frames' = SubSeq(frames, 1, i - 1)
             /\ UNCHANGED out
  <2>1. PICK i \in 1 .. Depth :
             /\ frames[i].given /\ \A j \in i + 1 .. Depth : ~ frames[j].given
             /\ frames' = SubSeq(frames, 1, i - 1)
             /\ UNCHANGED out
    BY <1>4
  <2>2. i - 1 \in 0 .. Len(frames)
    BY <1>1
  <2>3. b = SubSeq(a, 1, i - 1)
    BY <1>1, <2>1, <2>2, AbsCut
  <2>4. a[i].given /\ \A j \in i + 1 .. Depth : ~ a[j].given
    BY <1>1, <1>3, <2>1
  <2>5. QED
    BY <1>1, <1>2, <2>1, <2>3, <2>4 DEF AbsOf, Lexical!Fail
<1>5. CASE /\ \A j \in 1 .. Depth : ~ frames[j].given
           /\ frames' = <<>> /\ out' = <<>>
  <2>1. b = <<>> /\ \A j \in 1 .. Depth : ~ a[j].given
    BY <1>3, <1>5, AbsEmpty
  <2>2. QED
    BY <1>1, <1>2, <1>5, <2>1 DEF AbsOf, Lexical!Fail
<1>6. QED
  BY <1>4, <1>5 DEF Fail

LEMMA AbsCall ==
  ASSUME TypeOK, TypeOK', NEW n \in Node, Call(n)
  PROVE  Lexical!Call(n)
<1>1. PICK q, s : q = NewOpt /\ s = NewScope
  OBVIOUS
<1>2. /\ HeapGrows /\ q \in 1 .. Len(opts')
      /\ opts'[q] = [slots |-> [call |-> n, decl |-> Opt], scope |-> s]
      /\ scopes' = Append(scopes, [up |-> 0, binder |-> n])
      /\ inst' = Append(inst, [own |-> NewScope, from |-> Here]) /\ out' = out
  BY <1>1, CallEffect
<1>3. PICK c \in Targets[n] : Enter(Roots[c], q, FALSE) /\ Roots[c] \in Seq(Node)
  BY <1>1, CallEffect
<1>4. s = opts'[q].scope /\ Running(n)
  BY <1>2 DEF Call
<1>5. Lexical!Enter(Roots[c], s, FALSE)
  BY <1>2, <1>3, <1>4, AbsEnter
<1>6. QED
  BY <1>1, <1>2, <1>4, <1>5, AbsRunning
     DEF Call, Lexical!Call, Lexical!NewScope, NewScope

\* The scope of the Declarer is that of the call.
LEMMA AbsSlot ==
  ASSUME IInv, TypeOK', CallersAreCalls, DefaultsAreBodies, NEW n \in Node, Slot(n)
  PROVE  Lexical!Slot(n) \/ Lexical!Fallback(n)
<1>1. TypeOK /\ Running(n) /\ Kind[n] = "slot"
  BY DEF IInv, Slot
<1>2. PICK q, z : q = NewOpt /\ z = NewScope
  OBVIOUS
<1>3. PICK d \in 1 .. Len(opts), c \in Node :
         d = opts[Opt].slots.decl /\ c = opts[Opt].slots.call
  BY <1>1, SlotEffect
<1>4. /\ HeapGrows /\ q \in 1 .. Len(opts') /\ out' = out
      /\ opts[Opt].slots # Nil
  BY <1>1, <1>2, SlotEffect
<1>5. PICK g \in Content(c, Asks[n]) :
         /\ Enter(g.todo, q, TRUE)
         /\ IF g.key = None
            THEN /\ opts'[q] = [slots |-> opts[d].slots, scope |-> opts[d].scope]
                 /\ UNCHANGED <<scopes, inst>>
            ELSE /\ opts'[q] = [slots |-> opts[d].slots, scope |-> z]
                 /\ scopes' = Append(scopes, [up |-> opts[d].scope, binder |-> g.key])
                 /\ inst' = Append(inst, inst[opts[d].scope])
  BY <1>1, <1>2, <1>3, SlotEffect
<1>6. g \in Found(n) /\ g.todo \in Seq(Node)
  BY <1>3, <1>4, <1>5, Contents DEF Found
<1>7. Lexical!Running(n) /\ Lexical!Here = Here
  BY <1>1, AbsRunning
<1>8. WrittenFor(n) = Lexical!Given(Lexical!Here, Asks[n])
  BY <1>7 DEF WrittenFor, CallOf, BodyContent, Lexical!Given, Lexical!GivenBy, Lexical!CallOf
<1>9. CASE g \in WrittenFor(n)
  <2>1. opts[d].scope = Lexical!CallAt(Lexical!Here)
    <3>1. KnowsSlots(Opt)
      BY <1>1, SlottedAssumption, RunningKnows
    <3>2. QED
      BY <1>3, <1>4, <1>7, <3>1 DEF KnowsSlots, Here, Lexical!CallAt
  <2>2. CASE g.key = None
    <3>1. opts[d].scope = opts'[q].scope /\ UNCHANGED <<scopes, inst>>
      BY <1>5, <2>2
    <3>2. Lexical!Enter(g.todo, opts[d].scope, TRUE)
      BY <1>1, <1>4, <1>5, <1>6, <3>1, AbsEnter
    <3>3. QED
      BY <1>1, <1>4, <1>7, <1>8, <1>9, <2>1, <2>2, <3>1, <3>2 DEF Lexical!Slot
  <2>3. CASE g.key # None
    <3>1. z = opts'[q].scope
      BY <1>5, <2>3
    <3>2. Lexical!Enter(g.todo, z, TRUE)
      BY <1>1, <1>4, <1>5, <1>6, <3>1, AbsEnter
    <3>3. Lexical!Bind(g.key, opts[d].scope)
      BY <1>5, <2>3 DEF Lexical!Bind
    <3>4. z = Lexical!NewScope
      BY <1>2 DEF NewScope, Lexical!NewScope
    <3>5. QED
      BY <1>1, <1>4, <1>7, <1>8, <1>9, <2>1, <2>3, <3>2, <3>3, <3>4 DEF Lexical!Slot
  <2>4. QED
    BY <2>2, <2>3
<1>10. CASE g \notin WrittenFor(n)
  <2>1. g.todo = <<>> /\ g.key = None /\ Body(n) = <<>> /\ WrittenFor(n) = {}
    BY <1>1, <1>6, <1>10, WhatIsShown
  <2>2. frames' = Rest /\ UNCHANGED <<scopes, inst>>
    BY <1>5, <2>1 DEF Enter
  <2>3. AbsOf(Rest, opts') = Lexical!Rest
    BY <1>1, <1>4, AbsRest DEF TypeOK, HeapType, OptType, ScopeType, InstType
  <2>4. Lexical!Enter(Body(n), Lexical!Here, FALSE)
    BY <2>1, <2>2, <2>3 DEF AbsOf, Lexical!Enter
  <2>5. QED
    BY <1>1, <1>4, <1>7, <1>8, <2>1, <2>2, <2>4 DEF Lexical!Fallback
<1>11. QED
  BY <1>9, <1>10

LEMMA AbsNext ==
  ASSUME IInv, TypeOK', CallersAreCalls, DefaultsAreBodies, [Next]_vars
  PROVE  [Lexical!Next]_Lexical!vars
<1>1. TypeOK
  BY DEF IInv
<1>2. ASSUME UNCHANGED vars PROVE UNCHANGED Lexical!vars
  BY <1>2 DEF vars, Lexical!vars
<1>3. ASSUME Return PROVE Lexical!Return
  <2>1. Depth \in Nat /\ Depth # 0 /\ frames[Depth].todo = <<>> /\ opts' = opts
    BY <1>1, <1>3, AbsStack DEF Return
  <2>2. /\ Lexical!Depth = Depth /\ AbsOf(frames, opts)[Depth].todo = <<>>
    BY <1>1, <2>1, AbsStack DEF AbsOf, Lexical!Depth, Depth
  <2>3. Depth - 1 \in 0 .. Len(frames)
    BY <2>1 DEF Depth
  <2>4. AbsOf(frames', opts') = SubSeq(AbsOf(frames, opts), 1, Depth - 1)
    BY <1>1, <1>3, <2>1, <2>3, AbsCut DEF Return
  <2>5. QED
    BY <1>3, <2>1, <2>2, <2>4 DEF Return, AbsOf, Lexical!Return
<1>4. ASSUME NEW n \in Node, Write(n) PROVE Lexical!Write(n)
  <2>1. AbsOf(frames', opts') = Lexical!Rest /\ Running(n)
    BY <1>1, <1>4, AbsSkip DEF Write
  <2>2. QED
    BY <1>1, <1>4, <2>1, AbsRunning DEF Write, AbsOf, Lexical!Write
<1>5. ASSUME NEW n \in Node, Skip(n) PROVE Lexical!Skip(n)
  <2>1. AbsOf(frames', opts') = Lexical!Rest /\ Running(n)
    BY <1>1, <1>5, AbsSkip DEF Skip
  <2>2. QED
    BY <1>1, <1>5, <2>1, AbsRunning DEF Skip, AbsOf, Lexical!Skip
<1>6. ASSUME NEW n \in Node, Inside(n) PROVE Lexical!Inside(n)
  <2>1. PICK o \in 1 .. Len(opts) : o = Opt /\ Running(n)
    BY <1>1, <1>6, RunningTyping DEF Inside
  <2>2. /\ Enter(Body(n), o, FALSE) /\ HeapGrows /\ o \in 1 .. Len(opts')
        /\ opts'[o].scope = Here
    BY <1>1, <1>6, <2>1, TypeParts, HeapSame DEF Inside, Here
  <2>3. Lexical!Enter(Body(n), Here, FALSE)
    BY <1>1, <2>1, <2>2, BodyAssumption, AbsEnter
  <2>4. QED
    BY <1>1, <1>6, <2>1, <2>3, AbsRunning DEF Inside, Lexical!Inside
<1>7. ASSUME NEW n \in Node, Wrap(n) PROVE Lexical!Inside(n)
  BY <1>1, <1>7, AbsOwn DEF Wrap, Lexical!Inside
<1>8. ASSUME NEW n \in Node, Missing(n) PROVE Lexical!Missing(n)
  BY <1>1, <1>8, AbsOwn DEF Missing, Lexical!Missing
<1>9. ASSUME NEW n \in Node, Fallback(n) PROVE Lexical!Fallback(n)
  <2>1. Running(n) /\ Kind[n] = "slot" /\ Found(n) = {} /\ OwnChildren(n, FALSE)
    BY <1>9 DEF Fallback
  <2>2. Lexical!Running(n) /\ Lexical!Here = Here
    BY <1>1, <2>1, AbsRunning
  <2>3. WrittenFor(n) = Lexical!Given(Lexical!Here, Asks[n])
    BY <2>2 DEF WrittenFor, CallOf, BodyContent, Lexical!Given, Lexical!GivenBy, Lexical!CallOf
  <2>4. QED
    BY <1>1, <2>1, <2>3, WhatIsShown, AbsOwn DEF Lexical!Fallback
<1>10. CASE UNCHANGED vars
  BY <1>2, <1>10
<1>11. CASE Rendered
  BY <1>2, <1>11 DEF Rendered
<1>12. CASE Return
  BY <1>3, <1>12 DEF Lexical!Next
<1>13. ASSUME NEW n \in Node,
              \/ Write(n) \/ Fail(n) \/ Inside(n) \/ Skip(n) \/ Round(n)
              \/ Call(n) \/ Wrap(n) \/ Missing(n) \/ Slot(n) \/ Fallback(n)
       PROVE  Lexical!Next
  <2>1. \/ Lexical!Write(n) \/ Lexical!Fail(n) \/ Lexical!Inside(n) \/ Lexical!Skip(n)
        \/ Lexical!Round(n) \/ Lexical!Call(n) \/ Lexical!Missing(n) \/ Lexical!Slot(n)
        \/ Lexical!Fallback(n)
    BY <1>1, <1>4, <1>5, <1>6, <1>7, <1>8, <1>9, <1>13,
       AbsFail, AbsRound, AbsCall, AbsSlot
  <2>2. QED
    BY <2>1 DEF Lexical!Next
<1>14. QED
  BY <1>10, <1>11, <1>12, <1>13 DEF Next

\* The interpreter is the abstract one of LexicalSlots, in which there are neither
\* options nor declarers: where the content of a slot runs, which variables it sees,
\* what the slots in it show and where an error in it ends depend on the place where
\* it is written, and on nothing else that the components around it do.
THEOREM ImplementsLexicalSlots ==
  ASSUME NoSlotInLoop, DefaultsAreBodies
  PROVE  Spec => LexicalSpec
<1>1. Init => Lexical!Init
  <2> SUFFICES ASSUME Init PROVE Lexical!Init
    OBVIOUS
  <2>1. /\ frames \in Seq(FrameType) /\ opts \in Seq(OptType) /\ Len(frames) = 1
        /\ \A i \in 1 .. Len(frames) : frames[i].opt \in 1 .. Len(opts)
        /\ frames[1] = [todo |-> Roots[Main], opt |-> 1, given |-> FALSE]
        /\ opts[1] = [slots |-> Nil, scope |-> 1] /\ Roots[Main] \in Seq(Node)
    BY InitInvariant, TypeParts, ProgramAssumption DEF Init, IInv, HeapType
  <2> DEFINE a == AbsOf(frames, opts)
             f == [todo |-> Roots[Main], scope |-> 1, given |-> FALSE]
  <2>2. /\ a \in Seq(AbsType) /\ Len(a) = 1
        /\ a[1] = [todo |-> frames[1].todo, scope |-> opts[frames[1].opt].scope,
                   given |-> frames[1].given]
    <3>1. /\ AbsOf(frames, opts) \in Seq(AbsType) /\ Len(AbsOf(frames, opts)) = Len(frames)
          /\ \A i \in 1 .. Len(frames) :
               AbsOf(frames, opts)[i] = [todo |-> frames[i].todo,
                                         scope |-> opts[frames[i].opt].scope,
                                         given |-> frames[i].given]
      BY <2>1, AbsSeq
    <3> HIDE DEF a
    <3>2. a = AbsOf(frames, opts) /\ 1 \in 1 .. Len(frames)
      BY <2>1 DEF a
    <3>3. QED
      BY <2>1, <3>1, <3>2
  <2>3. a[1] = f /\ f \in AbsType
    <3>1. /\ frames[1].todo = Roots[Main] /\ frames[1].opt = 1 /\ frames[1].given = FALSE
          /\ opts[1].scope = 1
      BY <2>1
    <3>2. a[1] = f
      BY <2>2, <3>1
    <3>3. f \in AbsType
      BY <2>1 DEF AbsType
    <3>4. QED
      BY <3>2, <3>3
  <2> HIDE DEF a, f
  <2>4. <<f>> \in Seq(AbsType) /\ Len(<<f>>) = 1 /\ <<f>>[1] = f
    BY <2>3
  <2>5. a = <<f>>
    BY <2>2, <2>3, <2>4, SeqEqual
  <2>6. QED
    BY <2>5 DEF Init, a, f, AbsOf, Lexical!Init
<1>2. IInv /\ TypeOK' /\ CallersAreCalls /\ [Next]_vars => [Lexical!Next]_Lexical!vars
  BY AbsNext
<1>3. Init => CallersAreCalls
  BY DEF Init, CallersAreCalls
<1>4. IInv /\ CallersAreCalls /\ [Next]_vars => CallersAreCalls'
  BY CallersStay DEF IInv
<1>5. Spec => []IInv
  BY OptionsKnowTheirSlots
<1>6. Spec => []TypeOK
  BY TypeCorrect
<1>7. QED
  BY <1>1, <1>2, <1>3, <1>4, <1>5, <1>6, PTL DEF Spec, LexicalSpec, Lexical!Spec
-----------------------------------------------------------------------------
(* Functions that are defined by recursion over a graph *)

\* f gathers what B has for the nodes that can be reached by K.
Gathers(f, N, B, K) == f = [n \in N |-> B[n] \cup UNION {f[k] : k \in K[n]}]

\* There is such a function, whatever the graph.
LEMMA Fixpoint ==
  ASSUME NEW N, NEW B \in [N -> SUBSET N], NEW K \in [N -> SUBSET N]
  PROVE  \E f : Gathers(f, N, B, K)
<1> DEFINE Closed(S) == \A m \in S : K[m] \subseteq S
           Reach(n) == {m \in N : \A S \in SUBSET N : n \in S /\ Closed(S) => m \in S}
           f == [n \in N |-> UNION {B[m] : m \in Reach(n)}]
<1>1. \A n \in N : n \in Reach(n) /\ Reach(n) \subseteq N /\ K[n] \subseteq N
  OBVIOUS
<1>2. ASSUME NEW n \in N, NEW k \in K[n] PROVE Reach(k) \subseteq Reach(n)
  OBVIOUS
<1>3. ASSUME NEW n \in N, NEW m \in Reach(n), m # n PROVE \E k \in K[n] : m \in Reach(k)
  <2> DEFINE S == {n} \cup {x \in N : \E k \in K[n] : x \in Reach(k)}
  <2>1. S \in SUBSET N /\ n \in S
    OBVIOUS
  <2>2. ASSUME NEW x \in S, NEW y \in K[x] PROVE y \in S
    <3>0. y \in N /\ x \in N
      OBVIOUS
    <3>1. CASE x = n
      BY <1>1, <3>0, <3>1
    <3>2. CASE x # n
      <4>1. PICK k \in K[n] : x \in Reach(k)
        BY <3>2
      <4>2. y \in Reach(k)
        BY <3>0, <4>1
      <4>3. QED
        BY <3>0, <4>1, <4>2
    <3>3. QED
      BY <3>1, <3>2
  <2>3. Closed(S)
    BY <2>2
  <2> HIDE DEF S
  <2>4. m \in S
    BY <2>1, <2>3
  <2>5. QED
    BY <1>3, <2>4 DEF S
<1> HIDE DEF Reach
<1>4. ASSUME NEW n \in N PROVE f[n] = B[n] \cup UNION {f[k] : k \in K[n]}
  <2>1. ASSUME NEW x \in f[n] PROVE x \in B[n] \cup UNION {f[k] : k \in K[n]}
    <3>1. PICK m \in Reach(n) : x \in B[m]
      BY <2>1
    <3>2. CASE m # n
      <4>1. PICK k \in K[n] : m \in Reach(k)
        BY <1>3, <3>2
      <4>2. x \in f[k]
        BY <1>1, <3>1, <4>1
      <4>3. QED
        BY <4>2
    <3>3. QED
      BY <3>1, <3>2
  <2>2. ASSUME NEW x \in B[n] \cup UNION {f[k] : k \in K[n]} PROVE x \in f[n]
    <3>1. CASE x \in B[n]
      BY <1>1, <3>1
    <3>2. ASSUME NEW k \in K[n], x \in f[k] PROVE x \in f[n]
      <4>1. k \in N
        BY <1>1
      <4>2. PICK m \in Reach(k) : x \in B[m]
        BY <3>2, <4>1
      <4>3. m \in Reach(n)
        BY <1>2
      <4>4. QED
        BY <4>2, <4>3
    <3>3. QED
      BY <2>2, <3>1, <3>2
  <2> HIDE DEF f
  <2>3. QED
    BY <2>1, <2>2
<1>5. f = [n \in N |-> B[n] \cup UNION {f[k] : k \in K[n]}]
  <2>1. [n \in N |-> f[n]] = [n \in N |-> B[n] \cup UNION {f[k] : k \in K[n]}]
    <3> HIDE DEF f
    <3>1. QED
      BY <1>4
  <2>2. f = [n \in N |-> f[n]]
    OBVIOUS
  <2> HIDE DEF f
  <2>3. QED
    BY <2>1, <2>2
<1> HIDE DEF f
<1>6. QED
  BY <1>5 DEF Gathers

LEMMA KidFacts ==
  ASSUME NEW n \in Node
  PROVE  /\ KidSet(n) \subseteq Node
         /\ \A i \in 1 .. Len(Body(n)) :
              Body(n)[i] \in KidSet(n) /\ Body(n)[i] \in Node
<1>1. Kids[n] \in Seq(Node)
  BY ProgramAssumption
<1>2. KidSet(n) \subseteq Node
  <2> DEFINE s == Kids[n]
  <2> HIDE DEF s
  <2>1. s \in Seq(Node)
    BY <1>1 DEF s
  <2>2. \A i \in 1 .. Len(s) : s[i] \in Node
    BY <2>1, ElementOfSeq
  <2>3. QED
    BY <2>2 DEF KidSet, s
<1>3. QED
  BY <1>2, BodyAssumption

LEMMA UnderFacts ==
  \A a \in Node : Under[a] = {a} \cup UNION {Under[k] : k \in KidSet(a)}
<1> DEFINE B == [a \in Node |-> {a}]
           K == [a \in Node |-> KidSet(a)]
           Def(f) == f = [a \in Node |-> {a} \cup UNION {f[k] : k \in KidSet(a)}]
<1>1. B \in [Node -> SUBSET Node] /\ K \in [Node -> SUBSET Node]
  BY KidFacts
<1>2. PICK f : Gathers(f, Node, B, K)
  <2> HIDE DEF B, K
  <2>1. QED
    BY <1>1, Fixpoint
<1>3. Def(f)
  <2>1. [a \in Node |-> B[a] \cup UNION {f[k] : k \in K[a]}] =
          [a \in Node |-> {a} \cup UNION {f[k] : k \in KidSet(a)}]
    OBVIOUS
  <2>2. QED
    BY <1>2, <2>1 DEF Gathers
<1>4. Under = CHOOSE u : Def(u)
  BY DEF Under
<1> HIDE DEF Def
<1>5. Def(Under)
  BY <1>3, <1>4
<1>6. QED
  BY <1>5 DEF Def

LEMMA CollectedFacts ==
  \A n \in Node :
    Collected[n] = (IF VSlot[n] = None THEN {} ELSE {n}) \cup
                   (IF Kind[n] \in {"tag", "if", "for", "wrap"}
                    THEN UNION {Collected[k] : k \in KidSet(n)} ELSE {})
<1> DEFINE Passes(n) == Kind[n] \in {"tag", "if", "for", "wrap"}
           Own(n) == IF VSlot[n] = None THEN {} ELSE {n}
           B == [n \in Node |-> Own(n)]
           K == [n \in Node |-> IF Passes(n) THEN KidSet(n) ELSE {}]
           Def(f) == f = [n \in Node |-> Own(n) \cup
                             (IF Passes(n) THEN UNION {f[k] : k \in KidSet(n)} ELSE {})]
<1>1. B \in [Node -> SUBSET Node] /\ K \in [Node -> SUBSET Node]
  <2>1. \A n \in Node : (IF Passes(n) THEN KidSet(n) ELSE {}) \in SUBSET Node
    <3> HIDE DEF Passes
    <3>1. QED
      BY KidFacts
  <2> HIDE DEF Passes
  <2>2. QED
    BY <2>1
<1>2. PICK f : Gathers(f, Node, B, K)
  <2> HIDE DEF B, K
  <2>1. QED
    BY <1>1, Fixpoint
<1>3. Def(f)
  <2> HIDE DEF Passes, Own
  <2>1. ASSUME NEW n \in Node
        PROVE  B[n] \cup UNION {f[k] : k \in K[n]} =
                 Own(n) \cup (IF Passes(n) THEN UNION {f[k] : k \in KidSet(n)} ELSE {})
    OBVIOUS
  <2>2. [n \in Node |-> B[n] \cup UNION {f[k] : k \in K[n]}] =
          [n \in Node |-> Own(n) \cup (IF Passes(n) THEN UNION {f[k] : k \in KidSet(n)} ELSE {})]
    <3> HIDE DEF B, K
    <3>1. QED
      BY <2>1
  <2>3. QED
    BY <1>2, <2>2 DEF Gathers
<1>4. Collected = CHOOSE u : Def(u)
  BY DEF Collected
<1> HIDE DEF Def
<1>5. Def(Collected)
  BY <1>3, <1>4
<1>6. QED
  BY <1>5 DEF Def

-----------------------------------------------------------------------------
(* Trees of elements *)

\* What holds for every element whose children it holds for holds for all elements.
LEMMA FromTheLeaves ==
  ASSUME NEW h, Forest(h), NEW P, \A n \in Node : KidSet(n) \subseteq P => n \in P
  PROVE  Node \subseteq P
<1> DEFINE Bad == {i \in Nat : \E n \in Node \ P : h[n] = i}
<1>1. SUFFICES ASSUME NEW b \in Node \ P PROVE FALSE
  OBVIOUS
<1>2. h[b] \in Bad
  BY DEF Forest
<1>3. PICK i \in Bad : \A j \in Nat : <<j, i>> \in OpToRel(<, Nat) => j \notin Bad
  <2>1. Bad \in SUBSET Nat /\ Bad # {}
    BY <1>2
  <2> HIDE DEF Bad
  <2>2. QED
    BY <2>1, WFMin, NatLessThanWellFounded, Zenon
<1>4. PICK n \in Node \ P : h[n] = i
  BY <1>3
<1>5. ASSUME NEW k \in KidSet(n) PROVE k \in P
  <2>1. k \in Node
    BY KidFacts
  <2>2. h[k] \in Nat /\ h[n] \in Nat /\ h[k] < h[n]
    BY <2>1 DEF Forest
  <2>3. h[k] \notin Bad
    BY <1>3, <1>4, <2>2 DEF OpToRel
  <2>4. QED
    BY <2>1, <2>2, <2>3
<1>6. QED
  BY <1>4, <1>5

LEMMA UnderOrder ==
  ASSUME NEW h, Forest(h)
  PROVE  /\ \A a \in Node : Under[a] \subseteq Node /\ a \in Under[a]
         /\ \A a \in Node : \A k \in KidSet(a) : Under[k] \subseteq Under[a]
         /\ \A a \in Node : \A n \in Under[a] : n = a \/ h[n] < h[a]
         /\ \A a \in Node : \A n \in Under[a] : Under[n] \subseteq Under[a]
<1>1. /\ \A a \in Node : a \in Under[a]
      /\ \A a \in Node : \A k \in KidSet(a) : Under[k] \subseteq Under[a]
  BY UnderFacts
<1>2. \A a \in Node : Under[a] \subseteq Node
  <2> DEFINE P == {a \in Node : Under[a] \subseteq Node}
  <2>1. ASSUME NEW a \in Node, KidSet(a) \subseteq P PROVE a \in P
    BY <2>1, UnderFacts
  <2> HIDE DEF P
  <2>2. Node \subseteq P
    BY <2>1, FromTheLeaves
  <2>3. QED
    BY <2>2 DEF P
<1>3. \A a \in Node : \A n \in Under[a] : n = a \/ h[n] < h[a]
  <2> DEFINE P == {a \in Node : \A n \in Under[a] : n = a \/ h[n] < h[a]}
  <2>1. ASSUME NEW a \in Node, KidSet(a) \subseteq P PROVE a \in P
    <3> SUFFICES ASSUME NEW n \in Under[a], n # a PROVE h[n] < h[a]
      OBVIOUS
    <3>1. PICK k \in KidSet(a) : n \in Under[k]
      BY UnderFacts
    <3>2. k \in Node /\ n \in Node
      BY <1>2, KidFacts
    <3>3. h[k] < h[a] /\ h[k] \in Nat /\ h[a] \in Nat /\ h[n] \in Nat
      BY <3>2 DEF Forest
    <3>4. n = k \/ h[n] < h[k]
      BY <2>1, <3>1
    <3>5. QED
      BY <3>3, <3>4
  <2> HIDE DEF P
  <2>2. Node \subseteq P
    BY <2>1, FromTheLeaves
  <2>3. QED
    BY <2>2 DEF P
<1>4. \A a \in Node : \A n \in Under[a] : Under[n] \subseteq Under[a]
  <2> DEFINE P == {a \in Node : \A n \in Under[a] : Under[n] \subseteq Under[a]}
  <2>1. ASSUME NEW a \in Node, KidSet(a) \subseteq P PROVE a \in P
    <3> SUFFICES ASSUME NEW n \in Under[a], n # a PROVE Under[n] \subseteq Under[a]
      OBVIOUS
    <3>1. PICK k \in KidSet(a) : n \in Under[k]
      BY UnderFacts
    <3>2. Under[n] \subseteq Under[k] /\ Under[k] \subseteq Under[a]
      BY <1>1, <2>1, <3>1
    <3>3. QED
      BY <3>2
  <2> HIDE DEF P
  <2>2. Node \subseteq P
    BY <2>1, FromTheLeaves
  <2>3. QED
    BY <2>2 DEF P
<1>5. QED
  BY <1>1, <1>2, <1>3, <1>4

\* What is above an element is above its parent.
LEMMA AboveParent ==
  ASSUME NEW h, Forest(h), NEW n \in Node, NEW k \in KidSet(n), NEW a \in Node,
         k \in Under[a], a # k
  PROVE  n \in Under[a]
<1> DEFINE P == {b \in Node : k \in Under[b] /\ b # k => n \in Under[b]}
<1>1. ASSUME NEW b \in Node, KidSet(b) \subseteq P PROVE b \in P
  <2> SUFFICES ASSUME k \in Under[b], b # k PROVE n \in Under[b]
    OBVIOUS
  <2>1. PICK j \in KidSet(b) : k \in Under[j]
    BY UnderFacts
  <2>2. CASE j = k
    <3>1. b = n
      BY <2>1, <2>2 DEF Forest
    <3>2. QED
      BY <3>1, UnderFacts
  <2>3. CASE j # k
    <3>1. n \in Under[j]
      BY <1>1, <2>1, <2>3
    <3>2. QED
      BY <3>1, UnderOrder
  <2>4. QED
    BY <2>2, <2>3
<1> HIDE DEF P
<1>2. Node \subseteq P
  BY <1>1, FromTheLeaves
<1>3. QED
  BY <1>2 DEF P

\* Of two elements around a third, one is around the other.
LEMMA Nested ==
  ASSUME NEW h, Forest(h), NEW c \in Node, NEW k \in Under[c], NEW a \in Node, k \in Under[a]
  PROVE  c \in Under[a] \/ a \in Under[c]
<1> DEFINE P == {b \in Node : k \in Under[b] => b \in Under[a] \/ a \in Under[b]}
<1>1. ASSUME NEW b \in Node, KidSet(b) \subseteq P PROVE b \in P
  <2> SUFFICES ASSUME k \in Under[b] PROVE b \in Under[a] \/ a \in Under[b]
    OBVIOUS
  <2>1. CASE k = b
    BY <2>1
  <2>2. CASE k # b
    <3>1. PICK j \in KidSet(b) : k \in Under[j]
      BY <2>2, UnderFacts
    <3>2. CASE a \in Under[j]
      BY <3>1, <3>2, UnderOrder
    <3>3. CASE j \in Under[a]
      <4>1. CASE a = j
        BY <3>2, <3>3, <4>1, UnderOrder
      <4>2. CASE a # j
        BY <3>3, <4>2, AboveParent
      <4>3. QED
        BY <4>1, <4>2
    <3>4. QED
      BY <1>1, <3>1, <3>2, <3>3
  <2>3. QED
    BY <2>1, <2>2
<1> HIDE DEF P
<1>2. Node \subseteq P
  BY <1>1, FromTheLeaves
<1>3. QED
  BY <1>2 DEF P

\* Nothing is around a root.
LEMMA RootAlone ==
  ASSUME NEW h, Forest(h), NEW c \in Comp, NEW i \in 1 .. Len(Roots[c]), NEW a \in Node,
         Roots[c][i] \in Under[a]
  PROVE  a = Roots[c][i]
<1> DEFINE r == Roots[c][i]
           P == {b \in Node : r \in Under[b] => b = r}
<1>1. \A n \in Node : r \notin KidSet(n)
  BY DEF Forest
<1> HIDE DEF r
<1>2. ASSUME NEW b \in Node, KidSet(b) \subseteq P PROVE b \in P
  <2> SUFFICES ASSUME r \in Under[b], b # r PROVE FALSE
    OBVIOUS
  <2>1. PICK j \in KidSet(b) : r \in Under[j]
    BY UnderFacts
  <2>2. j = r
    BY <1>2, <2>1
  <2>3. QED
    BY <1>1, <2>1, <2>2
<1> HIDE DEF P
<1>3. Node \subseteq P
  BY <1>2, FromTheLeaves
<1>4. r \in Under[a]
  BY DEF r
<1>5. QED
  BY <1>3, <1>4 DEF P, r

\* The elements that a call is handed are written in it.
LEMMA SlotsInside ==
  ASSUME NEW h, Forest(h), NEW c \in Node, NEW k \in SlotsOf(c)
  PROVE  k \in Under[c] /\ k # c
<1> DEFINE P == {n \in Node : Collected[n] \subseteq Under[n]}
<1>1. ASSUME NEW n \in Node, KidSet(n) \subseteq P PROVE n \in P
  <2> SUFFICES ASSUME NEW x \in Collected[n] PROVE x \in Under[n]
    OBVIOUS
  <2>1. x = n \/ \E j \in KidSet(n) : x \in Collected[j]
    BY CollectedFacts
  <2>2. CASE x = n
    BY <2>2, UnderFacts
  <2>3. ASSUME NEW j \in KidSet(n), x \in Collected[j] PROVE x \in Under[n]
    <3>1. x \in Under[j]
      BY <1>1, <2>3
    <3>2. QED
      BY <3>1, UnderFacts
  <2>4. QED
    BY <2>1, <2>2, <2>3
<1> HIDE DEF P
<1>2. Node \subseteq P
  BY <1>1, FromTheLeaves
<1>3. PICK j \in KidSet(c) : k \in Collected[j]
  BY DEF SlotsOf
<1>4. j \in Node
  BY KidFacts
<1>5. k \in Under[j]
  BY <1>2, <1>3, <1>4 DEF P
<1>6. k \in Under[c]
  BY <1>5, UnderFacts
<1>7. h[j] < h[c] /\ h[c] \in Nat /\ h[j] \in Nat /\ k \in Node
  BY <1>4, <1>5, UnderOrder DEF Forest
<1>8. k = j \/ h[k] < h[j]
  BY <1>4, <1>5, UnderOrder
<1>9. h[k] \in Nat
  BY <1>7 DEF Forest
<1>10. QED
  BY <1>6, <1>7, <1>8, <1>9

-----------------------------------------------------------------------------
(* What is visible where *)

\* A child sees what its element sees, and in a v-for the variables of it.
LEMMA VisibleInside ==
  ASSUME NEW h, Forest(h), NEW n \in Node, NEW k \in KidSet(n), VSlot[k] = None
  PROVE  Visible(k) = Visible(n) \cup (IF Kind[n] = "for" THEN {n} ELSE {})
<1>1. k \in Node /\ k \in Under[n] /\ n \in Under[n] /\ k \notin HasKey
  <2>1. k \in Node
    BY KidFacts
  <2>2. k \in Under[n] /\ n \in Under[n]
    BY <2>1, UnderFacts
  <2>3. k \notin HasKey
    BY ProgramAssumption
  <2>4. QED
    BY <2>1, <2>2, <2>3
<1>2. n \notin Under[k] /\ k # n
  <2>1. h[k] < h[n] /\ h[k] \in Nat /\ h[n] \in Nat
    BY <1>1 DEF Forest
  <2>2. n \in Under[k] => n = k \/ h[n] < h[k]
    BY <1>1, UnderOrder
  <2>3. QED
    BY <2>1, <2>2
<1>3. ASSUME NEW a \in Visible(k)
      PROVE  a \in Visible(n) \/ (a = n /\ Kind[n] = "for")
  <2>1. a \in Node /\ k \in Under[a] /\ (a \in HasKey \/ (Kind[a] = "for" /\ k # a))
    BY <1>3 DEF Visible
  <2>2. a # k
    BY <1>1, <2>1
  <2>3. n \in Under[a]
    BY <2>1, <2>2, AboveParent
  <2>4. QED
    BY <2>1, <2>3 DEF Visible
<1>4. ASSUME NEW a \in Visible(n) PROVE a \in Visible(k)
  <2>1. a \in Node /\ n \in Under[a] /\ (a \in HasKey \/ (Kind[a] = "for" /\ n # a))
    BY <1>4 DEF Visible
  <2>2. k \in Under[a] /\ a # k
    BY <1>1, <1>2, <2>1, UnderOrder
  <2>3. QED
    BY <2>1, <2>2 DEF Visible
<1>5. Kind[n] = "for" => n \in Visible(k)
  BY <1>1, <1>2 DEF Visible
<1>6. QED
  BY <1>3, <1>4, <1>5

\* A root sees nothing.
LEMMA VisibleAtRoot ==
  ASSUME NEW h, Forest(h), NEW c \in Comp, NEW i \in 1 .. Len(Roots[c])
  PROVE  Visible(Roots[c][i]) = {}
<1>1. VSlot[Roots[c][i]] = None
  BY DEF Forest
<1>2. ASSUME NEW a \in Visible(Roots[c][i]) PROVE FALSE
  <2>1. a \in Node /\ Roots[c][i] \in Under[a] /\ (a \in HasKey \/ Roots[c][i] # a)
    BY <1>2 DEF Visible
  <2>2. a = Roots[c][i]
    BY <2>1, RootAlone
  <2>3. QED
    BY <1>1, <2>1, <2>2, ProgramAssumption
<1>3. QED
  BY <1>2

\* An element with v-slot sees what the call sees, and what it names itself.
LEMMA VisibleInSlot ==
  ASSUME NEW h, Forest(h), NothingAroundSlots, NEW c \in Node, Kind[c] \in {"call", "dyn"},
         NEW k \in SlotsOf(c)
  PROVE  Visible(k) = Visible(c) \cup (IF k \in HasKey THEN {k} ELSE {})
<1>1. k \in Node /\ k \in Under[c] /\ k # c /\ c \in Under[c] /\ k \in Under[k]
  BY SlotsInside, SlotAssumption, UnderFacts
<1>2. c \notin Under[k]
  <2>1. h[k] < h[c] /\ h[k] \in Nat /\ h[c] \in Nat
    BY <1>1, UnderOrder DEF Forest
  <2>2. c \in Under[k] => c = k \/ h[c] < h[k]
    BY <1>1, UnderOrder
  <2>3. QED
    BY <1>1, <2>1, <2>2
<1>3. ASSUME NEW a \in Visible(k) PROVE a \in Visible(c) \/ (a = k /\ k \in HasKey)
  <2>1. a \in Node /\ k \in Under[a] /\ (a \in HasKey \/ (Kind[a] = "for" /\ k # a))
    BY <1>3 DEF Visible
  <2>2. c \in Under[a] \/ a \in Under[c]
    BY <1>1, <2>1, Nested
  <2>3. CASE a = k \/ a = c
    BY <1>1, <2>1, <2>3 DEF Visible
  <2>4. CASE a \notin {c, k}
    <3>1. c \in Under[a]
      BY <2>1, <2>2, <2>4 DEF NothingAroundSlots
    <3>2. QED
      BY <2>1, <2>4, <3>1 DEF Visible
  <2>5. QED
    BY <2>3, <2>4
<1>4. ASSUME NEW a \in Visible(c) PROVE a \in Visible(k)
  <2>1. a \in Node /\ c \in Under[a] /\ (a \in HasKey \/ (Kind[a] = "for" /\ c # a))
    BY <1>4 DEF Visible
  <2>2. k \in Under[a] /\ a # k
    BY <1>1, <1>2, <2>1, UnderOrder
  <2>3. QED
    BY <2>1, <2>2 DEF Visible
<1>5. k \in HasKey => k \in Visible(k)
  BY <1>1 DEF Visible
<1>6. QED
  BY <1>3, <1>4, <1>5

-----------------------------------------------------------------------------
(* What Scope.Get searches *)

\* Searched, for any scopes.
SearchedIn(S, s) ==
  LET searched[t \in 1 .. Len(S)] ==
        IF S[t].up = 0 THEN {} ELSE {t} \cup searched[S[t].up]
  IN searched[s]

\* From s the text n sees what is around it.
Sees(S, s, n) ==
  /\ {S[t].binder : t \in SearchedIn(S, s)} = Visible(n)
  /\ \A t, u \in SearchedIn(S, s) : u < t => S[t].binder \in Under[S[u].binder]

Parents(S) == S \in Seq(ScopeType) /\ \A s \in 1 .. Len(S) : S[s].up < s

LEMMA ParentFacts ==
  ASSUME NEW S, Parents(S)
  PROVE  /\ Len(S) \in Nat
         /\ \A s \in 1 .. Len(S) : S[s].up \in Nat /\ (S[s].up # 0 => S[s].up \in 1 .. s - 1)
<1>1. Len(S) \in Nat /\ \A s \in 1 .. Len(S) : S[s] \in ScopeType
  BY LenProperties, ElementOfSeq DEF Parents
<1>2. \A s \in 1 .. Len(S) : S[s].up \in Nat /\ S[s].up < s
  BY <1>1 DEF Parents, ScopeType
<1>3. QED
  BY <1>1, <1>2

LEMMA SearchedFacts ==
  ASSUME NEW S, Parents(S), NEW s \in 1 .. Len(S)
  PROVE  SearchedIn(S, s) = IF S[s].up = 0 THEN {} ELSE {s} \cup SearchedIn(S, S[s].up)
<1> DEFINE N == 1 .. Len(S)
           B == [t \in N |-> IF S[t].up = 0 THEN {} ELSE {t}]
           K == [t \in N |-> IF S[t].up = 0 THEN {} ELSE {S[t].up}]
           Def(f) == f = [t \in 1 .. Len(S) |-> IF S[t].up = 0 THEN {}
                                               ELSE {t} \cup f[S[t].up]]
<1>1. \A t \in N : S[t].up # 0 => S[t].up \in N
  BY ParentFacts
<1>2. B \in [N -> SUBSET N] /\ K \in [N -> SUBSET N]
  <2> HIDE DEF N
  <2>1. QED
    BY <1>1
<1>3. PICK f : Gathers(f, N, B, K)
  <2> HIDE DEF B, K, N
  <2>1. QED
    BY <1>2, Fixpoint
<1>4. Def(f)
  <2> HIDE DEF N
  <2>1. ASSUME NEW t \in N
        PROVE  B[t] \cup UNION {f[k] : k \in K[t]} =
                 IF S[t].up = 0 THEN {} ELSE {t} \cup f[S[t].up]
    <3>1. CASE S[t].up = 0
      BY <3>1
    <3>2. CASE S[t].up # 0
      <4>1. B[t] = {t} /\ K[t] = {S[t].up}
        BY <3>2
      <4>2. UNION {f[k] : k \in K[t]} = f[S[t].up]
        BY <4>1
      <4>3. QED
        BY <3>2, <4>1, <4>2
    <3>3. QED
      BY <3>1, <3>2
  <2>2. [t \in N |-> B[t] \cup UNION {f[k] : k \in K[t]}] =
          [t \in N |-> IF S[t].up = 0 THEN {} ELSE {t} \cup f[S[t].up]]
    <3> HIDE DEF B, K
    <3>1. QED
      BY <2>1
  <2>3. QED
    BY <1>3, <2>2 DEF Gathers, N
<1> HIDE DEF Def
<1>5. PICK g : g = CHOOSE x : Def(x)
  OBVIOUS
<1>6. Def(g)
  BY <1>4, <1>5
<1>7. \A t : SearchedIn(S, t) = g[t]
  BY <1>5 DEF SearchedIn, Def
<1>8. QED
  BY <1>1, <1>6, <1>7 DEF Def

\* More scopes change nothing for those that there are.
LEMMA SearchedStays ==
  ASSUME NEW S, Parents(S), NEW T, Parents(T), Len(S) <= Len(T),
         \A s \in 1 .. Len(S) : T[s] = S[s]
  PROVE  \A s \in 1 .. Len(S) :
           SearchedIn(T, s) = SearchedIn(S, s) /\ SearchedIn(S, s) \subseteq 1 .. s
<1> DEFINE Good(s) == SearchedIn(T, s) = SearchedIn(S, s) /\ SearchedIn(S, s) \subseteq 1 .. s
           Bad == {s \in Nat : s \in 1 .. Len(S) /\ ~ Good(s)}
<1>0. Len(S) \in Nat /\ Len(T) \in Nat
  BY ParentFacts
<1>1. Bad = {}
  <2>1. SUFFICES ASSUME Bad # {} PROVE FALSE
    OBVIOUS
  <2>2. PICK s \in Bad : \A m \in Nat : <<m, s>> \in OpToRel(<, Nat) => m \notin Bad
    <3>1. Bad \in SUBSET Nat
      OBVIOUS
    <3> HIDE DEF Bad
    <3>2. QED
      BY <2>1, <3>1, WFMin, NatLessThanWellFounded, Zenon
  <2>3. s \in Nat /\ s \in 1 .. Len(S) /\ s \in 1 .. Len(T) /\ T[s] = S[s]
    BY <1>0
  <2>4. /\ SearchedIn(S, s) = IF S[s].up = 0 THEN {} ELSE {s} \cup SearchedIn(S, S[s].up)
        /\ SearchedIn(T, s) = IF S[s].up = 0 THEN {} ELSE {s} \cup SearchedIn(T, S[s].up)
    BY <2>3, SearchedFacts
  <2> HIDE DEF Good
  <2>5. CASE S[s].up = 0
    BY <2>2, <2>4, <2>5 DEF Good
  <2>6. CASE S[s].up # 0
    <3>1. PICK u : u = S[s].up
      OBVIOUS
    <3>2. u \in 1 .. s - 1 /\ u \in Nat /\ u < s /\ u \in 1 .. Len(S)
      BY <1>0, <2>3, <2>6, <3>1, ParentFacts
    <3>3. Good(u)
      BY <2>2, <2>3, <3>2 DEF OpToRel
    <3>4. SearchedIn(S, s) = {s} \cup SearchedIn(S, u) /\ SearchedIn(T, s) = {s} \cup SearchedIn(T, u)
      BY <2>4, <2>6, <3>1
    <3>5. Good(s)
      <4>1. 1 .. u \subseteq 1 .. s /\ s \in 1 .. s
        BY <2>3, <3>2
      <4>2. QED
        BY <3>3, <3>4, <4>1 DEF Good
    <3>6. QED
      BY <2>2, <3>5
  <2>7. QED
    BY <2>5, <2>6
<1>2. QED
  BY <1>0, <1>1

LEMMA SeesStays ==
  ASSUME NEW S, Parents(S), NEW T, Parents(T), Len(S) <= Len(T),
         \A s \in 1 .. Len(S) : T[s] = S[s], NEW s \in 1 .. Len(S), NEW n, Sees(S, s, n)
  PROVE  Sees(T, s, n)
<1>1. SearchedIn(T, s) = SearchedIn(S, s) /\ SearchedIn(S, s) \subseteq 1 .. s
  BY SearchedStays
<1>2. \A t \in SearchedIn(S, s) : T[t] = S[t]
  BY <1>1, ParentFacts
<1>3. QED
  BY <1>1, <1>2 DEF Sees

\* A new scope holds the variables that are declared nearest to k.
LEMMA SeesMore ==
  ASSUME NEW S, Parents(S), NEW T, Parents(T), NEW u \in 1 .. Len(S), NEW b \in Node,
         T = Append(S, [up |-> u, binder |-> b]), NEW n, Sees(S, u, n),
         NEW k, Visible(k) = Visible(n) \cup {b}, \A a \in Visible(n) : b \in Under[a]
  PROVE  Sees(T, Len(S) + 1, k)
<1>0. Len(S) \in Nat
  BY ParentFacts
<1>1. PICK z : z = Len(S) + 1
  OBVIOUS
<1>2. PICK r : r = [up |-> u, binder |-> b]
  OBVIOUS
<1>3. r.up = u /\ r.binder = b
  BY <1>2
<1>4. /\ Len(T) = z /\ T[z] = r /\ \A i \in 1 .. Len(S) : T[i] = S[i]
  <2>1. r \in ScopeType
    BY <1>0, <1>2 DEF ScopeType
  <2>2. QED
    BY <1>1, <1>2, <2>1, AppendProperties DEF Parents
<1>5. z \in 1 .. Len(T) /\ z \in Nat /\ Len(S) <= Len(T) /\ u # 0 /\ u \in 1 .. Len(S)
  BY <1>0, <1>1, <1>4
<1>6. PICK G : G = SearchedIn(S, u)
  OBVIOUS
<1>7. SearchedIn(T, z) = {z} \cup G /\ G \subseteq 1 .. Len(S)
  <2>1. SearchedIn(T, z) = {z} \cup SearchedIn(T, u)
    <3>1. T[z].up = u
      BY <1>3, <1>4
    <3>2. SearchedIn(T, z) = IF T[z].up = 0 THEN {} ELSE {z} \cup SearchedIn(T, T[z].up)
      BY <1>5, SearchedFacts
    <3>3. QED
      BY <1>5, <3>1, <3>2
  <2>2. SearchedIn(T, u) = G /\ G \subseteq 1 .. u
    BY <1>4, <1>5, <1>6, SearchedStays
  <2>3. 1 .. u \subseteq 1 .. Len(S)
    BY <1>0, <1>5
  <2>4. QED
    BY <2>1, <2>2, <2>3
<1>8. /\ {S[t].binder : t \in G} = Visible(n)
      /\ \A t, v \in G : v < t => S[t].binder \in Under[S[v].binder]
  BY <1>6 DEF Sees
<1>9. T[z].binder = b /\ \A t \in G : T[t] = S[t]
  BY <1>3, <1>4, <1>7
<1>10. {T[t].binder : t \in SearchedIn(T, z)} = Visible(k)
  BY <1>7, <1>8, <1>9
<1>11. ASSUME NEW t \in SearchedIn(T, z), NEW v \in SearchedIn(T, z), v < t
       PROVE  T[t].binder \in Under[T[v].binder]
  <2>1. v \in G
    <3>0. t = z \/ t \in 1 .. Len(S)
      BY <1>7
    <3>1. t <= z /\ t \in Nat
      BY <1>0, <1>1, <3>0
    <3>2. v # z
      BY <1>5, <1>11, <3>1
    <3>3. QED
      BY <1>7, <3>2
  <2>2. CASE t = z
    BY <1>8, <1>9, <2>1, <2>2
  <2>3. CASE t \in G
    BY <1>8, <1>9, <1>11, <2>1, <2>3
  <2>4. QED
    BY <1>7, <2>2, <2>3
<1>12. QED
  BY <1>1, <1>10, <1>11 DEF Sees

\* The scope of a component holds no variables.
LEMMA SeesNothing ==
  ASSUME NEW S, Parents(S), NEW s \in 1 .. Len(S), S[s].up = 0, NEW n, Visible(n) = {}
  PROVE  Sees(S, s, n)
BY SearchedFacts DEF Sees

-----------------------------------------------------------------------------
(* What a text sees *)

\* What is left to run sees what is around it.
FramesSee ==
  \A i \in 1 .. Len(frames) : \A j \in 1 .. Len(frames[i].todo) :
    Sees(scopes, opts[frames[i].opt].scope, frames[i].todo[j])

\* A declarer sees what is around the call that it has declared slots for.
DeclarersSee ==
  \A o \in 1 .. Len(opts) : opts[o].slots # Nil =>
    Sees(scopes, opts[opts[o].slots.decl].scope, opts[o].slots.call)

SInv == TypeOK /\ CallersAreCalls /\ FramesSee /\ DeclarersSee /\ SeesWhatIsAround

LEMMA OutSees ==
  SeesWhatIsAround <=> \A i \in 1 .. Len(out) : Sees(scopes, out[i][2], out[i][1])
BY DEF SeesWhatIsAround, Sees, Searched, SearchedIn

LEMMA OutSeesNext ==
  SeesWhatIsAround' <=> \A i \in 1 .. Len(out') : Sees(scopes', out'[i][2], out'[i][1])
BY DEF SeesWhatIsAround, Sees, Searched, SearchedIn

LEMMA HeapSees ==
  ASSUME HeapType, HeapType', HeapGrows, NEW s \in 1 .. Len(scopes), NEW n, Sees(scopes, s, n)
  PROVE  Sees(scopes', s, n)
<1>1. Parents(scopes) /\ Parents(scopes')
  BY DEF HeapType, Parents
<1>2. Len(scopes) <= Len(scopes') /\ \A t \in 1 .. Len(scopes) : scopes'[t] = scopes[t]
  BY DEF HeapGrows
<1>3. QED
  BY <1>1, <1>2, SeesStays

LEMMA FramesSeen ==
  ASSUME TypeOK, HeapGrows, HeapType', FramesSee, NEW todo, NEW o, NEW given,
         \A i \in 1 .. Len(frames') :
           Shrunk(i) \/ frames'[i] = [todo |-> todo, opt |-> o, given |-> given],
         \A j \in 1 .. Len(todo) : Sees(scopes', opts'[o].scope, todo[j])
  PROVE  FramesSee'
<1> SUFFICES ASSUME NEW i \in 1 .. Len(frames'), NEW j \in 1 .. Len(frames'[i].todo)
             PROVE  Sees(scopes', opts'[frames'[i].opt].scope, frames'[i].todo[j])
  BY DEF FramesSee
<1>1. CASE Shrunk(i)
  <2>1. PICK k \in 1 .. Len(frames[i].todo) : frames'[i].todo[j] = frames[i].todo[k]
    BY <1>1 DEF Shrunk
  <2>2. PICK p : p = frames[i].opt
    OBVIOUS
  <2>3. PICK n : n = frames[i].todo[k]
    OBVIOUS
  <2>4. /\ i \in 1 .. Len(frames) /\ frames'[i].opt = p /\ p \in 1 .. Len(opts)
        /\ frames'[i].todo[j] = n
    BY <1>1, <2>1, <2>2, <2>3 DEF Shrunk, TypeOK
  <2>5. Sees(scopes, opts[p].scope, n)
    BY <2>1, <2>2, <2>3, <2>4 DEF FramesSee
  <2>6. HeapType /\ opts'[p] = opts[p] /\ opts[p].scope \in 1 .. Len(scopes)
    BY <2>4, TypeParts DEF HeapType, HeapGrows
  <2>7. Sees(scopes', opts[p].scope, n)
    BY <2>5, <2>6, HeapSees
  <2>8. QED
    BY <2>4, <2>6, <2>7
<1>2. CASE frames'[i] = [todo |-> todo, opt |-> o, given |-> given]
  <2>1. frames'[i].todo = todo /\ frames'[i].opt = o
    BY <1>2
  <2>2. QED
    BY <2>1
<1>3. QED
  BY <1>1, <1>2

LEMMA DeclarersSeen ==
  ASSUME TypeOK, HeapGrows, HeapType', DeclarersSee, Len(opts') = NewOpt,
         opts'[NewOpt].slots # Nil =>
           /\ opts'[NewOpt].slots.decl \in 1 .. Len(opts)
           /\ Sees(scopes, opts[opts'[NewOpt].slots.decl].scope, opts'[NewOpt].slots.call)
  PROVE  DeclarersSee'
<1>1. HeapType
  BY TypeParts
<1> SUFFICES ASSUME NEW o \in 1 .. Len(opts'), opts'[o].slots # Nil
             PROVE  Sees(scopes', opts'[opts'[o].slots.decl].scope, opts'[o].slots.call)
  BY DEF DeclarersSee
<1>2. PICK d, c : d = opts'[o].slots.decl /\ c = opts'[o].slots.call
  OBVIOUS
<1>3. d \in 1 .. Len(opts) /\ Sees(scopes, opts[d].scope, c)
  <2>1. CASE o = NewOpt
    BY <1>2, <2>1
  <2>2. CASE o \in 1 .. Len(opts)
    <3>1. opts'[o] = opts[o] /\ opts[o].slots # Nil
      BY <2>2 DEF HeapGrows
    <3>2. d = opts[o].slots.decl /\ c = opts[o].slots.call
      BY <1>2, <3>1
    <3>3. d \in 1 .. o - 1 /\ Len(opts) \in Nat
      BY <1>1, <2>2, <3>1, <3>2, HeapLens DEF HeapType
    <3>4. d \in 1 .. Len(opts)
      BY <2>2, <3>3
    <3>5. QED
      BY <2>2, <3>1, <3>2, <3>4 DEF DeclarersSee
  <2>3. QED
    BY <1>1, <2>1, <2>2, HeapLens DEF NewOpt
<1>4. opts'[d] = opts[d] /\ opts[d].scope \in 1 .. Len(scopes)
  BY <1>1, <1>3 DEF HeapGrows, HeapType
<1>5. Sees(scopes', opts[d].scope, c)
  BY <1>1, <1>3, <1>4, HeapSees
<1>6. QED
  BY <1>2, <1>4, <1>5

LEMMA OutSeen ==
  ASSUME TypeOK, HeapGrows, HeapType', SeesWhatIsAround, out' = out
  PROVE  SeesWhatIsAround'
<1>1. ASSUME NEW i \in 1 .. Len(out') PROVE Sees(scopes', out'[i][2], out'[i][1])
  <2>1. PICK s, n : s = out[i][2] /\ n = out[i][1]
    OBVIOUS
  <2>2. s \in 1 .. Len(scopes) /\ Sees(scopes, s, n)
    BY <2>1, OutSees DEF TypeOK
  <2>3. Sees(scopes', s, n)
    BY <2>2, TypeParts, HeapSees
  <2>4. QED
    BY <2>1, <2>3
<1>2. QED
  BY <1>1, OutSeesNext

\* The running statement sees what is around it, and so does the declarer of the slots.
LEMMA RunningSees ==
  ASSUME SInv, NEW n, Running(n)
  PROVE  /\ Sees(scopes, Here, n)
         /\ opts[Opt].slots # Nil =>
              Sees(scopes, opts[opts[Opt].slots.decl].scope, opts[Opt].slots.call)
<1>1. Depth \in 1 .. Len(frames) /\ n = frames[Depth].todo[1]
      /\ 1 \in 1 .. Len(frames[Depth].todo) /\ Opt \in 1 .. Len(opts)
  BY RunningTyping DEF SInv, Depth
<1>2. Sees(scopes, Here, n)
  BY <1>1 DEF SInv, FramesSee, Opt, Here
<1>3. QED
  BY <1>1, <1>2 DEF SInv, DeclarersSee

\* The body of an element that is not a v-for sees what the element sees.
LEMMA BodySees ==
  ASSUME NEW h, Forest(h), NEW n \in Node, Kind[n] # "for", NEW S, NEW s, Sees(S, s, n)
  PROVE  \A j \in 1 .. Len(Body(n)) : Sees(S, s, Body(n)[j])
<1> SUFFICES ASSUME NEW j \in 1 .. Len(Body(n)) PROVE Sees(S, s, Body(n)[j])
  OBVIOUS
<1>1. PICK k : k = Body(n)[j]
  OBVIOUS
<1>2. k \in KidSet(n) /\ VSlot[k] = None
  BY <1>1, BodyAssumption
<1>3. Visible(k) = Visible(n)
  BY <1>2, VisibleInside
<1>4. QED
  BY <1>1, <1>3 DEF Sees

LEMMA RoundSees ==
  ASSUME NEW h, Forest(h), SInv, NEW n \in Node, Round(n)
  PROVE  \A j \in 1 .. Len(Body(n)) : Sees(scopes', NewScope, Body(n)[j])
<1> SUFFICES ASSUME NEW j \in 1 .. Len(Body(n)) PROVE Sees(scopes', NewScope, Body(n)[j])
  OBVIOUS
<1>1. PICK k : k = Body(n)[j]
  OBVIOUS
<1>2. k \in KidSet(n) /\ VSlot[k] = None
  BY <1>1, BodyAssumption
<1>3. Visible(k) = Visible(n) \cup {n}
  BY <1>2, VisibleInside DEF Round
<1>4. /\ Here \in 1 .. Len(scopes) /\ scopes' = Append(scopes, [up |-> Here, binder |-> n])
      /\ HeapType' /\ HeapType
  BY RoundEffect, TypeParts DEF SInv
<1>5. Parents(scopes) /\ Parents(scopes')
  BY <1>4 DEF HeapType, Parents
<1>6. Sees(scopes, Here, n)
  BY RunningSees DEF Round
<1>7. \A a \in Visible(n) : n \in Under[a]
  BY DEF Visible
<1>8. Sees(scopes', NewScope, k)
  BY <1>3, <1>4, <1>5, <1>6, <1>7, SeesMore DEF NewScope
<1>9. QED
  BY <1>1, <1>8

LEMMA ContentSees ==
  ASSUME NEW h, Forest(h), NothingAroundSlots, NEW c \in Node, Kind[c] \in {"call", "dyn"},
         NEW name, NEW g \in Content(c, name), NEW S, NEW T, Parents(S), Parents(T),
         NEW s \in 1 .. Len(S), Sees(S, s, c), NEW t,
         IF g.key = None THEN T = S /\ t = s
         ELSE T = Append(S, [up |-> s, binder |-> g.key]) /\ t = Len(S) + 1
  PROVE  \A j \in 1 .. Len(g.todo) : Sees(T, t, g.todo[j])
<1>1. CASE g = BodyContent(c)
  <2>1. g.todo = Body(c) /\ g.key = None
    BY <1>1 DEF BodyContent
  <2>2. \A j \in 1 .. Len(Body(c)) : Sees(S, s, Body(c)[j])
    BY BodySees
  <2>3. QED
    BY <2>1, <2>2
<1>2. CASE g \in NamedContent(c, name)
  <2>1. PICK k \in SlotsOf(c) : g = [todo |-> <<k>>, key |-> IF k \in HasKey THEN k ELSE None]
    BY <1>2 DEF NamedContent
  <2>2. k \in Node /\ k # None
    BY SlotAssumption, ProgramAssumption
  <2>3. g.todo = <<k>> /\ g.key = IF k \in HasKey THEN k ELSE None
    BY <2>1
  <2>4. Visible(k) = Visible(c) \cup (IF k \in HasKey THEN {k} ELSE {})
    BY VisibleInSlot
  <2>5. CASE k \notin HasKey
    <3>1. T = S /\ t = s /\ Visible(k) = Visible(c)
      BY <2>3, <2>4, <2>5
    <3>2. Sees(T, t, k)
      BY <3>1 DEF Sees
    <3>3. QED
      BY <2>3, <3>2
  <2>6. CASE k \in HasKey
    <3>1. /\ T = Append(S, [up |-> s, binder |-> k]) /\ t = Len(S) + 1
          /\ Visible(k) = Visible(c) \cup {k}
      BY <2>2, <2>3, <2>4, <2>6
    <3>2. \A a \in Visible(c) : k \in Under[a]
      <4>1. k \in Under[c]
        BY SlotsInside
      <4>2. ASSUME NEW a \in Visible(c) PROVE k \in Under[a]
        <5>1. a \in Node /\ c \in Under[a]
          BY DEF Visible
        <5>2. Under[c] \subseteq Under[a]
          BY <5>1, UnderOrder
        <5>3. QED
          BY <4>1, <5>2
      <4>3. QED
        BY <4>2
    <3>3. Sees(T, t, k)
      BY <2>2, <3>1, <3>2, SeesMore
    <3>4. QED
      BY <2>3, <3>3
  <2>7. QED
    BY <2>5, <2>6
<1>3. QED
  BY <1>1, <1>2 DEF Content

LEMMA EnterSees ==
  ASSUME SInv, NEW n, Running(n), HeapGrows, HeapType', NEW todo \in Seq(Node), NEW o \in Nat,
         NEW given \in BOOLEAN, Enter(todo, o, given),
         \A j \in 1 .. Len(todo) : Sees(scopes', opts'[o].scope, todo[j])
  PROVE  FramesSee'
<1>1. \A i \in 1 .. Len(frames') :
        Shrunk(i) \/ frames'[i] = [todo |-> todo, opt |-> o, given |-> given]
  BY EnterFrames DEF SInv
<1>2. QED
  BY <1>1, FramesSeen DEF SInv

\* A step that leaves less to do, and the options and scopes as they are.
LEMMA ShrinkSees ==
  ASSUME SInv, UNCHANGED <<opts, scopes, inst>>, \A i \in 1 .. Len(frames') : Shrunk(i)
  PROVE  FramesSee' /\ DeclarersSee'
<1>1. HeapGrows /\ HeapType'
  BY ShrinkStep DEF SInv
<1>2. FramesSee'
  <2>1. PICK o, given, todo : todo = <<>>
    OBVIOUS
  <2>2. \A j \in 1 .. Len(todo) : Sees(scopes', opts'[o].scope, todo[j])
    BY <2>1
  <2>3. QED
    BY <1>1, <2>2, FramesSeen DEF SInv
<1>3. QED
  BY <1>2 DEF SInv, DeclarersSee

LEMMA WriteSees ==
  ASSUME SInv, NEW n \in Node, Write(n)
  PROVE  SeesWhatIsAround'
<1>1. /\ Running(n) /\ out' = Append(out, <<n, Here>>) /\ scopes' = scopes
      /\ out \in Seq(Node \X Nat) /\ Sees(scopes, Here, n)
  BY RunningSees DEF Write, SInv, TypeOK
<1>2. PICK w : w = <<n, Here>>
  OBVIOUS
<1>3. w \in Node \X Nat /\ w[1] = n /\ w[2] = Here
  <2>1. Here \in Nat
    BY <1>1, RunningTyping, TypeParts, HeapLens DEF SInv
  <2>2. QED
    BY <1>2, <2>1
<1>4. /\ Len(out') = Len(out) + 1 /\ out'[Len(out) + 1] = w /\ Len(out) \in Nat
      /\ \A i \in 1 .. Len(out) : out'[i] = out[i]
  BY <1>1, <1>2, <1>3, AppendProperties, LenProperties
<1>5. ASSUME NEW i \in 1 .. Len(out') PROVE Sees(scopes', out'[i][2], out'[i][1])
  <2>1. CASE i = Len(out) + 1
    <3>1. out'[i] = w
      BY <1>4, <2>1
    <3>2. QED
      BY <1>1, <1>3, <3>1
  <2>2. CASE i \in 1 .. Len(out)
    <3>1. out'[i] = out[i] /\ Sees(scopes, out[i][2], out[i][1])
      BY <1>4, <2>2, OutSees DEF SInv
    <3>2. QED
      BY <1>1, <3>1
  <2>3. QED
    BY <1>4, <2>1, <2>2
<1>6. QED
  BY <1>5, OutSeesNext

LEMMA SeesNext ==
  ASSUME NEW h, Forest(h), NothingAroundSlots, SInv, Next
  PROVE  SInv'
<1> DEFINE Kept == FramesSee' /\ DeclarersSee' /\ SeesWhatIsAround'
<1>0. /\ HeapType /\ HeapGrows /\ TypeOK' /\ CallersAreCalls' /\ TypeOK
      /\ Depth = Len(frames) /\ Depth \in Nat
  BY NextKeeps, CallersStay, TypeParts, LenProperties DEF SInv, Depth, TypeOK
<1>1. HeapType'
  BY <1>0 DEF TypeOK, HeapType, FrameType, OptType, ScopeType, InstType
<1>2. ASSUME out' = out PROVE SeesWhatIsAround'
  BY <1>0, <1>1, <1>2, OutSeen DEF SInv
<1>3. ASSUME out' = <<>> PROVE SeesWhatIsAround'
  <2>1. Len(out') = 0
    BY <1>3
  <2>2. QED
    BY <2>1, OutSeesNext
<1>4. ASSUME Return PROVE Kept
  <2>1. frames' = SubSeq(frames, 1, Depth - 1) /\ Depth - 1 \in 0 .. Len(frames)
    BY <1>0, <1>4 DEF Return
  <2>2. \A i \in 1 .. Len(frames') : Shrunk(i)
    BY <1>0, <2>1, CutFrames
  <2>3. QED
    BY <1>2, <1>4, <2>2, ShrinkSees DEF Return
<1>5. ASSUME NEW n \in Node, Write(n) PROVE Kept
  <2>1. \A i \in 1 .. Len(frames') : Shrunk(i)
    BY <1>0, <1>5, RestFrames DEF Write
  <2>2. QED
    BY <1>5, <2>1, ShrinkSees, WriteSees DEF Write
<1>6. ASSUME NEW n \in Node, Fail(n) PROVE Kept
  <2>1. UNCHANGED <<opts, scopes, inst>>
    BY <1>6 DEF Fail
  <2>2. CASE frames' = <<>> /\ out' = <<>>
    <3>1. Len(frames') = 0
      BY <2>2
    <3>2. QED
      BY <1>3, <2>1, <2>2, <3>1, ShrinkSees
  <2>3. ASSUME NEW i \in 1 .. Depth, frames' = SubSeq(frames, 1, i - 1), UNCHANGED out
        PROVE  Kept
    <3>1. i - 1 \in 0 .. Len(frames)
      BY <1>0
    <3>2. \A k \in 1 .. Len(frames') : Shrunk(k)
      BY <1>0, <2>3, <3>1, CutFrames
    <3>3. QED
      BY <1>2, <2>1, <2>3, <3>2, ShrinkSees
  <2>4. QED
    BY <1>6, <2>2, <2>3 DEF Fail
<1>7. ASSUME NEW n \in Node, Inside(n) PROVE Kept
  <2>1. /\ Running(n) /\ Enter(Body(n), Opt, FALSE) /\ UNCHANGED <<opts, scopes, inst, out>>
        /\ Kind[n] # "for"
    BY <1>7 DEF Inside
  <2>2. PICK o \in Nat : o = Opt
    BY <1>0, <2>1, RunningTyping, HeapLens
  <2>3. \A j \in 1 .. Len(Body(n)) : Sees(scopes', opts'[o].scope, Body(n)[j])
    BY <2>1, <2>2, RunningSees, BodySees DEF Here
  <2>4. FramesSee'
    BY <1>0, <1>1, <2>1, <2>2, <2>3, EnterSees, BodyAssumption
  <2>5. DeclarersSee'
    BY <2>1 DEF SInv, DeclarersSee
  <2>6. QED
    BY <1>2, <2>1, <2>4, <2>5
<1>8. ASSUME NEW n \in Node, Skip(n) PROVE Kept
  <2>1. \A i \in 1 .. Len(frames') : Shrunk(i)
    BY <1>0, <1>8, RestFrames DEF Skip
  <2>2. QED
    BY <1>2, <1>8, <2>1, ShrinkSees DEF Skip
<1>9. ASSUME NEW n \in Node, Round(n) PROVE Kept
  <2>0. PICK q : q = NewOpt
    OBVIOUS
  <2>1. /\ opts'[q] = [slots |-> Nil, scope |-> NewScope] /\ out' = out /\ Len(opts') = NewOpt
    BY <1>0, <1>9, <2>0, RoundEffect
  <2>2. opts'[q].slots = Nil /\ opts'[q].scope = NewScope
    BY <2>1
  <2>3. \A i \in 1 .. Len(frames') :
          Shrunk(i) \/ frames'[i] = [todo |-> Body(n), opt |-> q, given |-> FALSE]
    BY <1>0, <1>9, <2>0, RoundFrames
  <2>4. \A j \in 1 .. Len(Body(n)) : Sees(scopes', opts'[q].scope, Body(n)[j])
    BY <1>9, <2>2, RoundSees
  <2>5. FramesSee'
    BY <1>0, <1>1, <2>3, <2>4, FramesSeen DEF SInv
  <2>6. DeclarersSee'
    BY <1>0, <1>1, <2>0, <2>1, <2>2, DeclarersSeen DEF SInv
  <2>7. QED
    BY <1>2, <2>1, <2>5, <2>6
<1>10. ASSUME NEW n \in Node, Call(n) PROVE Kept
  <2>0. PICK q : q = NewOpt
    OBVIOUS
  <2>1. /\ opts'[q] = [slots |-> [call |-> n, decl |-> Opt], scope |-> NewScope]
        /\ scopes'[NewScope] = [up |-> 0, binder |-> n] /\ scopes' = Append(scopes, [up |-> 0, binder |-> n])
        /\ out' = out /\ Opt \in 1 .. Len(opts) /\ q \in 1 .. Len(opts')
        /\ Len(opts') = NewOpt
    BY <1>0, <1>10, <2>0, CallEffect
  <2>2. PICK c \in Targets[n] : Enter(Roots[c], q, FALSE) /\ Roots[c] \in Seq(Node)
    BY <1>0, <1>10, <2>0, CallEffect
  <2>3. Running(n) /\ c \in Comp
    BY <1>10, ProgramAssumption DEF Call
  <2>4. /\ opts'[q].scope = NewScope /\ opts'[q].slots.call = n /\ opts'[q].slots.decl = Opt
        /\ scopes'[NewScope].up = 0
    BY <2>1
  <2>5. ASSUME NEW j \in 1 .. Len(Roots[c]) PROVE Sees(scopes', opts'[q].scope, Roots[c][j])
    <3>1. Visible(Roots[c][j]) = {}
      BY <2>3, VisibleAtRoot
    <3>2. Parents(scopes')
      BY <1>1 DEF HeapType, Parents
    <3>3. opts'[q].scope \in 1 .. Len(scopes')
      BY <1>1, <2>1 DEF HeapType
    <3>4. QED
      BY <2>4, <3>1, <3>2, <3>3, SeesNothing
  <2>6. FramesSee'
    <3>1. q \in Nat
      BY <1>0, <2>0, HeapLens
    <3>2. QED
      BY <1>0, <1>1, <2>2, <2>3, <2>5, <3>1, EnterSees
  <2>7. Sees(scopes, opts[Opt].scope, n)
    BY <2>3, RunningSees DEF Here
  <2>8. DeclarersSee'
    BY <1>0, <1>1, <2>0, <2>1, <2>4, <2>7, DeclarersSeen DEF SInv
  <2>9. QED
    BY <1>2, <2>1, <2>6, <2>8
<1>11. ASSUME NEW n \in Node, Running(n), NEW given \in BOOLEAN, OwnChildren(n, given),
              Kind[n] # "for"
       PROVE  Kept
  <2>0. PICK q : q = NewOpt
    OBVIOUS
  <2>1. /\ opts'[q] = [slots |-> opts[Opt].slots, scope |-> Here]
        /\ UNCHANGED <<scopes, inst, out>> /\ Opt \in 1 .. Len(opts)
        /\ Enter(Body(n), q, given) /\ Body(n) \in Seq(Node) /\ Len(opts') = NewOpt
    BY <1>0, <1>11, <2>0, OwnEffect
  <2>2. opts'[q].slots = opts[Opt].slots /\ opts'[q].scope = Here
    BY <2>1
  <2>3. \A j \in 1 .. Len(Body(n)) : Sees(scopes', opts'[q].scope, Body(n)[j])
    BY <1>11, <2>1, <2>2, RunningSees, BodySees
  <2>4. FramesSee'
    <3>1. q \in Nat
      BY <1>0, <2>0, HeapLens
    <3>2. QED
      BY <1>0, <1>1, <1>11, <2>1, <2>3, <3>1, EnterSees
  <2>5. opts[Opt].slots # Nil =>
          /\ opts[Opt].slots.decl \in 1 .. Len(opts)
          /\ Sees(scopes, opts[opts[Opt].slots.decl].scope, opts[Opt].slots.call)
    <3>1. opts[Opt].slots # Nil => opts[Opt].slots.decl \in 1 .. Len(opts)
      BY <1>0, <2>1, HeapLens DEF HeapType
    <3>2. QED
      BY <1>11, <3>1, RunningSees
  <2>6. DeclarersSee'
    BY <1>0, <1>1, <2>0, <2>1, <2>2, <2>5, DeclarersSeen DEF SInv
  <2>7. QED
    BY <1>2, <2>1, <2>4, <2>6
<1>12. ASSUME NEW n \in Node, Slot(n) PROVE Kept
  <2>0. PICK q : q = NewOpt
    OBVIOUS
  <2>1. PICK c \in Node, d \in 1 .. Len(opts) :
          c = opts[Opt].slots.call /\ d = opts[Opt].slots.decl
    BY <1>0, <1>12, SlotEffect
  <2>2. /\ Opt \in 1 .. Len(opts) /\ opts[Opt].slots # Nil /\ out' = out
        /\ Len(opts') = NewOpt
    BY <1>0, <1>12, SlotEffect
  <2>3. Running(n)
    BY <1>12 DEF Slot
  <2>4. PICK g \in Content(c, Asks[n]) :
          /\ Enter(g.todo, q, TRUE)
          /\ IF g.key = None
             THEN /\ opts'[q] = [slots |-> opts[d].slots, scope |-> opts[d].scope]
                  /\ UNCHANGED <<scopes, inst>>
             ELSE /\ opts'[q] = [slots |-> opts[d].slots, scope |-> NewScope]
                  /\ scopes' = Append(scopes, [up |-> opts[d].scope, binder |-> g.key])
    BY <1>0, <1>12, <2>0, <2>1, SlotEffect
  <2>5. PICK s : s = opts[d].scope
    OBVIOUS
  <2>6. PICK t : t = opts'[q].scope
    OBVIOUS
  <2>7. s \in 1 .. Len(scopes) /\ Parents(scopes) /\ Parents(scopes')
    BY <1>0, <1>1, <2>1, <2>5 DEF HeapType, Parents
  <2>8. Sees(scopes, s, c) /\ Kind[c] \in {"call", "dyn"}
    BY <2>1, <2>2, <2>3, <2>5, RunningSees DEF SInv, CallersAreCalls
  <2>9. IF g.key = None THEN scopes' = scopes /\ t = s
        ELSE scopes' = Append(scopes, [up |-> s, binder |-> g.key]) /\ t = Len(scopes) + 1
    BY <2>4, <2>5, <2>6 DEF NewScope
  <2>10. \A j \in 1 .. Len(g.todo) : Sees(scopes', t, g.todo[j])
    BY <2>7, <2>8, <2>9, ContentSees
  <2>11. FramesSee'
    <3>1. q \in Nat
      BY <1>0, <2>0, HeapLens
    <3>2. g.todo \in Seq(Node)
      BY <2>4, Contents
    <3>3. \A j \in 1 .. Len(g.todo) : Sees(scopes', opts'[q].scope, g.todo[j])
      BY <2>6, <2>10
    <3>4. Enter(g.todo, q, TRUE)
      BY <2>4
    <3>5. QED
      BY <1>0, <1>1, <2>3, <3>1, <3>2, <3>3, <3>4, EnterSees
  <2>12. opts'[q].slots = opts[d].slots
    BY <2>4
  <2>13. opts[d].slots # Nil =>
           /\ opts[d].slots.decl \in 1 .. Len(opts)
           /\ Sees(scopes, opts[opts[d].slots.decl].scope, opts[d].slots.call)
    <3>1. opts[d].slots # Nil => opts[d].slots.decl \in 1 .. Len(opts)
      BY <1>0, <2>1, HeapLens DEF HeapType
    <3>2. QED
      BY <3>1 DEF SInv, DeclarersSee
  <2>14. DeclarersSee'
    BY <1>0, <1>1, <2>0, <2>2, <2>12, <2>13, DeclarersSeen DEF SInv
  <2>15. QED
    BY <1>2, <2>2, <2>11, <2>14
<1>13. ASSUME Rendered PROVE Kept
  <2>1. \A i \in 1 .. Len(frames') : Shrunk(i)
    BY <1>13 DEF Rendered, vars, Shrunk
  <2>2. QED
    BY <1>2, <1>13, <2>1, ShrinkSees DEF Rendered, vars
<1>14. ASSUME NEW n \in Node, Wrap(n) \/ Missing(n) \/ Fallback(n) PROVE Kept
  <2>1. Running(n) /\ Kind[n] # "for" /\ \E given \in BOOLEAN : OwnChildren(n, given)
    BY <1>14 DEF Wrap, Missing, Fallback
  <2>2. QED
    BY <1>11, <2>1
<1> HIDE DEF Kept
<1>15. Kept
  BY <1>4, <1>5, <1>6, <1>7, <1>8, <1>9, <1>10, <1>12, <1>13, <1>14 DEF Next
<1>16. QED
  BY <1>0, <1>15 DEF Kept, SInv

LEMMA SeesAtFirst ==
  ASSUME NEW h, Forest(h), Init
  PROVE  SInv
<1>1. /\ Len(frames) = 1 /\ frames[1] = [todo |-> Roots[Main], opt |-> 1, given |-> FALSE]
      /\ Len(opts) = 1 /\ opts[1] = [slots |-> Nil, scope |-> 1]
      /\ Len(scopes) = 1 /\ scopes[1] = [up |-> 0, binder |-> None]
      /\ Len(out) = 0 /\ TypeOK
  BY InitInvariant DEF Init, IInv
<1>2. /\ frames[1].todo = Roots[Main] /\ frames[1].opt = 1 /\ opts[1].slots = Nil
      /\ opts[1].scope = 1 /\ scopes[1].up = 0
  BY <1>1
<1>3. ASSUME NEW j \in 1 .. Len(Roots[Main]) PROVE Sees(scopes, 1, Roots[Main][j])
  <2>1. Visible(Roots[Main][j]) = {}
    BY VisibleAtRoot, ProgramAssumption
  <2>2. Parents(scopes)
    BY <1>1, TypeParts DEF HeapType, Parents
  <2>3. QED
    BY <1>1, <1>2, <2>1, <2>2, SeesNothing
<1>4. FramesSee
  BY <1>1, <1>2, <1>3 DEF FramesSee
<1>5. DeclarersSee /\ CallersAreCalls
  BY <1>1, <1>2 DEF DeclarersSee, CallersAreCalls
<1>6. SeesWhatIsAround
  BY <1>1, OutSees
<1>7. QED
  BY <1>1, <1>4, <1>5, <1>6 DEF SInv

\* Wherever a text is shown, in a round of v-for, in the slot of another component or
\* in the slot of a slot, Scope.Get searches from it exactly the variables that are
\* declared around it in its own component, the nearest first: if the elements are
\* trees, and nothing that declares variables is between a call and its v-slots.
THEOREM TextsSeeWhatIsAround ==
  ASSUME NEW h, Forest(h), NothingAroundSlots
  PROVE  Spec => []SeesWhatIsAround
<1>1. Init => SInv
  BY SeesAtFirst
<1>2. SInv /\ [Next]_vars => SInv'
  <2> SUFFICES ASSUME SInv, [Next]_vars PROVE SInv'
    OBVIOUS
  <2>1. CASE Next
    BY <2>1, SeesNext
  <2>2. CASE UNCHANGED vars
    <3>1. TypeOK' /\ CallersAreCalls'
      BY <2>2, CallersStay DEF vars, SInv, TypeOK
    <3>2. FramesSee' /\ DeclarersSee'
      BY <2>2 DEF vars, SInv, FramesSee, DeclarersSee
    <3>3. SeesWhatIsAround'
      BY <2>2, OutSees, OutSeesNext DEF vars, SInv
    <3>4. QED
      BY <3>1, <3>2, <3>3 DEF SInv
  <2>3. QED
    BY <2>1, <2>2
<1>3. SInv => SeesWhatIsAround
  BY DEF SInv
<1>4. QED
  BY <1>1, <1>2, <1>3, PTL DEF Spec
=============================================================================
