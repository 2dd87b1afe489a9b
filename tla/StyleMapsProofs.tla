--------------------------- MODULE StyleMapsProofs ---------------------------
(***************************************************************************)
(* What StyleMaps guarantees for every page in which each style with       *)
(* several sources starts with an object literal (FreshFirst), for any     *)
(* number of concurrent renders: they change neither the compiled page nor *)
(* the callers' data, share no map that is written, and each shows exactly *)
(* its own styles.                                                         *)
(***************************************************************************)
EXTENDS StyleMaps, SequenceTheorems, TLAPS

\* What render r can have a reference to at node n: the maps it shares, and the
\* maps it has made itself up to n.
Known(r, n) == Static \cup User \cup {Nil} \cup ({r} \X {m \in Nodes : m <= n})

Holds(ref) == IF ref = Nil THEN Empty ELSE heap[ref]

\* A render refers to no map of another, and writes only into the map it has made
\* at its current node.
Local(r) ==
  /\ reg[r] \in Known(r, node[r])
  /\ node[r] \notin Nodes => done[r] = 0
  /\ done[r] = 0 => reg[r] = Nil /\ pc[r] = "next"
  /\ AtSource(r) /\ done[r] # 0 => reg[r] = <<r, node[r]>>
  /\ pc[r] = "copy" => AtSource(r)
  /\ \A n \in Nodes : props[r][n] \in Known(r, n)

\* Between two sources the style holds the merge of the sources so far; inside the
\* loop over the keys, what the source gives is there except for the keys to do.
Copied(r) ==
  LET n == node[r]
  IN [k \in Key |-> IF k \in todo[r] THEN Merged[r][n][done[r]][k]
                    ELSE Merged[r][n][done[r] + 1][k]]

Value(r) ==
  /\ node[r] \in Nodes /\ pc[r] = "next" => Holds(reg[r]) = Merged[r][node[r]][done[r]]
  /\ pc[r] = "copy" => heap[reg[r]] = Copied(r)
  /\ pc[r] = "copy" => /\ IsMap(r, NextSource(r))
                       /\ todo[r] \subseteq KeysOf(Given(r, NextSource(r)))
  /\ \A n \in Nodes : n < node[r] /\ Page[n].path = "call" =>
       Holds(props[r][n]) = Merged[r][n][Len(Sources(n))]
  /\ \A n \in Nodes : emitted[r][n] # Nil => emitted[r][n] = Merged[r][n][Len(Sources(n))]

SharedIntact == \A l \in Static \cup User : heap[l] = Content[l]

IInv ==
  /\ TypeOK
  /\ SharedIntact
  /\ \A r \in Render : Local(r) /\ Value(r)

-----------------------------------------------------------------------------
(* Facts about a page *)

LEMMA PageFacts ==
  /\ Len(Page) \in Nat
  /\ \A n \in Nodes : /\ Len(Sources(n)) \in Nat
                      /\ Page[n].path \in Path
                      /\ \A i \in 1 .. Len(Sources(n)) : Sources(n)[i] \in Source
<1>1. Page \in Seq([path : Path, sources : Seq(Source)])
  BY PageAssumption
<1>2. Len(Page) \in Nat
  BY <1>1
<1>3. ASSUME NEW n \in Nodes PROVE Page[n] \in [path : Path, sources : Seq(Source)]
  BY <1>1, <1>2, ElementOfSeq DEF Nodes
<1>4. ASSUME NEW n \in Nodes
      PROVE  /\ Sources(n) \in Seq(Source)
             /\ Page[n].path \in Path
  BY <1>3 DEF Sources
<1>5. ASSUME NEW n \in Nodes
      PROVE  /\ Len(Sources(n)) \in Nat
             /\ \A i \in 1 .. Len(Sources(n)) : Sources(n)[i] \in Source
  BY <1>4
<1>6. QED
  BY <1>2, <1>4, <1>5

\* A reference of one render is not a map of another, nor one made later.
LEMMA KnownFacts ==
  ASSUME NEW r \in Render, NEW n \in Nat, NEW l \in Known(r, n)
  PROVE  /\ l \in Loc \cup {Nil}
         /\ l # Str
         /\ \A o \in Render, m \in Nodes : l = <<o, m>> => o = r /\ m <= n
<1>1. l \in Static \cup User => l \in Loc /\ \A o \in Render, m \in Nodes : l # <<o, m>>
  BY MapAssumption DEF Loc
<1>2. l \in {r} \X {m \in Nodes : m <= n} =>
        l \in Loc /\ \A o \in Render, m \in Nodes : l = <<o, m>> => o = r /\ m <= n
  BY DEF Loc
<1>3. l = Nil => \A o \in Render, m \in Nodes : l # <<o, m>>
  BY MapAssumption DEF Loc
<1>4. QED
  BY <1>1, <1>2, <1>3, MapAssumption DEF Known

LEMMA KnownGrows ==
  ASSUME NEW r \in Render, NEW n \in Nat, NEW m \in Nat, m <= n
  PROVE  Known(r, m) \subseteq Known(r, n)
<1>1. \A k \in Nodes : k <= m => k <= n
  BY PageFacts DEF Nodes
<1>2. QED
  BY <1>1 DEF Known

\* What the next source of a render yields is what the page declares.
LEMMA SourceGives ==
  ASSUME IInv, FreshFirst, NEW r \in Render, AtSource(r)
  PROVE  /\ Holder(r, NextSource(r)) \in Known(r, node[r])
         /\ NextSource(r).kind = "literal" => Holder(r, NextSource(r)) = <<r, node[r]>>
         /\ IsMap(r, NextSource(r)) =>
              /\ SourceStyle(r, NextSource(r)) = Given(r, NextSource(r))
              /\ SourceStyle(r, NextSource(r)) \in Style
         /\ ~ IsMap(r, NextSource(r)) =>
              Holder(r, NextSource(r)) = Nil /\ Given(r, NextSource(r)) = Empty
<1> DEFINE n == node[r]
           s == NextSource(r)
           i == done[r] + 1
<1>1. n \in Nodes /\ n \in Nat /\ i \in 1 .. Len(Sources(n)) /\ s = Sources(n)[i]
  BY PageFacts DEF AtSource, NextSource, IInv, TypeOK, Nodes
<1>2. s \in Source /\ s.kind # "string"
  BY <1>1, PageFacts DEF FreshFirst
<1>3. CASE s.kind = "static"
  <2>1. s.map \in Static
    BY <1>2, <1>3 DEF Source
  <2>2. Holder(r, s) = s.map /\ Given(r, s) = Content[s.map] /\ SourceStyle(r, s) = heap[s.map]
    BY <1>3 DEF Holder, Given, SourceStyle
  <2>3. heap[s.map] = Content[s.map] /\ heap[s.map] \in Style /\ s.map \in Loc
    BY <2>1 DEF IInv, SharedIntact, TypeOK, Loc
  <2>4. QED
    BY <1>3, <2>1, <2>2, <2>3 DEF IsMap, Known
<1>4. CASE s.kind = "var"
  <2>1. VarMap[r][s.name] \in User
    BY <1>2, <1>4, MapAssumption DEF Source
  <2>2. /\ Holder(r, s) = VarMap[r][s.name]
        /\ Given(r, s) = Content[VarMap[r][s.name]]
        /\ SourceStyle(r, s) = heap[VarMap[r][s.name]]
    BY <1>4 DEF Holder, Given, SourceStyle
  <2>3. /\ heap[VarMap[r][s.name]] = Content[VarMap[r][s.name]]
        /\ heap[VarMap[r][s.name]] \in Style /\ VarMap[r][s.name] \in Loc
    BY <2>1 DEF IInv, SharedIntact, TypeOK, Loc
  <2>4. QED
    BY <1>4, <2>1, <2>2, <2>3 DEF IsMap, Known
<1>5. CASE s.kind = "literal"
  <2>1. Literal[r][s.expr] \in Style
    BY <1>2, <1>5, MapAssumption DEF Source
  <2>2. /\ Holder(r, s) = <<r, n>>
        /\ Given(r, s) = Literal[r][s.expr]
        /\ SourceStyle(r, s) = Literal[r][s.expr]
    BY <1>5 DEF Holder, Given, SourceStyle
  <2>3. <<r, n>> \in Loc /\ <<r, n>> \in Known(r, n)
    BY <1>1 DEF Loc, Known
  <2>4. QED
    BY <1>5, <2>1, <2>2, <2>3 DEF IsMap
<1>6. CASE s.kind = "props"
  <2>1. s.of \in Nodes /\ s.of \in Nat /\ s.of < n /\ Page[s.of].path = "call"
    BY <1>1, <1>2, <1>6, PageAssumption, PageFacts DEF Source, Nodes
  <2>2. /\ Holder(r, s) = props[r][s.of]
        /\ Given(r, s) = Merged[r][s.of][Len(Sources(s.of))]
        /\ SourceStyle(r, s) = heap[props[r][s.of]]
    BY <1>6 DEF Holder, Given, SourceStyle
  <2>3. Holds(props[r][s.of]) = Given(r, s)
    BY <2>1, <2>2 DEF IInv, Value
  <2>4. props[r][s.of] \in Known(r, n)
    BY <1>1, <2>1, KnownGrows DEF IInv, Local
  <2>5. props[r][s.of] \in Loc \cup {Nil} /\ Nil \notin Loc
    BY <1>1, <2>4, KnownFacts, MapAssumption
  <2>6. props[r][s.of] \in Loc => heap[props[r][s.of]] \in Style
    BY DEF IInv, TypeOK
  <2>7. QED
    BY <1>6, <2>2, <2>3, <2>4, <2>5, <2>6 DEF IsMap, Holds
<1>7. QED
  BY <1>2, <1>3, <1>4, <1>5, <1>6 DEF Source

LEMMA OverEmpty ==
  ASSUME NEW a \in Style
  PROVE  Over(a, Empty) = a /\ Over(Empty, a) = a
BY DEF Over, Empty, Style

LEMMA NextMerged ==
  ASSUME IInv, NEW r \in Render, AtSource(r)
  PROVE  /\ node[r] \in Nodes /\ done[r] \in Nat /\ done[r] + 1 <= Len(Sources(node[r]))
         /\ Merged[r][node[r]][done[r] + 1] =
              Over(Merged[r][node[r]][done[r]], Given(r, NextSource(r)))
<1>1. /\ node[r] \in Nodes /\ done[r] \in Nat /\ Len(Sources(node[r])) \in Nat
      /\ done[r] < Len(Sources(node[r]))
  BY PageFacts DEF AtSource, IInv, TypeOK
<1>2. done[r] + 1 \in 1 .. Len(Sources(node[r])) /\ (done[r] + 1) - 1 = done[r]
  BY <1>1
<1>3. QED
  BY <1>1, <1>2, MergedAssumption DEF NextSource

LEMMA StartMerged ==
  ASSUME NEW r \in Render, NEW n \in Nodes
  PROVE  Merged[r][n][0] = Empty
BY MergedAssumption

-----------------------------------------------------------------------------
(* What a step of a render leaves alone *)

\* The step changes no map but the one that r makes at its current node.
OwnMapOnly(r) ==
  /\ heap' \in [Loc -> Style]
  /\ \A l \in Loc : l # <<r, node[r]>> => heap'[l] = heap[l]

LEMMA SharedKept ==
  ASSUME IInv, NEW r \in Render, node[r] \in Nodes, OwnMapOnly(r)
  PROVE  SharedIntact'
<1>1. \A l \in Static \cup User : l \in Loc /\ l # <<r, node[r]>>
  BY MapAssumption DEF Loc
<1>2. QED
  BY <1>1 DEF IInv, SharedIntact, OwnMapOnly

\* Other renders refer to none of the maps of r.
LEMMA OthersKept ==
  ASSUME IInv, NEW r \in Render, node[r] \in Nodes, OwnMapOnly(r),
         NEW o \in Render, o # r,
         node'[o] = node[o], done'[o] = done[o], pc'[o] = pc[o], todo'[o] = todo[o],
         reg'[o] = reg[o], props'[o] = props[o], emitted'[o] = emitted[o]
  PROVE  Local(o)' /\ Value(o)'
<1>1. node[o] \in Nat
  BY PageFacts DEF IInv, TypeOK
<1>2. ASSUME NEW n \in Nat, NEW l \in Known(o, n)
      PROVE  (l = Nil \/ heap'[l] = heap[l]) /\ Holds(l)' = Holds(l)
  BY <1>2, KnownFacts DEF OwnMapOnly, Holds
<1>3. Local(o)'
  BY DEF IInv, Local, AtSource
<1>4. reg[o] \in Known(o, node[o]) /\ \A n \in Nodes : n \in Nat /\ props[o][n] \in Known(o, n)
  BY PageFacts DEF IInv, Local, Nodes
<1>5. /\ Holds(reg[o])' = Holds(reg[o])
      /\ \A n \in Nodes : Holds(props[o][n])' = Holds(props[o][n])
  BY <1>1, <1>2, <1>4
<1>6. pc[o] = "copy" => reg[o] # Nil /\ heap'[reg[o]] = heap[reg[o]]
  <2>1. SUFFICES ASSUME pc[o] = "copy" PROVE reg[o] # Nil
    BY <1>1, <1>2, <1>4
  <2>2. reg[o] = <<o, node[o]>> /\ node[o] \in Nodes
    BY <2>1 DEF IInv, Local, AtSource
  <2>3. QED
    BY <2>2, MapAssumption DEF Loc
<1>7. NextSource(o)' = NextSource(o) /\ IsMap(o, NextSource(o))' = IsMap(o, NextSource(o))
  BY DEF NextSource, IsMap, Holder
<1>8. Given(o, NextSource(o))' = Given(o, NextSource(o))
  BY <1>7 DEF Given
<1>9. Copied(o)' = Copied(o)
  BY DEF Copied
<1>10. Value(o)'
  BY <1>5, <1>6, <1>7, <1>8, <1>9 DEF IInv, Value, Holds
<1>11. QED
  BY <1>3, <1>10

\* Neither does the props of a node that r has finished.
LEMMA FinishedKept ==
  ASSUME IInv, NEW r \in Render, node[r] \in Nodes, OwnMapOnly(r)
  PROVE  \A n \in Nodes : n < node[r] => 
           (IF props[r][n] = Nil THEN Empty ELSE heap'[props[r][n]]) = Holds(props[r][n])
<1>1. ASSUME NEW n \in Nodes, n < node[r]
      PROVE  props[r][n] = Nil \/ heap'[props[r][n]] = heap[props[r][n]]
  <2>1. n \in Nat /\ node[r] \in Nat /\ props[r][n] \in Known(r, n)
    BY PageFacts DEF IInv, Local, Nodes
  <2>2. QED
    BY <1>1, <2>1, KnownFacts DEF OwnMapOnly
<1>2. QED
  BY <1>1 DEF Holds

OthersSame(r) ==
  \A o \in Render : o # r =>
    /\ node'[o] = node[o] /\ done'[o] = done[o] /\ pc'[o] = pc[o] /\ todo'[o] = todo[o]
    /\ reg'[o] = reg[o] /\ props'[o] = props[o] /\ emitted'[o] = emitted[o]

LEMMA Assemble ==
  ASSUME IInv, NEW r \in Render, node[r] \in Nodes, OwnMapOnly(r), OthersSame(r),
         TypeOK', Local(r)', Value(r)'
  PROVE  IInv'
<1>1. ASSUME NEW o \in Render, o # r PROVE Local(o)' /\ Value(o)'
  BY <1>1, OthersKept DEF OthersSame
<1>2. QED
  BY <1>1, SharedKept DEF IInv

-----------------------------------------------------------------------------
(* The actions *)

LEMMA TakeFirstKeeps ==
  ASSUME IInv, FreshFirst, NEW r \in Render, TakeFirst(r)
  PROVE  IInv'
<1> DEFINE n == node[r]
           s == NextSource(r)
           h == Holder(r, s)
<1>1. AtSource(r) /\ reg[r] = Nil /\ pc[r] = "next" /\ n \in Nodes /\ n \in Nat
  BY PageFacts DEF TakeFirst, AtSource, Nodes
<1>2. done[r] = 0
  <2>1. <<r, n>> # Nil
    BY <1>1, MapAssumption DEF Loc
  <2>2. QED
    BY <1>1, <2>1 DEF IInv, Local
<1>3. /\ h \in Known(r, n)
      /\ s.kind = "literal" => h = <<r, n>>
      /\ IsMap(r, s) => SourceStyle(r, s) = Given(r, s) /\ SourceStyle(r, s) \in Style
      /\ ~ IsMap(r, s) => h = Nil /\ Given(r, s) = Empty
  BY <1>1, SourceGives
<1>4. h \in Loc \cup {Nil} /\ h # Str
  BY <1>1, <1>3, KnownFacts
<1>5. reg' = [reg EXCEPT ![r] = h]
  BY <1>4 DEF TakeFirst
<1>6. heap' = IF s.kind = "literal" THEN [heap EXCEPT ![h] = Literal[r][s.expr]] ELSE heap
  BY DEF TakeFirst
<1>7. UNCHANGED <<node, pc, todo, props, emitted, crashed>> /\ done' = [done EXCEPT ![r] = @ + 1]
  BY DEF TakeFirst
<1>8. s.kind = "literal" => IsMap(r, s) /\ SourceStyle(r, s) = Literal[r][s.expr]
  BY <1>1, <1>3 DEF IsMap, Loc, SourceStyle
<1>9. OwnMapOnly(r)
  BY <1>1, <1>3, <1>6, <1>8 DEF OwnMapOnly, IInv, TypeOK, Loc
<1>10. OthersSame(r)
  BY <1>5, <1>7 DEF OthersSame, IInv, TypeOK
<1>11. done'[r] = 1 /\ reg'[r] = h /\ Len(Sources(n)) \in Nat /\ 1 <= Len(Sources(n))
  BY <1>1, <1>2, <1>5, <1>7, PageFacts DEF IInv, TypeOK, AtSource
<1>12. TypeOK'
  <2>1. done' \in [Render -> Nat]
    BY <1>7 DEF IInv, TypeOK
  <2>2. \A o \in Render : node[o] \in Nodes => done'[o] <= Len(Sources(node[o]))
    BY <1>7, <1>11 DEF IInv, TypeOK
  <2>3. reg' \in [Render -> Ref]
    BY <1>4, <1>5 DEF IInv, TypeOK, Ref
  <2>4. QED
    BY <1>7, <1>9, <2>1, <2>2, <2>3 DEF IInv, TypeOK, OwnMapOnly
<1>13. Local(r)'
  <2>1. AtSource(r)' => s.kind = "literal"
    BY <1>1, <1>2, <1>7, <1>11 DEF AtSource, FreshFirst, NextSource
  <2>2. QED
    BY <1>1, <1>3, <1>7, <1>11, <2>1 DEF IInv, Local
<1>14. Value(r)'
  <2>1. Merged[r][n][1] = Given(r, s)
    <3>1. Merged[r][n][1] = Over(Empty, Given(r, s))
      BY <1>1, <1>2, NextMerged, StartMerged
    <3>2. Given(r, s) \in Style
      BY <1>3 DEF Empty, Style
    <3>3. QED
      BY <3>1, <3>2, OverEmpty
  <2>2. IF h = Nil THEN Given(r, s) = Empty ELSE heap'[h] = Given(r, s)
    <3>1. CASE s.kind = "literal"
      BY <1>1, <1>3, <1>4, <1>6, <1>8, <3>1, MapAssumption DEF IInv, TypeOK, Loc
    <3>2. CASE s.kind # "literal" /\ IsMap(r, s)
      BY <1>3, <1>6, <3>2, MapAssumption DEF SourceStyle, IsMap
    <3>3. CASE ~ IsMap(r, s)
      BY <1>3, <3>3
    <3>4. QED
      BY <3>1, <3>2, <3>3
  <2>3. Holds(reg[r])' = Merged[r][n][1]
    BY <1>11, <2>1, <2>2 DEF Holds
  <2>4. \A m \in Nodes : m < n => Holds(props[r][m])' = Holds(props[r][m])
    BY <1>1, <1>7, <1>9, FinishedKept DEF Holds
  <2>5. QED
    BY <1>1, <1>7, <1>11, <2>3, <2>4 DEF IInv, Value
<1>15. QED
  BY <1>1, <1>9, <1>10, <1>12, <1>13, <1>14, Assemble

LEMMA IgnoreKeeps ==
  ASSUME IInv, FreshFirst, NEW r \in Render, Ignore(r)
  PROVE  IInv'
<1> DEFINE n == node[r]
<1>1. /\ AtSource(r) /\ pc[r] = "next" /\ reg[r] # Nil /\ ~ IsMap(r, NextSource(r))
      /\ n \in Nodes
  BY DEF Ignore, AtSource
<1>2. Given(r, NextSource(r)) = Empty /\ Holder(r, NextSource(r)) = Nil
  BY <1>1, SourceGives
<1>3. UNCHANGED <<heap, node, pc, todo, props, emitted, crashed>>
  BY DEF Ignore
<1>4. done' = [done EXCEPT ![r] = @ + 1] /\ reg' = reg
  BY <1>2, MapAssumption DEF Ignore, IInv, TypeOK
<1>5. /\ done[r] \in Nat /\ done[r] + 1 <= Len(Sources(n))
      /\ Merged[r][n][done[r] + 1] = Over(Merged[r][n][done[r]], Empty)
  BY <1>1, <1>2, NextMerged
<1>6. OwnMapOnly(r) /\ OthersSame(r)
  BY <1>3, <1>4 DEF OwnMapOnly, OthersSame, IInv, TypeOK
<1>7. TypeOK'
  BY <1>3, <1>4, <1>5 DEF IInv, TypeOK
<1>8. done[r] # 0 /\ reg[r] = <<r, n>>
  BY <1>1 DEF IInv, Local
<1>9. done'[r] = done[r] + 1
  BY <1>4 DEF IInv, TypeOK
<1>10. Local(r)'
  BY <1>1, <1>3, <1>4, <1>5, <1>8, <1>9 DEF IInv, Local, AtSource
<1>11. Holds(reg[r]) = Merged[r][n][done[r] + 1]
  <2>1. Holds(reg[r]) = Merged[r][n][done[r]]
    BY <1>1 DEF IInv, Value
  <2>2. Holds(reg[r]) \in Style
    BY <1>1, <1>8 DEF Holds, IInv, TypeOK, Loc
  <2>3. QED
    BY <1>5, <2>1, <2>2, OverEmpty
<1>12. Value(r)'
  BY <1>1, <1>3, <1>4, <1>9, <1>11 DEF IInv, Value, Holds
<1>13. QED
  BY <1>1, <1>6, <1>7, <1>10, <1>12, Assemble

LEMMA BeginMergeKeeps ==
  ASSUME IInv, FreshFirst, NEW r \in Render, BeginMerge(r)
  PROVE  IInv'
<1> DEFINE n == node[r]
           g == Given(r, NextSource(r))
<1>1. /\ AtSource(r) /\ pc[r] = "next" /\ reg[r] # Nil /\ IsMap(r, NextSource(r))
      /\ n \in Nodes
  BY DEF BeginMerge, Merging, AtSource
<1>2. SourceStyle(r, NextSource(r)) = g /\ g \in Style
  BY <1>1, SourceGives
<1>3. done[r] # 0 /\ reg[r] = <<r, n>>
  BY <1>1 DEF IInv, Local
<1>4. reg[r] \in Loc /\ reg[r] # Str
  BY <1>1, <1>3, MapAssumption DEF Loc
<1>5. /\ UNCHANGED <<heap, node, done, props, emitted>>
      /\ crashed' \in BOOLEAN
  BY DEF BeginMerge, UseMaps
<1>6. reg' = reg /\ pc' = [pc EXCEPT ![r] = "copy"] /\ todo' = [todo EXCEPT ![r] = KeysOf(g)]
  BY <1>2, <1>4 DEF BeginMerge, IInv, TypeOK
<1>7. OwnMapOnly(r) /\ OthersSame(r)
  BY <1>5, <1>6 DEF OwnMapOnly, OthersSame, IInv, TypeOK
<1>8. TypeOK'
  BY <1>5, <1>6 DEF IInv, TypeOK, KeysOf
<1>9. Local(r)'
  BY <1>1, <1>3, <1>5, <1>6 DEF IInv, Local, AtSource
<1>10. pc'[r] = "copy" /\ todo'[r] = KeysOf(g)
  BY <1>6 DEF IInv, TypeOK
<1>11. heap[reg[r]] = Merged[r][n][done[r]] /\ heap[reg[r]] \in Style
  BY <1>1, <1>4 DEF IInv, Value, Holds, TypeOK
<1>12. Merged[r][n][done[r] + 1] = Over(Merged[r][n][done[r]], g)
  BY <1>1, NextMerged
<1>13. heap[reg[r]] = [k \in Key |-> IF k \in KeysOf(g) THEN Merged[r][n][done[r]][k]
                                     ELSE Merged[r][n][done[r] + 1][k]]
  BY <1>11, <1>12 DEF Over, KeysOf, Style
<1>14. (heap[reg[r]] = Copied(r))'
  BY <1>5, <1>6, <1>10, <1>13 DEF Copied
<1>15. NextSource(r)' = NextSource(r)
  BY <1>5 DEF NextSource
<1>16. (IsMap(r, NextSource(r)) /\ todo[r] \subseteq KeysOf(Given(r, NextSource(r))))'
  BY <1>1, <1>5, <1>10, <1>15 DEF IsMap, Holder, Given, KeysOf
<1>17. Value(r)'
  BY <1>5, <1>6, <1>10, <1>14, <1>16 DEF IInv, Value, Holds
<1>18. QED
  BY <1>1, <1>7, <1>8, <1>9, <1>17, Assemble

LEMMA CopyKeyKeeps ==
  ASSUME IInv, FreshFirst, NEW r \in Render, CopyKey(r)
  PROVE  IInv'
<1> DEFINE n == node[r]
           g == Given(r, NextSource(r))
<1>1. pc[r] = "copy" /\ AtSource(r) /\ n \in Nodes /\ n \in Nat
  BY PageFacts DEF CopyKey, IInv, Local, AtSource, Nodes
<1>2. reg[r] = <<r, n>> /\ reg[r] \in Loc
  <2>1. reg[r] = <<r, n>>
    BY <1>1 DEF IInv, Local
  <2>2. QED
    BY <1>1, <2>1 DEF Loc
<1>3. /\ IsMap(r, NextSource(r)) /\ todo[r] \subseteq KeysOf(g)
      /\ heap[reg[r]] = Copied(r)
  BY <1>1 DEF IInv, Value
<1>4. SourceStyle(r, NextSource(r)) = g /\ g \in Style
  BY <1>1, <1>3, SourceGives
<1>5. PICK k \in todo[r] :
        /\ heap' = [heap EXCEPT ![reg[r]] = [@ EXCEPT ![k] = g[k]]]
        /\ todo' = [todo EXCEPT ![r] = @ \ {k}]
  BY <1>4 DEF CopyKey
<1>6. k \in Key /\ g[k] # Unset /\ g[k] \in Val \cup {Unset}
  BY <1>3, <1>4 DEF KeysOf, Style
<1>7. UNCHANGED <<node, done, pc, reg, props, emitted>> /\ crashed' \in BOOLEAN
  BY DEF CopyKey, UseMaps
<1>8. heap \in [Loc -> Style] /\ heap[reg[r]] \in Style
  BY <1>2 DEF IInv, TypeOK
<1>9. heap'[reg[r]] = [heap[reg[r]] EXCEPT ![k] = g[k]] /\ heap'[reg[r]] \in Style
  BY <1>2, <1>5, <1>6, <1>8 DEF Style
<1>10. OwnMapOnly(r)
  BY <1>2, <1>5, <1>8, <1>9 DEF OwnMapOnly
<1>11. OthersSame(r) /\ todo'[r] = todo[r] \ {k}
  BY <1>5, <1>7 DEF OthersSame, IInv, TypeOK
<1>12. TypeOK'
  BY <1>5, <1>7, <1>10 DEF IInv, TypeOK, OwnMapOnly
<1>13. Local(r)'
  BY <1>1, <1>7 DEF IInv, Local, AtSource
<1>14. Merged[r][n][done[r] + 1] = Over(Merged[r][n][done[r]], g)
  BY <1>1, NextMerged
<1>15. Merged[r][n][done[r] + 1][k] = g[k]
  BY <1>6, <1>14 DEF Over
<1>16. heap'[reg[r]] = [j \in Key |-> IF j \in todo[r] \ {k} THEN Merged[r][n][done[r]][j]
                                      ELSE Merged[r][n][done[r] + 1][j]]
  BY <1>3, <1>6, <1>9, <1>15 DEF Copied
<1>17. (heap[reg[r]] = Copied(r))'
  BY <1>7, <1>11, <1>16 DEF Copied
<1>18. NextSource(r)' = NextSource(r)
  BY <1>7 DEF NextSource
<1>19. (IsMap(r, NextSource(r)) /\ todo[r] \subseteq KeysOf(Given(r, NextSource(r))))'
  BY <1>3, <1>7, <1>11, <1>18 DEF IsMap, Holder, Given, KeysOf
<1>20. \A m \in Nodes : m < n => Holds(props[r][m])' = Holds(props[r][m])
  BY <1>1, <1>7, <1>10, FinishedKept DEF Holds
<1>21. Value(r)'
  BY <1>1, <1>7, <1>17, <1>19, <1>20 DEF IInv, Value
<1>22. QED
  BY <1>1, <1>10, <1>11, <1>12, <1>13, <1>21, Assemble

LEMMA EndMergeKeeps ==
  ASSUME IInv, FreshFirst, NEW r \in Render, EndMerge(r)
  PROVE  IInv'
<1> DEFINE n == node[r]
<1>1. pc[r] = "copy" /\ todo[r] = {} /\ AtSource(r) /\ n \in Nodes
  BY DEF EndMerge, IInv, Local, AtSource
<1>2. reg[r] = <<r, n>> /\ reg[r] \in Loc /\ reg[r] # Nil /\ done[r] # 0
  <2>1. reg[r] = <<r, n>> /\ done[r] # 0
    BY <1>1 DEF IInv, Local
  <2>2. QED
    BY <1>1, <2>1, MapAssumption DEF Loc
<1>3. /\ UNCHANGED <<heap, node, todo, reg, props, emitted, crashed>>
      /\ pc' = [pc EXCEPT ![r] = "next"] /\ done' = [done EXCEPT ![r] = @ + 1]
  BY DEF EndMerge
<1>4. /\ done[r] \in Nat /\ done[r] + 1 <= Len(Sources(n))
      /\ Merged[r][n][done[r] + 1] = Over(Merged[r][n][done[r]], Given(r, NextSource(r)))
  BY <1>1, NextMerged
<1>5. done'[r] = done[r] + 1 /\ pc'[r] = "next"
  BY <1>3 DEF IInv, TypeOK
<1>6. OwnMapOnly(r) /\ OthersSame(r)
  BY <1>3 DEF OwnMapOnly, OthersSame, IInv, TypeOK
<1>7. TypeOK'
  BY <1>3, <1>4 DEF IInv, TypeOK
<1>8. Local(r)'
  BY <1>1, <1>2, <1>3, <1>4, <1>5 DEF IInv, Local, AtSource
<1>9. heap[reg[r]] = Merged[r][n][done[r] + 1]
  <2>1. heap[reg[r]] = [k \in Key |-> Merged[r][n][done[r] + 1][k]]
    BY <1>1 DEF IInv, Value, Copied
  <2>2. QED
    BY <1>4, <2>1 DEF Over
<1>10. Value(r)'
  BY <1>2, <1>3, <1>5, <1>9 DEF IInv, Value, Holds
<1>11. QED
  BY <1>1, <1>6, <1>7, <1>8, <1>10, Assemble

LEMMA FinishKeeps ==
  ASSUME IInv, FreshFirst, NEW r \in Render, Finish(r)
  PROVE  IInv'
<1> DEFINE n == node[r]
           e == IF reg[r] \in Loc THEN heap[reg[r]] ELSE Empty
<1>1. AtEnd(r) /\ pc[r] = "next" /\ n \in Nodes /\ n \in Nat /\ done[r] = Len(Sources(n))
  BY PageFacts DEF Finish, AtEnd, Nodes
<1>2. /\ node' = [node EXCEPT ![r] = @ + 1] /\ done' = [done EXCEPT ![r] = 0]
      /\ reg' = [reg EXCEPT ![r] = Nil]
      /\ UNCHANGED <<heap, pc, todo>> /\ crashed' \in BOOLEAN
  BY DEF Finish, UseMaps
<1>3. \/ /\ Page[n].path = "call"
         /\ props' = [props EXCEPT ![r][n] = reg[r]] /\ UNCHANGED emitted
      \/ /\ Page[n].path # "call"
         /\ emitted' = [emitted EXCEPT ![r][n] = e] /\ UNCHANGED props
  BY DEF Finish
<1>4. n + 1 \in 1 .. Len(Page) + 1
  BY <1>1, PageFacts DEF Nodes
<1>5. reg[r] \in Known(r, n) /\ reg[r] \in Loc \cup {Nil}
  BY <1>1, KnownFacts DEF IInv, Local
<1>6. Holds(reg[r]) = Merged[r][n][Len(Sources(n))] /\ e = Holds(reg[r]) /\ e \in Style
  <2>1. e = Holds(reg[r])
    BY <1>5, MapAssumption DEF Holds
  <2>2. e \in Style
    BY DEF IInv, TypeOK, Empty, Style
  <2>3. QED
    BY <1>1, <2>1, <2>2 DEF IInv, Value
<1>7. OwnMapOnly(r) /\ OthersSame(r)
  BY <1>2, <1>3 DEF OwnMapOnly, OthersSame, IInv, TypeOK
<1>8. /\ node'[r] = n + 1 /\ done'[r] = 0 /\ reg'[r] = Nil /\ pc'[r] = "next"
      /\ \A m \in Nodes : props'[r][m] = IF m = n /\ Page[n].path = "call" THEN reg[r]
                                         ELSE props[r][m]
      /\ \A m \in Nodes : emitted'[r][m] = IF m = n /\ Page[n].path # "call" THEN e
                                           ELSE emitted[r][m]
  BY <1>1, <1>2, <1>3 DEF IInv, TypeOK
<1>9. TypeOK'
  <2>1. node' \in [Render -> 1 .. Len(Page) + 1] /\ done' \in [Render -> Nat]
    BY <1>2, <1>4 DEF IInv, TypeOK
  <2>2. \A o \in Render : node'[o] \in Nodes => done'[o] <= Len(Sources(node'[o]))
    BY <1>2, <1>8, PageFacts DEF IInv, TypeOK
  <2>3. reg' \in [Render -> Ref]
    BY <1>2 DEF IInv, TypeOK, Ref
  <2>4. props' \in [Render -> [Nodes -> Ref]]
    <3>1. props \in [Render -> [Nodes -> Ref]] /\ reg[r] \in Ref
      BY DEF IInv, TypeOK
    <3>2. [props[r] EXCEPT ![n] = reg[r]] \in [Nodes -> Ref]
      BY <3>1
    <3>3. props' = props \/ props' = [props EXCEPT ![r] = [props[r] EXCEPT ![n] = reg[r]]]
      BY <1>3
    <3>4. QED
      BY <3>1, <3>2, <3>3
  <2>5. emitted' \in [Render -> [Nodes -> Style \cup {Nil}]]
    <3>1. emitted \in [Render -> [Nodes -> Style \cup {Nil}]] /\ e \in Style \cup {Nil}
      BY <1>6 DEF IInv, TypeOK
    <3> HIDE DEF e
    <3>2. [emitted[r] EXCEPT ![n] = e] \in [Nodes -> Style \cup {Nil}]
      BY <3>1
    <3>3. emitted' = emitted \/ emitted' = [emitted EXCEPT ![r] = [emitted[r] EXCEPT ![n] = e]]
      BY <1>3
    <3>4. QED
      BY <3>1, <3>2, <3>3
  <2>6. QED
    BY <1>2, <2>1, <2>2, <2>3, <2>4, <2>5 DEF IInv, TypeOK
<1>10. Local(r)'
  BY <1>5, <1>8 DEF IInv, Local, Known
<1>11. Value(r)'
  <2>1. node'[r] \in Nodes => Holds(reg[r])' = Merged[r][node'[r]][done'[r]]
    BY <1>8, StartMerged DEF Holds
  <2>2. ASSUME NEW m \in Nodes, m < node'[r], Page[m].path = "call"
        PROVE  Holds(props[r][m])' = Merged[r][m][Len(Sources(m))]
    <3>1. m \in Nat
      BY DEF Nodes
    <3>2. CASE m = n
      BY <1>2, <1>6, <1>8, <2>2, <3>2 DEF Holds
    <3>3. CASE m < n
      <4>1. props'[r][m] = props[r][m]
        BY <1>1, <1>8, <3>1, <3>3
      <4>2. Holds(props[r][m]) = Merged[r][m][Len(Sources(m))]
        BY <2>2, <3>3 DEF IInv, Value
      <4>3. QED
        BY <1>2, <4>1, <4>2 DEF Holds
    <3>4. QED
      BY <1>1, <1>8, <2>2, <3>1, <3>2, <3>3
  <2>3. ASSUME NEW m \in Nodes, emitted'[r][m] # Nil
        PROVE  emitted'[r][m] = Merged[r][m][Len(Sources(m))]
    BY <1>6, <1>8, <2>3 DEF IInv, Value
  <2>4. QED
    BY <1>8, <2>1, <2>2, <2>3 DEF Value
<1>12. QED
  BY <1>1, <1>7, <1>9, <1>10, <1>11, Assemble

-----------------------------------------------------------------------------
(* The theorems *)

LEMMA IInvInit == Init => IInv
<1> SUFFICES ASSUME Init PROVE IInv
  OBVIOUS
<1>1. TypeOK
  <2>1. heap \in [Loc -> Style]
    BY MapAssumption DEF Init, Loc, Style, Empty
  <2>2. 1 \in 1 .. Len(Page) + 1
    BY PageFacts
  <2>3. \A r \in Render : node[r] \in Nodes => done[r] <= Len(Sources(node[r]))
    BY PageFacts DEF Init
  <2>4. node \in [Render -> 1 .. Len(Page) + 1] /\ done \in [Render -> Nat]
    BY <2>2 DEF Init
  <2>5. /\ pc \in [Render -> {"next", "copy"}] /\ todo \in [Render -> SUBSET Key]
        /\ reg \in [Render -> Ref]
    BY DEF Init, Ref
  <2>6. props \in [Render -> [Nodes -> Ref]] /\ emitted \in [Render -> [Nodes -> Style \cup {Nil}]]
    BY DEF Init, Ref
  <2>7. QED
    BY <2>1, <2>3, <2>4, <2>5, <2>6 DEF Init, TypeOK
<1>2. SharedIntact
  BY DEF Init, SharedIntact, Loc
<1>3. ASSUME NEW r \in Render PROVE Local(r) /\ Value(r)
  <2>1. Local(r)
    BY DEF Init, Local, Known
  <2>2. Value(r)
    <3>1. 1 \in Nodes => Holds(reg[r]) = Merged[r][1][0]
      BY StartMerged DEF Init, Holds
    <3>2. \A n \in Nodes : ~ n < 1
      BY DEF Nodes
    <3>3. QED
      BY <3>1, <3>2 DEF Init, Value
  <2>3. QED
    BY <2>1, <2>2
<1>4. QED
  BY <1>1, <1>2, <1>3 DEF IInv

LEMMA IInvStep == FreshFirst /\ IInv /\ [Next]_vars => IInv'
<1> SUFFICES ASSUME FreshFirst, IInv, [Next]_vars PROVE IInv'
  OBVIOUS
<1>1. ASSUME NEW r \in Render,
             \/ TakeFirst(r) \/ Ignore(r) \/ BeginMerge(r)
             \/ CopyKey(r) \/ EndMerge(r) \/ Finish(r)
      PROVE  IInv'
  BY <1>1, TakeFirstKeeps, IgnoreKeeps, BeginMergeKeeps, CopyKeyKeeps, EndMergeKeeps,
     FinishKeeps
<1>2. CASE UNCHANGED vars
  <2>1. TypeOK'
    BY <1>2 DEF IInv, TypeOK, vars
  <2>2. SharedIntact'
    BY <1>2 DEF IInv, SharedIntact, vars
  <2>3. ASSUME NEW r \in Render PROVE Local(r)' /\ Value(r)'
    <3>1. Local(r)'
      BY <1>2 DEF IInv, Local, AtSource, vars
    <3>2. NextSource(r)' = NextSource(r) /\ Copied(r)' = Copied(r)
      BY <1>2 DEF NextSource, Copied, vars
    <3>3. IsMap(r, NextSource(r))' = IsMap(r, NextSource(r))
      BY <1>2, <3>2 DEF IsMap, Holder, vars
    <3>4. KeysOf(Given(r, NextSource(r)))' = KeysOf(Given(r, NextSource(r)))
      BY <3>2 DEF KeysOf, Given
    <3>5. Value(r)'
      BY <1>2, <3>2, <3>3, <3>4 DEF IInv, Value, Holds, vars
    <3>6. QED
      BY <3>1, <3>5
  <2>4. QED
    BY <2>1, <2>2, <2>3 DEF IInv
<1>3. QED
  BY <1>1, <1>2 DEF Next, Ended

THEOREM Invariance == ASSUME FreshFirst PROVE Spec => []IInv
<1>1. IInv /\ [Next]_vars => IInv'
  BY IInvStep
<1>2. QED
  BY IInvInit, <1>1, PTL DEF Spec

\* The references that renders hold are to maps that there are.
THEOREM TypeCorrect == ASSUME FreshFirst PROVE Spec => []TypeOK
<1>1. IInv => TypeOK
  BY DEF IInv
<1>2. QED
  BY <1>1, Invariance, PTL

\* Renders leave the maps of static styles as the compiler made them.
THEOREM CompiledPageIntact == ASSUME FreshFirst PROVE Spec => []CompileTimeIntact
<1>1. IInv => CompileTimeIntact
  BY DEF IInv, SharedIntact, CompileTimeIntact
<1>2. QED
  BY <1>1, Invariance, PTL

\* Renders leave the maps that their callers passed as they were.
THEOREM CallersIntact == ASSUME FreshFirst PROVE Spec => []CallerDataIntact
<1>1. IInv => CallerDataIntact
  BY DEF IInv, SharedIntact, CallerDataIntact
<1>2. QED
  BY <1>1, Invariance, PTL

\* No map that renders share is changed, the compiler's or a caller's.
THEOREM SharedUnchanged == ASSUME FreshFirst PROVE Spec => []SharedMapsIntact
<1>1. IInv => SharedMapsIntact
  BY DEF IInv, SharedIntact, SharedMapsIntact, CompileTimeIntact, CallerDataIntact
<1>2. QED
  BY <1>1, Invariance, PTL

\* Every tag shows its own sources, merged in order, whatever the other renders
\* of the page do.
THEOREM Isolated == ASSUME FreshFirst PROVE Spec => []RenderIsolated
<1>1. IInv => RenderIsolated
  BY DEF IInv, Value, RenderIsolated
<1>2. QED
  BY <1>1, Invariance, PTL

\* No goroutine uses a map that another one is writing.
THEOREM RaceFree == ASSUME FreshFirst PROVE Spec => []NoConcurrentMapUse
<1>1. ASSUME IInv, NEW r \in Render, NEW l \in Writes(r)
      PROVE  l = <<r, node[r]>> /\ node[r] \in Nodes
  BY <1>1 DEF Writes, IInv, Local, AtSource
<1>2. ASSUME IInv, NEW o \in Render, NEW l \in Reads(o)
      PROVE  l \in Known(o, node[o]) /\ node[o] \in Nat
  <2>1. node[o] \in Nat /\ reg[o] \in Known(o, node[o])
    BY <1>2, PageFacts DEF IInv, TypeOK, Local
  <2>2. Merging(o) => Holder(o, NextSource(o)) \in Known(o, node[o])
    BY <1>2, SourceGives DEF Merging
  <2>3. QED
    BY <1>2, <2>1, <2>2 DEF Reads
<1>3. ASSUME IInv, NEW r \in Render, NEW o \in Render, o # r
      PROVE  Writes(r) \cap (Writes(o) \cup Reads(o)) = {}
  BY <1>1, <1>2, <1>3, KnownFacts
<1>4. IInv => NoConcurrentMapUse
  BY <1>3 DEF NoConcurrentMapUse, Racing
<1>5. QED
  BY <1>4, Invariance, PTL
=============================================================================
