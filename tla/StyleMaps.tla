----------------------------- MODULE StyleMaps -----------------------------
(***************************************************************************)
(* How the style attribute of a tag is put together (statement.go):        *)
(* ExecAttr and execBindProps on a tag without directives, Props.append    *)
(* and margeStyle on a tag with directives and on a component call.        *)
(*                                                                         *)
(* A style is a Go map, and a Go map is a reference.  The map of a static  *)
(* style="..." is made when the component is compiled, and is shared by    *)
(* all renders; the map of an object literal is made at each evaluation;   *)
(* the map of a variable belongs to the caller.  All of them meet in the   *)
(* same merge, which writes into the first map it is given.                *)
(*                                                                         *)
(* Page is the sequence of tags and calls that have a style, in the order  *)
(* a render executes them.  Renders run concurrently on the same compiled  *)
(* page, and copy one key at a time.                                       *)
(***************************************************************************)
EXTENDS Naturals, Sequences

CONSTANTS
  Render,    \* the renders, each on a goroutine of its own
  Key,       \* the style properties: color, top, ...
  Val,       \* their values
  Page,      \* Page[n]: [path, sources], a tag or call and where its style comes from
  Static,    \* the maps of static styles, made by the compiler
  User,      \* the maps that the callers pass in their props
  Content,   \* Content[m]: what a static or user map is given to hold
  Var,       \* the variables that styles refer to
  Expr,      \* the object literals in the page
  VarMap,    \* VarMap[r][x]: the user map that variable x denotes in render r
  Literal,   \* Literal[r][e]: what object literal e evaluates to in render r
  Merged,    \* Merged[r][n][i]: the first i sources of Page[n], later over earlier
  Unset,     \* the value of a key that a map does not hold
  Nil,       \* no style
  Str        \* a static style that the compiler has turned into a string

\* "attr": ExecAttr; "directive": the props of a tag with directives; "call":
\* the props of a component call, which the component reads as $props.
Path == {"attr", "directive", "call"}

Nodes == 1 .. Len(Page)

Sources(n) == Page[n].sources

Style == [Key -> Val \cup {Unset}]

Empty == [k \in Key |-> Unset]

KeysOf(style) == {k \in Key : style[k] # Unset}

Over(a, b) == [k \in Key |-> IF b[k] # Unset THEN b[k] ELSE a[k]]

\* <<r, n>> is the map that render r makes at node n.
Loc == Static \cup User \cup (Render \X Nodes)

Ref == Loc \cup {Nil, Str}

Source == [kind : {"static", "string"}, map : Static]
     \cup [kind : {"var"}, name : Var]
     \cup [kind : {"literal"}, expr : Expr]
     \cup [kind : {"props"}, of : Nodes]

ASSUME PageAssumption ==
  /\ Page \in Seq([path : Path, sources : Seq(Source)])
  /\ \A n \in Nodes : \A i \in 1 .. Len(Sources(n)) :
       Sources(n)[i].kind = "props" =>
         Sources(n)[i].of < n /\ Page[Sources(n)[i].of].path = "call"

ASSUME MapAssumption ==
  /\ (Static \cup User) \cap (Render \X Nodes) = {}
  /\ {Nil, Str} \cap Loc = {}
  /\ Nil # Str
  /\ Content \in [Static \cup User -> Style]
  /\ VarMap \in [Render -> [Var -> User]]
  /\ Literal \in [Render -> [Expr -> Style]]

\* What a source gives: what was declared, or the literal's value in this render.
Given(r, s) ==
  CASE s.kind \in {"static", "string"} -> Content[s.map]
    [] s.kind = "var"     -> Content[VarMap[r][s.name]]
    [] s.kind = "literal" -> Literal[r][s.expr]
    [] s.kind = "props"   -> Merged[r][s.of][Len(Sources(s.of))]

ASSUME MergedAssumption ==
  \A r \in Render, n \in Nodes :
    /\ Merged[r][n][0] = Empty
    /\ \A i \in 1 .. Len(Sources(n)) :
         Merged[r][n][i] = Over(Merged[r][n][i - 1], Given(r, Sources(n)[i]))

VARIABLES
  heap,     \* what the maps hold
  node,     \* node[r]: the tag or call that r executes
  done,     \* how many of its sources have been merged
  pc,       \* "next", or "copy": in the loop over the keys of the next source
  todo,     \* the keys that loop has still to copy
  reg,      \* the style so far: `style` in ExecAttr, data["style"] in Props
  props,    \* props[r][n]: the style in the props of the finished call n
  emitted,  \* emitted[r][n]: the style attribute written at node n
  crashed   \* the Go runtime has found a map in concurrent use

rvars == <<node, done, pc, todo, reg, props, emitted>>
vars == <<heap, node, done, pc, todo, reg, props, emitted, crashed>>

TypeOK ==
  /\ heap \in [Loc -> Style]
  /\ node \in [Render -> 1 .. Len(Page) + 1]
  /\ done \in [Render -> Nat]
  /\ \A r \in Render : node[r] \in Nodes => done[r] <= Len(Sources(node[r]))
  /\ pc \in [Render -> {"next", "copy"}]
  /\ todo \in [Render -> SUBSET Key]
  /\ reg \in [Render -> Ref]
  /\ props \in [Render -> [Nodes -> Ref]]
  /\ emitted \in [Render -> [Nodes -> Style \cup {Nil}]]
  /\ crashed \in BOOLEAN

Init ==
  /\ heap = [l \in Loc |-> IF l \in Static \cup User THEN Content[l] ELSE Empty]
  /\ node = [r \in Render |-> 1]
  /\ done = [r \in Render |-> 0]
  /\ pc = [r \in Render |-> "next"]
  /\ todo = [r \in Render |-> {}]
  /\ reg = [r \in Render |-> Nil]
  /\ props = [r \in Render |-> [n \in Nodes |-> Nil]]
  /\ emitted = [r \in Render |-> [n \in Nodes |-> Nil]]
  /\ crashed = FALSE

-----------------------------------------------------------------------------
(* What a step of r touches *)

AtSource(r) == node[r] \in Nodes /\ done[r] < Len(Sources(node[r]))

AtEnd(r) == node[r] \in Nodes /\ done[r] = Len(Sources(node[r]))

NextSource(r) == Sources(node[r])[done[r] + 1]

\* The map, string or nothing that evaluating a source yields; an object literal
\* yields a map that nothing else refers to.
Holder(r, s) ==
  CASE s.kind = "static"  -> s.map
    [] s.kind = "var"     -> VarMap[r][s.name]
    [] s.kind = "props"   -> props[r][s.of]
    [] s.kind = "string"  -> Str
    [] s.kind = "literal" -> <<r, node[r]>>

IsMap(r, s) == Holder(r, s) \in Loc

SourceStyle(r, s) == IF s.kind = "literal" THEN Literal[r][s.expr]
                     ELSE heap[Holder(r, s)]

Merging(r) == AtSource(r) /\ reg[r] # Nil /\ IsMap(r, NextSource(r))

Writes(r) == IF pc[r] = "copy" /\ todo[r] # {} THEN {reg[r]} ELSE {}

Reads(r) ==
  (IF Merging(r) /\ NextSource(r).kind # "literal"
   THEN {Holder(r, NextSource(r))} ELSE {})
  \cup (IF AtEnd(r) /\ Page[node[r]].path # "call" THEN {reg[r]} \cap Loc ELSE {})

\* Two goroutines are about to use one map and one of them writes: a data race.
Racing(r) == \E o \in Render \ {r} :
               \/ Writes(r) \cap (Writes(o) \cup Reads(o)) # {}
               \/ Reads(r) \cap Writes(o) # {}

\* The runtime may notice, and then ends the process ("concurrent map writes").
UseMaps(r) == crashed' \in IF Racing(r) THEN BOOLEAN ELSE {FALSE}

-----------------------------------------------------------------------------
(* Building a style *)

\* The first style is not copied: `style = t`, r.data[k.Key] = v.  ExecAttr takes
\* only maps, Props.append takes any value.
TakeFirst(r) ==
  /\ ~ crashed
  /\ pc[r] = "next"
  /\ AtSource(r)
  /\ reg[r] = Nil
  /\ LET s == NextSource(r)
         h == Holder(r, s)
     IN /\ reg' = [reg EXCEPT ![r] =
                     IF h = Str /\ Page[node[r]].path = "attr" THEN Nil ELSE h]
        /\ heap' = IF s.kind = "literal" THEN [heap EXCEPT ![h] = Literal[r][s.expr]]
                   ELSE heap
  /\ done' = [done EXCEPT ![r] = @ + 1]
  /\ UNCHANGED <<node, pc, todo, props, emitted, crashed>>

\* A later source that is not a map adds nothing, but margeStyle replaces a string
\* by a new empty map.
Ignore(r) ==
  /\ ~ crashed
  /\ pc[r] = "next"
  /\ AtSource(r)
  /\ reg[r] # Nil
  /\ ~ IsMap(r, NextSource(r))
  /\ reg' = [reg EXCEPT ![r] = IF @ = Str /\ Holder(r, NextSource(r)) = Str
                               THEN <<r, node[r]>> ELSE @]
  /\ done' = [done EXCEPT ![r] = @ + 1]
  /\ UNCHANGED <<heap, node, pc, todo, props, emitted, crashed>>

\* Bug: the new map is the one that is extended.
BeginMergeIntoNew(r) ==
  /\ ~ crashed
  /\ pc[r] = "next"
  /\ Merging(r)
  /\ pc' = [pc EXCEPT ![r] = "copy"]
  /\ todo' = [todo EXCEPT ![r] = KeysOf(SourceStyle(r, NextSource(r)))]
  /\ reg' = [reg EXCEPT ![r] = Holder(r, NextSource(r))]
  /\ UseMaps(r)
  /\ UNCHANGED <<heap, node, done, props, emitted>>

\* A later map is copied into the style so far; margeStyle copies it into a new
\* map when the style so far is not a map.
BeginMerge(r) ==
  /\ ~ crashed
  /\ pc[r] = "next"
  /\ Merging(r)
  /\ pc' = [pc EXCEPT ![r] = "copy"]
  /\ todo' = [todo EXCEPT ![r] = KeysOf(SourceStyle(r, NextSource(r)))]
  /\ reg' = [reg EXCEPT ![r] = IF @ = Str THEN <<r, node[r]>> ELSE @]
  /\ UseMaps(r)
  /\ UNCHANGED <<heap, node, done, props, emitted>>

\* Bug: margeStyle(b, a).
CopyKeyBack(r) ==
  /\ ~ crashed
  /\ pc[r] = "copy"
  /\ \E k \in todo[r] :
       /\ heap' = [heap EXCEPT ![Holder(r, NextSource(r))][k] = heap[reg[r]][k]]
       /\ todo' = [todo EXCEPT ![r] = @ \ {k}]
  /\ UseMaps(r)
  /\ UNCHANGED <<node, done, pc, reg, props, emitted>>

\* Bug: a key that the style has already is not overwritten.
CopyKeyOnce(r) ==
  /\ ~ crashed
  /\ pc[r] = "copy"
  /\ \E k \in todo[r] :
       /\ heap' = [heap EXCEPT ![reg[r]][k] =
                     IF @ # Unset THEN @ ELSE SourceStyle(r, NextSource(r))[k]]
       /\ todo' = [todo EXCEPT ![r] = @ \ {k}]
  /\ UseMaps(r)
  /\ UNCHANGED <<node, done, pc, reg, props, emitted>>

\* style[k] = v, in the random order of a Go map.
CopyKey(r) ==
  /\ ~ crashed
  /\ pc[r] = "copy"
  /\ \E k \in todo[r] :
       /\ heap' = [heap EXCEPT ![reg[r]][k] = SourceStyle(r, NextSource(r))[k]]
       /\ todo' = [todo EXCEPT ![r] = @ \ {k}]
  /\ UseMaps(r)
  /\ UNCHANGED <<node, done, pc, reg, props, emitted>>

EndMerge(r) ==
  /\ ~ crashed
  /\ pc[r] = "copy"
  /\ todo[r] = {}
  /\ pc' = [pc EXCEPT ![r] = "next"]
  /\ done' = [done EXCEPT ![r] = @ + 1]
  /\ UNCHANGED <<heap, node, todo, reg, props, emitted, crashed>>

\* Bug: the count of merged sources is kept for the next tag.
FinishKeepingCount(r) ==
  /\ ~ crashed
  /\ pc[r] = "next"
  /\ AtEnd(r)
  /\ emitted' = [emitted EXCEPT ![r][node[r]] =
                    IF reg[r] \in Loc THEN heap[reg[r]] ELSE Empty]
  /\ node' = [node EXCEPT ![r] = @ + 1]
  /\ reg' = [reg EXCEPT ![r] = Nil]
  /\ UseMaps(r)
  /\ UNCHANGED <<heap, done, pc, todo, props>>

\* The end of a tag writes the map, if there is one; a call passes its props on.
Finish(r) ==
  /\ ~ crashed
  /\ pc[r] = "next"
  /\ AtEnd(r)
  /\ LET n == node[r]
     IN IF Page[n].path = "call"
        THEN /\ props' = [props EXCEPT ![r][n] = reg[r]]
             /\ UNCHANGED emitted
        ELSE /\ emitted' = [emitted EXCEPT ![r][n] =
                              IF reg[r] \in Loc THEN heap[reg[r]] ELSE Empty]
             /\ UNCHANGED props
  /\ node' = [node EXCEPT ![r] = @ + 1]
  /\ done' = [done EXCEPT ![r] = 0]
  /\ reg' = [reg EXCEPT ![r] = Nil]
  /\ UseMaps(r)
  /\ UNCHANGED <<heap, pc, todo>>

\* The renders have ended, or the process has.
Ended ==
  /\ ~ crashed => \A r \in Render : node[r] = Len(Page) + 1
  /\ UNCHANGED vars

Next ==
  \/ \E r \in Render :
       TakeFirst(r) \/ Ignore(r) \/ BeginMerge(r) \/ CopyKey(r) \/ EndMerge(r) \/ Finish(r)
  \/ Ended

Spec == Init /\ [][Next]_vars

-----------------------------------------------------------------------------
(* Correctness *)

\* Every style that has several sources starts with an object literal, and no
\* static style has become a string.
FreshFirst ==
  \A n \in Nodes :
    /\ Len(Sources(n)) > 1 => Sources(n)[1].kind = "literal"
    /\ \A i \in 1 .. Len(Sources(n)) : Sources(n)[i].kind # "string"

\* "run-time code must not modify the compile-time": the map of a static style
\* still holds what the component declares (ExecAttr, execBindProps, margeStyle).
CompileTimeIntact == \A m \in Static : heap[m] = Content[m]

\* A render does not change the props that its caller passed.
CallerDataIntact == \A m \in User : heap[m] = Content[m]

\* The maps that renders share hold what they were given to hold.
SharedMapsIntact == CompileTimeIntact /\ CallerDataIntact

\* What a tag shows depends on its own render only: its sources, later ones over
\* earlier, as declared and as evaluated in this render.
RenderIsolated ==
  \A r \in Render, n \in Nodes :
    emitted[r][n] # Nil => emitted[r][n] = Merged[r][n][Len(Sources(n))]

\* Renders that share a compiled page never use a map while another writes it.
NoConcurrentMapUse == \A r \in Render : ~ Racing(r)
=============================================================================
