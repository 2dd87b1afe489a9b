------------------------------ MODULE PropsOps ------------------------------
(***************************************************************************)
(* What is done to the Props of a tag or of a call (statement.go): the     *)
(* vocabulary that PropsList and its abstract specification share.         *)
(*                                                                         *)
(* Each Props belongs to one goroutine, which works through a job: append  *)
(* a key (propsC.execTo, AppendAttr, Append, AppendClass, AppendMap), bind *)
(* the whole of another Props (vBindC.execTo), write the attributes of the *)
(* tag.                                                                    *)
(***************************************************************************)
EXTENDS Naturals, Sequences

CONSTANTS
  Obj,     \* the Props
  Key,     \* the names of props
  Merged,  \* those whose values are merged and always written: class
  Attr,    \* those that CanBeAttrsKey accepts
  Val,     \* a value is a sequence of these; only class has several
  Jobs,    \* the assignments of a job to each Props
  Unset,   \* the value of a key that the map does not hold
  Nil      \* no node

\* MayBeAttr, CanBeAttr, CanNotBeAttr.
Way == {"may", "can", "cannot"}

Op == [op : {"append"}, way : Way, key : Key, val : Seq(Val)]
 \cup [op : {"bind"}, from : Obj]
 \cup [op : {"write"}]

\* A Props that binds another does so first, and gets no key of its own: the only
\* *Props that the library binds is the caller's, in RenderComponent.  A tag writes
\* its attributes last.
BindsAlone(ops) ==
  \A i \in 1 .. Len(ops) :
    /\ ops[i].op = "bind" => i = 1
    /\ ops[i].op = "append" => ops[1].op # "bind"
    /\ ops[i].op = "write" => i = Len(ops)

ASSUME PropsAssumption ==
  /\ Merged \subseteq Key
  /\ Unset \notin Seq(Val)
  /\ Nil \notin Obj \X Key
  /\ Jobs \subseteq [Obj -> Seq(Op)]
  /\ \A jobs \in Jobs : \A p \in Obj : BindsAlone(jobs[p])

Data == [Key -> Seq(Val) \cup {Unset}]

Empty == [k \in Key |-> Unset]

\* Bug: a list of the two values.
PutNested(data, k, v) ==
  [data EXCEPT ![k] = IF @ # Unset /\ k \in Merged THEN <<@, v>> ELSE v]

\* The value after an append: class is merged, in the order of the appends.
Put(data, k, v) ==
  [data EXCEPT ![k] = IF @ # Unset /\ k \in Merged THEN @ \o v ELSE v]

\* A key that the compiler has decided on, or that the run time has to ask for.
Shown(way, k) == way = "can" \/ (way = "may" /\ k \in Merged \cup Attr)

\* What a tag writes for a key: the attribute, or nothing.
Attribute(way, k, v) == IF Shown(way, k) THEN <<k, v>> ELSE << >>
=============================================================================
