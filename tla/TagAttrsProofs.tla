--------------------------- MODULE TagAttrsProofs ---------------------------
(***************************************************************************)
(* What TagAttrs guarantees for any tags, with any attributes, maps and    *)
(* directives: data does not get into the html, attributes keep their      *)
(* order, and each is written once with all that is given for it.          *)
(***************************************************************************)
EXTENDS TagAttrs, FiniteSetTheorems, WellFoundedInduction, TLAPS

-----------------------------------------------------------------------------
(* Values and tags *)

\* Values of one key: null and Unset are none, and Nothing(k) is neutral when they are joined.
LEMMA ValueFacts ==
  ASSUME NEW k \in Key
  PROVE  /\ Null # Unset /\ Null \notin Value(k) /\ Unset \notin Value(k)
         /\ Nothing(k) \in Value(k)
         /\ k \notin Merged => "null" \in Value(k) /\ \A v, w : Join(k, v, w) = w
         /\ \A v, w \in Value(k) : Join(k, v, w) \in Value(k)
         /\ \A v \in Value(k) : Join(k, Nothing(k), v) = v
         /\ k \in Merged => \A v : Join(k, v, Null) = v
         /\ k \in Merged => \A v \in Value(k) : Join(k, v, Nothing(k)) = v
<1>1. "class" # "style"
  OBVIOUS
<1>2. CASE k = "class"
  <2>1. Value(k) = Seq(Text) /\ Nothing(k) = << >> /\ k \in Merged
    BY <1>1, <1>2 DEF Value, Nothing, Merged
  <2>2. Null # Unset /\ Null \notin Seq(Text) /\ Unset \notin Seq(Text)
    BY ValueAssumption
  <2>3. \A v, w : Join(k, v, w) = IF w = Null THEN v ELSE v \o w
    BY <1>2, <2>1 DEF Join
  <2>4. \A v \in Seq(Text) : v # Null /\ v \o << >> = v /\ << >> \o v = v
    BY <2>2
  <2>5. \A v, w \in Seq(Text) : v \o w \in Seq(Text)
    OBVIOUS
  <2>6. << >> \in Seq(Text)
    OBVIOUS
  <2>7. ASSUME NEW v \in Value(k), NEW w \in Value(k) PROVE Join(k, v, w) \in Value(k)
    <3>1. v \in Seq(Text) /\ w \in Seq(Text)
      BY <2>1
    <3>2. Join(k, v, w) = v \o w
      BY <2>3, <2>4, <3>1
    <3>3. QED
      BY <2>1, <2>5, <3>1, <3>2
  <2>8. \A v \in Value(k) : Join(k, Nothing(k), v) = v /\ Join(k, v, Nothing(k)) = v
    BY <2>1, <2>3, <2>4, <2>6
  <2>9. \A v : Join(k, v, Null) = v
    BY <2>3
  <2>10. Null # Unset /\ Null \notin Value(k) /\ Unset \notin Value(k) /\ Nothing(k) \in Value(k)
    BY <2>1, <2>2, <2>6
  <2>11. QED
    BY <2>1, <2>7, <2>8, <2>9, <2>10, Zenon
<1>3. CASE k = "style"
  <2>1. Value(k) = SUBSET Declaration /\ Nothing(k) = {} /\ k \in Merged
    BY <1>1, <1>3 DEF Value, Nothing, Merged
  <2>2. Null # Unset /\ Null \notin SUBSET Declaration /\ Unset \notin SUBSET Declaration
    BY ValueAssumption, Zenon
  <2>3. \A v, w : Join(k, v, w) = IF w = Null THEN v ELSE v \cup w
    BY <1>1, <1>3, <2>1 DEF Join
  <2>4. \A v \in Value(k) : v # Null
    BY <2>1, <2>2
  <2>5. \A v, w \in Value(k) : Join(k, v, w) \in Value(k)
    BY <2>1, <2>3, <2>4
  <2>6. ASSUME NEW v \in Value(k)
        PROVE  Join(k, Nothing(k), v) = v /\ Join(k, v, Nothing(k)) = v
    <3>1. {} \cup v = v /\ v \cup {} = v /\ v # Null /\ {} # Null
      BY <2>1, <2>4, <2>2
    <3>2. Join(k, Nothing(k), v) = {} \cup v /\ Join(k, v, Nothing(k)) = v \cup {}
      BY <2>1, <2>3, <3>1
    <3>3. QED
      BY <3>1, <3>2
  <2>7. \A v : Join(k, v, Null) = v
    BY <2>3
  <2>8. Null # Unset /\ Null \notin Value(k) /\ Unset \notin Value(k) /\ Nothing(k) \in Value(k)
    BY <2>1, <2>2
  <2>9. QED
    BY <2>1, <2>5, <2>6, <2>7, <2>8, Zenon
<1>4. CASE k # "class" /\ k # "style"
  <2>1. Value(k) = Text /\ Nothing(k) = "" /\ k \notin Merged
    BY <1>4 DEF Value, Nothing, Merged
  <2>2. Null # Unset /\ Null \notin Text /\ Unset \notin Text
    BY ValueAssumption
  <2>3. \A v, w : Join(k, v, w) = w
    BY <2>1 DEF Join
  <2>4. "null" \in Value(k) /\ Nothing(k) \in Value(k)
    BY <2>1, ValueAssumption
  <2>5. Null # Unset /\ Null \notin Value(k) /\ Unset \notin Value(k)
    BY <2>1, <2>2
  <2>6. \A v \in Value(k) : Join(k, Nothing(k), v) = v
    BY <2>3
  <2>7. \A v, w \in Value(k) : Join(k, v, w) \in Value(k)
    BY <2>3
  <2>8. QED
    BY <2>1, <2>3, <2>4, <2>5, <2>6, <2>7, Zenon
<1>5. QED
  BY <1>2, <1>3, <1>4

\* The value of an attribute in attr is a value of its key, also that of null.
LEMMA AsAttrFacts ==
  ASSUME NEW k \in Key, NEW v, IsValue(k, v), v # Unset
  PROVE  /\ AsAttr(k, v) \in Value(k)
         /\ v # Null => AsAttr(k, v) = v
         /\ v = Null => AsAttr(k, v) = IF k \in Merged THEN Nothing(k) ELSE "null"
BY ValueFacts DEF AsAttr, IsValue

\* What TagAssumption says of the tag.
TagType ==
  /\ Len(tag.attrs) \in Nat /\ DOMAIN tag.attrs = 1 .. Len(tag.attrs)
  /\ \A i \in DOMAIN tag.attrs :
       /\ tag.attrs[i].key \in Key /\ IsValue(tag.attrs[i].key, tag.attrs[i].val)
       /\ tag.attrs[i].static \in BOOLEAN /\ (tag.attrs[i].static => tag.attrs[i].val # Null)
  /\ HasBind /\ Bound # Null => \A k \in Key : Bound[k] = Unset \/ IsValue(k, Bound[k])
  /\ Len(tag.directives) \in Nat /\ DOMAIN tag.directives = 1 .. Len(tag.directives)
  /\ \A i \in DOMAIN tag.directives :
       tag.directives[i].key \in Key /\ IsValue(tag.directives[i].key, tag.directives[i].val)
  /\ tag.directives = << >> => Len(tag.directives) = 0

\* A tag is of this type.
LEMMA TagFacts == tag \in Tags => TagType
<1> SUFFICES ASSUME tag \in Tags PROVE TagType
  OBVIOUS
<1>1. /\ DOMAIN tag.attrs = 1 .. Len(tag.attrs) /\ Len(tag.attrs) \in Nat
      /\ \A i \in DOMAIN tag.attrs :
           LET a == tag.attrs[i]
           IN a.key \in Key /\ IsValue(a.key, a.val) /\ a.static \in BOOLEAN /\ (a.static => a.val # Null)
      /\ tag.bind \in {Unset, Null} \/ IsMap(tag.bind)
      /\ tag.call = Unset \/ IsMap(tag.call)
      /\ DOMAIN tag.directives = 1 .. Len(tag.directives) /\ Len(tag.directives) \in Nat
      /\ \A i \in DOMAIN tag.directives :
           tag.directives[i].key \in Key /\ IsValue(tag.directives[i].key, tag.directives[i].val)
  BY TagAssumption, Zenon
<1>2. HasBind /\ Bound # Null => IsMap(Bound)
  BY <1>1 DEF HasBind, Bound, Root
<1>3. HasBind /\ Bound # Null => \A k \in Key : Bound[k] = Unset \/ IsValue(k, Bound[k])
  BY <1>2 DEF IsMap
<1>4. tag.directives = << >> => Len(tag.directives) = 0
  OBVIOUS
<1>5. QED
  BY <1>1, <1>3, <1>4 DEF TagType

-----------------------------------------------------------------------------
(* The state, and what the compiler has chosen *)

\* What is written: an attribute with a value.
Output == [key : Key, val : UNION {Value(k) : k \in Key}]

\* The types of the variables.
Type ==
  /\ tag \in Tags
  /\ pc \in {"compile", "attrs", "bind", "directives", "write", "done", "panic"}
  /\ path \in {"text", "attr", "props"}
  /\ at \in Nat
  /\ keys \in Seq(Key)
  /\ shown \in SUBSET Key
  /\ DOMAIN vals = Key /\ \A k \in Key : vals[k] = Unset \/ IsValue(k, vals[k])
  /\ out \in Seq(Output)

\* What Compile has made of the tag.
Compiled ==
  /\ path = IF CanBeStr THEN "text" ELSE IF tag.directives = << >> THEN "attr" ELSE "props"
  /\ Len(props) = Len(tag.attrs)
  /\ \A i \in DOMAIN tag.attrs :
       /\ props[i].key = tag.attrs[i].key /\ props[i].val = tag.attrs[i].val
       /\ props[i].asText = AsText(tag.attrs[i])

\* The state in front of Compile.
Fresh ==
  at = 0 /\ path = "text" /\ keys = << >> /\ shown = {} /\ out = << >> /\ \A k \in Key : vals[k] = Unset

\* What each way comes to, and the bounds of its loops.
WayInv ==
  /\ IF pc = "compile" THEN Fresh ELSE Compiled
  /\ pc = "attrs" => at <= Len(tag.attrs)
  /\ pc = "bind" => at <= Len(KeyOrder) /\ (at = 0 \/ (HasBind /\ Bound # Null))
  /\ pc = "directives" => at <= Len(tag.directives)
  /\ pc = "write" => at <= Len(keys)
  /\ pc = "done" => at = Len(keys)
  /\ path = "text" => pc \in {"compile", "attrs", "done"} /\ keys = << >>
  /\ path = "attr" => pc \in {"attrs", "bind", "write", "done"}
  /\ path = "props" => pc # "compile"
  /\ \A k \in shown : vals[k] # Unset

\* What Compile has made stays.
LEMMA CompiledKept ==
  ASSUME Compiled, UNCHANGED <<tag, path, props>>
  PROVE  Compiled'
<1>1. CanBeStr' = CanBeStr
  BY DEF CanBeStr, HasBind, Bound, Root
<1>2. \A a : AsText(a)' = AsText(a)
  BY DEF AsText, HasBind, Bound, Root
<1>3. QED
  BY <1>1, <1>2 DEF Compiled

\* The attribute that a step of the first loop is about.
LEMMA CurrentFacts ==
  ASSUME Type, Compiled, at < Len(props)
  PROVE  /\ at + 1 \in DOMAIN tag.attrs
         /\ Current.key = tag.attrs[at + 1].key /\ Current.val = tag.attrs[at + 1].val
         /\ Current.asText = AsText(tag.attrs[at + 1])
         /\ Current.key \in Key /\ IsValue(Current.key, Current.val) /\ Current.val # Unset
         /\ AsText(tag.attrs[at + 1]) => Current.val # Null
         /\ path = "text" => Current.val # Null
<1>1. TagType
  BY TagFacts DEF Type
<1>2. at + 1 \in DOMAIN tag.attrs
  BY <1>1 DEF TagType, Type, Compiled
<1>3. /\ Current.key = tag.attrs[at + 1].key /\ Current.val = tag.attrs[at + 1].val
      /\ Current.asText = AsText(tag.attrs[at + 1])
  BY <1>2 DEF Compiled, Current
<1>4. /\ Current.key \in Key /\ IsValue(Current.key, Current.val)
      /\ tag.attrs[at + 1].static => Current.val # Null
  BY <1>1, <1>2, <1>3 DEF TagType
<1>5. Current.val # Unset
  BY <1>4, ValueFacts DEF IsValue
<1>6. AsText(tag.attrs[at + 1]) => tag.attrs[at + 1].static
  BY DEF AsText
<1>7. path = "text" => tag.attrs[at + 1].static
  BY <1>2 DEF Compiled, CanBeStr
<1>8. QED
  BY <1>2, <1>3, <1>4, <1>5, <1>6, <1>7

\* Set, for a value that is given.
LEMMA SetFacts ==
  ASSUME Type, NEW k \in Key, NEW v, NEW a \in BOOLEAN, IsValue(k, v), v # Unset, Set(k, v, a)
  PROVE  /\ keys' = IF vals[k] = Unset THEN Append(keys, k) ELSE keys
         /\ shown' = IF vals[k] = Unset /\ a THEN shown \cup {k} ELSE shown
         /\ vals'[k] = IF vals[k] = Unset THEN v
                       ELSE Join(k, IF vals[k] = Null THEN Nothing(k) ELSE vals[k], v)
         /\ vals'[k] # Unset
         /\ \A l \in Key : l # k => vals'[l] = vals[l]
         /\ keys' \in Seq(Key) /\ shown' \in SUBSET Key /\ DOMAIN vals' = Key
         /\ \A l \in Key : vals'[l] = Unset \/ IsValue(l, vals'[l])
<1>1. /\ keys' = IF vals[k] = Unset THEN Append(keys, k) ELSE keys
      /\ shown' = IF vals[k] = Unset /\ a THEN shown \cup {k} ELSE shown
  BY DEF Set
<1>2. DOMAIN vals = Key /\ keys \in Seq(Key) /\ shown \in SUBSET Key
  BY DEF Type
<1>3. PICK old : old = IF vals[k] = Null THEN Nothing(k) ELSE vals[k]
  OBVIOUS
<1>4. PICK new : new = IF vals[k] = Unset THEN v ELSE Join(k, old, v)
  OBVIOUS
<1>5. vals' = [vals EXCEPT ![k] = new]
  BY <1>3, <1>4 DEF Set
<1>6. vals'[k] = new /\ DOMAIN vals' = Key /\ \A l \in Key : l # k => vals'[l] = vals[l]
  BY <1>2, <1>5
<1>7. vals[k] # Unset => old \in Value(k)
  BY <1>3, ValueFacts DEF Type, IsValue
<1>8. IsValue(k, new) /\ new # Unset
  <2>1. CASE vals[k] = Unset
    BY <1>4, <2>1
  <2>2. CASE vals[k] # Unset /\ v = Null
    <3>1. new = IF k \in Merged THEN old ELSE Null
      BY <1>4, <2>2, ValueFacts
    <3>2. QED
      BY <1>7, <2>2, <3>1, ValueFacts DEF IsValue
  <2>3. CASE vals[k] # Unset /\ v # Null
    <3>1. v \in Value(k)
      BY <2>3 DEF IsValue
    <3>2. new \in Value(k)
      BY <1>4, <1>7, <2>3, <3>1, ValueFacts
    <3>3. QED
      BY <3>2, ValueFacts DEF IsValue
  <2>4. QED
    BY <2>1, <2>2, <2>3
<1>9. keys' \in Seq(Key) /\ shown' \in SUBSET Key
  BY <1>1, <1>2
<1>10. \A l \in Key : vals'[l] = Unset \/ IsValue(l, vals'[l])
  <2> SUFFICES ASSUME NEW l \in Key PROVE vals'[l] = Unset \/ IsValue(l, vals'[l])
    OBVIOUS
  <2>1. CASE l = k
    BY <1>6, <1>8, <2>1
  <2>2. CASE l # k
    BY <1>6, <2>2 DEF Type
  <2>3. QED
    BY <2>1, <2>2
<1>11. QED
  BY <1>1, <1>3, <1>4, <1>6, <1>8, <1>9, <1>10

\* What is written is a value of its key.
LEMMA WriteFacts ==
  ASSUME out \in Seq(Output), NEW k \in Key, NEW v \in Value(k), Write(k, v)
  PROVE  /\ out' \in Seq(Output) /\ Len(out') = Len(out) + 1
         /\ out'[Len(out) + 1].key = k /\ out'[Len(out) + 1].val = v
         /\ \A i \in DOMAIN out : i \in DOMAIN out' /\ out'[i] = out[i]
         /\ DOMAIN out' = DOMAIN out \cup {Len(out) + 1} /\ Len(out) + 1 \notin DOMAIN out
<1>1. PICK e : e = [key |-> k, val |-> v]
  OBVIOUS
<1>2. v \in UNION {Value(l) : l \in Key}
  OBVIOUS
<1>3. e \in Output /\ e.key = k /\ e.val = v
  BY <1>1, <1>2 DEF Output
<1>4. out' = Append(out, e)
  BY <1>1 DEF Write
<1>5. QED
  BY <1>3, <1>4

\* A step keeps the types.
LEMMA TypeStep ==
  ASSUME Type, WayInv, [Next]_vars
  PROVE  Type'
<1> USE DEF Type
<1>1. CASE Compile
  BY <1>1 DEF Compile
<1>2. CASE WriteText
  <2>1. pc = "attrs" /\ path = "text" /\ at < Len(props) /\ Compiled
    BY <1>2 DEF WriteText, NextAttr, WayInv
  <2>2. Current.key \in Key /\ Current.val \in Value(Current.key)
    BY <2>1, CurrentFacts DEF IsValue
  <2>3. out' \in Seq(Output)
    <3>1. CASE out' = out
      BY <3>1
    <3>2. CASE Write(Current.key, Current.val)
      BY <2>2, <3>2, WriteFacts
    <3>3. QED
      BY <1>2, <3>1, <3>2 DEF WriteText
  <2>4. QED
    BY <1>2, <2>3 DEF WriteText, NextAttr
<1>3. CASE ExecProp
  <2>1. pc = "attrs" /\ path = "attr" /\ at < Len(props) /\ Compiled
    BY <1>3 DEF ExecProp, NextAttr, WayInv
  <2>2. /\ Current.key \in Key /\ IsValue(Current.key, Current.val) /\ Current.val # Unset
        /\ Current.asText => Current.val \in Value(Current.key)
    BY <2>1, CurrentFacts DEF IsValue
  <2>3. tag' \in Tags /\ pc' = pc /\ path' = path /\ at' \in Nat
    <3>1. NextAttr("attr")
      BY <1>3 DEF ExecProp
    <3>2. QED
      BY <3>1 DEF NextAttr
  <2>4. CASE Current.asText /\ Current.key \in Merged
    <3>1. Write(Current.key, Current.val) /\ UNCHANGED <<keys, shown, vals>>
      BY <1>3, <2>4 DEF ExecProp
    <3>2. out' \in Seq(Output)
      BY <2>2, <2>4, <3>1, WriteFacts
    <3>3. QED
      BY <2>3, <3>1, <3>2
  <2>5. CASE UNCHANGED <<keys, shown, vals, out>>
    BY <2>3, <2>5
  <2>6. CASE Set(Current.key, AsAttr(Current.key, Current.val), TRUE) /\ out' = out
    <3>1. /\ IsValue(Current.key, AsAttr(Current.key, Current.val))
          /\ AsAttr(Current.key, Current.val) # Unset
      BY <2>2, AsAttrFacts, ValueFacts DEF IsValue
    <3>2. /\ keys' \in Seq(Key) /\ shown' \in SUBSET Key /\ DOMAIN vals' = Key
          /\ \A l \in Key : vals'[l] = Unset \/ IsValue(l, vals'[l])
      BY <2>2, <2>6, <3>1, SetFacts
    <3>3. QED
      BY <2>3, <2>6, <3>2
  <2>7. QED
    BY <1>3, <2>4, <2>5, <2>6 DEF ExecProp
<1>4. CASE AppendProp
  <2>1. pc = "attrs" /\ at < Len(props) /\ Compiled
    BY <1>4 DEF AppendProp, NextAttr, WayInv
  <2>2. Current.key \in Key /\ IsValue(Current.key, Current.val) /\ Current.val # Unset
    BY <2>1, CurrentFacts
  <2>3. Set(Current.key, Current.val, Eligible(Current.key)) /\ Eligible(Current.key) \in BOOLEAN
    BY <1>4 DEF AppendProp, Eligible
  <2>4. /\ keys' \in Seq(Key) /\ shown' \in SUBSET Key /\ DOMAIN vals' = Key
        /\ \A l \in Key : vals'[l] = Unset \/ IsValue(l, vals'[l])
    BY <2>2, <2>3, SetFacts
  <2>5. tag' \in Tags /\ pc' = pc /\ path' = path /\ at' \in Nat /\ out' = out
    BY <1>4 DEF AppendProp, NextAttr
  <2>6. QED
    BY <2>4, <2>5
<1>5. CASE EndAttrs
  BY <1>5 DEF EndAttrs
<1>6. CASE BindNext
  <2>1. at' \in Nat /\ UNCHANGED <<tag, pc, path, out>>
    BY <1>6 DEF BindNext
  <2>2. CASE UNCHANGED <<keys, shown, vals>>
    BY <2>1, <2>2
  <2>3. CASE ~ UNCHANGED <<keys, shown, vals>>
    <3>1. PICK k : k = KeyOrder[at + 1]
      OBVIOUS
    <3>2. k \in Key /\ Bound[k] # Unset /\ IsValue(k, Bound[k])
      <4>1. at + 1 \in 1 .. Len(KeyOrder) /\ HasBind /\ Bound # Null /\ Bound[k] # Unset
        BY <1>6, <2>3, <3>1, KeyAssumption DEF BindNext
      <4>2. k \in Key
        BY <3>1, <4>1 DEF Key
      <4>3. QED
        BY <4>1, <4>2, TagFacts DEF TagType
    <3>3. PICK v : v = IF path = "attr" THEN AsAttr(k, Bound[k]) ELSE Bound[k]
      OBVIOUS
    <3>4. Set(k, v, Eligible(k)) /\ Eligible(k) \in BOOLEAN
      BY <1>6, <2>3, <3>1, <3>3 DEF BindNext, BindKey, Eligible
    <3>5. IsValue(k, v) /\ v # Unset
      BY <3>2, <3>3, AsAttrFacts, ValueFacts DEF IsValue
    <3>6. /\ keys' \in Seq(Key) /\ shown' \in SUBSET Key /\ DOMAIN vals' = Key
          /\ \A l \in Key : vals'[l] = Unset \/ IsValue(l, vals'[l])
      BY <3>2, <3>4, <3>5, SetFacts
    <3>7. QED
      BY <2>1, <3>6
  <2>4. QED
    BY <2>2, <2>3
<1>7. CASE PanicOnNull
  BY <1>7 DEF PanicOnNull
<1>8. CASE EndBind
  BY <1>8 DEF EndBind
<1>9. CASE RunDirective
  <2>1. PICK d : d = tag.directives[at + 1]
    OBVIOUS
  <2>2. d.key \in Key /\ IsValue(d.key, d.val) /\ d.val # Unset
    <3>1. at + 1 \in DOMAIN tag.directives
      BY <1>9, TagFacts DEF TagType, RunDirective
    <3>2. d.key \in Key /\ IsValue(d.key, d.val)
      BY <2>1, <3>1, TagFacts DEF TagType
    <3>3. QED
      BY <3>2, ValueFacts DEF IsValue
  <2>3. Set(d.key, d.val, TRUE) /\ at' \in Nat /\ UNCHANGED <<tag, pc, path, out>>
    <3>1. /\ Set(tag.directives[at + 1].key, tag.directives[at + 1].val, TRUE)
          /\ at' = at + 1 /\ UNCHANGED <<tag, pc, path, out>>
      BY <1>9 DEF RunDirective
    <3>2. Set(d.key, d.val, TRUE)
      BY <2>1, <3>1, Zenon
    <3>3. at' \in Nat
      BY <3>1
    <3>4. QED
      BY <3>1, <3>2, <3>3, Zenon
  <2>4. /\ keys' \in Seq(Key) /\ shown' \in SUBSET Key /\ DOMAIN vals' = Key
        /\ \A l \in Key : vals'[l] = Unset \/ IsValue(l, vals'[l])
    BY <2>2, <2>3, SetFacts
  <2>5. QED
    BY <2>3, <2>4
<1>10. CASE EndDirectives
  BY <1>10 DEF EndDirectives
<1>11. CASE WriteKey
  <2>1. at' \in Nat /\ UNCHANGED <<tag, pc, path, keys, shown, vals>>
    BY <1>11 DEF WriteKey
  <2>2. out' \in Seq(Output)
    <3>1. CASE out' = out
      BY <3>1
    <3>2. CASE out' # out
      <4>1. PICK k : k = keys[at + 1]
        OBVIOUS
      <4>2. PICK v : v = IF vals[k] = Null THEN Nothing(k) ELSE vals[k]
        OBVIOUS
      <4>3. k \in Key /\ vals[k] # Unset
        <5>1. k \in Key
          BY <1>11, <4>1 DEF WriteKey
        <5>2. k \in shown
          BY <1>11, <3>2, <4>1 DEF WriteKey
        <5>3. QED
          BY <5>1, <5>2 DEF WayInv
      <4>4. v \in Value(k)
        BY <4>2, <4>3, ValueFacts DEF IsValue
      <4>5. Write(k, v)
        BY <1>11, <3>2, <4>1, <4>2 DEF WriteKey
      <4>6. QED
        BY <4>3, <4>4, <4>5, WriteFacts
    <3>3. QED
      BY <3>1, <3>2
  <2>3. QED
    BY <2>1, <2>2
<1>12. CASE EndWrite
  BY <1>12 DEF EndWrite
<1>13. CASE Ended \/ UNCHANGED vars
  BY <1>13 DEF Ended, vars
<1>14. QED
  BY <1>1, <1>2, <1>3, <1>4, <1>5, <1>6, <1>7, <1>8, <1>9, <1>10, <1>11, <1>12, <1>13 DEF Next

-----------------------------------------------------------------------------
(* The sources of attributes *)

\* A class or style that ExecAttr writes at once.
AtOnce(k) ==
  path = "attr" /\ k \in Merged /\ \E i \in DOMAIN tag.attrs : tag.attrs[i].key = k /\ AsText(tag.attrs[i])

\* The keys that go to the output without a value in vals.
Direct(k) == path = "text" \/ AtOnce(k)

\* How many of the sources have been asked for k.
Seen(k) ==
  CASE pc = "compile" -> 0
    [] pc = "attrs" -> at
    [] pc = "bind" -> IF \E x \in 1 .. at : KeyOrder[x] = k THEN Map ELSE Map - 1
    [] pc = "directives" -> Map + at
    [] OTHER -> Sources

\* A source that gives k a value: execBindProps leaves out what is no attribute.
Taken(s, k) == Given(s, k) /\ (path = "attr" /\ s = Map => Eligible(k))

\* A value, as the way of the tag holds it.
AsWay(k, v) == IF path = "attr" THEN AsAttr(k, v) ELSE v

\* The step sets k, which the source s gives.
Sets(k, s, a) ==
  /\ s \in 1 .. Sources /\ Taken(s, k) /\ ~ Direct(k)
  /\ \/ pc = "attrs" /\ s = at + 1 /\ s < Map
     \/ pc = "bind" /\ s = Map /\ at + 1 \in 1 .. Len(KeyOrder) /\ k = KeyOrder[at + 1]
     \/ pc = "directives" /\ s = Map + at + 1 /\ path = "props"
  /\ Set(k, AsWay(k, GivenBy(s, k)), a)
  /\ a = (Eligible(k) \/ path = "attr" \/ pc = "directives")
  /\ at' = at + 1 /\ UNCHANGED <<tag, pc, path, props, out>>

\* The sources are the attributes, the map and the directives.
LEMMA SourcesFacts ==
  ASSUME Type
  PROVE  /\ Len(tag.attrs) \in Nat /\ Map \in Nat /\ Sources \in Nat /\ Len(tag.directives) \in Nat
         /\ Map = Len(tag.attrs) + 1 /\ Sources = Map + Len(tag.directives)
         /\ tag.directives = << >> => Sources = Map
<1>1. TagType
  BY TagFacts DEF Type
<1>2. PICK m : m = Len(tag.attrs)
  OBVIOUS
<1>3. PICK n : n = Len(tag.directives)
  OBVIOUS
<1>4. m \in Nat /\ n \in Nat /\ (tag.directives = << >> => n = 0)
  BY <1>1, <1>2, <1>3 DEF TagType
<1>5. Map = m + 1 /\ Sources = m + 1 + n
  BY <1>2, <1>3 DEF Map, Sources
<1>6. /\ Map \in Nat /\ Sources \in Nat /\ Map = m + 1 /\ Sources = Map + n
      /\ n = 0 => Sources = Map
  BY <1>4, <1>5
<1>7. QED
  BY <1>2, <1>3, <1>4, <1>6, Zenon

\* What a source gives is a value, or null.
LEMMA GivenFacts ==
  ASSUME Type, NEW k \in Key, NEW s \in 1 .. Sources, Given(s, k)
  PROVE  IsValue(k, GivenBy(s, k)) /\ GivenBy(s, k) # Unset
<1>1. TagType
  BY TagFacts DEF Type
<1>2. Len(tag.attrs) \in Nat /\ Map = Len(tag.attrs) + 1 /\ Sources = Map + Len(tag.directives)
  BY SourcesFacts
<1>3. IsValue(k, GivenBy(s, k))
  <2>1. CASE s < Map
    <3>1. s \in DOMAIN tag.attrs /\ tag.attrs[s].key = k /\ GivenBy(s, k) = tag.attrs[s].val
      BY <1>1, <1>2, <2>1 DEF Given, GivenBy, TagType
    <3>2. QED
      BY <1>1, <3>1 DEF TagType
  <2>2. CASE s = Map
    <3>1. HasBind /\ Bound # Null /\ Bound[k] # Unset /\ GivenBy(s, k) = Bound[k]
      BY <1>2, <2>2 DEF Given, GivenBy
    <3>2. QED
      BY <1>1, <3>1 DEF TagType
  <2>3. CASE s > Map
    <3>1. tag.directives[s - Map].key = k /\ GivenBy(s, k) = tag.directives[s - Map].val
      BY <1>2, <2>3 DEF Given, GivenBy
    <3>2. s - Map \in DOMAIN tag.directives
      <4>1. PICK n \in Nat : n = Len(tag.directives) /\ DOMAIN tag.directives = 1 .. n
        BY <1>1 DEF TagType
      <4>2. Map \in Nat /\ Sources = Map + n /\ s > Map
        BY <1>2, <2>3, <4>1
      <4>3. QED
        BY <4>1, <4>2
    <3>3. QED
      BY <1>1, <3>1, <3>2 DEF TagType
  <2>4. QED
    BY <1>2, <2>1, <2>2, <2>3
<1>4. GivenBy(s, k) # Unset
  <2>1. CASE s < Map
    BY <1>3, ValueFacts DEF IsValue
  <2>2. QED
    BY <1>3, ValueFacts DEF IsValue
<1>5. QED
  BY <1>3, <1>4

\* So is what is made of it.
LEMMA AsWayFacts ==
  ASSUME NEW k \in Key, NEW v, IsValue(k, v), v # Unset
  PROVE  IsValue(k, AsWay(k, v)) /\ AsWay(k, v) # Unset
BY AsAttrFacts, ValueFacts DEF AsWay, IsValue

\* What the tag determines stays.
LEMMA Rigid ==
  ASSUME tag' = tag, path' = path
  PROVE  /\ Sources' = Sources /\ Map' = Map /\ HasBind' = HasBind /\ Bound' = Bound
         /\ \A s, k : Given(s, k)' <=> Given(s, k)
         /\ \A s, k : GivenBy(s, k)' = GivenBy(s, k)
         /\ \A s, k : Taken(s, k)' <=> Taken(s, k)
         /\ \A k : AtOnce(k)' <=> AtOnce(k)
         /\ \A k : Direct(k)' <=> Direct(k)
         /\ \A k, l : GivenBefore(k, l)' <=> GivenBefore(k, l)
<1>1. Sources' = Sources /\ Map' = Map /\ HasBind' = HasBind /\ Bound' = Bound
  BY DEF Sources, Map, HasBind, Bound, Root
<1>2. \A a : AsText(a)' <=> AsText(a)
  BY <1>1 DEF AsText
<1>3. \A a : Lost(a)' <=> Lost(a)
  BY <1>2 DEF Lost
<1>4. \A s, k : Given(s, k)' <=> Given(s, k)
  BY <1>1, <1>3 DEF Given
<1>5. \A s, k : GivenBy(s, k)' = GivenBy(s, k)
  BY <1>1 DEF GivenBy
<1>6. \A s, k : Taken(s, k)' <=> Taken(s, k)
  BY <1>1, <1>4 DEF Taken
<1>7. \A k : AtOnce(k)' <=> AtOnce(k)
  BY <1>2 DEF AtOnce
<1>8. \A k : Direct(k)' <=> Direct(k)
  BY <1>7 DEF Direct
<1>9. \A k, l : GivenBefore(k, l)' <=> GivenBefore(k, l)
  BY <1>1, <1>4 DEF GivenBefore
<1>10. QED
  BY <1>1, <1>4, <1>5, <1>6, <1>7, <1>8, <1>9

\* A step of the first loop: it sets the key, or it is written or left out at once, or lost.
LEMMA AttrSteps ==
  ASSUME Type, WayInv, WriteText \/ ExecProp \/ AppendProp
  PROVE  /\ pc = "attrs" /\ at' = at + 1 /\ at + 1 \in 1 .. Len(tag.attrs)
         /\ UNCHANGED <<tag, pc, path, props>>
         /\ \/ \E k \in Key, a \in BOOLEAN : Sets(k, at + 1, a)
            \/ \E k \in Key :
                 /\ Given(at + 1, k) /\ Direct(k) /\ GivenBy(at + 1, k) \in Value(k)
                 /\ UNCHANGED <<keys, shown, vals>>
                 /\ \/ Write(k, GivenBy(at + 1, k))
                    \/ out' = out /\ k \in Merged /\ GivenBy(at + 1, k) = Nothing(k)
            \/ /\ UNCHANGED <<keys, shown, vals, out>>
               /\ \A k \in Key : ~ Given(at + 1, k)
<1>1. NextAttr("text") \/ NextAttr("attr") \/ NextAttr("props")
  BY DEF WriteText, ExecProp, AppendProp
<1>2. pc = "attrs" /\ at < Len(props) /\ at' = at + 1 /\ UNCHANGED <<tag, pc, path, props>>
  BY <1>1 DEF NextAttr
<1>3. Compiled
  BY <1>2 DEF WayInv
<1>4. TagType /\ Len(tag.attrs) \in Nat /\ Map = Len(tag.attrs) + 1 /\ Sources \in Nat /\ Sources >= Map
  BY SourcesFacts, TagFacts DEF Type
<1>5. PICK k : k = Current.key
  OBVIOUS
<1>6. PICK v : v = Current.val
  OBVIOUS
<1>7. PICK s : s = at + 1
  OBVIOUS
<1>8. /\ s \in DOMAIN tag.attrs /\ k = tag.attrs[s].key /\ v = tag.attrs[s].val
      /\ Current.asText = AsText(tag.attrs[s])
      /\ k \in Key /\ IsValue(k, v) /\ v # Unset
      /\ AsText(tag.attrs[s]) => v # Null
      /\ path = "text" => v # Null
  BY <1>2, <1>3, <1>5, <1>6, <1>7, CurrentFacts
<1>9. s \in 1 .. Len(tag.attrs) /\ s < Map /\ s # Map /\ s \in 1 .. Sources
  BY <1>4, <1>8 DEF TagType
<1>10. GivenBy(s, k) = v /\ \A l \in Key : Given(s, l) <=> k = l /\ ~ Lost(tag.attrs[s])
  BY <1>8, <1>9 DEF Given, GivenBy
<1>11. CASE WriteText
  <2>1. path = "text" /\ Direct(k)
    BY <1>11 DEF WriteText, NextAttr, Direct
  <2>2. Given(s, k) /\ v \in Value(k)
    BY <1>8, <1>10, <2>1 DEF Lost, IsValue
  <2>3. UNCHANGED <<keys, shown, vals>> /\ (Write(k, v) \/ (out' = out /\ k \in Merged /\ v = Nothing(k)))
    BY <1>5, <1>6, <1>11 DEF WriteText
  <2>4. QED
    BY <1>2, <1>7, <1>8, <1>9, <1>10, <2>1, <2>2, <2>3
<1>12. CASE ExecProp
  <2>1. path = "attr"
    BY <1>12 DEF ExecProp, NextAttr
  <2>2. CASE AsText(tag.attrs[s]) /\ k \in Merged
    <3>1. Write(k, v) /\ UNCHANGED <<keys, shown, vals>>
      BY <1>5, <1>6, <1>8, <1>12, <2>2 DEF ExecProp
    <3>2. AtOnce(k)
      BY <1>8, <2>1, <2>2 DEF AtOnce
    <3>3. Given(s, k) /\ v \in Value(k) /\ Direct(k)
      BY <1>8, <1>10, <2>2, <3>2 DEF Lost, IsValue, Direct
    <3>4. QED
      BY <1>2, <1>7, <1>8, <1>9, <1>10, <3>1, <3>3
  <2>3. CASE ~ (AsText(tag.attrs[s]) /\ k \in Merged) /\ AsText(tag.attrs[s]) /\ v = ""
    <3>1. UNCHANGED <<keys, shown, vals, out>>
      BY <1>5, <1>6, <1>8, <1>12, <2>3 DEF ExecProp
    <3>2. Lost(tag.attrs[s])
      BY <1>8, <2>1, <2>3 DEF Lost
    <3>3. QED
      BY <1>2, <1>7, <1>9, <1>10, <3>1, <3>2
  <2>4. CASE ~ (AsText(tag.attrs[s]) /\ k \in Merged) /\ ~ (AsText(tag.attrs[s]) /\ v = "")
    <3>1. Set(k, AsAttr(k, v), TRUE) /\ out' = out
      BY <1>5, <1>6, <1>8, <1>12, <2>4 DEF ExecProp
    <3>2. Given(s, k)
      BY <1>8, <1>10, <2>4 DEF Lost
    <3>3. ~ AtOnce(k)
      <4>1. SUFFICES ASSUME k \in Merged, NEW i \in DOMAIN tag.attrs, tag.attrs[i].key = k,
                            AsText(tag.attrs[i])
                     PROVE  FALSE
        BY DEF AtOnce
      <4>2. ~ HasBind /\ tag.directives = << >>
            /\ \A j \in DOMAIN tag.attrs : tag.attrs[j].key = k => tag.attrs[j].static
        BY <4>1 DEF AsText
      <4>3. AsText(tag.attrs[s])
        BY <1>8, <4>2 DEF AsText
      <4>4. QED
        BY <2>4, <4>1, <4>3
    <3>4. ~ Direct(k) /\ Taken(s, k)
      BY <1>9, <2>1, <3>2, <3>3 DEF Direct, Taken
    <3>5. Set(k, AsWay(k, GivenBy(s, k)), TRUE)
      BY <1>10, <2>1, <3>1 DEF AsWay
    <3>6. Sets(k, s, TRUE)
      BY <1>2, <1>7, <1>9, <2>1, <3>1, <3>4, <3>5 DEF Sets
    <3>7. QED
      BY <1>2, <1>7, <1>8, <1>9, <3>6
  <2>5. QED
    BY <2>2, <2>3, <2>4
<1>13. CASE AppendProp
  <2>1. path = "props" /\ Set(k, v, Eligible(k)) /\ out' = out
    BY <1>5, <1>6, <1>13 DEF AppendProp, NextAttr
  <2>2. Given(s, k) /\ ~ Direct(k) /\ Taken(s, k)
    BY <1>8, <1>9, <1>10, <2>1 DEF Lost, Direct, AtOnce, Taken
  <2>3. Set(k, AsWay(k, GivenBy(s, k)), Eligible(k)) /\ Eligible(k) \in BOOLEAN
    BY <1>10, <2>1 DEF AsWay, Eligible
  <2>4. Sets(k, s, Eligible(k))
    BY <1>2, <1>7, <1>9, <2>1, <2>2, <2>3 DEF Sets
  <2>5. QED
    BY <1>2, <1>7, <1>8, <1>9, <2>3, <2>4
<1>14. QED
  BY <1>11, <1>12, <1>13

\* A step through the map sets the key, unless the map does not give it.
LEMMA BindSteps ==
  ASSUME Type, WayInv, BindNext
  PROVE  /\ pc = "bind" /\ at' = at + 1 /\ at + 1 \in 1 .. Len(KeyOrder)
         /\ HasBind /\ Bound # Null
         /\ UNCHANGED <<tag, pc, path, props, out>>
         /\ \/ \E k \in Key, a \in BOOLEAN : Sets(k, Map, a)
            \/ UNCHANGED <<keys, shown, vals>> /\ ~ Taken(Map, KeyOrder[at + 1])
<1>1. /\ pc = "bind" /\ at' = at + 1 /\ at < Len(KeyOrder) /\ HasBind /\ Bound # Null
      /\ UNCHANGED <<tag, pc, path, props, out>>
  BY DEF BindNext
<1>2. at + 1 \in 1 .. Len(KeyOrder)
  BY <1>1, KeyAssumption DEF Type
<1>3. PICK k : k = KeyOrder[at + 1]
  OBVIOUS
<1>4. k \in Key
  BY <1>2, <1>3 DEF Key
<1>5. Map \in Nat /\ Map \in 1 .. Sources
  BY SourcesFacts
<1>6. Given(Map, k) <=> Bound[k] # Unset
  BY <1>1, <1>5 DEF Given
<1>7. GivenBy(Map, k) = Bound[k]
  BY <1>5 DEF GivenBy
<1>8. CASE Bound[k] = Unset
  BY <1>1, <1>2, <1>3, <1>6, <1>8 DEF BindNext, Taken
<1>9. CASE path = "attr" /\ ~ Eligible(k) /\ Bound[k] # Unset
  <2>1. UNCHANGED <<keys, shown, vals>>
    BY <1>3, <1>9 DEF BindNext, BindKey
  <2>2. ~ Taken(Map, k)
    BY <1>9 DEF Taken
  <2>3. QED
    BY <1>1, <1>2, <1>3, <2>1, <2>2
<1>10. CASE ~ (path = "attr" /\ ~ Eligible(k)) /\ Bound[k] # Unset
  <2>1. Set(k, AsWay(k, Bound[k]), Eligible(k)) /\ Eligible(k) \in BOOLEAN
    BY <1>3, <1>10 DEF BindNext, BindKey, AsWay, Eligible
  <2>2. Taken(Map, k)
    BY <1>6, <1>10 DEF Taken
  <2>3. ~ Direct(k)
    BY <1>1 DEF WayInv, Direct, AtOnce, AsText
  <2>4. Eligible(k) <=> (Eligible(k) \/ path = "attr" \/ pc = "directives")
    BY <1>1, <1>10
  <2>5. Sets(k, Map, Eligible(k))
    BY <1>1, <1>2, <1>3, <1>5, <1>7, <2>1, <2>2, <2>3, <2>4 DEF Sets
  <2>6. QED
    BY <1>1, <1>2, <1>4, <2>1, <2>5
<1>11. QED
  BY <1>8, <1>9, <1>10

\* A step of the third loop sets what the directive appends.
LEMMA DirectiveSteps ==
  ASSUME Type, WayInv, RunDirective
  PROVE  /\ pc = "directives" /\ at' = at + 1 /\ at + 1 \in 1 .. Len(tag.directives)
         /\ UNCHANGED <<tag, pc, path, props, out>> /\ path = "props"
         /\ \E k \in Key : Sets(k, Map + at + 1, TRUE)
<1>1. /\ pc = "directives" /\ at' = at + 1 /\ at < Len(tag.directives)
      /\ UNCHANGED <<tag, pc, path, props, out>>
  BY DEF RunDirective
<1>2. path = "props"
  BY <1>1 DEF WayInv, Type
<1>3. at + 1 \in 1 .. Len(tag.directives) /\ at + 1 \in DOMAIN tag.directives
  BY <1>1, SourcesFacts, TagFacts DEF Type, TagType
<1>4. PICK d : d = tag.directives[at + 1]
  OBVIOUS
<1>5. d.key \in Key
  BY <1>3, <1>4, TagFacts DEF Type, TagType
<1>6. PICK s : s = Map + at + 1
  OBVIOUS
<1>7. Map \in Nat /\ s \in 1 .. Sources /\ s > Map /\ s # Map /\ s - Map = at + 1
  BY <1>3, <1>6, SourcesFacts, SMTT(30) DEF Type
<1>8. Given(s, d.key) /\ GivenBy(s, d.key) = d.val
  BY <1>4, <1>7 DEF Given, GivenBy
<1>9. Taken(s, d.key) /\ ~ Direct(d.key)
  BY <1>2, <1>8 DEF Taken, Direct, AtOnce
<1>10. Set(d.key, AsWay(d.key, GivenBy(s, d.key)), TRUE)
  <2>1. Set(tag.directives[at + 1].key, tag.directives[at + 1].val, TRUE)
    BY DEF RunDirective
  <2>2. AsWay(d.key, GivenBy(s, d.key)) = d.val
    BY <1>2, <1>8 DEF AsWay
  <2>3. QED
    BY <1>4, <2>1, <2>2, Zenon
<1>11. Sets(d.key, s, TRUE)
  BY <1>1, <1>2, <1>6, <1>7, <1>9, <1>10 DEF Sets
<1>12. QED
  BY <1>1, <1>2, <1>3, <1>5, <1>6, <1>11

\* A step keeps the ways and the loops.
LEMMA WayStep ==
  ASSUME Type, WayInv, [Next]_vars
  PROVE  WayInv'
<1>1. ASSUME UNCHANGED <<tag, path, props>>, pc # "compile", pc' # "compile"
      PROVE  IF pc' = "compile" THEN Fresh' ELSE Compiled'
  BY <1>1, CompiledKept DEF WayInv
<1>2. CASE Compile
  <2>1. /\ pc = "compile" /\ Fresh /\ TagType /\ pc' = "attrs"
        /\ UNCHANGED <<tag, at, keys, shown, vals, out>>
    BY <1>2, TagFacts DEF Compile, WayInv, Type
  <2>2. path' = IF CanBeStr THEN "text" ELSE IF tag.directives = << >> THEN "attr" ELSE "props"
    BY <1>2 DEF Compile
  <2>3. /\ Len(props') = Len(tag.attrs)
        /\ \A i \in DOMAIN tag.attrs :
             /\ props'[i].key = tag.attrs[i].key /\ props'[i].val = tag.attrs[i].val
             /\ props'[i].asText = AsText(tag.attrs[i])
    <3>1. PICK n \in Nat : n = Len(tag.attrs) /\ DOMAIN tag.attrs = 1 .. n
      BY <2>1 DEF TagType
    <3>2. PICK e : e = [i \in 1 .. n |-> [key |-> tag.attrs[i].key, val |-> tag.attrs[i].val,
                                          asText |-> AsText(tag.attrs[i])]]
      OBVIOUS
    <3>3. props' = e
      BY <1>2, <3>1, <3>2 DEF Compile
    <3>4. PICK S : S = {e[i] : i \in 1 .. n}
      OBVIOUS
    <3>5. e \in [1 .. n -> S]
      BY <3>2, <3>4
    <3>6. e \in Seq(S)
      BY <3>5
    <3>7. Len(e) = n
      BY <3>5, <3>6
    <3>8. QED
      BY <3>1, <3>2, <3>3, <3>7
  <2>4. CanBeStr' = CanBeStr /\ \A a : AsText(a)' = AsText(a)
    BY <2>1 DEF CanBeStr, AsText, HasBind, Bound, Root
  <2>5. Compiled'
    BY <2>1, <2>2, <2>3, <2>4 DEF Compiled
  <2>6. at' = 0 /\ keys' = << >> /\ shown' = {} /\ Len(tag'.attrs) \in Nat
    BY <2>1 DEF Fresh, TagType
  <2>7. path' \in {"text", "attr", "props"}
    BY <2>2
  <2>8. QED
    BY <2>1, <2>5, <2>6, <2>7 DEF WayInv
<1>3. ASSUME NEW k \in Key, NEW s \in 1 .. Sources, NEW a \in BOOLEAN, Sets(k, s, a)
      PROVE  /\ UNCHANGED <<tag, pc, path, props>> /\ path # "text"
             /\ \A l \in shown' : vals'[l] # Unset
  <2>1. Taken(s, k) /\ ~ Direct(k) /\ Set(k, AsWay(k, GivenBy(s, k)), a) /\ UNCHANGED <<tag, pc, path, props>>
    BY <1>3 DEF Sets
  <2>2. IsValue(k, AsWay(k, GivenBy(s, k))) /\ AsWay(k, GivenBy(s, k)) # Unset
    BY <2>1, GivenFacts, AsWayFacts DEF Taken
  <2>3. /\ shown' = IF vals[k] = Unset /\ a THEN shown \cup {k} ELSE shown
        /\ vals'[k] # Unset /\ \A l \in Key : l # k => vals'[l] = vals[l]
    BY <2>1, <2>2, SetFacts
  <2>4. ASSUME NEW l \in shown' PROVE vals'[l] # Unset
    BY <2>3, <2>4 DEF WayInv, Type
  <2>5. QED
    BY <2>1, <2>4 DEF Direct
<1>4. UNCHANGED <<tag, path>> => HasBind' = HasBind /\ Bound' = Bound
  BY Rigid
<1>5. CASE WriteText \/ ExecProp \/ AppendProp
  <2>1. /\ pc = "attrs" /\ at' = at + 1 /\ at + 1 \in 1 .. Len(tag.attrs)
        /\ UNCHANGED <<tag, pc, path, props>>
    BY <1>5, AttrSteps
  <2>2. Compiled'
    BY <1>1, <2>1
  <2>3. UNCHANGED <<keys, shown, vals>> \/ \E k \in Key, s \in 1 .. Sources, a \in BOOLEAN : Sets(k, s, a)
    <3>1. at + 1 \in 1 .. Sources
      BY <2>1, SourcesFacts
    <3>2. QED
      BY <1>5, <3>1, AttrSteps
  <2>4. (\A l \in shown' : vals'[l] # Unset) /\ (path = "text" => keys' = << >>)
    BY <1>3, <2>3 DEF WayInv
  <2>5. QED
    BY <2>1, <2>2, <2>4 DEF WayInv, Type
<1>6. CASE EndAttrs
  <2>1. /\ pc = "attrs" /\ pc' = (IF path = "text" THEN "done" ELSE "bind") /\ at' = 0
        /\ UNCHANGED <<tag, path, props, keys, shown, vals, out>>
    BY <1>6 DEF EndAttrs
  <2>2. Compiled'
    BY <1>1, <2>1
  <2>3. path = "text" => Len(keys') = 0
    BY <2>1 DEF WayInv
  <2>4. 0 <= Len(KeyOrder)
    BY KeyAssumption
  <2>5. QED
    BY <2>1, <2>2, <2>3, <2>4 DEF WayInv, Type
<1>7. CASE BindNext
  <2>1. /\ pc = "bind" /\ at' = at + 1 /\ at + 1 \in 1 .. Len(KeyOrder)
        /\ HasBind /\ Bound # Null /\ UNCHANGED <<tag, pc, path, props, out>>
    BY <1>7, BindSteps
  <2>2. Compiled' /\ HasBind' /\ Bound' # Null
    BY <1>1, <1>4, <2>1
  <2>3. UNCHANGED <<keys, shown, vals>> \/ \E k \in Key, s \in 1 .. Sources, a \in BOOLEAN : Sets(k, s, a)
    BY <1>7, BindSteps, SourcesFacts
  <2>4. \A l \in shown' : vals'[l] # Unset
    BY <1>3, <2>3 DEF WayInv
  <2>5. QED
    BY <2>1, <2>2, <2>4 DEF WayInv, Type
<1>8. CASE PanicOnNull
  <2>1. /\ pc = "bind" /\ pc' = "panic" /\ path = "props"
        /\ UNCHANGED <<tag, path, props, keys, shown, vals, out>>
    BY <1>8 DEF PanicOnNull
  <2>2. Compiled'
    BY <1>1, <2>1
  <2>3. QED
    BY <2>1, <2>2 DEF WayInv, Type
<1>9. CASE EndBind
  <2>1. /\ pc = "bind" /\ pc' = (IF path = "attr" THEN "write" ELSE "directives") /\ at' = 0
        /\ UNCHANGED <<tag, path, props, keys, shown, vals, out>>
    BY <1>9 DEF EndBind
  <2>2. Compiled'
    BY <1>1, <2>1
  <2>3. 0 <= Len(tag'.directives) /\ 0 <= Len(keys')
    BY <2>1, SourcesFacts DEF Type
  <2>4. QED
    BY <2>1, <2>2, <2>3 DEF WayInv, Type
<1>10. CASE RunDirective
  <2>1. /\ pc = "directives" /\ at' = at + 1 /\ at + 1 \in 1 .. Len(tag.directives)
        /\ UNCHANGED <<tag, pc, path, props, out>> /\ path = "props"
    BY <1>10, DirectiveSteps
  <2>2. Compiled'
    BY <1>1, <2>1
  <2>3. PICK k \in Key, s \in 1 .. Sources : Sets(k, s, TRUE)
    <3>1. Map + at + 1 \in 1 .. Sources
      BY <2>1, SourcesFacts DEF Type
    <3>2. QED
      BY <1>10, <3>1, DirectiveSteps
  <2>4. \A l \in shown' : vals'[l] # Unset
    BY <1>3, <2>3
  <2>5. QED
    BY <2>1, <2>2, <2>4 DEF WayInv, Type
<1>11. CASE EndDirectives
  <2>1. /\ pc = "directives" /\ pc' = "write" /\ at' = 0
        /\ UNCHANGED <<tag, path, props, keys, shown, vals, out>>
    BY <1>11 DEF EndDirectives
  <2>2. Compiled'
    BY <1>1, <2>1
  <2>3. 0 <= Len(keys')
    BY <2>1 DEF Type
  <2>4. QED
    BY <2>1, <2>2, <2>3 DEF WayInv, Type
<1>12. CASE WriteKey
  <2>1. /\ pc = "write" /\ at < Len(keys) /\ at' = at + 1
        /\ UNCHANGED <<tag, pc, path, props, keys, shown, vals>>
    BY <1>12 DEF WriteKey
  <2>2. Compiled' /\ at' <= Len(keys')
    BY <1>1, <2>1 DEF Type
  <2>3. QED
    BY <2>1, <2>2 DEF WayInv, Type
<1>13. CASE EndWrite
  <2>1. /\ pc = "write" /\ at = Len(keys) /\ pc' = "done"
        /\ UNCHANGED <<tag, path, props, at, keys, shown, vals, out>>
    BY <1>13 DEF EndWrite
  <2>2. Compiled'
    BY <1>1, <2>1
  <2>3. QED
    BY <2>1, <2>2 DEF WayInv, Type
<1>14. CASE Ended \/ UNCHANGED vars
  <2>1. UNCHANGED vars
    BY <1>14 DEF Ended
  <2>2. CASE pc = "compile"
    BY <2>1, <2>2 DEF WayInv, Fresh, vars, HasBind, Bound, Root
  <2>3. CASE pc # "compile"
    <3>1. Compiled' /\ HasBind' = HasBind /\ Bound' = Bound
      BY <1>1, <1>4, <2>1, <2>3 DEF vars
    <3>2. QED
      BY <2>1, <2>3, <3>1 DEF WayInv, vars
  <2>4. QED
    BY <2>2, <2>3
<1>15. QED
  BY <1>2, <1>5, <1>6, <1>7, <1>8, <1>9, <1>10, <1>11, <1>12, <1>13, <1>14 DEF Next

\* The types, and what each way comes to, hold in every state.
LEMMA TypeInvariance == Spec => [](Type /\ WayInv)
<1>1. Init => Type /\ WayInv
  <2> SUFFICES ASSUME Init PROVE Type /\ WayInv
    OBVIOUS
  <2>1. Type
    BY DEF Init, Type
  <2>2. WayInv
    BY DEF Init, WayInv, Fresh
  <2>3. QED
    BY <2>1, <2>2
<1>2. Type /\ WayInv /\ [Next]_vars => (Type /\ WayInv)'
  BY TypeStep, WayStep
<1>3. QED
  BY <1>1, <1>2, PTL DEF Spec

-----------------------------------------------------------------------------
(* Data does not get into the html *)

\* The tag or one of its directives gives k, with a value that is written as v.
Written(k, v) ==
  \E x \in {tag.attrs[j] : j \in DOMAIN tag.attrs} \cup {tag.directives[j] : j \in DOMAIN tag.directives} :
    x.key = k /\ Same(k, v, x.val)

\* A name that is no attribute has its value from the tag, or, on the way through Props,
\* where it may have that of data, is shown only if a directive has given it first.
DataInv ==
  \A k \in Key : ~ Eligible(k) =>
    /\ path = "attr" /\ vals[k] # Unset =>
         \E j \in DOMAIN tag.attrs : tag.attrs[j].key = k /\ vals[k] = AsAttr(k, tag.attrs[j].val)
    /\ path = "props" /\ k \in shown =>
         /\ pc \notin {"attrs", "bind"}
         /\ \E j \in DOMAIN tag.directives : tag.directives[j].key = k /\ vals[k] = tag.directives[j].val

\* A key that is set keeps data out of it.
LEMMA DataSets ==
  ASSUME Type, WayInv, DataInv, NEW k \in Key, NEW s, NEW a \in BOOLEAN, Sets(k, s, a)
  PROVE  DataInv'
<1>1. /\ s \in 1 .. Sources /\ Taken(s, k) /\ Set(k, AsWay(k, GivenBy(s, k)), a)
      /\ a = (Eligible(k) \/ path = "attr" \/ pc = "directives")
      /\ UNCHANGED <<tag, pc, path, props, out>>
  BY DEF Sets
<1>2. PICK v : v = AsWay(k, GivenBy(s, k))
  OBVIOUS
<1>3. IsValue(k, v) /\ v # Unset /\ Given(s, k)
  BY <1>1, <1>2, GivenFacts, AsWayFacts DEF Taken
<1>4. /\ shown' = IF vals[k] = Unset /\ a THEN shown \cup {k} ELSE shown
      /\ vals'[k] = IF vals[k] = Unset THEN v
                    ELSE Join(k, IF vals[k] = Null THEN Nothing(k) ELSE vals[k], v)
      /\ \A l \in Key : l # k => vals'[l] = vals[l]
  BY <1>1, <1>2, <1>3, SetFacts
<1>5. Map \in Nat /\ Len(tag.attrs) \in Nat /\ Map = Len(tag.attrs) + 1
      /\ DOMAIN tag.attrs = 1 .. Len(tag.attrs)
      /\ Len(tag.directives) \in Nat /\ Sources = Map + Len(tag.directives)
      /\ DOMAIN tag.directives = 1 .. Len(tag.directives)
  BY SourcesFacts, TagFacts DEF Type, TagType
<1>6. ASSUME NEW l \in Key, ~ Eligible(l), path = "attr", vals'[l] # Unset
      PROVE  \E j \in DOMAIN tag.attrs : tag.attrs[j].key = l /\ vals'[l] = AsAttr(l, tag.attrs[j].val)
  <2>1. CASE l # k
    BY <1>4, <1>6, <2>1 DEF DataInv
  <2>2. CASE l = k
    <3>1. k \notin Merged
      BY <1>6, <2>2 DEF Eligible
    <3>2. vals'[k] = AsAttr(k, GivenBy(s, k))
      BY <1>2, <1>4, <1>6, <3>1, ValueFacts DEF AsWay
    <3>3. s < Map
      BY <1>5, <1>6, <2>2, <1>1 DEF Sets, Taken
    <3>4. s \in DOMAIN tag.attrs /\ tag.attrs[s].key = k /\ GivenBy(s, k) = tag.attrs[s].val
      BY <1>1, <1>3, <1>5, <3>3 DEF Given, GivenBy
    <3>5. QED
      BY <2>2, <3>2, <3>4
  <2>3. QED
    BY <2>1, <2>2
<1>7. ASSUME NEW l \in Key, ~ Eligible(l), path = "props", l \in shown'
      PROVE  /\ pc \notin {"attrs", "bind"}
             /\ \E j \in DOMAIN tag.directives :
                  tag.directives[j].key = l /\ vals'[l] = tag.directives[j].val
  <2>1. CASE l # k
    BY <1>4, <1>7, <2>1 DEF DataInv
  <2>2. CASE l = k
    <3>1. k \notin Merged
      BY <1>7, <2>2 DEF Eligible
    <3>2. pc = "directives" /\ s > Map
      <4>1. pc = "directives"
        <5>1. CASE k \in shown
          BY <1>7, <2>2, <5>1 DEF DataInv, Sets
        <5>2. CASE k \notin shown
          BY <1>1, <1>4, <1>7, <2>2, <5>2
        <5>3. QED
          BY <5>1, <5>2
      <4>2. s = Map + at + 1
        BY <4>1 DEF Sets
      <4>3. QED
        BY <1>5, <4>1, <4>2 DEF Type
    <3>3. vals'[k] = GivenBy(s, k)
      BY <1>2, <1>4, <1>7, <3>1, ValueFacts DEF AsWay
    <3>4. PICK j : j = s - Map
      OBVIOUS
    <3>5. j \in DOMAIN tag.directives
      <4>1. PICK m : m = Map
        OBVIOUS
      <4>2. PICK n : n = Len(tag.directives)
        OBVIOUS
      <4>3. m \in Nat /\ n \in Nat /\ s \in 1 .. m + n /\ s > m /\ j = s - m
        BY <1>1, <1>5, <3>2, <3>4, <4>1, <4>2
      <4>4. j \in 1 .. n
        BY <4>3
      <4>5. QED
        BY <1>5, <4>2, <4>4
    <3>6. tag.directives[j].key = k /\ GivenBy(s, k) = tag.directives[j].val
      BY <1>1, <1>3, <1>5, <3>2, <3>4 DEF Given, GivenBy
    <3>7. QED
      BY <2>2, <3>2, <3>3, <3>5, <3>6
  <2>3. QED
    BY <2>1, <2>2
<1>8. QED
  BY <1>1, <1>6, <1>7 DEF DataInv

\* A step keeps data out of what is shown.
LEMMA DataStep ==
  ASSUME Type, WayInv, DataInv, [Next]_vars
  PROVE  DataInv'
<1>1. ASSUME NEW k \in Key, NEW s, NEW a \in BOOLEAN, Sets(k, s, a) PROVE DataInv'
  BY <1>1, DataSets
<1>2. CASE /\ UNCHANGED <<tag, path, shown, vals>>
           /\ path = "props" => pc' \notin {"attrs", "bind"} \/ pc \in {"attrs", "bind"}
  BY <1>2 DEF DataInv
<1>3. CASE Compile
  <2>1. UNCHANGED <<tag, shown, vals>> /\ Fresh
    BY <1>3 DEF Compile, WayInv
  <2>2. QED
    BY <2>1 DEF DataInv, Fresh
<1>4. CASE WriteText \/ ExecProp \/ AppendProp
  <2>1. \/ \E k \in Key, a \in BOOLEAN : Sets(k, at + 1, a)
        \/ UNCHANGED <<tag, pc, path, shown, vals>>
    BY <1>4, AttrSteps
  <2>2. QED
    BY <1>1, <1>2, <2>1
<1>5. CASE BindNext
  <2>1. \/ \E k \in Key, a \in BOOLEAN : Sets(k, Map, a)
        \/ UNCHANGED <<tag, pc, path, shown, vals>>
    BY <1>5, BindSteps
  <2>2. QED
    BY <1>1, <1>2, <2>1
<1>6. CASE RunDirective
  <2>1. \E k \in Key : Sets(k, Map + at + 1, TRUE)
    BY <1>6, DirectiveSteps
  <2>2. QED
    BY <1>1, <2>1
<1>7. CASE EndAttrs
  BY <1>2, <1>7 DEF EndAttrs
<1>8. CASE PanicOnNull
  BY <1>2, <1>8 DEF PanicOnNull
<1>9. CASE EndBind
  BY <1>2, <1>9 DEF EndBind
<1>10. CASE EndDirectives
  BY <1>2, <1>10 DEF EndDirectives
<1>11. CASE WriteKey
  BY <1>2, <1>11 DEF WriteKey
<1>12. CASE EndWrite
  BY <1>2, <1>12 DEF EndWrite
<1>13. CASE Ended \/ UNCHANGED vars
  BY <1>2, <1>13 DEF Ended, vars
<1>14. QED
  BY <1>3, <1>4, <1>5, <1>6, <1>7, <1>8, <1>9, <1>10, <1>11, <1>12, <1>13 DEF Next

\* A step writes nothing but what is shown or the author has written.
LEMMA OutputStep ==
  ASSUME Type, WayInv, DataInv, DataStaysInside, [Next]_vars
  PROVE  DataStaysInside'
<1>1. \A i \in DOMAIN out : ~ Eligible(out[i].key) => Written(out[i].key, out[i].val)
  BY DEF DataStaysInside, Written
<1>2. tag' = tag
  BY DEF Next, Compile, WriteText, ExecProp, AppendProp, NextAttr, EndAttrs, BindNext, PanicOnNull, EndBind,
         RunDirective, EndDirectives, WriteKey, EndWrite, Ended, vars
<1>3. \A k, v : Written(k, v)' = Written(k, v)
  BY <1>2 DEF Written
<1>4. SUFFICES \A i \in DOMAIN out' : ~ Eligible(out'[i].key) => Written(out'[i].key, out'[i].val)
  BY <1>3 DEF DataStaysInside, Written
<1>5. CASE out' = out
  BY <1>1, <1>5
<1>6. ASSUME NEW k \in Key, NEW v \in Value(k), Write(k, v), ~ Eligible(k) => Written(k, v)
      PROVE  \A i \in DOMAIN out' : ~ Eligible(out'[i].key) => Written(out'[i].key, out'[i].val)
  <2>1. /\ out'[Len(out) + 1].key = k /\ out'[Len(out) + 1].val = v
        /\ \A i \in DOMAIN out : i \in DOMAIN out' /\ out'[i] = out[i]
        /\ DOMAIN out' = DOMAIN out \cup {Len(out) + 1}
    BY <1>6, WriteFacts DEF Type
  <2>2. QED
    BY <1>1, <1>6, <2>1
<1>7. CASE WriteText \/ ExecProp \/ AppendProp
  <2>1. CASE out' = out
    BY <1>5, <2>1
  <2>2. CASE out' # out
    <3>1. PICK k \in Key : /\ Given(at + 1, k) /\ Direct(k) /\ GivenBy(at + 1, k) \in Value(k)
                           /\ Write(k, GivenBy(at + 1, k))
      BY <1>7, <2>2, AttrSteps DEF Sets
    <3>2. at + 1 \in 1 .. Len(tag.attrs)
      BY <1>7, AttrSteps
    <3>3. at + 1 \in DOMAIN tag.attrs /\ tag.attrs[at + 1].key = k /\ GivenBy(at + 1, k) = tag.attrs[at + 1].val
      BY <3>1, <3>2, SourcesFacts, TagFacts DEF Type, TagType, Given, GivenBy
    <3>4. Same(k, GivenBy(at + 1, k), tag.attrs[at + 1].val)
      BY <3>1, <3>3, ValueFacts DEF Same
    <3>5. Written(k, GivenBy(at + 1, k))
      BY <3>3, <3>4 DEF Written
    <3>6. QED
      BY <1>6, <3>1, <3>5
  <2>3. QED
    BY <2>1, <2>2
<1>8. CASE WriteKey
  <2>1. CASE out' = out
    BY <1>5, <2>1
  <2>2. CASE out' # out
    <3>1. PICK k : k = keys[at + 1]
      OBVIOUS
    <3>2. PICK v : v = IF vals[k] = Null THEN Nothing(k) ELSE vals[k]
      OBVIOUS
    <3>3. k \in Key /\ k \in shown /\ vals[k] # Unset /\ pc = "write"
      <4>1. k \in Key
        BY <1>8, <3>1 DEF WriteKey, Type
      <4>2. k \in shown /\ pc = "write"
        BY <1>8, <2>2, <3>1 DEF WriteKey
      <4>3. QED
        BY <4>1, <4>2 DEF WayInv
    <3>4. v \in Value(k)
      BY <3>2, <3>3, ValueFacts DEF IsValue, Type
    <3>5. Write(k, v)
      BY <1>8, <2>2, <3>1, <3>2 DEF WriteKey
    <3>6. ASSUME ~ Eligible(k) PROVE Written(k, v)
      <4>1. k \notin Merged
        BY <3>6 DEF Eligible
      <4>2. CASE path = "attr"
        <5>1. PICK j \in DOMAIN tag.attrs : tag.attrs[j].key = k /\ vals[k] = AsAttr(k, tag.attrs[j].val)
          BY <3>3, <3>6, <4>2 DEF DataInv
        <5>2. IsValue(k, tag.attrs[j].val)
          BY <5>1, TagFacts DEF Type, TagType
        <5>3. Same(k, v, tag.attrs[j].val)
          BY <3>2, <3>3, <4>1, <5>1, <5>2, AsAttrFacts, ValueFacts DEF Same, IsValue
        <5>4. QED
          BY <5>1, <5>3 DEF Written
      <4>3. CASE path = "props"
        <5>1. PICK j \in DOMAIN tag.directives : tag.directives[j].key = k /\ vals[k] = tag.directives[j].val
          BY <3>3, <3>6, <4>3 DEF DataInv
        <5>2. Same(k, v, tag.directives[j].val)
          BY <3>2, <5>1 DEF Same
        <5>3. QED
          BY <5>1, <5>2 DEF Written
      <4>4. QED
        BY <3>3, <4>2, <4>3 DEF Type, WayInv
    <3>7. QED
      BY <1>6, <3>3, <3>4, <3>5, <3>6
  <2>3. QED
    BY <2>1, <2>2
<1>9. CASE Compile \/ EndAttrs \/ BindNext \/ PanicOnNull \/ EndBind \/ RunDirective \/ EndDirectives
           \/ EndWrite \/ Ended \/ UNCHANGED vars
  BY <1>5, <1>9 DEF Compile, EndAttrs, BindNext, PanicOnNull, EndBind, RunDirective, EndDirectives, EndWrite,
                    Ended, vars
<1>10. QED
  BY <1>7, <1>8, <1>9 DEF Next

\* The props of a call and the map of a v-bind come into the html under the names of
\* attributes only (CanBeAttrsKey), on all three ways and for any tag: what is written under
\* another name is what the template or a directive gives for it.
THEOREM DataIsNotShown == Spec => []DataStaysInside
<1>1. Init => DataInv /\ DataStaysInside
  BY DEF Init, DataInv, DataStaysInside
<1>2. Type /\ WayInv /\ DataInv /\ DataStaysInside /\ [Next]_vars => (DataInv /\ DataStaysInside)'
  BY DataStep, OutputStep
<1>3. QED
  BY <1>1, <1>2, TypeInvariance, PTL DEF Spec

-----------------------------------------------------------------------------
(* What the sources give, put together *)

\* As HTML wants it: an attribute is written once, and bound once.
AttributesOnce ==
  \A t \in Tags : \A i, j \in DOMAIN t.attrs :
    t.attrs[i].key = t.attrs[j].key /\ t.attrs[i].static = t.attrs[j].static => i = j

\* f is Joined(k).
Folds(f, k) ==
  f = [i \in 0 .. Sources |->
         IF i = 0 THEN Nothing(k)
         ELSE IF Given(i, k) THEN Join(k, f[i - 1], GivenBy(i, k)) ELSE f[i - 1]]

\* What such a function says of each source.
LEMMA FoldFacts ==
  ASSUME Type, NEW k, NEW f, Folds(f, k)
  PROVE  /\ f[0] = Nothing(k)
         /\ \A s \in 1 .. Sources :
              f[s] = IF Given(s, k) THEN Join(k, f[s - 1], GivenBy(s, k)) ELSE f[s - 1]
<1>1. PICK n \in Nat : n = Sources
  BY SourcesFacts
<1>2. f = [i \in 0 .. n |-> IF i = 0 THEN Nothing(k)
                            ELSE IF Given(i, k) THEN Join(k, f[i - 1], GivenBy(i, k)) ELSE f[i - 1]]
  BY <1>1 DEF Folds
<1>3. f[0] = Nothing(k)
  BY <1>2
<1>4. ASSUME NEW s \in 1 .. n
      PROVE  f[s] = IF Given(s, k) THEN Join(k, f[s - 1], GivenBy(s, k)) ELSE f[s - 1]
  BY <1>2
<1>5. QED
  BY <1>1, <1>3, <1>4

\* There is such a function: the first number of sources without one has none in front of it.
LEMMA JoinedFolds ==
  ASSUME Type, NEW k
  PROVE  Folds(Joined(k), k)
<1> DEFINE Upto(f, n) ==
      f = [i \in 0 .. n |-> IF i = 0 THEN Nothing(k)
                            ELSE IF Given(i, k) THEN Join(k, f[i - 1], GivenBy(i, k)) ELSE f[i - 1]]
           Bad == {n \in Nat : ~ \E f : Upto(f, n)}
<1>1. Bad = {}
  <2>1. SUFFICES ASSUME Bad # {} PROVE FALSE
    OBVIOUS
  <2>2. Bad \in SUBSET Nat
    OBVIOUS
  <2>3. PICK n \in Bad : \A m \in Nat : <<m, n>> \in OpToRel(<, Nat) => m \notin Bad
    BY <2>1, <2>2, WFMin, NatLessThanWellFounded, Zenon
  <2>4. \A m \in Nat : m < n => m \notin Bad
    BY <2>3 DEF OpToRel
  <2>5. CASE n = 0
    <3>1. PICK f : f = [i \in 0 .. 0 |-> Nothing(k)]
      OBVIOUS
    <3>2. Upto(f, 0)
      BY <3>1
    <3>3. QED
      BY <2>3, <2>5, <3>2
  <2>6. CASE n # 0
    <3>1. n \in Nat /\ n - 1 \in Nat /\ n - 1 < n
      <4>1. n \in Nat
        BY <2>2, <2>3, Zenon
      <4>2. QED
        BY ONLY <4>1, <2>6
    <3>2. PICK f : Upto(f, n - 1)
      BY <2>4, <3>1
    <3>3. PICK v : v = IF Given(n, k) THEN Join(k, f[n - 1], GivenBy(n, k)) ELSE f[n - 1]
      OBVIOUS
    <3>4. PICK g : g = [i \in 0 .. n |-> IF i = n THEN v ELSE f[i]]
      OBVIOUS
    <3>5. \A i \in 0 .. n - 1 : g[i] = f[i]
      BY <3>1, <3>4
    <3>6. g[n] = v
      BY <3>1, <3>4
    <3>7. ASSUME NEW i \in 0 .. n
          PROVE  g[i] = IF i = 0 THEN Nothing(k)
                        ELSE IF Given(i, k) THEN Join(k, g[i - 1], GivenBy(i, k)) ELSE g[i - 1]
      <4>1. CASE i = n
        <5>1. g[i - 1] = f[n - 1] /\ i # 0
          BY <2>6, <3>1, <3>5, <4>1
        <5>2. QED
          BY <3>3, <3>6, <4>1, <5>1
      <4>2. CASE i # n
        <5>1. i \in 0 .. n - 1 /\ g[i] = f[i]
          BY <3>1, <3>5, <4>2
        <5>2. f[i] = IF i = 0 THEN Nothing(k)
                     ELSE IF Given(i, k) THEN Join(k, f[i - 1], GivenBy(i, k)) ELSE f[i - 1]
          BY <3>2, <5>1
        <5>3. i # 0 => g[i - 1] = f[i - 1]
          BY <3>1, <3>5, <5>1
        <5>4. QED
          BY <5>1, <5>2, <5>3
      <4>3. QED
        BY <4>1, <4>2
    <3>8. Upto(g, n)
      <4>1. g = [i \in 0 .. n |-> g[i]]
        BY <3>4
      <4>2. [i \in 0 .. n |-> g[i]] =
              [i \in 0 .. n |-> IF i = 0 THEN Nothing(k)
                                ELSE IF Given(i, k) THEN Join(k, g[i - 1], GivenBy(i, k)) ELSE g[i - 1]]
        BY <3>7
      <4>3. QED
        BY <4>1, <4>2
    <3>9. QED
      BY <2>3, <3>8
  <2>7. QED
    BY <2>5, <2>6
<1>2. PICK f : Upto(f, Sources)
  BY <1>1, SourcesFacts
<1>3. Folds(f, k)
  BY <1>2 DEF Folds
<1>4. Joined(k) = CHOOSE g : Folds(g, k)
  BY DEF Joined, Folds
<1>5. QED
  BY <1>3, <1>4

\* What the sources give stays.
LEMMA FoldsKept ==
  ASSUME tag' = tag, path' = path
  PROVE  \A f, k : Folds(f, k)' <=> Folds(f, k)
BY Rigid DEF Folds

\* A key that is written at once is given by one static attribute.
LEMMA DirectFacts ==
  ASSUME Type, Compiled, AttributesOnce, NEW k \in Key, Direct(k)
  PROVE  /\ \A s \in 1 .. Sources : Given(s, k) => s < Map
         /\ \A s, r \in 1 .. Sources : Given(s, k) /\ Given(r, k) => s = r
         /\ Sources = Map
<1>1. /\ ~ HasBind /\ tag.directives = << >>
      /\ \A i \in DOMAIN tag.attrs : tag.attrs[i].key = k => tag.attrs[i].static
  <2>1. CASE path = "text"
    BY <2>1 DEF Compiled, CanBeStr
  <2>2. CASE AtOnce(k)
    BY <2>2 DEF AtOnce, AsText
  <2>3. QED
    BY <2>1, <2>2 DEF Direct
<1>2. /\ Map \in Nat /\ Len(tag.attrs) \in Nat /\ Map = Len(tag.attrs) + 1 /\ Sources = Map
      /\ DOMAIN tag.attrs = 1 .. Len(tag.attrs)
  BY <1>1, SourcesFacts, TagFacts DEF Type, TagType
<1>3. ASSUME NEW s \in 1 .. Sources, Given(s, k)
      PROVE  s < Map /\ s \in DOMAIN tag.attrs /\ tag.attrs[s].key = k /\ tag.attrs[s].static
  <2>1. s # Map
    BY <1>1, <1>2, <1>3 DEF Given
  <2>2. s < Map /\ s \in DOMAIN tag.attrs
    BY <1>2, <2>1
  <2>3. QED
    BY <1>1, <1>3, <2>2 DEF Given
<1>4. ASSUME NEW s \in 1 .. Sources, NEW r \in 1 .. Sources, Given(s, k), Given(r, k) PROVE s = r
  <2>1. /\ s \in DOMAIN tag.attrs /\ tag.attrs[s].key = k /\ tag.attrs[s].static
        /\ r \in DOMAIN tag.attrs /\ tag.attrs[r].key = k /\ tag.attrs[r].static
    BY <1>3, <1>4
  <2>2. tag.attrs[s].static = tag.attrs[r].static
    BY <2>1, TagFacts DEF Type, TagType
  <2>3. QED
    BY <2>1, <2>2 DEF AttributesOnce, Type
<1>5. QED
  BY <1>2, <1>3, <1>4

-----------------------------------------------------------------------------
(* The keys and their values *)

\* What the value of k in vals says of v, its value put together: null adds nothing to a class
\* or style, and ExecAttr has a text for it.
Means(k, v) ==
  IF vals[k] = Unset THEN v = Nothing(k)
  ELSE IF path = "attr" THEN vals[k] = AsAttr(k, v) /\ vals[k] # Null /\ (k \in Merged => v # Null)
  ELSE IF vals[k] = Null THEN v = IF k \in Merged THEN Nothing(k) ELSE Null
  ELSE v = vals[k]

\* The keys are those that some source has given, in the order in which that was first.
KeysInv ==
  /\ \A x, y \in DOMAIN keys : keys[x] = keys[y] => x = y
  /\ \A x \in DOMAIN keys : vals[keys[x]] # Unset
  /\ \A k \in Key : vals[k] # Unset => \E x \in DOMAIN keys : keys[x] = k
  /\ \A k \in Key : vals[k] # Unset => ~ Direct(k) /\ (Eligible(k) => k \in shown)
  /\ \A k \in Key : vals[k] # Unset => \E s \in 1 .. Seen(k) : Given(s, k)
  /\ \A k \in Key : ~ Direct(k) => \A s \in 1 .. Seen(k) : Taken(s, k) => vals[k] # Unset
  /\ \A x, y \in DOMAIN keys : x < y => GivenBefore(keys[x], keys[y])

\* Their values are put together from the sources that have been asked.
PutTogether(k) == \A f : Folds(f, k) => Means(k, f[Seen(k)])

\* So it is for every key that may be an attribute and is not written at once.
ValsInv == \A k \in Key : Eligible(k) /\ ~ Direct(k) => PutTogether(k)

\* The step asks at most one source for k, and gets nothing.
Passes(k) ==
  \/ Seen(k)' = Seen(k)
  \/ Seen(k)' = Seen(k) + 1 /\ Seen(k)' \in 1 .. Sources /\ ~ Taken(Seen(k)', k)

\* Where the loops are among the sources.
LEMMA Bounds ==
  ASSUME Type, WayInv
  PROVE  /\ Map \in Nat /\ Sources \in Nat /\ at \in Nat /\ 1 <= Map /\ Map <= Sources
         /\ tag.directives = << >> => Sources = Map
         /\ pc = "attrs" => at < Map
         /\ pc = "attrs" /\ at = Len(props) => at = Map - 1
         /\ pc = "directives" => Map + at <= Sources
         /\ pc = "directives" /\ at = Len(tag.directives) => Map + at = Sources
<1>1. PICK m : m = Len(tag.attrs)
  OBVIOUS
<1>2. PICK n : n = Len(tag.directives)
  OBVIOUS
<1>3. PICK a : a = at
  OBVIOUS
<1>4. m \in Nat /\ n \in Nat /\ a \in Nat /\ Map = m + 1 /\ Sources = Map + n
  BY <1>1, <1>2, <1>3, SourcesFacts DEF Type
<1>5. pc = "attrs" => a <= m
  BY <1>1, <1>3 DEF WayInv
<1>6. pc = "attrs" /\ a = Len(props) => a = m
  BY <1>1, <1>3 DEF WayInv, Compiled
<1>7. pc = "directives" => a <= n
  BY <1>2, <1>3 DEF WayInv
<1>8. Map \in Nat /\ Sources \in Nat /\ 1 <= Map /\ Map <= Sources
  BY <1>4
<1>9. (pc = "attrs" => a < Map) /\ (pc = "attrs" /\ a = Len(props) => a = Map - 1)
  BY <1>4, <1>5, <1>6
<1>10. (pc = "directives" => Map + a <= Sources) /\ (a = n => Map + a = Sources)
  BY <1>4, <1>7
<1>11. tag.directives = << >> => Sources = Map
  BY SourcesFacts
<1>12. QED
  BY <1>2, <1>3, <1>4, <1>8, <1>9, <1>10, <1>11, Zenon

\* No more sources are asked than there are.
LEMMA SeenFacts ==
  ASSUME Type, WayInv, NEW k
  PROVE  Seen(k) \in 0 .. Sources
<1>1. /\ Map \in Nat /\ Sources \in Nat /\ at \in Nat /\ 1 <= Map /\ Map <= Sources
      /\ pc = "attrs" => at < Map
      /\ pc = "directives" => Map + at <= Sources
  BY Bounds
<1>2. \/ Seen(k) = 0
      \/ pc = "attrs" /\ Seen(k) = at
      \/ Seen(k) = Map
      \/ Seen(k) = Map - 1
      \/ pc = "directives" /\ Seen(k) = Map + at
      \/ Seen(k) = Sources
  BY DEF Seen
<1>3. QED
  BY <1>1, <1>2

\* The source of a step is the next for the key that is set, and passes the others.
LEMMA SeenSets ==
  ASSUME Type, WayInv, NEW k \in Key, NEW s, NEW a, Sets(k, s, a)
  PROVE  /\ s = Seen(k) + 1 /\ Seen(k)' = s
         /\ \A l \in Key : l # k => Passes(l)
         /\ path = "attr" => s <= Map
         /\ \A l \in Key : \/ Seen(l) = Seen(k)
                           \/ /\ s = Map /\ Seen(l) = Map
                              /\ \E x, y \in DOMAIN KeyOrder : x < y /\ KeyOrder[x] = l /\ KeyOrder[y] = k
<1>1. Map \in Nat /\ Sources \in Nat /\ 1 <= Map /\ Map <= Sources
  BY Bounds
<1>2. /\ s \in 1 .. Sources /\ Taken(s, k) /\ at' = at + 1 /\ tag' = tag /\ pc' = pc /\ path' = path
  BY DEF Sets
<1>3. Map' = Map
  BY <1>2, Rigid
<1>4. at \in Nat
  BY DEF Type
<1>5. CASE pc = "attrs"
  <2>1. s = at + 1 /\ s < Map
    BY <1>5 DEF Sets
  <2>2. \A l : Seen(l) = at /\ Seen(l)' = at + 1
    BY <1>2, <1>5 DEF Seen
  <2>3. \A l : Given(s, l) => l = k
    BY <1>2, <2>1 DEF Taken, Given
  <2>4. \A l \in Key : l # k => Passes(l)
    BY <1>2, <2>1, <2>2, <2>3 DEF Passes, Taken
  <2>5. QED
    BY <1>1, <2>1, <2>2, <2>4
<1>6. CASE pc = "directives"
  <2>1. s = Map + at + 1 /\ path = "props"
    BY <1>6 DEF Sets
  <2>2. \A l : Seen(l) = Map + at /\ Seen(l)' = Map + (at + 1)
    BY <1>2, <1>3, <1>6 DEF Seen
  <2>3. s > Map /\ s # Map /\ s = Map + (at + 1)
    BY <1>1, <1>4, <2>1
  <2>4. \A l : Given(s, l) => l = k
    BY <1>1, <1>2, <2>3 DEF Taken, Given
  <2>5. \A l \in Key : l # k => Passes(l)
    BY <1>1, <1>2, <1>4, <2>1, <2>2, <2>3, <2>4 DEF Passes, Taken
  <2>6. Seen(k) = Map + at /\ Seen(k)' = s
    BY <2>2, <2>3
  <2>7. QED
    BY <1>1, <1>4, <2>1, <2>2, <2>3, <2>5, <2>6
<1>7. CASE pc = "bind"
  <2>1. s = Map /\ at + 1 \in 1 .. Len(KeyOrder) /\ k = KeyOrder[at + 1]
    BY <1>7 DEF Sets
  <2>2. \A l : Seen(l) = IF \E x \in 1 .. at : KeyOrder[x] = l THEN Map ELSE Map - 1
    BY <1>7 DEF Seen
  <2>3. \A l : Seen(l)' = IF \E x \in 1 .. at + 1 : KeyOrder[x] = l THEN Map ELSE Map - 1
    BY <1>2, <1>3, <1>7 DEF Seen
  <2>4. \A x \in 1 .. at : KeyOrder[x] # k
    <3>1. SUFFICES ASSUME NEW x \in 1 .. at, KeyOrder[x] = k PROVE FALSE
      OBVIOUS
    <3>2. x \in DOMAIN KeyOrder /\ at + 1 \in DOMAIN KeyOrder /\ x # at + 1
      BY <1>4, <2>1, KeyAssumption
    <3>3. QED
      BY <2>1, <3>1, <3>2, KeyAssumption
  <2>5. Seen(k) = Map - 1 /\ Seen(k)' = Map
    BY <1>4, <2>1, <2>2, <2>3, <2>4
  <2>6. \A l \in Key : l # k => Seen(l)' = Seen(l)
    <3>1. SUFFICES ASSUME NEW l \in Key, l # k PROVE Seen(l)' = Seen(l)
      OBVIOUS
    <3>2. (\E x \in 1 .. at : KeyOrder[x] = l) <=> (\E x \in 1 .. at + 1 : KeyOrder[x] = l)
      BY <1>4, <2>1, <3>1
    <3>3. QED
      BY <2>2, <2>3, <3>2
  <2>7. ASSUME NEW l \in Key, Seen(l) # Seen(k)
        PROVE  /\ Seen(l) = Map
               /\ \E x, y \in DOMAIN KeyOrder : x < y /\ KeyOrder[x] = l /\ KeyOrder[y] = k
    <3>1. PICK x \in 1 .. at : KeyOrder[x] = l
      BY <2>2, <2>5, <2>7
    <3>2. Seen(l) = Map
      BY <2>2, <3>1
    <3>3. x \in DOMAIN KeyOrder /\ at + 1 \in DOMAIN KeyOrder /\ x < at + 1
      BY <1>4, <2>1, KeyAssumption
    <3>4. QED
      BY <2>1, <3>1, <3>2, <3>3
  <2>8. QED
    BY <1>1, <2>1, <2>5, <2>6, <2>7 DEF Passes
<1>8. QED
  BY <1>5, <1>6, <1>7 DEF Sets

\* A step that sets nothing keeps the keys.
LEMMA KeysPass ==
  ASSUME Type, WayInv, KeysInv, UNCHANGED <<tag, path, keys, shown, vals>>,
         \A k \in Key : ~ Direct(k) => Passes(k)
  PROVE  KeysInv'
<1>1. /\ \A s, k : Given(s, k)' <=> Given(s, k)
      /\ \A s, k : Taken(s, k)' <=> Taken(s, k)
      /\ \A k : Direct(k)' <=> Direct(k)
      /\ \A k, l : GivenBefore(k, l)' <=> GivenBefore(k, l)
  BY Rigid
<1>2. /\ \A x, y \in DOMAIN keys : keys[x] = keys[y] => x = y
      /\ \A x \in DOMAIN keys : vals[keys[x]] # Unset
      /\ \A k \in Key : vals[k] # Unset => \E x \in DOMAIN keys : keys[x] = k
      /\ \A k \in Key : vals[k] # Unset => ~ Direct(k) /\ (Eligible(k) => k \in shown)
      /\ \A k \in Key : vals[k] # Unset => \E s \in 1 .. Seen(k) : Given(s, k)
      /\ \A k \in Key : ~ Direct(k) => \A s \in 1 .. Seen(k) : Taken(s, k) => vals[k] # Unset
      /\ \A x, y \in DOMAIN keys : x < y => GivenBefore(keys[x], keys[y])
  BY DEF KeysInv
<1>3. ASSUME NEW k \in Key, vals[k] # Unset PROVE \E s \in 1 .. Seen(k)' : Given(s, k)
  <2>1. Passes(k) /\ Seen(k) \in Nat
    BY <1>2, <1>3, SeenFacts, Bounds
  <2>2. PICK s \in 1 .. Seen(k) : Given(s, k)
    BY <1>2, <1>3
  <2>3. s \in 1 .. Seen(k)'
    BY <2>1 DEF Passes
  <2>4. QED
    BY <2>2, <2>3
<1>4. ASSUME NEW k \in Key, ~ Direct(k), NEW s \in 1 .. Seen(k)', Taken(s, k) PROVE vals[k] # Unset
  <2>1. Passes(k) /\ Seen(k) \in Nat
    BY <1>4, SeenFacts, Bounds
  <2>2. s \in 1 .. Seen(k)
    BY <1>4, <2>1 DEF Passes
  <2>3. QED
    BY <1>2, <1>4, <2>2
<1>5. /\ \A k \in Key : vals'[k] # Unset => \E s \in 1 .. Seen(k)' : Given(s, k)'
      /\ \A k \in Key : ~ Direct(k)' => \A s \in 1 .. Seen(k)' : Taken(s, k)' => vals'[k] # Unset
  BY <1>1, <1>3, <1>4
<1>6. /\ \A k \in Key : vals'[k] # Unset => ~ Direct(k)' /\ (Eligible(k) => k \in shown')
      /\ \A x, y \in DOMAIN keys' : x < y => GivenBefore(keys[x], keys[y])'
  BY <1>1, <1>2
<1>7. QED
  BY <1>2, <1>5, <1>6 DEF KeysInv

\* A key that is set is put behind those that were given before it.
LEMMA KeysSet ==
  ASSUME Type, WayInv, KeysInv, NEW k \in Key, NEW s, NEW a \in BOOLEAN, Sets(k, s, a)
  PROVE  KeysInv'
<1>1. /\ s \in 1 .. Sources /\ Taken(s, k) /\ ~ Direct(k) /\ Given(s, k)
      /\ Set(k, AsWay(k, GivenBy(s, k)), a)
      /\ a = (Eligible(k) \/ path = "attr" \/ pc = "directives")
      /\ tag' = tag /\ path' = path
  BY DEF Sets, Taken
<1>2. PICK v : v = AsWay(k, GivenBy(s, k))
  OBVIOUS
<1>3. IsValue(k, v) /\ v # Unset
  BY <1>1, <1>2, GivenFacts, AsWayFacts
<1>4. /\ keys' = IF vals[k] = Unset THEN Append(keys, k) ELSE keys
      /\ shown' = IF vals[k] = Unset /\ a THEN shown \cup {k} ELSE shown
      /\ vals'[k] # Unset
      /\ \A l \in Key : l # k => vals'[l] = vals[l]
  BY <1>1, <1>2, <1>3, SetFacts
<1>5. /\ s = Seen(k) + 1 /\ Seen(k)' = s
      /\ \A l \in Key : l # k => Passes(l)
      /\ path = "attr" => s <= Map
      /\ \A l \in Key : \/ Seen(l) = Seen(k)
                        \/ /\ s = Map /\ Seen(l) = Map
                           /\ \E x, y \in DOMAIN KeyOrder : x < y /\ KeyOrder[x] = l /\ KeyOrder[y] = k
  BY SeenSets
<1>6. /\ \A r, l : Given(r, l)' <=> Given(r, l)
      /\ \A r, l : Taken(r, l)' <=> Taken(r, l)
      /\ \A l : Direct(l)' <=> Direct(l)
      /\ \A l, m : GivenBefore(l, m)' <=> GivenBefore(l, m)
  BY <1>1, Rigid
<1>7. /\ \A x, y \in DOMAIN keys : keys[x] = keys[y] => x = y
      /\ \A x \in DOMAIN keys : vals[keys[x]] # Unset
      /\ \A l \in Key : vals[l] # Unset => \E x \in DOMAIN keys : keys[x] = l
      /\ \A l \in Key : vals[l] # Unset => ~ Direct(l) /\ (Eligible(l) => l \in shown)
      /\ \A l \in Key : vals[l] # Unset => \E r \in 1 .. Seen(l) : Given(r, l)
      /\ \A l \in Key : ~ Direct(l) => \A r \in 1 .. Seen(l) : Taken(r, l) => vals[l] # Unset
      /\ \A x, y \in DOMAIN keys : x < y => GivenBefore(keys[x], keys[y])
  BY DEF KeysInv
<1>8. Map \in Nat /\ Sources \in Nat /\ Map <= Sources /\ \A l : Seen(l) \in Nat
  BY SeenFacts, Bounds
<1>9. keys \in Seq(Key)
  BY DEF Type
<1>10. \A l \in Key : vals'[l] # Unset <=> l = k \/ vals[l] # Unset
  BY <1>4
<1>11. /\ \A x, y \in DOMAIN keys' : keys'[x] = keys'[y] => x = y
       /\ \A x \in DOMAIN keys' : vals'[keys'[x]] # Unset
       /\ \A l \in Key : vals'[l] # Unset => \E x \in DOMAIN keys' : keys'[x] = l
  <2>1. CASE vals[k] # Unset
    BY <1>4, <1>7, <1>9, <1>10, <2>1
  <2>2. CASE vals[k] = Unset
    <3>1. PICK n \in Nat : n = Len(keys) /\ DOMAIN keys = 1 .. n
      BY <1>9
    <3>2. /\ DOMAIN keys' = 1 .. n + 1 /\ keys'[n + 1] = k
          /\ \A x \in 1 .. n : keys'[x] = keys[x] /\ keys[x] \in Key
      BY <1>4, <1>9, <2>2, <3>1
    <3>3. \A x \in 1 .. n : keys[x] # k
      BY <1>7, <2>2, <3>1
    <3>4. \A x \in 1 .. n + 1 : x \in 1 .. n \/ x = n + 1
      OBVIOUS
    <3>5. \A x, y \in DOMAIN keys' : keys'[x] = keys'[y] => x = y
      BY <1>7, <3>1, <3>2, <3>3, <3>4
    <3>6. \A x \in DOMAIN keys' : vals'[keys'[x]] # Unset
      BY <1>4, <1>7, <1>10, <3>1, <3>2, <3>4
    <3>7. \A l \in Key : vals'[l] # Unset => \E x \in DOMAIN keys' : keys'[x] = l
      BY <1>7, <1>10, <3>1, <3>2
    <3>8. QED
      BY <3>5, <3>6, <3>7
  <2>3. QED
    BY <2>1, <2>2
<1>12. \A l \in Key : vals'[l] # Unset => ~ Direct(l) /\ (Eligible(l) => l \in shown')
  BY <1>1, <1>4, <1>7, <1>10
<1>13. ASSUME NEW l \in Key, vals'[l] # Unset PROVE \E r \in 1 .. Seen(l)' : Given(r, l)
  <2>1. CASE l = k
    BY <1>1, <1>5, <1>8, <2>1
  <2>2. CASE l # k
    <3>1. PICK r \in 1 .. Seen(l) : Given(r, l)
      BY <1>7, <1>10, <1>13, <2>2
    <3>2. r \in 1 .. Seen(l)'
      BY <1>5, <1>8, <2>2 DEF Passes
    <3>3. QED
      BY <3>1, <3>2
  <2>3. QED
    BY <2>1, <2>2
<1>14. ASSUME NEW l \in Key, ~ Direct(l), NEW r \in 1 .. Seen(l)', Taken(r, l) PROVE vals'[l] # Unset
  <2>1. CASE l = k
    BY <1>4, <2>1
  <2>2. CASE l # k
    <3>1. r \in 1 .. Seen(l)
      BY <1>5, <1>8, <1>14, <2>2 DEF Passes
    <3>2. QED
      BY <1>7, <1>10, <1>14, <3>1
  <2>3. QED
    BY <2>1, <2>2
<1>15. ASSUME vals[k] = Unset, NEW l \in Key, vals[l] # Unset PROVE GivenBefore(l, k)
  <2>1. ASSUME NEW r \in 1 .. Seen(k) PROVE ~ Given(r, k)
    <3>1. ~ Taken(r, k)
      BY <1>1, <1>7, <1>15
    <3>2. path = "attr" => r # Map
      BY <1>5, <1>8
    <3>3. QED
      BY <3>1, <3>2 DEF Taken
  <2>2. PICK r \in 1 .. Seen(l) : Given(r, l)
    BY <1>7, <1>15
  <2>3. r \in 1 .. Sources
    BY <1>8, <2>2, SeenFacts
  <2>4. ASSUME NEW j \in 1 .. r, Given(j, k)
        PROVE  /\ r = Map /\ j = Map
               /\ \E x, y \in DOMAIN KeyOrder : x < y /\ KeyOrder[x] = l /\ KeyOrder[y] = k
    <3>1. j \notin 1 .. Seen(k)
      BY <2>1, <2>4
    <3>2. j > Seen(k) /\ j <= Seen(l) /\ r <= Seen(l) /\ j <= r
      BY <1>8, <2>2, <2>4, <3>1
    <3>3. Seen(l) # Seen(k)
      BY <1>8, <3>2
    <3>4. /\ s = Map /\ Seen(l) = Map
          /\ \E x, y \in DOMAIN KeyOrder : x < y /\ KeyOrder[x] = l /\ KeyOrder[y] = k
      BY <1>5, <3>3
    <3>5. Map = Seen(k) + 1
      BY <1>5, <3>4
    <3>6. r = Map /\ j = Map
      BY <1>8, <2>4, <3>2, <3>4, <3>5
    <3>7. QED
      BY <3>4, <3>6
  <2>5. QED
    BY <2>2, <2>3, <2>4 DEF GivenBefore
<1>16. ASSUME NEW x \in DOMAIN keys', NEW y \in DOMAIN keys', x < y PROVE GivenBefore(keys'[x], keys'[y])
  <2>1. CASE vals[k] # Unset
    BY <1>4, <1>7, <1>16, <2>1
  <2>2. CASE vals[k] = Unset
    <3>1. PICK n \in Nat : n = Len(keys) /\ DOMAIN keys = 1 .. n
      BY <1>9
    <3>2. /\ DOMAIN keys' = 1 .. n + 1 /\ keys'[n + 1] = k
          /\ \A z \in 1 .. n : keys'[z] = keys[z] /\ keys[z] \in Key
      BY <1>4, <1>9, <2>2, <3>1
    <3>3. x \in 1 .. n /\ (y \in 1 .. n \/ y = n + 1)
      BY <1>16, <3>2
    <3>4. CASE y \in 1 .. n
      BY <1>7, <1>16, <3>1, <3>2, <3>3, <3>4
    <3>5. CASE y = n + 1
      BY <1>7, <1>15, <2>2, <3>1, <3>2, <3>3, <3>5
    <3>6. QED
      BY <3>3, <3>4, <3>5
  <2>3. QED
    BY <2>1, <2>2
<1>17. QED
  <2>1. /\ \A l \in Key : vals'[l] # Unset => ~ Direct(l)' /\ (Eligible(l) => l \in shown')
        /\ \A l \in Key : vals'[l] # Unset => \E r \in 1 .. Seen(l)' : Given(r, l)'
        /\ \A l \in Key : ~ Direct(l)' => \A r \in 1 .. Seen(l)' : Taken(r, l)' => vals'[l] # Unset
        /\ \A x, y \in DOMAIN keys' : x < y => GivenBefore(keys[x], keys[y])'
    BY <1>6, <1>12, <1>13, <1>14, <1>16
  <2>2. QED
    BY <1>11, <2>1 DEF KeysInv

\* Set puts a value to what is there as Join does to what it means.
LEMMA MeansSet ==
  ASSUME Type, NEW k \in Key, NEW w, IsValue(k, w), w # Unset, NEW v, Means(k, v), NEW a \in BOOLEAN,
         Set(k, AsWay(k, w), a), path' = path
  PROVE  Means(k, Join(k, v, w))'
<1>1. PICK u : u = Join(k, v, w)
  OBVIOUS
<1>2. PICK n : n = AsWay(k, w)
  OBVIOUS
<1>3. IsValue(k, n) /\ n # Unset
  BY <1>2, AsWayFacts
<1>4. /\ vals'[k] = IF vals[k] = Unset THEN n
                    ELSE Join(k, IF vals[k] = Null THEN Nothing(k) ELSE vals[k], n)
      /\ vals'[k] # Unset
  BY <1>2, <1>3, SetFacts
<1>5. PICK x : x = vals[k]
  OBVIOUS
<1>6. PICK y : y = vals'[k]
  OBVIOUS
<1>7. /\ x = Unset \/ IsValue(k, x)
      /\ y # Unset
      /\ y = IF x = Unset THEN n ELSE Join(k, IF x = Null THEN Nothing(k) ELSE x, n)
  BY <1>4, <1>5, <1>6 DEF Type
<1>8. IF x = Unset THEN v = Nothing(k)
      ELSE IF path = "attr" THEN x = AsAttr(k, v) /\ x # Null /\ (k \in Merged => v # Null)
      ELSE IF x = Null THEN v = IF k \in Merged THEN Nothing(k) ELSE Null
      ELSE v = x
  BY <1>5 DEF Means
<1>9. SUFFICES IF path = "attr" THEN y = AsAttr(k, u) /\ y # Null /\ (k \in Merged => u # Null)
               ELSE IF y = Null THEN u = IF k \in Merged THEN Nothing(k) ELSE Null
               ELSE u = y
  BY <1>1, <1>6, <1>7 DEF Means
<1>10. CASE k \notin Merged
  <2>1. u = w /\ y = n
    BY <1>1, <1>7, <1>10, ValueFacts
  <2>2. CASE path = "attr"
    <3>1. n = AsAttr(k, w) /\ AsAttr(k, w) \in Value(k)
      BY <1>2, <2>2, AsAttrFacts DEF AsWay
    <3>2. QED
      BY <1>10, <2>1, <2>2, <3>1, ValueFacts
  <2>3. CASE path # "attr"
    BY <1>2, <1>10, <2>1, <2>3 DEF AsWay
  <2>4. QED
    BY <2>2, <2>3
<1>11. CASE k \in Merged
  <2>1. PICK base : base = IF x = Unset \/ x = Null THEN Nothing(k) ELSE x
    OBVIOUS
  <2>2. base \in Value(k)
    BY <1>7, <2>1, ValueFacts DEF IsValue
  <2>3. v = base
    <3>1. CASE x = Unset
      BY <1>8, <2>1, <3>1
    <3>2. CASE x # Unset /\ path = "attr"
      BY <1>8, <1>11, <2>1, <3>2 DEF AsAttr
    <3>3. CASE x # Unset /\ path # "attr"
      BY <1>8, <1>11, <2>1, <3>3
    <3>4. QED
      BY <3>1, <3>2, <3>3
  <2>4. u = IF w = Null THEN base ELSE Join(k, base, w)
    BY <1>1, <1>11, <2>3, ValueFacts
  <2>5. u \in Value(k)
    BY <2>2, <2>4, ValueFacts DEF IsValue
  <2>6. CASE path = "attr"
    <3>1. n = IF w = Null THEN Nothing(k) ELSE w
      BY <1>2, <1>11, <2>6 DEF AsWay, AsAttr
    <3>2. n \in Value(k)
      BY <3>1, ValueFacts DEF IsValue
    <3>3. y = Join(k, base, n)
      BY <1>7, <2>1, <3>2, ValueFacts
    <3>4. y = u
      BY <1>11, <2>2, <2>4, <3>1, <3>3, ValueFacts
    <3>5. QED
      BY <2>5, <2>6, <3>4, ValueFacts DEF AsAttr
  <2>7. CASE path # "attr"
    <3>1. n = w
      BY <1>2, <2>7 DEF AsWay
    <3>2. CASE x = Unset
      <4>1. y = w /\ base = Nothing(k)
        BY <1>7, <2>1, <3>1, <3>2
      <4>2. w # Null => u = w
        BY <2>4, <4>1, ValueFacts DEF IsValue
      <4>3. QED
        BY <1>11, <2>4, <2>7, <4>1, <4>2
    <3>3. CASE x # Unset
      <4>1. y = Join(k, base, w)
        BY <1>7, <2>1, <3>1, <3>3
      <4>2. y = u
        BY <1>11, <2>4, <4>1, ValueFacts
      <4>3. QED
        BY <2>5, <2>7, <4>2, ValueFacts
    <3>4. QED
      BY <3>2, <3>3
  <2>8. QED
    BY <2>6, <2>7
<1>12. QED
  BY <1>10, <1>11

\* A step that gets nothing for k keeps its value.
LEMMA ValsPass ==
  ASSUME Type, WayInv, NEW k \in Key, Eligible(k), PutTogether(k),
         UNCHANGED <<tag, path>>, vals'[k] = vals[k], Passes(k)
  PROVE  PutTogether(k)'
<1>1. PICK n : n = Seen(k)'
  OBVIOUS
<1>2. ASSUME NEW f, Folds(f, k) PROVE Means(k, f[n])'
  <2>1. f[n] = f[Seen(k)]
    <3>1. CASE n = Seen(k)
      BY <3>1
    <3>2. CASE n # Seen(k)
      <4>1. n = Seen(k) + 1 /\ n \in 1 .. Sources /\ ~ Given(n, k) /\ n - 1 = Seen(k)
        BY <1>1, <3>2, SeenFacts, Bounds DEF Passes, Taken
      <4>2. QED
        BY <1>2, <4>1, FoldFacts
    <3>3. QED
      BY <3>1, <3>2
  <2>2. PICK v : v = f[n]
    OBVIOUS
  <2>3. Means(k, v)
    BY <1>2, <2>1, <2>2 DEF PutTogether
  <2>4. Means(k, v)'
    BY <2>3 DEF Means
  <2>5. QED
    BY <2>2, <2>4
<1>3. QED
  BY <1>1, <1>2, FoldsKept DEF PutTogether

\* A step that sets a key puts its value together with what the source gives.
LEMMA ValsSet ==
  ASSUME Type, WayInv, ValsInv, NEW k \in Key, NEW s, NEW a \in BOOLEAN, Sets(k, s, a)
  PROVE  ValsInv'
<1>1. /\ s \in 1 .. Sources /\ Taken(s, k) /\ ~ Direct(k) /\ Given(s, k)
      /\ Set(k, AsWay(k, GivenBy(s, k)), a)
      /\ tag' = tag /\ path' = path
  BY DEF Sets, Taken
<1>2. IsValue(k, GivenBy(s, k)) /\ GivenBy(s, k) # Unset
  BY <1>1, GivenFacts
<1>3. \A l \in Key : l # k => vals'[l] = vals[l]
  BY <1>1, <1>2, AsWayFacts, SetFacts
<1>4. s = Seen(k) + 1 /\ Seen(k)' = s /\ \A l \in Key : l # k => Passes(l)
  BY SeenSets
<1>5. \A l : Direct(l)' <=> Direct(l)
  BY <1>1, Rigid
<1>6. ASSUME NEW l \in Key, Eligible(l), ~ Direct(l) PROVE PutTogether(l)'
  <2>1. PutTogether(l)
    BY <1>6 DEF ValsInv
  <2>2. CASE l # k
    BY <1>1, <1>3, <1>4, <1>6, <2>1, <2>2, ValsPass
  <2>3. CASE l = k
    <3>1. ASSUME NEW f, Folds(f, k) PROVE Means(k, f[s])'
      <4>1. Means(k, f[Seen(k)])
        BY <2>1, <2>3, <3>1 DEF PutTogether
      <4>2. PICK v : v = f[Seen(k)]
        OBVIOUS
      <4>3. f[s] = Join(k, v, GivenBy(s, k))
        <5>1. s - 1 = Seen(k)
          BY <1>4, SeenFacts, Bounds
        <5>2. QED
          BY <1>1, <3>1, <4>2, <5>1, FoldFacts
      <4>4. PICK w : w = GivenBy(s, k)
        OBVIOUS
      <4>5. PICK u : u = Join(k, v, w)
        OBVIOUS
      <4>6. Means(k, v) /\ IsValue(k, w) /\ w # Unset /\ Set(k, AsWay(k, w), a)
        BY <1>1, <1>2, <4>1, <4>2, <4>4
      <4>7. Means(k, Join(k, v, w))'
        BY <1>1, <4>6, MeansSet
      <4>8. QED
        BY <4>3, <4>4, <4>7
    <3>2. QED
      BY <1>1, <1>4, <2>3, <3>1, FoldsKept DEF PutTogether
  <2>4. QED
    BY <2>2, <2>3
<1>7. QED
  BY <1>5, <1>6 DEF ValsInv

-----------------------------------------------------------------------------
(* The output *)

\* The last loop leaves k out.
Hidden(k) == k \notin shown \/ (k \in Merged /\ vals[k] = Null)

\* A key that is written at once is written as what its sources have given.
Shows(k) ==
  \A f : Folds(f, k) =>
    /\ \A i \in DOMAIN out : out[i].key = k => out[i].val = f[Seen(k)]
    /\ (\A i \in DOMAIN out : out[i].key # k) => f[Seen(k)] = Nothing(k)

\* The output has those keys first, and then the first of keys.
OutInv ==
  /\ \A i, j \in DOMAIN out : out[i].key = out[j].key => i = j
  /\ \A i \in DOMAIN out : Direct(out[i].key) => \E s \in 1 .. Seen(out[i].key) : Given(s, out[i].key)
  /\ \A i \in DOMAIN out : ~ Direct(out[i].key) =>
       /\ pc \in {"write", "done"}
       /\ \E x \in 1 .. at : keys[x] = out[i].key
       /\ ~ Hidden(out[i].key)
       /\ out[i].val = IF vals[out[i].key] = Null THEN Nothing(out[i].key) ELSE vals[out[i].key]
  /\ \A i, j \in DOMAIN out : i < j => AtOnce(out[i].key) \/ GivenBefore(out[i].key, out[j].key)
  /\ pc \in {"write", "done"} =>
       \A x \in 1 .. at : Hidden(keys[x]) \/ \E i \in DOMAIN out : out[i].key = keys[x]
  /\ \A k \in Key : Direct(k) => Shows(k)

\* What is written has the names of attributes.
LEMMA OutKeys ==
  ASSUME Type
  PROVE  \A i \in DOMAIN out : out[i].key \in Key
<1>1. out \in Seq(Output)
  BY DEF Type
<1>2. \A e \in Output : e.key \in Key
  BY DEF Output
<1>3. QED
  BY <1>1, <1>2

\* A step that gets nothing for k, and writes others, keeps what is shown of it.
LEMMA ShowsPass ==
  ASSUME Type, WayInv, Compiled, AttributesOnce, NEW k \in Key, Direct(k), Shows(k),
         UNCHANGED <<tag, path>>, Passes(k),
         \A i \in DOMAIN out : i \in DOMAIN out' /\ out'[i] = out[i],
         \A i \in DOMAIN out' : out'[i].key = k => i \in DOMAIN out
  PROVE  Shows(k)'
<1>1. PICK n : n = Seen(k)'
  OBVIOUS
<1>2. ASSUME NEW f, Folds(f, k)
      PROVE  /\ \A i \in DOMAIN out' : out'[i].key = k => out'[i].val = f[n]
             /\ (\A i \in DOMAIN out' : out'[i].key # k) => f[n] = Nothing(k)
  <2>1. f[n] = f[Seen(k)]
    <3>1. CASE n = Seen(k)
      BY <3>1
    <3>2. CASE n # Seen(k)
      <4>1. n = Seen(k) + 1 /\ n \in 1 .. Sources /\ ~ Taken(n, k) /\ n - 1 = Seen(k)
        BY <1>1, <3>2, SeenFacts, Bounds DEF Passes
      <4>2. ~ Given(n, k)
        BY <4>1, DirectFacts, Bounds DEF Taken
      <4>3. QED
        BY <1>2, <4>1, <4>2, FoldFacts
    <3>3. QED
      BY <3>1, <3>2
  <2>2. /\ \A i \in DOMAIN out : out[i].key = k => out[i].val = f[Seen(k)]
        /\ (\A i \in DOMAIN out : out[i].key # k) => f[Seen(k)] = Nothing(k)
    BY <1>2 DEF Shows
  <2>3. QED
    BY <2>1, <2>2
<1>3. QED
  BY <1>1, <1>2, FoldsKept DEF Shows

\* A step of the loops over the sources that writes nothing.
LEMMA OutPass ==
  ASSUME Type, WayInv, Compiled, AttributesOnce, OutInv, UNCHANGED <<tag, path, out>>,
         pc \notin {"write", "done"}, pc' \in {"write", "done"} => at' = 0,
         \A k \in Key : Direct(k) => Shows(k)' /\ Seen(k) <= Seen(k)' /\ Seen(k)' \in Nat
  PROVE  OutInv'
<1>1. /\ \A s, k : Given(s, k)' <=> Given(s, k)
      /\ \A k : AtOnce(k)' <=> AtOnce(k)
      /\ \A k : Direct(k)' <=> Direct(k)
      /\ \A k, l : GivenBefore(k, l)' <=> GivenBefore(k, l)
  BY Rigid
<1>2. \A i \in DOMAIN out : out[i].key \in Key
  BY OutKeys
<1>3. /\ \A i, j \in DOMAIN out : out[i].key = out[j].key => i = j
      /\ \A i \in DOMAIN out : Direct(out[i].key)
      /\ \A i \in DOMAIN out : \E s \in 1 .. Seen(out[i].key) : Given(s, out[i].key)
      /\ \A i, j \in DOMAIN out : i < j => AtOnce(out[i].key) \/ GivenBefore(out[i].key, out[j].key)
  BY DEF OutInv
<1>4. ASSUME NEW i \in DOMAIN out PROVE \E s \in 1 .. Seen(out[i].key)' : Given(s, out[i].key)'
  <2>1. PICK k \in Key : k = out[i].key
    BY <1>2
  <2>2. PICK s \in 1 .. Seen(k) : Given(s, k)
    BY <1>3, <2>1
  <2>3. s \in 1 .. Seen(k)'
    BY <1>3, <2>1, SeenFacts, Bounds
  <2>4. Given(s, k)'
    BY <1>1, <2>2
  <2>5. \E r \in 1 .. Seen(k)' : Given(r, k)'
    BY <2>3, <2>4
  <2>6. QED
    BY <2>1, <2>5
<1>5. pc' \in {"write", "done"} =>
        \A x \in 1 .. at' : Hidden(keys[x])' \/ \E i \in DOMAIN out' : out'[i].key = keys'[x]
  OBVIOUS
<1>6. \A k \in Key : Direct(k)' => Shows(k)'
  BY <1>1
<1>7. /\ \A i, j \in DOMAIN out' : out'[i].key = out'[j].key => i = j
      /\ \A i \in DOMAIN out' : Direct(out[i].key)'
      /\ \A i \in DOMAIN out' : \E s \in 1 .. Seen(out[i].key)' : Given(s, out[i].key)'
      /\ \A i, j \in DOMAIN out' : i < j => AtOnce(out[i].key)' \/ GivenBefore(out[i].key, out[j].key)'
  BY <1>1, <1>3, <1>4
<1>8. QED
  BY <1>5, <1>6, <1>7 DEF OutInv

\* A step of the first loop that writes the attribute at once, or leaves it out without content.
LEMMA OutDirect ==
  ASSUME Type, WayInv, Compiled, AttributesOnce, OutInv, NEW k \in Key, Direct(k), pc = "attrs",
         at + 1 \in 1 .. Sources, at + 1 < Map, Given(at + 1, k), GivenBy(at + 1, k) \in Value(k),
         at' = at + 1, UNCHANGED <<tag, pc, path>>,
         \/ Write(k, GivenBy(at + 1, k))
         \/ out' = out /\ k \in Merged /\ GivenBy(at + 1, k) = Nothing(k)
  PROVE  OutInv'
<1>1. PICK s : s = at + 1
  OBVIOUS
<1>2. at \in Nat /\ s \in 1 .. Sources /\ s - 1 = at /\ at < s /\ s < Map /\ s \in Nat
  BY <1>1, Bounds
<1>3. PICK v : v = GivenBy(s, k)
  OBVIOUS
<1>4. Given(s, k) /\ v \in Value(k) /\ (Write(k, v) \/ (out' = out /\ k \in Merged /\ v = Nothing(k)))
  BY <1>1, <1>3
<1>5. \A l : Seen(l) = at /\ Seen(l)' = s
  BY <1>1 DEF Seen
<1>6. /\ \A r, l : Given(r, l)' <=> Given(r, l)
      /\ \A l : AtOnce(l)' <=> AtOnce(l)
      /\ \A l : Direct(l)' <=> Direct(l)
      /\ \A l, m : GivenBefore(l, m)' <=> GivenBefore(l, m)
  BY Rigid
<1>7. \A i \in DOMAIN out : out[i].key \in Key
  BY OutKeys
<1>8. /\ \A i, j \in DOMAIN out : out[i].key = out[j].key => i = j
      /\ \A i \in DOMAIN out : Direct(out[i].key)
      /\ \A i \in DOMAIN out : \E r \in 1 .. at : Given(r, out[i].key)
      /\ \A i, j \in DOMAIN out : i < j => AtOnce(out[i].key) \/ GivenBefore(out[i].key, out[j].key)
      /\ \A l \in Key : Direct(l) => Shows(l)
  BY <1>5 DEF OutInv
<1>9. \A r \in 1 .. Sources : Given(r, k) => r = s
  BY <1>2, <1>4, DirectFacts
<1>10. \A i \in DOMAIN out : out[i].key # k
  <2>1. SUFFICES ASSUME NEW i \in DOMAIN out, out[i].key = k PROVE FALSE
    OBVIOUS
  <2>2. PICK r \in 1 .. at : Given(r, k)
    BY <1>8, <2>1
  <2>3. r \in 1 .. Sources /\ r # s
    BY <1>2, <2>2, Bounds
  <2>4. QED
    BY <1>9, <2>2, <2>3
<1>11. ASSUME NEW f, Folds(f, k) PROVE f[s] = v
  <2>1. f[at] = Nothing(k)
    BY <1>5, <1>8, <1>10, <1>11 DEF Shows
  <2>2. f[s] = Join(k, f[at], v)
    BY <1>2, <1>3, <1>4, <1>11, FoldFacts
  <2>3. QED
    BY <1>4, <2>1, <2>2, ValueFacts
<1>12. \A l \in Key : l # k => Passes(l)
  <2>1. \A l : Given(s, l) => l = k
    BY <1>2, <1>4 DEF Given
  <2>2. QED
    BY <1>1, <1>2, <1>5, <2>1 DEF Passes, Taken
<1>13. CASE out' = out /\ k \in Merged /\ v = Nothing(k)
  <2>1. Shows(k)'
    <3>1. ASSUME NEW f, Folds(f, k)
          PROVE  /\ \A i \in DOMAIN out' : out'[i].key = k => out'[i].val = f[s]
                 /\ (\A i \in DOMAIN out' : out'[i].key # k) => f[s] = Nothing(k)
      BY <1>10, <1>11, <1>13, <3>1
    <3>2. QED
      BY <1>5, <3>1, FoldsKept DEF Shows
  <2>2. \A l \in Key : l # k /\ Direct(l) => Shows(l)'
    BY <1>8, <1>12, <1>13, ShowsPass
  <2>3. \A l \in Key : Direct(l) => Shows(l)' /\ Seen(l) <= Seen(l)' /\ Seen(l)' \in Nat
    BY <1>2, <1>5, <2>1, <2>2
  <2>4. pc \notin {"write", "done"} /\ pc' \notin {"write", "done"}
    OBVIOUS
  <2>5. QED
    BY <1>13, <2>3, <2>4, OutPass
<1>14. CASE Write(k, v)
  <2>1. PICK n \in Nat : n = Len(out) /\ DOMAIN out = 1 .. n
    BY DEF Type
  <2>2. /\ out'[n + 1].key = k /\ out'[n + 1].val = v
        /\ \A i \in 1 .. n : i \in DOMAIN out' /\ out'[i] = out[i]
        /\ DOMAIN out' = 1 .. n \cup {n + 1}
    BY <1>4, <1>14, <2>1, WriteFacts DEF Type
  <2>3. \A i \in DOMAIN out' : (i \in DOMAIN out /\ out'[i] = out[i]) \/ i = n + 1
    BY <2>1, <2>2
  <2>4. \A i, j \in DOMAIN out' : out'[i].key = out'[j].key => i = j
    BY <1>8, <1>10, <2>2, <2>3
  <2>5. \A i \in DOMAIN out' : Direct(out'[i].key)
    BY <1>8, <2>2, <2>3
  <2>6. \A i \in DOMAIN out' : \E r \in 1 .. s : Given(r, out'[i].key)
    <3>1. SUFFICES ASSUME NEW i \in DOMAIN out' PROVE \E r \in 1 .. s : Given(r, out'[i].key)
      OBVIOUS
    <3>2. CASE i = n + 1
      BY <1>2, <1>4, <2>2, <3>2
    <3>3. CASE i # n + 1
      <4>1. PICK r \in 1 .. at : Given(r, out[i].key)
        BY <1>8, <2>3, <3>1, <3>3
      <4>2. r \in 1 .. s
        BY <1>2, <4>1
      <4>3. QED
        BY <2>3, <3>1, <3>3, <4>1, <4>2
    <3>4. QED
      BY <3>2, <3>3
  <2>7. \A i, j \in DOMAIN out' : i < j => AtOnce(out'[i].key) \/ GivenBefore(out'[i].key, out'[j].key)
    <3>1. SUFFICES ASSUME NEW i \in DOMAIN out', NEW j \in DOMAIN out', i < j
                   PROVE  AtOnce(out'[i].key) \/ GivenBefore(out'[i].key, out'[j].key)
      OBVIOUS
    <3>2. i \in DOMAIN out /\ i \in 1 .. n /\ out'[i] = out[i]
      BY <2>1, <2>2, <2>3, <3>1
    <3>3. CASE j \in DOMAIN out
      BY <1>8, <2>1, <2>2, <3>1, <3>2, <3>3
    <3>4. CASE j = n + 1
      <4>1. PICK r \in 1 .. at : Given(r, out[i].key)
        BY <1>8, <3>2
      <4>2. r \in 1 .. Sources
        BY <1>2, <4>1, Bounds
      <4>3. ASSUME NEW q \in 1 .. r PROVE ~ Given(q, k)
        <5>1. q \in 1 .. Sources /\ q # s
          BY <1>2, <4>1, <4>2, <4>3, Bounds
        <5>2. QED
          BY <1>9, <5>1
      <4>4. GivenBefore(out[i].key, k)
        BY <4>1, <4>2, <4>3 DEF GivenBefore
      <4>5. QED
        BY <2>2, <3>2, <3>4, <4>4
    <3>5. QED
      BY <2>3, <3>1, <3>3, <3>4
  <2>8. \A l \in Key : Direct(l) => Shows(l)'
    <3>1. SUFFICES ASSUME NEW l \in Key, Direct(l) PROVE Shows(l)'
      OBVIOUS
    <3>2. CASE l # k
      <4>1. \A i \in DOMAIN out' : out'[i].key = l => i \in DOMAIN out
        BY <2>2, <2>3, <3>2
      <4>2. \A i \in DOMAIN out : i \in DOMAIN out' /\ out'[i] = out[i]
        BY <2>1, <2>2
      <4>3. Shows(l) /\ Passes(l)
        BY <1>8, <1>12, <3>1, <3>2
      <4>4. QED
        BY <3>1, <4>1, <4>2, <4>3, ShowsPass
    <3>3. CASE l = k
      <4>1. ASSUME NEW f, Folds(f, k)
            PROVE  /\ \A i \in DOMAIN out' : out'[i].key = k => out'[i].val = f[s]
                   /\ (\A i \in DOMAIN out' : out'[i].key # k) => f[s] = Nothing(k)
        BY <1>10, <1>11, <2>2, <2>3, <4>1
      <4>2. QED
        BY <1>5, <3>3, <4>1, FoldsKept DEF Shows
    <3>4. QED
      BY <3>2, <3>3
  <2>9. /\ \A i \in DOMAIN out' : Direct(out[i].key)'
        /\ \A i \in DOMAIN out' : \E r \in 1 .. Seen(out[i].key)' : Given(r, out[i].key)'
        /\ \A i, j \in DOMAIN out' : i < j => AtOnce(out[i].key)' \/ GivenBefore(out[i].key, out[j].key)'
        /\ \A l \in Key : Direct(l)' => Shows(l)'
    BY <1>5, <1>6, <2>5, <2>6, <2>7, <2>8
  <2>10. pc' \notin {"write", "done"}
    OBVIOUS
  <2>11. QED
    BY <2>4, <2>9, <2>10 DEF OutInv
<1>15. QED
  BY <1>4, <1>13, <1>14

\* A step of the last loop, after which k has been written or left out.
LEMMA OutKey ==
  ASSUME Type, WayInv, Compiled, AttributesOnce, KeysInv, OutInv, WriteKey
  PROVE  OutInv'
<1>1. /\ pc = "write" /\ at < Len(keys) /\ at' = at + 1
      /\ UNCHANGED <<tag, pc, path, props, keys, shown, vals>>
  BY DEF WriteKey
<1>2. PICK m \in Nat : m = Len(keys) /\ DOMAIN keys = 1 .. m
  BY DEF Type
<1>3. at \in Nat /\ at + 1 \in 1 .. m
  BY <1>1, <1>2 DEF Type
<1>4. PICK k \in Key : k = keys[at + 1]
  BY <1>2, <1>3 DEF Type
<1>5. vals[k] # Unset /\ ~ Direct(k)
  BY <1>2, <1>3, <1>4 DEF KeysInv
<1>6. PICK v : v = IF vals[k] = Null THEN Nothing(k) ELSE vals[k]
  OBVIOUS
<1>7. IF Hidden(k) THEN out' = out ELSE Write(k, v)
  BY <1>4, <1>6 DEF WriteKey, Hidden
<1>8. v \in Value(k)
  BY <1>5, <1>6, ValueFacts DEF IsValue, Type
<1>9. /\ \A r, l : Given(r, l)' <=> Given(r, l)
      /\ \A l : AtOnce(l)' <=> AtOnce(l)
      /\ \A l : Direct(l)' <=> Direct(l)
      /\ \A l, h : GivenBefore(l, h)' <=> GivenBefore(l, h)
  BY <1>1, Rigid
<1>10. \A l : Seen(l) = Sources /\ Seen(l)' = Sources
  BY <1>1, Rigid DEF Seen
<1>11. \A l : (Hidden(l)' <=> Hidden(l)) /\ Passes(l)
  BY <1>1, <1>10 DEF Hidden, Passes
<1>12. /\ \A i, j \in DOMAIN out : out[i].key = out[j].key => i = j
       /\ \A i \in DOMAIN out : Direct(out[i].key) => \E r \in 1 .. Sources : Given(r, out[i].key)
       /\ \A i \in DOMAIN out : ~ Direct(out[i].key) =>
            /\ \E x \in 1 .. at : keys[x] = out[i].key
            /\ ~ Hidden(out[i].key)
            /\ out[i].val = IF vals[out[i].key] = Null THEN Nothing(out[i].key) ELSE vals[out[i].key]
       /\ \A i, j \in DOMAIN out : i < j => AtOnce(out[i].key) \/ GivenBefore(out[i].key, out[j].key)
       /\ \A x \in 1 .. at : Hidden(keys[x]) \/ \E i \in DOMAIN out : out[i].key = keys[x]
       /\ \A l \in Key : Direct(l) => Shows(l)
  BY <1>1, <1>10 DEF OutInv
<1>13. \A x, y \in 1 .. m : (keys[x] = keys[y] => x = y) /\ (x < y => GivenBefore(keys[x], keys[y]))
  BY <1>2 DEF KeysInv
<1>14. \A x \in 1 .. at : x \in 1 .. m /\ x < at + 1
  BY <1>3
<1>15. \A x \in 1 .. at + 1 : x \in 1 .. at \/ x = at + 1
  BY <1>3
<1>16. CASE Hidden(k)
  <2>1. out' = out
    BY <1>7, <1>16
  <2>2. \A l \in Key : Direct(l) => Shows(l)'
    BY <1>1, <1>11, <1>12, <2>1, ShowsPass
  <2>3. \A i \in DOMAIN out : ~ Direct(out[i].key) => \E x \in 1 .. at + 1 : keys[x] = out[i].key
    <3>1. SUFFICES ASSUME NEW i \in DOMAIN out, ~ Direct(out[i].key)
                   PROVE  \E x \in 1 .. at + 1 : keys[x] = out[i].key
      OBVIOUS
    <3>2. PICK x \in 1 .. at : keys[x] = out[i].key
      BY <1>12, <3>1
    <3>3. x \in 1 .. at + 1
      BY <1>3, <3>2
    <3>4. QED
      BY <3>2, <3>3
  <2>4. \A x \in 1 .. at + 1 : Hidden(keys[x]) \/ \E i \in DOMAIN out : out[i].key = keys[x]
    BY <1>4, <1>12, <1>15, <1>16
  <2>5. /\ \A i \in DOMAIN out' : Direct(out[i].key)' => \E r \in 1 .. Seen(out[i].key)' : Given(r, out[i].key)'
        /\ \A i \in DOMAIN out' : ~ Direct(out[i].key)' => ~ Hidden(out[i].key)'
        /\ \A i \in DOMAIN out' : ~ Direct(out[i].key)' => \E x \in 1 .. at' : keys'[x] = out'[i].key
        /\ \A i, j \in DOMAIN out' : i < j => AtOnce(out[i].key)' \/ GivenBefore(out[i].key, out[j].key)'
        /\ \A l \in Key : Direct(l)' => Shows(l)'
        /\ \A x \in 1 .. at' : Hidden(keys[x])' \/ \E i \in DOMAIN out' : out'[i].key = keys'[x]
    BY <1>1, <1>9, <1>10, <1>11, <1>12, <2>1, <2>2, <2>3, <2>4
  <2>6. \A i \in DOMAIN out' : ~ Direct(out[i].key)' =>
          out'[i].val = IF vals'[out'[i].key] = Null THEN Nothing(out'[i].key) ELSE vals'[out'[i].key]
    BY <1>1, <1>9, <1>12, <2>1
  <2>7. QED
    BY <1>1, <1>12, <2>1, <2>5, <2>6 DEF OutInv
<1>17. CASE ~ Hidden(k)
  <2>1. PICK n \in Nat : n = Len(out) /\ DOMAIN out = 1 .. n
    BY DEF Type
  <2>2. /\ out'[n + 1].key = k /\ out'[n + 1].val = v
        /\ \A i \in 1 .. n : i \in DOMAIN out' /\ out'[i] = out[i]
        /\ DOMAIN out' = 1 .. n \cup {n + 1}
    BY <1>7, <1>8, <1>17, <2>1, WriteFacts DEF Type
  <2>3. \A i \in DOMAIN out' : (i \in DOMAIN out /\ i \in 1 .. n /\ out'[i] = out[i]) \/ i = n + 1
    BY <2>1, <2>2
  <2>4. \A i \in DOMAIN out : out[i].key # k
    <3>1. SUFFICES ASSUME NEW i \in DOMAIN out, out[i].key = k PROVE FALSE
      OBVIOUS
    <3>2. PICK x \in 1 .. at : keys[x] = k
      BY <1>5, <1>12, <3>1
    <3>3. QED
      BY <1>3, <1>4, <1>13, <1>14, <3>2
  <2>5. \A i, j \in DOMAIN out' : out'[i].key = out'[j].key => i = j
    BY <1>12, <2>2, <2>3, <2>4
  <2>6. \A i \in DOMAIN out' : Direct(out'[i].key) => \E r \in 1 .. Sources : Given(r, out'[i].key)
    BY <1>5, <1>12, <2>2, <2>3
  <2>7. ASSUME NEW i \in DOMAIN out', ~ Direct(out'[i].key)
        PROVE  /\ \E x \in 1 .. at + 1 : keys[x] = out'[i].key
               /\ ~ Hidden(out'[i].key)
               /\ out'[i].val = IF vals[out'[i].key] = Null THEN Nothing(out'[i].key) ELSE vals[out'[i].key]
    <3>1. CASE i = n + 1
      <4>1. at + 1 \in 1 .. at + 1
        BY <1>3
      <4>2. QED
        BY <1>4, <1>6, <1>17, <2>2, <3>1, <4>1
    <3>2. CASE i # n + 1
      <4>1. i \in DOMAIN out /\ out'[i] = out[i]
        BY <2>3, <2>7, <3>2
      <4>2. PICK x \in 1 .. at : keys[x] = out[i].key
        BY <1>12, <2>7, <4>1
      <4>3. x \in 1 .. at + 1
        BY <1>3, <4>2
      <4>4. QED
        BY <1>12, <2>7, <4>1, <4>2, <4>3
    <3>3. QED
      BY <3>1, <3>2
  <2>8. ASSUME NEW i \in DOMAIN out', NEW j \in DOMAIN out', i < j
        PROVE  AtOnce(out'[i].key) \/ GivenBefore(out'[i].key, out'[j].key)
    <3>1. i \in DOMAIN out /\ i \in 1 .. n /\ out'[i] = out[i]
      BY <2>1, <2>2, <2>3, <2>8
    <3>2. CASE j \in DOMAIN out
      BY <1>12, <2>1, <2>2, <2>8, <3>1, <3>2
    <3>3. CASE j = n + 1
      <4>1. CASE Direct(out[i].key)
        BY <1>1, <3>1, <4>1 DEF Direct, WayInv
      <4>2. CASE ~ Direct(out[i].key)
        <5>1. PICK x \in 1 .. at : keys[x] = out[i].key
          BY <1>12, <3>1, <4>2
        <5>2. GivenBefore(keys[x], k)
          BY <1>3, <1>4, <1>13, <1>14
        <5>3. QED
          BY <2>2, <3>1, <3>3, <5>1, <5>2
      <4>3. QED
        BY <4>1, <4>2
    <3>4. QED
      BY <2>3, <2>8, <3>2, <3>3
  <2>9. \A x \in 1 .. at + 1 : Hidden(keys[x]) \/ \E i \in DOMAIN out' : out'[i].key = keys[x]
    <3>1. n + 1 \in DOMAIN out' /\ \A i \in DOMAIN out : i \in DOMAIN out' /\ out'[i].key = out[i].key
      BY <2>1, <2>2
    <3>2. QED
      BY <1>4, <1>12, <1>15, <2>2, <3>1
  <2>10. ASSUME NEW l \in Key, Direct(l) PROVE Shows(l)'
    <3>1. l # k
      BY <1>5, <2>10
    <3>2. \A i \in DOMAIN out' : out'[i].key = l => i \in DOMAIN out
      BY <2>2, <2>3, <3>1
    <3>3. \A i \in DOMAIN out : i \in DOMAIN out' /\ out'[i] = out[i]
      BY <2>1, <2>2
    <3>4. QED
      BY <1>1, <1>11, <1>12, <2>10, <3>2, <3>3, ShowsPass
  <2>11. /\ \A i \in DOMAIN out' : Direct(out[i].key)' => \E r \in 1 .. Seen(out[i].key)' : Given(r, out[i].key)'
         /\ \A i \in DOMAIN out' : ~ Direct(out[i].key)' => ~ Hidden(out[i].key)'
         /\ \A i \in DOMAIN out' : ~ Direct(out[i].key)' => \E x \in 1 .. at' : keys'[x] = out'[i].key
         /\ \A i, j \in DOMAIN out' : i < j => AtOnce(out[i].key)' \/ GivenBefore(out[i].key, out[j].key)'
         /\ \A l \in Key : Direct(l)' => Shows(l)'
         /\ \A x \in 1 .. at' : Hidden(keys[x])' \/ \E i \in DOMAIN out' : out'[i].key = keys'[x]
    BY <1>1, <1>9, <1>10, <1>11, <2>6, <2>7, <2>8, <2>9, <2>10
  <2>12. \A i \in DOMAIN out' : ~ Direct(out[i].key)' =>
           out'[i].val = IF vals'[out'[i].key] = Null THEN Nothing(out'[i].key) ELSE vals'[out'[i].key]
    BY <1>1, <1>9, <2>7
  <2>13. QED
    BY <1>1, <2>5, <2>11, <2>12 DEF OutInv
<1>18. QED
  BY <1>16, <1>17


-----------------------------------------------------------------------------
(* Each key once, with all that is given for it, in order *)

\* The invariant; a panic leaves no output.
IInv == pc # "panic" => KeysInv /\ ValsInv /\ OutInv

\* It holds at first.
LEMMA InitInv == ASSUME Init PROVE IInv
<1>1. /\ pc = "compile" /\ path = "text" /\ keys = << >> /\ out = << >>
      /\ \A k \in Key : vals[k] = Unset
  BY DEF Init
<1>2. \A k : Direct(k) /\ Seen(k) = 0
  BY <1>1 DEF Direct, Seen
<1>3. Type /\ WayInv
  BY DEF Init, Type, WayInv, Fresh
<1>4. KeysInv
  BY <1>1, <1>2 DEF KeysInv
<1>5. ValsInv
  BY <1>2 DEF ValsInv
<1>6. \A k \in Key : Shows(k)
  BY <1>1, <1>2, <1>3, FoldFacts DEF Shows
<1>7. OutInv
  BY <1>1, <1>6 DEF OutInv
<1>8. QED
  BY <1>4, <1>5, <1>7 DEF IInv

\* A step that writes nothing and sets nothing, and asks no source that gives something.
LEMMA InvPass ==
  ASSUME Type, WayInv, Compiled, AttributesOnce, KeysInv, ValsInv, OutInv,
         UNCHANGED <<tag, path, keys, shown, vals, out>>,
         pc \notin {"write", "done"}, pc' \in {"write", "done"} => at' = 0,
         \A k \in Key : Passes(k)
  PROVE  KeysInv' /\ ValsInv' /\ OutInv'
<1>1. KeysInv'
  BY KeysPass
<1>2. \A k : Direct(k)' <=> Direct(k)
  BY Rigid
<1>3. \A k \in Key : Eligible(k) /\ ~ Direct(k) => PutTogether(k)'
  BY ValsPass DEF ValsInv
<1>4. ValsInv'
  BY <1>2, <1>3 DEF ValsInv
<1>5. \A k \in Key : Direct(k) => Shows(k)'
  BY ShowsPass DEF OutInv
<1>6. \A k \in Key : Seen(k) <= Seen(k)' /\ Seen(k)' \in Nat
  BY SeenFacts, Bounds DEF Passes
<1>7. OutInv'
  BY <1>5, <1>6, OutPass
<1>8. QED
  BY <1>1, <1>4, <1>7

\* A step that sets a key.
LEMMA InvSets ==
  ASSUME Type, WayInv, Compiled, AttributesOnce, KeysInv, ValsInv, OutInv,
         NEW k \in Key, NEW s, NEW a \in BOOLEAN, Sets(k, s, a)
  PROVE  KeysInv' /\ ValsInv' /\ OutInv'
<1>1. KeysInv' /\ ValsInv'
  BY KeysSet, ValsSet
<1>2. /\ \A l \in Key : l # k => Passes(l)
      /\ Seen(k)' = Seen(k) + 1
  BY SeenSets
<1>3. ~ Direct(k) /\ UNCHANGED <<tag, pc, path, out>> /\ pc \in {"attrs", "bind", "directives"}
  BY DEF Sets
<1>4. \A l \in Key : Direct(l) => Shows(l)'
  BY <1>2, <1>3, ShowsPass DEF OutInv
<1>5. \A l \in Key : Direct(l) => Seen(l) <= Seen(l)' /\ Seen(l)' \in Nat
  BY <1>2, <1>3, SeenFacts, Bounds DEF Passes
<1>6. OutInv'
  BY <1>3, <1>4, <1>5, OutPass
<1>7. QED
  BY <1>1, <1>6

\* The step that chooses the way.
LEMMA InvCompile ==
  ASSUME Type, WayInv, Compile
  PROVE  KeysInv' /\ ValsInv' /\ OutInv'
<1>1. /\ pc' = "attrs" /\ tag' = tag /\ at' = 0 /\ keys' = << >> /\ out' = << >>
      /\ \A k \in Key : vals'[k] = Unset
  BY DEF Compile, WayInv, Fresh
<1>2. \A k : Seen(k)' = 0
  BY <1>1 DEF Seen
<1>3. ASSUME NEW k \in Key, NEW f, Folds(f, k)' PROVE f[0] = Nothing(k)
  <2>1. PICK n \in Nat : n = Sources'
    BY <1>1, SourcesFacts DEF Sources
  <2>2. f = [i \in 0 .. n |-> IF i = 0 THEN Nothing(k)
                              ELSE IF Given(i, k)' THEN Join(k, f[i - 1], GivenBy(i, k)') ELSE f[i - 1]]
    BY <1>3, <2>1 DEF Folds
  <2>3. QED
    BY <2>2
<1>4. KeysInv'
  <2>1. /\ \A x, y \in DOMAIN keys' : keys'[x] = keys'[y] => x = y
        /\ \A x \in DOMAIN keys' : vals'[keys'[x]] # Unset
        /\ \A x, y \in DOMAIN keys' : x < y => GivenBefore(keys[x], keys[y])'
    BY <1>1
  <2>2. \A k \in Key : \A s \in 1 .. Seen(k)' : FALSE
    BY <1>2
  <2>3. QED
    BY <1>1, <2>1, <2>2 DEF KeysInv
<1>5. ASSUME NEW k \in Key PROVE PutTogether(k)' /\ Shows(k)'
  <2>1. ASSUME NEW f, Folds(f, k)' PROVE Means(k, f[0])'
    BY <1>1, <1>3, <1>5, <2>1 DEF Means
  <2>2. PutTogether(k)'
    BY <1>2, <2>1 DEF PutTogether
  <2>3. Shows(k)'
    BY <1>1, <1>2, <1>3, <1>5 DEF Shows
  <2>4. QED
    BY <2>2, <2>3
<1>6. ValsInv'
  BY <1>5 DEF ValsInv
<1>7. OutInv'
  BY <1>1, <1>5 DEF OutInv
<1>8. QED
  BY <1>4, <1>6, <1>7

\* Between two loops every key has been asked for in all the sources of the first.
LEMMA InvEnd ==
  ASSUME Type, WayInv, Compiled, EndAttrs \/ EndBind \/ EndDirectives
  PROVE  /\ UNCHANGED <<tag, path, keys, shown, vals, out>> /\ at' = 0
         /\ pc \notin {"write", "done"}
         /\ \A k \in Key : Passes(k)
<1>1. UNCHANGED <<tag, path, keys, shown, vals, out>> /\ at' = 0 /\ pc \in {"attrs", "bind", "directives"}
  BY DEF EndAttrs, EndBind, EndDirectives
<1>2. Map' = Map /\ Sources' = Sources
  BY <1>1, Rigid
<1>3. /\ Map \in Nat /\ Sources \in Nat /\ at \in Nat /\ 1 <= Map /\ Map <= Sources
      /\ tag.directives = << >> => Sources = Map
      /\ pc = "attrs" /\ at = Len(props) => at = Map - 1
      /\ pc = "directives" /\ at = Len(tag.directives) => Map + at = Sources
  BY Bounds
<1>4. CASE EndAttrs
  <2>1. pc = "attrs" /\ at = Map - 1 /\ pc' = IF path = "text" THEN "done" ELSE "bind"
    BY <1>3, <1>4 DEF EndAttrs
  <2>2. \A k : Seen(k) = Map - 1
    BY <2>1 DEF Seen
  <2>3. CASE path = "text"
    <3>1. ~ HasBind /\ tag.directives = << >>
      BY <2>3 DEF Compiled, CanBeStr
    <3>2. \A k : Seen(k)' = Sources
      BY <1>2, <2>1, <2>3 DEF Seen
    <3>3. \A k : ~ Given(Map, k)
      BY <1>3, <3>1 DEF Given
    <3>4. QED
      BY <1>1, <1>3, <2>2, <3>1, <3>2, <3>3 DEF Passes, Taken
  <2>4. CASE path # "text"
    <3>1. \A k : Seen(k)' = Map - 1
      BY <1>1, <1>2, <2>1, <2>4 DEF Seen
    <3>2. QED
      BY <1>1, <2>2, <3>1 DEF Passes
  <2>5. QED
    BY <2>3, <2>4
<1>5. CASE EndBind
  <2>1. /\ pc = "bind" /\ pc' = IF path = "attr" THEN "write" ELSE "directives"
        /\ HasBind /\ Bound # Null => at = Len(KeyOrder)
    BY <1>5 DEF EndBind
  <2>2. \A k : Seen(k)' = Map
    <3>1. CASE path = "attr"
      <4>1. Sources = Map
        BY <1>3, <3>1 DEF Compiled
      <4>2. QED
        BY <1>2, <2>1, <3>1, <4>1 DEF Seen
    <3>2. CASE path # "attr"
      BY <1>1, <1>2, <1>3, <2>1, <3>2 DEF Seen
    <3>3. QED
      BY <3>1, <3>2
  <2>3. ASSUME NEW k \in Key PROVE Passes(k)
    <3>1. Seen(k) = IF \E x \in 1 .. at : KeyOrder[x] = k THEN Map ELSE Map - 1
      BY <2>1 DEF Seen
    <3>2. CASE Seen(k) = Map
      BY <2>2, <3>2 DEF Passes
    <3>3. CASE Seen(k) = Map - 1
      <4>1. ~ (HasBind /\ Bound # Null)
        BY <1>3, <2>1, <3>1, <3>3 DEF Key
      <4>2. ~ Given(Map, k)
        BY <1>3, <4>1 DEF Given
      <4>3. QED
        BY <1>3, <2>2, <3>3, <4>2 DEF Passes, Taken
    <3>4. QED
      BY <3>1, <3>2, <3>3
  <2>4. QED
    BY <1>1, <2>3
<1>6. CASE EndDirectives
  <2>1. pc = "directives" /\ pc' = "write" /\ Map + at = Sources
    BY <1>3, <1>6 DEF EndDirectives
  <2>2. \A k : Seen(k) = Sources /\ Seen(k)' = Sources
    BY <1>2, <2>1 DEF Seen
  <2>3. QED
    BY <1>1, <2>2 DEF Passes
<1>7. QED
  BY <1>4, <1>5, <1>6

\* A step of the first loop.
LEMMA InvAttrs ==
  ASSUME Type, WayInv, Compiled, AttributesOnce, KeysInv, ValsInv, OutInv,
         WriteText \/ ExecProp \/ AppendProp
  PROVE  KeysInv' /\ ValsInv' /\ OutInv'
<1>1. /\ pc = "attrs" /\ at' = at + 1 /\ at + 1 \in 1 .. Len(tag.attrs)
      /\ UNCHANGED <<tag, pc, path, props>>
      /\ \/ \E k \in Key, a \in BOOLEAN : Sets(k, at + 1, a)
         \/ \E k \in Key :
              /\ Given(at + 1, k) /\ Direct(k) /\ GivenBy(at + 1, k) \in Value(k)
              /\ UNCHANGED <<keys, shown, vals>>
              /\ \/ Write(k, GivenBy(at + 1, k))
                 \/ out' = out /\ k \in Merged /\ GivenBy(at + 1, k) = Nothing(k)
         \/ /\ UNCHANGED <<keys, shown, vals, out>>
            /\ \A k \in Key : ~ Given(at + 1, k)
  BY AttrSteps
<1>2. PICK m : m = Len(tag.attrs)
  OBVIOUS
<1>3. m \in Nat /\ Map = m + 1 /\ Map <= Sources /\ Sources \in Nat
  BY <1>2, SourcesFacts, Bounds
<1>4. at + 1 \in 1 .. m /\ at \in Nat
  BY <1>1, <1>2 DEF Type
<1>5. at + 1 \in 1 .. Sources /\ at + 1 < Map
  BY <1>3, <1>4
<1>6. \A k : Seen(k) = at /\ Seen(k)' = at + 1
  BY <1>1 DEF Seen
<1>7. ASSUME NEW k \in Key, ~ Given(at + 1, k) PROVE Passes(k)
  BY <1>5, <1>6, <1>7 DEF Passes, Taken
<1>8. CASE \E k \in Key, a \in BOOLEAN : Sets(k, at + 1, a)
  BY <1>8, InvSets
<1>9. ASSUME NEW k \in Key, Given(at + 1, k), Direct(k), GivenBy(at + 1, k) \in Value(k),
             UNCHANGED <<keys, shown, vals>>,
             \/ Write(k, GivenBy(at + 1, k))
             \/ out' = out /\ k \in Merged /\ GivenBy(at + 1, k) = Nothing(k)
      PROVE  KeysInv' /\ ValsInv' /\ OutInv'
  <2>1. \A l \in Key : ~ Direct(l) => Passes(l)
    <3>1. SUFFICES ASSUME NEW l \in Key, ~ Direct(l) PROVE ~ Given(at + 1, l)
      BY <1>7
    <3>2. l # k
      BY <1>9, <3>1
    <3>3. QED
      BY <1>5, <1>9, <3>2 DEF Given
  <2>2. KeysInv'
    BY <1>1, <1>9, <2>1, KeysPass
  <2>3. \A l : Direct(l)' <=> Direct(l)
    BY <1>1, Rigid
  <2>4. ValsInv'
    BY <1>1, <1>9, <2>1, <2>3, ValsPass DEF ValsInv
  <2>5. OutInv'
    BY <1>1, <1>5, <1>9, OutDirect
  <2>6. QED
    BY <2>2, <2>4, <2>5
<1>10. CASE UNCHANGED <<keys, shown, vals, out>> /\ \A k \in Key : ~ Given(at + 1, k)
  <2>1. \A k \in Key : Passes(k)
    BY <1>7, <1>10
  <2>2. pc \notin {"write", "done"} /\ pc' \notin {"write", "done"}
    BY <1>1
  <2>3. QED
    BY <1>1, <1>10, <2>1, <2>2, InvPass
<1>11. QED
  BY <1>1, <1>8, <1>9, <1>10

\* A step of the second.
LEMMA InvBind ==
  ASSUME Type, WayInv, Compiled, AttributesOnce, KeysInv, ValsInv, OutInv, BindNext
  PROVE  KeysInv' /\ ValsInv' /\ OutInv'
<1>1. /\ pc = "bind" /\ at' = at + 1 /\ at + 1 \in 1 .. Len(KeyOrder)
      /\ UNCHANGED <<tag, pc, path, props, out>>
      /\ \/ \E k \in Key, a \in BOOLEAN : Sets(k, Map, a)
         \/ UNCHANGED <<keys, shown, vals>> /\ ~ Taken(Map, KeyOrder[at + 1])
  BY BindSteps
<1>2. CASE \E k \in Key, a \in BOOLEAN : Sets(k, Map, a)
  BY <1>2, InvSets
<1>3. CASE UNCHANGED <<keys, shown, vals>> /\ ~ Taken(Map, KeyOrder[at + 1])
  <2>1. Map' = Map
    BY <1>1, Rigid
  <2>2. Map \in Nat /\ Sources \in Nat /\ at \in Nat /\ 1 <= Map /\ Map <= Sources
    BY Bounds
  <2>3. ASSUME NEW k \in Key PROVE Passes(k)
    <3>1. /\ Seen(k) = IF \E x \in 1 .. at : KeyOrder[x] = k THEN Map ELSE Map - 1
          /\ Seen(k)' = IF \E x \in 1 .. at + 1 : KeyOrder[x] = k THEN Map ELSE Map - 1
      BY <1>1, <2>1 DEF Seen
    <3>2. CASE \E x \in 1 .. at : KeyOrder[x] = k
      <4>1. \E x \in 1 .. at + 1 : KeyOrder[x] = k
        BY <2>2, <3>2
      <4>2. QED
        BY <3>1, <3>2, <4>1 DEF Passes
    <3>3. CASE ~ \E x \in 1 .. at : KeyOrder[x] = k
      <4>1. CASE k = KeyOrder[at + 1]
        <5>1. Seen(k)' = Map
          BY <2>2, <3>1, <4>1
        <5>2. QED
          BY <1>3, <2>2, <3>1, <3>3, <4>1, <5>1 DEF Passes
      <4>2. CASE k # KeyOrder[at + 1]
        <5>1. ~ \E x \in 1 .. at + 1 : KeyOrder[x] = k
          BY <2>2, <3>3, <4>2
        <5>2. QED
          BY <3>1, <3>3, <5>1 DEF Passes
      <4>3. QED
        BY <4>1, <4>2
    <3>4. QED
      BY <3>2, <3>3
  <2>4. pc \notin {"write", "done"} /\ pc' \notin {"write", "done"}
    BY <1>1
  <2>5. QED
    BY <1>1, <1>3, <2>3, <2>4, InvPass
<1>4. QED
  BY <1>1, <1>2, <1>3

\* A step of the last.
LEMMA InvWrite ==
  ASSUME Type, WayInv, Compiled, AttributesOnce, KeysInv, ValsInv, OutInv, WriteKey \/ EndWrite
  PROVE  KeysInv' /\ ValsInv' /\ OutInv'
<1>1. /\ pc = "write" /\ pc' \in {"write", "done"}
      /\ UNCHANGED <<tag, path, keys, shown, vals>>
  BY DEF WriteKey, EndWrite
<1>2. \A k : Seen(k)' = Seen(k)
  BY <1>1, Rigid DEF Seen
<1>3. \A k : Passes(k)
  BY <1>2 DEF Passes
<1>4. KeysInv'
  BY <1>1, <1>3, KeysPass
<1>5. \A k : Direct(k)' <=> Direct(k)
  BY <1>1, Rigid
<1>6. ValsInv'
  BY <1>1, <1>3, <1>5, ValsPass DEF ValsInv
<1>7. CASE WriteKey
  BY <1>4, <1>6, <1>7, OutKey
<1>8. CASE EndWrite
  <2>1. at' = at /\ out' = out
    BY <1>8 DEF EndWrite
  <2>2. /\ \A s, k : Given(s, k)' <=> Given(s, k)
        /\ \A k : AtOnce(k)' <=> AtOnce(k)
        /\ \A k, l : GivenBefore(k, l)' <=> GivenBefore(k, l)
        /\ \A k : Hidden(k)' <=> Hidden(k)
    BY <1>1, Rigid DEF Hidden
  <2>3. \A k : Shows(k)' <=> Shows(k)
    BY <1>1, <1>2, <2>1, FoldsKept DEF Shows
  <2>4. /\ \A i, j \in DOMAIN out : out[i].key = out[j].key => i = j
        /\ \A i \in DOMAIN out : Direct(out[i].key) => \E s \in 1 .. Seen(out[i].key) : Given(s, out[i].key)
        /\ \A i \in DOMAIN out : ~ Direct(out[i].key) =>
             /\ \E x \in 1 .. at : keys[x] = out[i].key
             /\ ~ Hidden(out[i].key)
             /\ out[i].val = IF vals[out[i].key] = Null THEN Nothing(out[i].key) ELSE vals[out[i].key]
        /\ \A i, j \in DOMAIN out : i < j => AtOnce(out[i].key) \/ GivenBefore(out[i].key, out[j].key)
        /\ \A x \in 1 .. at : Hidden(keys[x]) \/ \E i \in DOMAIN out : out[i].key = keys[x]
        /\ \A k \in Key : Direct(k) => Shows(k)
    BY <1>1 DEF OutInv
  <2>5. /\ \A i \in DOMAIN out' : Direct(out[i].key)' =>
             \E s \in 1 .. Seen(out[i].key)' : Given(s, out[i].key)'
        /\ \A i \in DOMAIN out' : ~ Direct(out[i].key)' => ~ Hidden(out[i].key)'
        /\ \A i, j \in DOMAIN out' : i < j => AtOnce(out[i].key)' \/ GivenBefore(out[i].key, out[j].key)'
        /\ \A x \in 1 .. at' : Hidden(keys[x])' \/ \E i \in DOMAIN out' : out'[i].key = keys'[x]
        /\ \A k \in Key : Direct(k)' => Shows(k)'
    BY <1>1, <1>2, <1>5, <2>1, <2>2, <2>3, <2>4
  <2>6. /\ \A i \in DOMAIN out' : ~ Direct(out[i].key)' => \E x \in 1 .. at' : keys'[x] = out'[i].key
        /\ \A i \in DOMAIN out' : ~ Direct(out[i].key)' =>
             out'[i].val = IF vals'[out'[i].key] = Null THEN Nothing(out'[i].key) ELSE vals'[out'[i].key]
    BY <1>1, <1>5, <2>1, <2>4
  <2>7. OutInv'
    BY <1>1, <2>1, <2>4, <2>5, <2>6 DEF OutInv
  <2>8. QED
    BY <1>4, <1>6, <2>7
<1>9. QED
  BY <1>7, <1>8

\* A step that changes nothing.
LEMMA InvSame ==
  ASSUME KeysInv, ValsInv, OutInv, UNCHANGED vars
  PROVE  KeysInv' /\ ValsInv' /\ OutInv'
<1>1. UNCHANGED <<tag, pc, path, props, at, keys, shown, vals, out>>
  BY DEF vars
<1>2. \A k : Seen(k)' = Seen(k) /\ (Hidden(k)' <=> Hidden(k))
  BY <1>1, Rigid DEF Seen, Hidden
<1>3. /\ \A s, k : Given(s, k)' <=> Given(s, k)
      /\ \A s, k : Taken(s, k)' <=> Taken(s, k)
      /\ \A k : AtOnce(k)' <=> AtOnce(k)
      /\ \A k : Direct(k)' <=> Direct(k)
      /\ \A k, l : GivenBefore(k, l)' <=> GivenBefore(k, l)
      /\ \A f, k : Folds(f, k)' <=> Folds(f, k)
  BY <1>1, Rigid, FoldsKept
<1>4. \A k, v : Means(k, v)' <=> Means(k, v)
  BY <1>1 DEF Means
<1>5. \A k : (PutTogether(k)' <=> PutTogether(k)) /\ (Shows(k)' <=> Shows(k))
  BY <1>1, <1>2, <1>3, <1>4 DEF PutTogether, Shows
<1>6. KeysInv'
  BY <1>1, <1>2, <1>3 DEF KeysInv
<1>7. ValsInv'
  BY <1>3, <1>5 DEF ValsInv
<1>8. OutInv'
  BY <1>1, <1>2, <1>3, <1>5 DEF OutInv
<1>9. QED
  BY <1>6, <1>7, <1>8

\* Every step keeps the invariant.
LEMMA InvStep ==
  ASSUME AttributesOnce, Type, WayInv, IInv, [Next]_vars
  PROVE  IInv'
<1>1. CASE pc = "panic"
  BY <1>1 DEF IInv, Next, Compile, WriteText, ExecProp, AppendProp, NextAttr, EndAttrs, BindNext, PanicOnNull,
              EndBind, RunDirective, EndDirectives, WriteKey, EndWrite, Ended, vars
<1>2. CASE pc # "panic"
  <2>1. KeysInv /\ ValsInv /\ OutInv
    BY <1>2 DEF IInv
  <2>2. pc # "compile" => Compiled
    BY DEF WayInv
  <2>3. CASE Compile
    BY <2>3, InvCompile DEF IInv
  <2>4. CASE WriteText \/ ExecProp \/ AppendProp
    <3>1. pc = "attrs"
      BY <2>4 DEF WriteText, ExecProp, AppendProp, NextAttr
    <3>2. QED
      BY <2>1, <2>2, <2>4, <3>1, InvAttrs DEF IInv
  <2>5. CASE BindNext
    <3>1. pc = "bind"
      BY <2>5 DEF BindNext
    <3>2. QED
      BY <2>1, <2>2, <2>5, <3>1, InvBind DEF IInv
  <2>6. CASE PanicOnNull
    BY <2>6 DEF PanicOnNull, IInv
  <2>7. CASE EndAttrs \/ EndBind \/ EndDirectives
    <3>1. pc # "compile"
      BY <2>7 DEF EndAttrs, EndBind, EndDirectives
    <3>2. /\ UNCHANGED <<tag, path, keys, shown, vals, out>> /\ at' = 0
          /\ pc \notin {"write", "done"}
          /\ \A k \in Key : Passes(k)
      BY <2>2, <2>7, <3>1, InvEnd
    <3>3. QED
      BY <2>1, <2>2, <3>1, <3>2, InvPass DEF IInv
  <2>8. CASE RunDirective
    <3>1. pc = "directives" /\ \E k \in Key : Sets(k, Map + at + 1, TRUE)
      BY <2>8, DirectiveSteps
    <3>2. QED
      BY <2>1, <2>2, <3>1, InvSets DEF IInv
  <2>9. CASE WriteKey \/ EndWrite
    <3>1. pc = "write"
      BY <2>9 DEF WriteKey, EndWrite
    <3>2. QED
      BY <2>1, <2>2, <2>9, <3>1, InvWrite DEF IInv
  <2>10. CASE Ended \/ UNCHANGED vars
    BY <2>1, <2>10, InvSame DEF Ended, IInv
  <2>11. QED
    BY <2>3, <2>4, <2>5, <2>6, <2>7, <2>8, <2>9, <2>10 DEF Next
<1>3. QED
  BY <1>1, <1>2

\* It holds in every state, for a template that writes and binds no attribute twice.
LEMMA Invariance == AttributesOnce /\ Spec => [](Type /\ WayInv /\ IInv)
<1>1. Init => IInv
  BY InitInv
<1>2. AttributesOnce /\ Type /\ WayInv /\ IInv /\ [Next]_vars => IInv'
  BY InvStep
<1>3. AttributesOnce => []AttributesOnce
  <2>1. AttributesOnce => AttributesOnce'
    BY DEF AttributesOnce
  <2>2. QED
    BY <2>1, PTL
<1>4. QED
  BY <1>1, <1>2, <1>3, TypeInvariance, PTL DEF Spec

\* Attributes come in the order in which they are first given, whichever way they take (the attrs
\* of ExecAttr, but for class and style; the list of Props), for a template that writes and binds
\* none of them twice.
THEOREM AttributesInOrder == AttributesOnce /\ Spec => []OrderKept
<1>1. IInv => OrderKept
  <2>1. SUFFICES ASSUME IInv, pc = "done", NEW i \in DOMAIN out, NEW j \in DOMAIN out,
                        i < j, ~ (path = "attr" /\ out[i].key \in Merged)
                 PROVE  GivenBefore(out[i].key, out[j].key)
    BY DEF OrderKept
  <2>2. AtOnce(out[i].key) \/ GivenBefore(out[i].key, out[j].key)
    BY <2>1 DEF IInv, OutInv
  <2>3. QED
    BY <2>1, <2>2 DEF AtOnce
<1>2. QED
  BY <1>1, Invariance, PTL

\* At the end a key that is written has the value that its sources give, and one with content is
\* written.
LEMMA WrittenValue ==
  ASSUME Type, WayInv, KeysInv, ValsInv, OutInv, pc = "done", NEW k \in Key, Eligible(k),
         NEW v, v = Joined(k)[Sources]
  PROVE  /\ \A i \in DOMAIN out : out[i].key = k => Same(k, out[i].val, v)
         /\ v \notin {Nothing(k), Null} => \E i \in DOMAIN out : out[i].key = k
<1>1. PICK f : f = Joined(k)
  OBVIOUS
<1>2. Folds(f, k) /\ v = f[Sources]
  BY <1>1, JoinedFolds
<1>3. Seen(k) = Sources
  BY DEF Seen
<1>4. CASE Direct(k)
  <2>1. Shows(k)
    BY <1>4 DEF OutInv
  <2>2. /\ \A i \in DOMAIN out : out[i].key = k => out[i].val = v
        /\ (\A i \in DOMAIN out : out[i].key # k) => v = Nothing(k)
    BY <1>2, <1>3, <2>1 DEF Shows
  <2>3. ASSUME NEW i \in DOMAIN out, out[i].key = k PROVE out[i].val # Null
    <3>1. out[i] \in Output
      BY DEF Type
    <3>2. PICK l \in Key : out[i].val \in Value(l)
      BY <3>1 DEF Output
    <3>3. QED
      BY <3>2, ValueFacts
  <2>4. QED
    BY <2>2, <2>3 DEF Same
<1>5. CASE ~ Direct(k)
  <2>1. Means(k, v)
    BY <1>2, <1>3, <1>5 DEF ValsInv, PutTogether
  <2>2. ASSUME NEW i \in DOMAIN out, out[i].key = k
        PROVE  /\ ~ Hidden(k) /\ vals[k] # Unset
               /\ out[i].val = IF vals[k] = Null THEN Nothing(k) ELSE vals[k]
    <3>1. PICK x \in 1 .. at : keys[x] = k
      BY <1>5, <2>2 DEF OutInv
    <3>2. x \in DOMAIN keys
      BY <3>1 DEF WayInv, Type
    <3>3. vals[k] # Unset
      BY <3>1, <3>2 DEF KeysInv
    <3>4. QED
      BY <1>5, <2>2, <3>3 DEF OutInv
  <2>3. ASSUME NEW i \in DOMAIN out, out[i].key = k PROVE Same(k, out[i].val, v)
    <3>1. CASE path = "attr"
      BY <2>1, <2>2, <2>3, <3>1 DEF Means, Same, AsAttr
    <3>2. CASE path # "attr"
      BY <2>1, <2>2, <2>3, <3>2 DEF Means, Same, Hidden
    <3>3. QED
      BY <3>1, <3>2
  <2>4. ASSUME v \notin {Nothing(k), Null} PROVE \E i \in DOMAIN out : out[i].key = k
    <3>1. vals[k] # Unset
      BY <2>1, <2>4 DEF Means
    <3>2. k \in shown
      BY <3>1 DEF KeysInv
    <3>3. vals[k] # Null
      BY <2>1, <2>4, <3>1 DEF Means
    <3>4. PICK x \in DOMAIN keys : keys[x] = k
      BY <3>1 DEF KeysInv
    <3>5. x \in 1 .. at
      BY <3>4 DEF WayInv, Type
    <3>6. ~ Hidden(keys[x])
      BY <3>2, <3>3, <3>4 DEF Hidden
    <3>7. QED
      BY <3>4, <3>5, <3>6 DEF OutInv
  <2>5. QED
    BY <2>3, <2>4
<1>6. QED
  BY <1>4, <1>5

\* Whichever way a tag takes (genAttrFromProps, ExecAttr, tagStatement.Exec), an attribute is
\* written once and with all that is given for it, for a template that writes and binds none of
\* them twice.
THEOREM OnceAndWhole == AttributesOnce /\ Spec => []OnceWithAll
<1>1. Type /\ WayInv /\ IInv => OnceWithAll
  <2>1. SUFFICES ASSUME Type, WayInv, IInv, pc = "done", NEW k \in Key,
                        NEW v, v = Joined(k)[Sources],
                        NEW n, n = Cardinality({i \in DOMAIN out : out[i].key = k})
                 PROVE  /\ n <= 1
                        /\ Eligible(k) /\ v \notin {Nothing(k), Null} => n = 1
                        /\ \A i \in DOMAIN out : Eligible(k) /\ out[i].key = k => Same(k, out[i].val, v)
    BY DEF OnceWithAll
  <2>2. KeysInv /\ ValsInv /\ OutInv
    BY <2>1 DEF IInv
  <2>3. PICK S : S = {i \in DOMAIN out : out[i].key = k}
    OBVIOUS
  <2>4. S = {} \/ \E i : S = {i}
    <3>1. SUFFICES ASSUME NEW i \in S PROVE S = {i}
      OBVIOUS
    <3>2. \A j \in S : j = i
      BY <2>2, <2>3, <3>1 DEF OutInv
    <3>3. QED
      BY <3>1, <3>2
  <2>5. (S = {} => n = 0) /\ (S # {} => n = 1)
    BY <2>1, <2>3, <2>4, FS_EmptySet, FS_Singleton
  <2>6. Eligible(k) =>
          /\ \A i \in DOMAIN out : out[i].key = k => Same(k, out[i].val, v)
          /\ v \notin {Nothing(k), Null} => \E i \in DOMAIN out : out[i].key = k
    BY <2>1, <2>2, WrittenValue
  <2>7. n <= 1
    BY <2>5
  <2>8. Eligible(k) /\ v \notin {Nothing(k), Null} => n = 1
    BY <2>3, <2>5, <2>6
  <2>9. QED
    BY <2>6, <2>7, <2>8
<1>2. QED
  BY <1>1, Invariance, PTL
=============================================================================
