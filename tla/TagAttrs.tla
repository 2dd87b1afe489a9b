------------------------------ MODULE TagAttrs ------------------------------
(***************************************************************************)
(* How the attributes of a tag reach the output.  There are three ways,    *)
(* and the compiler (toStatement, compileProps) chooses one for each tag:  *)
(*   "text": a tag that uses no variable is turned into text              *)
(*           (genAttrFromProps);                                           *)
(*   "attr": ExecAttr merges the attributes as it evaluates them;          *)
(*   "props": a tag with directives gets Props, which the directives may   *)
(*           extend, and which are written afterwards (tagStatement.Exec). *)
(*                                                                         *)
(* A tag is [attrs, bind, call, directives, html]: the attributes as they  *)
(* are written, the map of its v-bind; if it is the root of a component,   *)
(* the props of the call; the attributes that its directives append; and   *)
(* whether it has v-html or v-text.                                        *)
(***************************************************************************)
EXTENDS Naturals, Sequences, FiniteSets

CONSTANTS
  KeyOrder,     \* the names of attributes, sorted
  Attr,         \* those that CanBeAttrsKey accepts
  Text,         \* the texts that are values, and the names of classes
  Declaration,  \* the names of the declarations of a style
  Tags,         \* the tags
  Null,         \* the value null of an expression
  Unset         \* no value

Key == {KeyOrder[i] : i \in 1 .. Len(KeyOrder)}

\* The two whose values are merged: the value of class is a sequence of names, that
\* of style the set of the names of its declarations, all others are strings.
Merged == {"class", "style"}

Eligible(k) == k \in Merged \cup Attr

Nothing(k) == CASE k = "class" -> << >> [] k = "style" -> {} [] OTHER -> ""

\* The values of an attribute; an expression may be null instead.
Value(k) ==
  CASE k = "class" -> Seq(Text) [] k = "style" -> SUBSET Declaration [] OTHER -> Text

IsValue(k, v) == v # Null => v \in Value(k)

\* Names are sorted once each.
ASSUME KeyAssumption ==
  /\ Len(KeyOrder) \in Nat /\ DOMAIN KeyOrder = 1 .. Len(KeyOrder)
  /\ \A i, j \in DOMAIN KeyOrder : KeyOrder[i] = KeyOrder[j] => i = j

\* Null and Unset are no values.
ASSUME ValueAssumption ==
  /\ {"", "null"} \subseteq Text
  /\ Null # Unset
  /\ {Null, Unset} \cap Text = {}
  /\ {Null, Unset} \cap Seq(Text) = {}
  /\ \A d \in SUBSET Declaration : d \notin {Null, Unset}

\* A map, of v-bind or of a call, has a value for some keys.
IsMap(m) == DOMAIN m = Key /\ \A k \in Key : m[k] = Unset \/ IsValue(k, m[k])

\* What is written in a template is not null.
ASSUME TagAssumption ==
  \A t \in Tags :
    /\ DOMAIN t.attrs = 1 .. Len(t.attrs) /\ Len(t.attrs) \in Nat
    /\ \A i \in DOMAIN t.attrs :
         LET a == t.attrs[i]
         IN a.key \in Key /\ IsValue(a.key, a.val) /\ a.static \in BOOLEAN /\ (a.static => a.val # Null)
    /\ t.bind \in {Unset, Null} \/ IsMap(t.bind)
    /\ t.call = Unset \/ IsMap(t.call)
    /\ DOMAIN t.directives = 1 .. Len(t.directives) /\ Len(t.directives) \in Nat
    /\ \A i \in DOMAIN t.directives :
         t.directives[i].key \in Key /\ IsValue(t.directives[i].key, t.directives[i].val)

\* writeClass, style[k] = v, attr[k] = v: null adds nothing to a class or style.
Join(k, old, new) ==
  IF k \notin Merged THEN new
  ELSE IF new = Null THEN old
  ELSE IF k = "class" THEN old \o new ELSE old \cup new

VARIABLES
  tag,    \* the tag
  pc,     \* "compile", "attrs", "bind", "directives", "write", "done" or "panic"
  path,   \* "text", "attr" or "props"
  props,  \* the compiled attributes: [key, val, asText]
  at,     \* how many of the attributes, or of the keys of bind, are done
  keys,   \* attrKeys, or the list of Props: the keys in the order to be written
  shown,  \* those that are attributes
  vals,   \* attr, class and style, or the map of Props
  out     \* the attributes written: [key, val]

vars == <<tag, pc, path, props, at, keys, shown, vals, out>>

Init ==
  /\ tag \in Tags
  /\ pc = "compile"
  /\ path = "text"
  /\ props = << >>
  /\ at = 0
  /\ keys = << >>
  /\ shown = {}
  /\ vals = [k \in Key |-> Unset]
  /\ out = << >>

-----------------------------------------------------------------------------
(* Compilation *)

Root == tag.call # Unset

\* The root of a component binds the props of the call, and its v-bind is not looked
\* at.
Bound == IF Root THEN tag.call ELSE tag.bind

HasBind == Bound # Unset

CanBeStr ==
  /\ \A i \in DOMAIN tag.attrs : tag.attrs[i].static
  /\ ~ HasBind /\ ~ tag.html
  /\ tag.directives = << >>

\* Bug: a static class next to a bound one is turned into text as well.
AsTextAlways(a) == a.static /\ ~ HasBind /\ tag.directives = << >>

\* compileProps: a static value becomes text, unless it has to be merged.
AsText(a) ==
  /\ a.static /\ ~ HasBind /\ tag.directives = << >>
  /\ a.key \in Merged =>
       \A i \in DOMAIN tag.attrs : tag.attrs[i].key = a.key => tag.attrs[i].static

Compile ==
  /\ pc = "compile"
  /\ path' = IF CanBeStr THEN "text" ELSE IF tag.directives = << >> THEN "attr" ELSE "props"
  /\ props' = [i \in DOMAIN tag.attrs |->
                 [key |-> tag.attrs[i].key, val |-> tag.attrs[i].val,
                  asText |-> AsText(tag.attrs[i])]]
  /\ pc' = "attrs"
  /\ UNCHANGED <<tag, at, keys, shown, vals, out>>

-----------------------------------------------------------------------------
(* The attributes of the tag, one at a time *)

Current == props[at + 1]

NextAttr(way) ==
  /\ pc = "attrs"
  /\ path = way
  /\ at < Len(props)
  /\ at' = at + 1
  /\ UNCHANGED <<tag, pc, path, props>>

Write(k, v) == out' = Append(out, [key |-> k, val |-> v])

\* genAttrFromProps leaves out a class or style without content.
WriteText ==
  /\ NextAttr("text")
  /\ IF Current.key \in Merged /\ Current.val = Nothing(Current.key) THEN UNCHANGED out
     ELSE Write(Current.key, Current.val)
  /\ UNCHANGED <<keys, shown, vals>>

\* Bug: a key that comes again goes to the end.
SetMoving(k, v, attr) ==
  /\ keys' = Append(SelectSeq(keys, LAMBDA x : x # k), k)
  /\ shown' = IF vals[k] = Unset /\ attr THEN shown \cup {k} ELSE shown
  /\ vals' = [vals EXCEPT ![k] = IF @ = Unset THEN v
                                 ELSE Join(k, IF @ = Null THEN Nothing(k) ELSE @, v)]

\* Bug: the first value is kept.
SetOnce(k, v, attr) ==
  /\ keys' = IF vals[k] = Unset THEN Append(keys, k) ELSE keys
  /\ shown' = IF vals[k] = Unset /\ attr THEN shown \cup {k} ELSE shown
  /\ vals' = [vals EXCEPT ![k] = IF @ = Unset THEN v ELSE @]

\* A key is noted when it comes first; its value is merged or replaced.
Set(k, v, attr) ==
  /\ keys' = IF vals[k] = Unset THEN Append(keys, k) ELSE keys
  /\ shown' = IF vals[k] = Unset /\ attr THEN shown \cup {k} ELSE shown
  /\ vals' = [vals EXCEPT ![k] = IF @ = Unset THEN v
                                 ELSE Join(k, IF @ = Null THEN Nothing(k) ELSE @, v)]

\* ExecAttr holds text: null is nothing for class and style, and "null" for others.
AsAttr(k, v) ==
  IF v # Null THEN v ELSE IF k \in Merged THEN Nothing(k) ELSE "null"

\* ExecAttr: a class or style that is text is written at once, an empty text never.
ExecProp ==
  /\ NextAttr("attr")
  /\ LET k == Current.key
     IN IF Current.asText /\ k \in Merged
        THEN Write(k, Current.val) /\ UNCHANGED <<keys, shown, vals>>
        ELSE /\ IF Current.asText /\ Current.val = "" THEN UNCHANGED <<keys, shown, vals>>
                ELSE Set(k, AsAttr(k, Current.val), TRUE)
             /\ UNCHANGED out

\* propsC.execTo: CanBeAttr has been decided by the parser.
AppendProp ==
  /\ NextAttr("props")
  /\ Set(Current.key, Current.val, Eligible(Current.key))
  /\ UNCHANGED out

EndAttrs ==
  /\ pc = "attrs"
  /\ at = Len(props)
  /\ pc' = IF path = "text" THEN "done" ELSE "bind"
  /\ at' = 0
  /\ UNCHANGED <<tag, path, props, keys, shown, vals, out>>

-----------------------------------------------------------------------------
(* The map of v-bind, or the props of the call, in the order of its keys *)

\* Bug: keys that are no attributes are taken as well.
BindKeyAny(k) ==
  Set(k, IF path = "attr" THEN AsAttr(k, Bound[k]) ELSE Bound[k], TRUE)

\* execBindProps takes what may be an attribute, AppendMap everything.
BindKey(k) ==
  IF path = "attr" /\ ~ Eligible(k) THEN UNCHANGED <<keys, shown, vals>>
  ELSE Set(k, IF path = "attr" THEN AsAttr(k, Bound[k]) ELSE Bound[k], Eligible(k))

BindNext ==
  /\ pc = "bind"
  /\ HasBind /\ Bound # Null
  /\ at < Len(KeyOrder)
  /\ LET k == KeyOrder[at + 1]
     IN IF Bound[k] = Unset THEN UNCHANGED <<keys, shown, vals>> ELSE BindKey(k)
  /\ at' = at + 1
  /\ UNCHANGED <<tag, pc, path, props, out>>

\* vBindC.execTo panics on null, ExecAttr does not.
PanicOnNull ==
  /\ pc = "bind"
  /\ path = "props" /\ Bound = Null
  /\ pc' = "panic"
  /\ UNCHANGED <<tag, path, props, at, keys, shown, vals, out>>

EndBind ==
  /\ pc = "bind"
  /\ IF Bound = Null THEN path = "attr" ELSE HasBind => at = Len(KeyOrder)
  /\ pc' = IF path = "attr" THEN "write" ELSE "directives"
  /\ at' = 0
  /\ UNCHANGED <<tag, path, props, keys, shown, vals, out>>

\* execDirectives: AppendAttr, AppendClass, AppendStyle.
RunDirective ==
  /\ pc = "directives"
  /\ at < Len(tag.directives)
  /\ Set(tag.directives[at + 1].key, tag.directives[at + 1].val, TRUE)
  /\ at' = at + 1
  /\ UNCHANGED <<tag, pc, path, props, out>>

EndDirectives ==
  /\ pc = "directives"
  /\ at = Len(tag.directives)
  /\ pc' = "write"
  /\ at' = 0
  /\ UNCHANGED <<tag, path, props, keys, shown, vals, out>>

\* The last loops of ExecAttr and of tagStatement.Exec: a class or style that is null
\* is left out, another key has no value.
WriteKey ==
  /\ pc = "write"
  /\ at < Len(keys)
  /\ LET k == keys[at + 1]
     IN IF k \notin shown \/ (k \in Merged /\ vals[k] = Null) THEN UNCHANGED out
        ELSE Write(k, IF vals[k] = Null THEN Nothing(k) ELSE vals[k])
  /\ at' = at + 1
  /\ UNCHANGED <<tag, pc, path, props, keys, shown, vals>>

EndWrite ==
  /\ pc = "write"
  /\ at = Len(keys)
  /\ pc' = "done"
  /\ UNCHANGED <<tag, path, props, at, keys, shown, vals, out>>

Ended == pc \in {"done", "panic"} /\ UNCHANGED vars

Next ==
  \/ Compile \/ WriteText \/ ExecProp \/ AppendProp \/ EndAttrs
  \/ BindNext \/ PanicOnNull \/ EndBind \/ RunDirective \/ EndDirectives
  \/ WriteKey \/ EndWrite \/ Ended

Spec == Init /\ [][Next]_vars

-----------------------------------------------------------------------------
(* Correctness *)

\* ExecAttr loses an attribute without a value, as in <input disabled :id="x">, if it
\* is text; neither of the other ways does.
Lost(a) == path = "attr" /\ a.key \notin Merged /\ AsText(a) /\ a.val = ""

\* The sources of attributes, in the order in which they are merged: the attributes of the
\* tag, the map that it binds, and the directives.
Sources == Len(tag.attrs) + 1 + Len(tag.directives)

Map == Len(tag.attrs) + 1

Given(i, k) ==
  IF i < Map THEN tag.attrs[i].key = k /\ ~ Lost(tag.attrs[i])
  ELSE IF i = Map THEN HasBind /\ Bound # Null /\ Bound[k] # Unset
  ELSE tag.directives[i - Map].key = k

GivenBy(i, k) ==
  IF i < Map THEN tag.attrs[i].val ELSE IF i = Map THEN Bound[k] ELSE tag.directives[i - Map].val

\* One value of what the first sources give for k: joined for class and style, the last
\* for others.
Joined(k) ==
  LET joined[i \in 0 .. Sources] ==
        IF i = 0 THEN Nothing(k)
        ELSE IF Given(i, k) THEN Join(k, joined[i - 1], GivenBy(i, k)) ELSE joined[i - 1]
  IN joined

\* In the output null is nothing, or the word.
Same(k, v, w) ==
  IF w = Null THEN v = Nothing(k) \/ (k \notin Merged /\ v = "null") ELSE v = w

\* Whichever way a tag takes, an attribute is written once, and with all that the
\* tag, the call and the directives give for it (toStatement, ExecAttr,
\* tagStatement.Exec).
OnceWithAll ==
  pc = "done" =>
    \A k \in Key :
      LET n == Cardinality({i \in DOMAIN out : out[i].key = k})
          value == Joined(k)[Sources]
      IN /\ n <= 1
         /\ Eligible(k) /\ value \notin {Nothing(k), Null} => n = 1
         /\ \A i \in DOMAIN out : Eligible(k) /\ out[i].key = k => Same(k, out[i].val, value)

\* The props of a call, and the map of a v-bind, are no attributes unless their names
\* are (CanBeAttrsKey): data does not get into the html.
DataStaysInside ==
  \A i \in DOMAIN out :
    LET k == out[i].key
    IN ~ Eligible(k) =>
         \E x \in {tag.attrs[j] : j \in DOMAIN tag.attrs}
                  \cup {tag.directives[j] : j \in DOMAIN tag.directives} :
           x.key = k /\ Same(k, out[i].val, x.val)

\* Some source gives k, and none has given l by then; the keys of a map are sorted.
GivenBefore(k, l) ==
  \E i \in 1 .. Sources :
    /\ Given(i, k)
    /\ \A j \in 1 .. i : Given(j, l) =>
         /\ i = Map /\ j = Map
         /\ \E x, y \in DOMAIN KeyOrder : x < y /\ KeyOrder[x] = k /\ KeyOrder[y] = l

\* Attributes come in the order in which they are first given, whichever way they take;
\* nothing is said of where ExecAttr has class and style, which it writes before the
\* others when they are text (statement.go:671-688) and in their place when they are not.
OrderKept ==
  pc = "done" =>
    \A i, j \in DOMAIN out :
      i < j /\ ~ (path = "attr" /\ out[i].key \in Merged) =>
        GivenBefore(out[i].key, out[j].key)
=============================================================================
