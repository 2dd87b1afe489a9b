---------------------------- MODULE MCSlotScope -----------------------------
(***************************************************************************)
(* A page that shows a card in a loop and a card or a box at its end.  The *)
(* card forwards its title to the box, so a title crosses two calls.       *)
(*                                                                         *)
(*   page: <card v-for> <h1 #title="p"> {{..}} </h1> {{..}} </card>        *)
(*         <component :is> <fails/> </component>                           *)
(*   card: <div v-x> <slot/> </div>                                        *)
(*         <box> <template #title> <slot name=title> .. </slot> </template>*)
(*               {{..}} </box>                                             *)
(*   box:  <i v-for> {{..}} </i>                                           *)
(*         <slot name=title> <fails/> </slot>                              *)
(*         <b v-if> <slot/> </b> <gone> <fails/> </gone>                   *)
(***************************************************************************)
EXTENDS SlotScope, FiniteSets, TLC

MCRoots ==
  "page" :> <<"pFor", "pDyn">> @@
  "card" :> <<"cWrap", "cBox">> @@
  "box"  :> <<"bFor", "bTitle", "bIf", "bGone">>

MCComp == DOMAIN MCRoots

Texts == {"pHead", "pText", "cNone", "cText", "bText"}
Funcs == {"pFail", "bFail", "bMiss"}

MCKind ==
  "pFor" :> "for" @@ "pCard" :> "call" @@ "pTitle" :> "tag" @@ "pDyn" :> "dyn" @@
  "cWrap" :> "wrap" @@ "cSlot" :> "slot" @@ "cBox" :> "call" @@
  "cTitle" :> "template" @@ "cFwd" :> "slot" @@
  "bFor" :> "for" @@ "bTitle" :> "slot" @@ "bIf" :> "if" @@ "bSlot" :> "slot" @@
  "bGone" :> "call" @@
  [n \in Texts |-> "text"] @@ [n \in Funcs |-> "func"]

MCNode == DOMAIN MCKind

MCKids ==
  "pFor" :> <<"pCard">> @@ "pCard" :> <<"pTitle", "pText">> @@
  "pTitle" :> <<"pHead">> @@ "pDyn" :> <<"pFail">> @@
  "cWrap" :> <<"cSlot">> @@ "cBox" :> <<"cTitle", "cText">> @@
  "cTitle" :> <<"cFwd">> @@ "cFwd" :> <<"cNone">> @@
  "bFor" :> <<"bText">> @@ "bTitle" :> <<"bFail">> @@ "bIf" :> <<"bSlot">> @@
  "bGone" :> <<"bMiss">> @@
  [n \in MCNode |-> <<>>]

MCTargets ==
  "pCard" :> {"card"} @@ "pDyn" :> {"card", "box"} @@ "cBox" :> {"box"} @@
  [n \in MCNode |-> {}]

MCVSlot == "pTitle" :> "title" @@ "cTitle" :> "title" @@ [n \in MCNode |-> None]
MCAsks  == "cFwd" :> "title" @@ "bTitle" :> "title" @@ [n \in MCNode |-> "default"]
MCHasKey == {"pTitle"}
MCSlotted == {n \in MCNode : \E s \in Under[n] : Kind[s] = "slot"}

\* The program is one of those for which the interpreter is right.
ASSUME CleanProgram ==
  /\ NoSlotInLoop /\ DefaultsAreBodies /\ NothingAroundSlots
  /\ Forest([n \in MCNode |-> Cardinality(Under[n])])
=============================================================================
