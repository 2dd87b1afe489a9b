----------------------------- MODULE MCSlotLost -----------------------------
(***************************************************************************)
(* The program of test/component_test.go:241-266, in which a <slot> does   *)
(* not show its content:                                                   *)
(*   main:  <div> <component :is> <template #default=prop> {{..}}          *)
(*          </template> </component> </div>                                *)
(*   Infos: <div> <item> <h1 #default="props"> {{..}}                      *)
(*          <slot v-bind=props> fullback </slot> </h1> </item> </div>      *)
(*   item:  <div> <slot :id=1 ..></slot> </div>                            *)
(***************************************************************************)
EXTENDS SlotScope, TLC

TestRoots == "main" :> <<"mDiv">> @@ "Infos" :> <<"iDiv">> @@ "item" :> <<"tDiv">>

TestKind ==
  "mDiv" :> "tag" @@ "mInfos" :> "dyn" @@ "mProp" :> "template" @@ "mText" :> "text" @@
  "iDiv" :> "tag" @@ "iItem" :> "call" @@ "iH1" :> "tag" @@ "iText" :> "text" @@
  "iSlot" :> "slot" @@ "iFullback" :> "text" @@
  "tDiv" :> "tag" @@ "tSlot" :> "slot"

TestKids ==
  "mDiv" :> <<"mInfos">> @@ "mInfos" :> <<"mProp">> @@ "mProp" :> <<"mText">> @@
  "iDiv" :> <<"iItem">> @@ "iItem" :> <<"iH1">> @@ "iH1" :> <<"iText", "iSlot">> @@
  "iSlot" :> <<"iFullback">> @@ "tDiv" :> <<"tSlot">> @@
  [n \in DOMAIN TestKind |-> <<>>]

CalledBy ==
  "mInfos" :> {"Infos"} @@ "iItem" :> {"item"} @@ [n \in DOMAIN TestKind |-> {}]

TestComp    == DOMAIN TestRoots
TestNode    == DOMAIN TestKind
TestTargets == [n \in TestNode |-> CalledBy[n]]
TestHasKey  == {"mProp", "iH1"}
TestVSlot   == [n \in TestNode |-> IF n \in TestHasKey THEN "default" ELSE None]

AskDefault   == [n \in Node |-> "default"]
WithSlot     == {n \in Node : \E s \in Under[n] : Kind[s] = "slot"}
=============================================================================
