---------------------------- MODULE MCScopeMaps -----------------------------
(***************************************************************************)
(* Three requests: two of RenderComponent with the same Props, one of      *)
(* RenderTpl, all after a variable has been given to Global.               *)
(*                                                                         *)
(*   page:  <i v-let:b/> <parallel> <i v-for="c in b" v-let:b> {{b}} </i>  *)
(*          </parallel> <card :g="c"/> <note/> {{g}}                       *)
(*   card:  {{g}}, which is null and not what Global has                   *)
(*   note:  <i v-let:g/> {{g}}                                             *)
(*   again and tpl: nothing                                                *)
(***************************************************************************)
EXTENDS ScopeMaps, TLC

StatementsOfValue == <<<<"pSet", "pPar", "pCard", "pNote", "pG">>, << >>, << >>>>

KidsValue ==
  "pPar" :> <<"pFor">> @@ "pFor" :> <<"fSet", "fB">> @@ "pCard" :> <<"cG">> @@
  "pNote" :> <<"nSet", "nG">> @@ [n \in {"pSet", "pG", "fSet", "fB", "cG", "nSet", "nG"} |-> << >>]

NodeValue == DOMAIN KidsValue

KindValue ==
  [n \in {"pSet", "fSet", "nSet"} |-> "set"] @@
  "pFor" :> "for" @@ "pCard" :> "call" @@ "pNote" :> "bare" @@ "pPar" :> "parallel" @@ [n \in NodeValue |-> "get"]

NameValue ==
  [n \in {"pSet", "pFor", "fSet", "fB"} |-> "b"] @@ [n \in {"cG", "nSet", "nG", "pG"} |-> "g"] @@
  "pCard" :> "c" @@ [n \in NodeValue |-> "a"]

AsValue == "pFor" :> "c" @@ "pCard" :> "g" @@ [n \in NodeValue |-> "b"]

RequestValue == 1 .. 3
EntryValue == <<"RenderComponent", "RenderComponent", "RenderTpl">>
DataValue == <<2, 2, 3>>
GivenValues == <<NoVars, [NoVars EXCEPT !["a"] = Outside], [NoVars EXCEPT !["a"] = Outside]>>
RegisteredValue == <<"g">>
ForkingValue == {"pPar"}

\* The statements and the requests are used as the properties require.
ASSUME CleanUse == OwnProps /\ SetsBeforeParallel /\ ~ Late
=============================================================================
