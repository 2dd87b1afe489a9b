---------------------------- MODULE MCStyleMaps ----------------------------
(***************************************************************************)
(* Pages for StyleMaps.  "Safe" has every merge start from an object       *)
(* literal; "Readme" is the tag of the README's first example.             *)
(***************************************************************************)
EXTENDS StyleMaps, TLC

CONSTANTS s1, s2, u1, u2, r1, r2

StaticSrc(m) == [kind |-> "static", map |-> m]
VarSrc(x)    == [kind |-> "var", name |-> x]
LitSrc(e)    == [kind |-> "literal", expr |-> e]
PropsSrc(n)  == [kind |-> "props", of |-> n]

Node(path, sources) == [path |-> path, sources |-> sources]

Map(color, top) == ("color" :> color @@ "top" :> top)

MCKey == {"color", "top"}
MCContent == ( s1 :> Map("red", Unset) @@ s2 :> Map("blue", "1px")
            @@ u1 :> Map("green", Unset) @@ u2 :> Map(Unset, "2px") )
MCVarMap  == [r \in Render |-> IF r = r1 THEN [x |-> u1, y |-> u2]
                              ELSE [x |-> u1, y |-> u1]]
MCLiteral == [r \in Render |->
               IF r = r1 THEN [e |-> Map("red", Unset), f |-> Map(Unset, "9px")]
               ELSE [e |-> Map(Unset, "5px"), f |-> Map("black", "9px")]]

\* :style before style; a lone static style; a call with literal and variable,
\* whose root takes the props; directives that add styles; a call without style.
SafePage ==
  << Node("attr", <<LitSrc("e"), StaticSrc(s1)>>),
     Node("call", <<LitSrc("f"), VarSrc("x")>>),
     Node("attr", <<PropsSrc(2)>>),
     Node("attr", <<StaticSrc(s2)>>),
     Node("call", <<>>),
     Node("directive", <<LitSrc("e"), PropsSrc(5), LitSrc("f")>>) >>

\* README.md: <div style="font-size: 20px" :style="{color: color}">
ReadmePage == << Node("attr", <<StaticSrc(s1), LitSrc("f")>>) >>

\* The reference merge, from the declared contents.
RECURSIVE MergeUpTo(_, _, _)
MergeUpTo(r, n, i) ==
  IF i = 0 THEN Empty
  ELSE LET s == Page[n].sources[i]
       IN Over(MergeUpTo(r, n, i - 1),
               CASE s.kind \in {"static", "string"} -> MCContent[s.map]
                 [] s.kind = "var"     -> MCContent[MCVarMap[r][s.name]]
                 [] s.kind = "literal" -> MCLiteral[r][s.expr]
                 [] s.kind = "props"   -> MergeUpTo(r, s.of, Len(Page[s.of].sources)))

MCMerged == [r \in Render |-> [n \in Nodes |->
              [i \in 0 .. Len(Page[n].sources) |-> MergeUpTo(r, n, i)]]]
=============================================================================
