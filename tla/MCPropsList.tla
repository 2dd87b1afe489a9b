---------------------------- MODULE MCPropsList ----------------------------
(***************************************************************************)
(* A caller builds Props of up to three appends; two renders bind them at  *)
(* the same time, one of them on a tag; a fourth Props is that of a tag    *)
(* with a directive.                                                       *)
(***************************************************************************)
EXTENDS PropsList

CONSTANTS caller, render1, render2, tag, u, v

App(w, k, x) == [op |-> "append", way |-> w, key |-> k, val |-> <<x>>]
Bind(q) == [op |-> "bind", from |-> q]
Write == [op |-> "write"]

\* The user's Append: MayBeAttr; the same key may come twice.
UserOps == {App("may", k, u) : k \in Key} \cup {App("may", "class", v)}

UpTo3(S) == UNION {[1 .. n -> S] : n \in 0 .. 3}

\* A tag: its props as compiled, then what its directive appends.
TagJobs ==
  {<<App("cannot", "p", u), App("can", "class", u), d, App("can", "class", v), Write>> :
     d \in {App("can", "id", v), App("can", "p", v)}}

MCJobs ==
  {[p \in Obj |-> CASE p = caller -> c
                    [] p = render1 -> <<Bind(caller)>>
                    [] p = render2 -> <<Bind(caller), Write>>
                    [] p = tag -> t] : c \in UpTo3(UserOps), t \in TagJobs}
=============================================================================
