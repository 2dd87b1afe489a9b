---------------------------- MODULE PageService ----------------------------
(***************************************************************************)
(* What a caller of RenderComponent / RenderTpl is promised: every request *)
(* that was made is answered once, with the answer that a render on one    *)
(* goroutine would give, whatever the other requests do.                   *)
(***************************************************************************)

CONSTANTS
  Requests,  \* the calls of RenderComponent / RenderTpl
  Answer,    \* Answer[r]: the (html, err) pair a single-threaded render returns
  Pending    \* the reply of a call that has not returned

VARIABLES
  asked,     \* the requests made so far
  reply      \* reply[r]: what the call returned, or Pending

svars == <<asked, reply>>

Init ==
  /\ asked = {}
  /\ reply = [r \in Requests |-> Pending]

Ask(r) ==
  /\ r \notin asked
  /\ asked' = asked \cup {r}
  /\ UNCHANGED reply

Return(r) ==
  /\ r \in asked
  /\ reply[r] = Pending
  /\ reply' = [reply EXCEPT ![r] = Answer[r]]
  /\ UNCHANGED asked

Next == \E r \in Requests : Ask(r) \/ Return(r)

Safety == Init /\ [][Next]_svars

Spec == Safety /\ \A r \in Requests : WF_svars(Return(r))
=============================================================================
