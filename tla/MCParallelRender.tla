-------------------------- MODULE MCParallelRender --------------------------
(***************************************************************************)
(* Page shapes for ParallelRender.  "page" has two <parallel>s, one of     *)
(* which contains a third and one of which fails; "broken" fails after     *)
(* starting a goroutine, which itself fails after starting one that has    *)
(* no child.                                                               *)
(***************************************************************************)
EXTENDS ParallelRender

Wr(x)  == [op |-> "write", txt |-> IF x = "" THEN <<>> ELSE <<x>>]
Par(t) == [op |-> "parallel", task |-> t]
Fail   == [op |-> "fail"]

MCPieces == {"a", "b", "c", "d", "e", "f", "err"}

MCBody ==
  [ page   |-> <<Wr("a"), Par("left"), Wr(""), Par("right"), Wr("b")>>,
    left   |-> <<Par("inner"), Wr("d")>>,
    inner  |-> <<Wr("e")>>,
    right  |-> <<Fail>>,
    broken |-> <<Par("child"), Fail>>,
    child  |-> <<Par("empty"), Fail, Wr("c")>>,
    empty  |-> <<>> ]

MCNoChild == {"empty"}

MCErrText == [t \in Task |-> <<"err", t>>]

\* The sequential text of the first k statements of t.
RECURSIVE SeqText(_, _)
SeqText(t, k) ==
  IF k = 0 THEN <<>>
  ELSE LET s == Body[t][k]
       IN SeqText(t, k - 1) \o
            CASE s.op = "write" -> s.txt
              [] s.op = "fail"  -> <<>>
              [] s.op = "parallel" ->
                   IF s.task \in NoChild THEN <<>>
                   ELSE IF HasFail(s.task) THEN ErrText[s.task]
                   ELSE SeqText(s.task, Len(Body[s.task]))

MCDoc == [t \in Task |-> [k \in 0 .. Len(Body[t]) |-> SeqText(t, k)]]
MCPiece == MCPieces \cup Task
=============================================================================
