--------------------------- MODULE ParallelRender ---------------------------
(***************************************************************************)
(* The rendering of pages whose components use <parallel> (vpl.go).        *)
(*                                                                         *)
(* A request runs on the caller's goroutine and executes statements that   *)
(* write to a ListWriter.  Each <parallel> it executes starts a goroutine  *)
(* with a ListWriter of its own, and leaves in the writer a ChanSpan, a    *)
(* place that Result() will fill with what that goroutine sends.  Nested   *)
(* <parallel>s do the same inside the child.                               *)
(*                                                                         *)
(* The control flow of one goroutine is given: Body[t] is the sequence of  *)
(* writes, <parallel>s and at most one failing statement it comes to (the  *)
(* loops unrolled, the conditions decided, the components inlined).  What  *)
(* is left to check is the interleaving.  A text is a sequence of pieces.  *)
(***************************************************************************)
EXTENDS Naturals, Sequences

CONSTANTS
  Task,      \* goroutines: one per request and one per <parallel> that is executed
  Requests,  \* the tasks that are calls of RenderComponent / RenderTpl
  Body,      \* Body[t]: the statements t executes, in order
  NoChild,   \* the <parallel>s whose default slot is nil
  Piece,     \* the pieces texts are made of
  ErrText,   \* ErrText[t]: "err: %+v" of the error t's child statement returns
  Doc,       \* Doc[t][k]: the text of t's first k statements, rendered in sequence
  Pending    \* the reply of a call that has not returned

Text == Seq(Piece)

Statement == [op : {"write"}, txt : Text]
        \cup [op : {"parallel"}, task : Task]
        \cup [op : {"fail"}]

HasFail(t) == \E k \in 1 .. Len(Body[t]) : Body[t][k].op = "fail"

\* What the sequential renderer would put in the place of a <parallel>.
Page(t) == IF t \in NoChild THEN <<>>
           ELSE IF HasFail(t) THEN ErrText[t]
           ELSE Doc[t][Len(Body[t])]

Written(s) == CASE s.op = "write"    -> s.txt
                [] s.op = "parallel" -> Page(s.task)
                [] s.op = "fail"     -> <<>>

ASSUME TaskAssumption ==
  /\ Requests \subseteq Task
  /\ NoChild \subseteq Task \ Requests
  /\ Body \in [Task -> Seq(Statement)]
  /\ ErrText \in [Task -> Text]

\* A goroutine is started by one execution of one statement, a request by none.
ASSUME SpawnAssumption ==
  /\ \A t \in Task : \A k \in 1 .. Len(Body[t]) :
       Body[t][k].op = "parallel" => Body[t][k].task \notin Requests
  /\ \A t, u \in Task : \A k \in 1 .. Len(Body[t]), m \in 1 .. Len(Body[u]) :
       ( /\ Body[t][k].op = "parallel"
         /\ Body[u][m].op = "parallel"
         /\ Body[t][k].task = Body[u][m].task ) => t = u /\ k = m

\* Doc is the text of the render on one goroutine: the equations define it.
ASSUME DocAssumption ==
  /\ \A t \in Task : \A k \in 0 .. Len(Body[t]) : Doc[t][k] \in Text
  /\ \A t \in Task : Doc[t][0] = <<>>
  /\ \A t \in Task : \A k \in 1 .. Len(Body[t]) :
       Doc[t][k] = Doc[t][k - 1] \o Written(Body[t][k])

Reply == [ok : BOOLEAN, html : Text]

ASSUME ReplyAssumption == Pending \notin Reply

\* Bug: make(chan string).
Unbuffered == 0

\* make(chan string, 1) of NewChanSpan
ChanCap == 1

VARIABLES
  pc,       \* "idle", "run" (Exec), "result" (in W.Result), "send", "done"
  pos,      \* pos[t]: how many statements t has executed
  buf,      \* ListWriter.s
  spans,    \* ListWriter.spans
  nread,    \* the loop index of ListWriter.Result
  out,      \* the builder in Result, then the string to deliver
  chan,     \* ChanSpan.c of the span that stands for task t
  setOnce,  \* the tasks whose ChanSpan.setOnce has run
  getOnce,  \* the tasks whose ChanSpan.getOnce has run
  got,      \* ChanSpan.r
  reply     \* what the call of RenderComponent returned

writer == <<buf, spans>>
span == <<chan, setOnce, getOnce, got>>
vars == <<pc, pos, buf, spans, nread, out, chan, setOnce, getOnce, got, reply>>

Span == [kind : {"string"}, txt : Text] \cup [kind : {"chan"}, task : Task]

TypeOK ==
  /\ pc \in [Task -> {"idle", "run", "result", "send", "done"}]
  /\ pos \in [Task -> Nat]
  /\ \A t \in Task : pos[t] <= Len(Body[t])
  /\ buf \in [Task -> Text]
  /\ spans \in [Task -> Seq(Span)]
  /\ nread \in [Task -> Nat]
  /\ \A t \in Task : nread[t] <= Len(spans[t])
  /\ out \in [Task -> Text]
  /\ chan \in [Task -> Seq(Text)]
  /\ \A t \in Task : Len(chan[t]) <= ChanCap
  /\ setOnce \subseteq Task
  /\ getOnce \subseteq Task
  /\ got \in [Task -> Text]
  /\ reply \in [Requests -> Reply \cup {Pending}]

Init ==
  /\ pc = [t \in Task |-> "idle"]
  /\ pos = [t \in Task |-> 0]
  /\ buf = [t \in Task |-> <<>>]
  /\ spans = [t \in Task |-> <<>>]
  /\ nread = [t \in Task |-> 0]
  /\ out = [t \in Task |-> <<>>]
  /\ chan = [t \in Task |-> <<>>]
  /\ setOnce = {}
  /\ getOnce = {}
  /\ got = [t \in Task |-> <<>>]
  /\ reply = [r \in Requests |-> Pending]

-----------------------------------------------------------------------------
(* Executing statements *)

\* The caller enters RenderComponent or RenderTpl.
Request(r) ==
  /\ pc[r] = "idle"
  /\ pc' = [pc EXCEPT ![r] = "run"]
  /\ UNCHANGED <<pos, writer, nread, out, span, reply>>

\* The statement t comes to next is of kind op.
At(t, op) ==
  /\ pc[t] = "run"
  /\ t \notin NoChild
  /\ pos[t] < Len(Body[t])
  /\ Body[t][pos[t] + 1].op = op

\* A statement calls ListWriter.WriteString.
WriteString(t) ==
  /\ At(t, "write")
  /\ buf' = [buf EXCEPT ![t] = @ \o Body[t][pos[t] + 1].txt]
  /\ pos' = [pos EXCEPT ![t] = @ + 1]
  /\ UNCHANGED <<pc, spans, nread, out, span, reply>>

\* Text still in the buffer becomes a StringSpan, so that it keeps its place.
Flushed(t) == IF buf[t] = <<>> THEN spans[t]
              ELSE Append(spans[t], [kind |-> "string", txt |-> buf[t]])

\* Bug: the text before the span is left in the buffer, behind the span.
WriteSpanUnflushed(t, s) ==
  /\ spans' = [spans EXCEPT ![t] = Append(@, s)]
  /\ UNCHANGED buf

WriteSpan(t, s) ==
  /\ spans' = [spans EXCEPT ![t] = Append(Flushed(t), s)]
  /\ buf' = [buf EXCEPT ![t] = <<>>]

\* The "parallel" component: go func, then ctx.W.WriteSpan.  The new goroutine
\* shares only its channel with t, which t does not touch before Result.
Parallel(t) ==
  /\ At(t, "parallel")
  /\ LET u == Body[t][pos[t] + 1].task
     IN /\ pc' = [pc EXCEPT ![u] = "run"]
        /\ WriteSpan(t, [kind |-> "chan", task |-> u])
  /\ pos' = [pos EXCEPT ![t] = @ + 1]
  /\ UNCHANGED <<nread, out, span, reply>>

\* The goroutine finds that the default slot is nil: s.Done("").
NilChild(t) ==
  /\ pc[t] = "run"
  /\ t \in NoChild
  /\ pc' = [pc EXCEPT ![t] = "send"]
  /\ UNCHANGED <<pos, writer, nread, out, span, reply>>

\* Bug: an error ends the goroutine without s.Done.
FailChildSilently(t) ==
  /\ t \notin Requests
  /\ At(t, "fail")
  /\ pc' = [pc EXCEPT ![t] = "done"]
  /\ UNCHANGED <<pos, writer, nread, out, span, reply>>

\* A statement returns an error.  In a <parallel> the error becomes the text of
\* its place; in the request's own goroutine the call returns it, without html
\* and without waiting for the goroutines it has started.
FailChild(t) ==
  /\ t \notin Requests
  /\ At(t, "fail")
  /\ out' = [out EXCEPT ![t] = ErrText[t]]
  /\ pc' = [pc EXCEPT ![t] = "send"]
  /\ UNCHANGED <<pos, writer, nread, span, reply>>

\* Bug: a shadowed err, so that the named result stays nil.
FailRequestSilently(r) ==
  /\ At(r, "fail")
  /\ reply' = [reply EXCEPT ![r] = [ok |-> TRUE, html |-> <<>>]]
  /\ pc' = [pc EXCEPT ![r] = "done"]
  /\ UNCHANGED <<pos, writer, nread, out, span>>

FailRequest(r) ==
  /\ At(r, "fail")
  /\ reply' = [reply EXCEPT ![r] = [ok |-> FALSE, html |-> <<>>]]
  /\ pc' = [pc EXCEPT ![r] = "done"]
  /\ UNCHANGED <<pos, writer, nread, out, span>>

-----------------------------------------------------------------------------
(* ListWriter.Result *)

\* Bug: the text after the last span is not flushed.
BeginResultUnflushed(t) ==
  /\ pc[t] = "run"
  /\ t \notin NoChild
  /\ pos[t] = Len(Body[t])
  /\ buf' = [buf EXCEPT ![t] = <<>>]
  /\ pc' = [pc EXCEPT ![t] = IF spans[t] = <<>> THEN "send" ELSE "result"]
  /\ out' = [out EXCEPT ![t] = IF spans[t] = <<>> THEN buf[t] ELSE @]
  /\ UNCHANGED <<pos, spans, nread, span, reply>>

\* Without spans the buffer is the result; otherwise it is flushed first.
BeginResult(t) ==
  /\ pc[t] = "run"
  /\ t \notin NoChild
  /\ pos[t] = Len(Body[t])
  /\ buf' = [buf EXCEPT ![t] = <<>>]
  /\ \/ /\ spans[t] = <<>>
        /\ out' = [out EXCEPT ![t] = buf[t]]
        /\ pc' = [pc EXCEPT ![t] = "send"]
        /\ UNCHANGED spans
     \/ /\ spans[t] # <<>>
        /\ spans' = [spans EXCEPT ![t] = Flushed(t)]
        /\ pc' = [pc EXCEPT ![t] = "result"]
        /\ UNCHANGED out
  /\ UNCHANGED <<pos, nread, span, reply>>

\* The span that the loop of Result comes to next is of kind k.
ReadingSpan(t, k) ==
  /\ pc[t] = "result"
  /\ nread[t] < Len(spans[t])
  /\ spans[t][nread[t] + 1].kind = k

ReadString(t) ==
  /\ ReadingSpan(t, "string")
  /\ out' = [out EXCEPT ![t] = @ \o spans[t][nread[t] + 1].txt]
  /\ nread' = [nread EXCEPT ![t] = @ + 1]
  /\ UNCHANGED <<pc, pos, writer, span, reply>>

\* Bug: Result takes what has been sent so far (select with a default).
ReadChanNoWait(t) ==
  /\ ReadingSpan(t, "chan")
  /\ LET u == spans[t][nread[t] + 1].task
         txt == IF chan[u] = <<>> THEN <<>> ELSE Head(chan[u])
     IN /\ chan' = [chan EXCEPT ![u] = IF @ = <<>> THEN @ ELSE Tail(@)]
        /\ got' = [got EXCEPT ![u] = txt]
        /\ getOnce' = getOnce \cup {u}
        /\ out' = [out EXCEPT ![t] = @ \o txt]
  /\ nread' = [nread EXCEPT ![t] = @ + 1]
  /\ UNCHANGED <<pc, pos, writer, setOnce, reply>>

\* ChanSpan.Result: the first call receives, and blocks until there is something.
ReadChan(t) ==
  /\ ReadingSpan(t, "chan")
  /\ LET u == spans[t][nread[t] + 1].task
         first == u \notin getOnce
         txt == IF first THEN Head(chan[u]) ELSE got[u]
     IN /\ first => chan[u] # <<>>
        /\ chan' = IF first THEN [chan EXCEPT ![u] = Tail(@)] ELSE chan
        /\ got' = [got EXCEPT ![u] = txt]
        /\ getOnce' = getOnce \cup {u}
        /\ out' = [out EXCEPT ![t] = @ \o txt]
  /\ nread' = [nread EXCEPT ![t] = @ + 1]
  /\ UNCHANGED <<pc, pos, writer, setOnce, reply>>

\* Bug: Result empties the spans as it empties the buffer.
EndResultResetting(t) ==
  /\ pc[t] = "result"
  /\ nread[t] = Len(spans[t])
  /\ pc' = [pc EXCEPT ![t] = "send"]
  /\ spans' = [spans EXCEPT ![t] = <<>>]
  /\ UNCHANGED <<pos, buf, nread, out, span, reply>>

EndResult(t) ==
  /\ pc[t] = "result"
  /\ nread[t] = Len(spans[t])
  /\ pc' = [pc EXCEPT ![t] = "send"]
  /\ UNCHANGED <<pos, writer, nread, out, span, reply>>

-----------------------------------------------------------------------------
(* Delivering the text *)

\* ChanSpan.Done: the first call sends, and blocks while the channel is full.
Done(t) ==
  /\ t \notin Requests
  /\ pc[t] = "send"
  /\ t \notin setOnce => Len(chan[t]) < ChanCap
  /\ chan' = IF t \in setOnce THEN chan
             ELSE [chan EXCEPT ![t] = Append(@, out[t])]
  /\ setOnce' = setOnce \cup {t}
  /\ pc' = [pc EXCEPT ![t] = "done"]
  /\ UNCHANGED <<pos, writer, nread, out, getOnce, got, reply>>

\* html = w.Result(); return
Return(r) ==
  /\ pc[r] = "send"
  /\ reply' = [reply EXCEPT ![r] = [ok |-> TRUE, html |-> out[r]]]
  /\ pc' = [pc EXCEPT ![r] = "done"]
  /\ UNCHANGED <<pos, writer, nread, out, span>>

-----------------------------------------------------------------------------

\* The steps of goroutine t once it runs.
Step(t) ==
  \/ WriteString(t) \/ Parallel(t) \/ NilChild(t) \/ FailChild(t)
  \/ BeginResult(t) \/ ReadString(t) \/ ReadChan(t) \/ EndResult(t)
  \/ Done(t)

RequestStep(r) == FailRequest(r) \/ Return(r)

\* Every call has returned and no goroutine is left: the program may stop.
Quiescent ==
  /\ \A r \in Requests : pc[r] = "done"
  /\ \A t \in Task : pc[t] \in {"idle", "done"}
  /\ UNCHANGED vars

Next ==
  \/ \E r \in Requests : Request(r) \/ RequestStep(r)
  \/ \E t \in Task : Step(t)
  \/ Quiescent

\* The Go scheduler runs every runnable goroutine eventually, and a statement
\* (a user function) returns; whether a request is made is up to the caller.
Fairness ==
  /\ \A t \in Task : WF_vars(Step(t))
  /\ \A r \in Requests : WF_vars(RequestStep(r))

Safe == Init /\ [][Next]_vars

Spec == Safe /\ Fairness

-----------------------------------------------------------------------------
(* Correctness *)

SequentialReply(r) ==
  IF HasFail(r) THEN [ok |-> FALSE, html |-> <<>>]
  ELSE [ok |-> TRUE, html |-> Doc[r][Len(Body[r])]]

SpanText(s) == IF s.kind = "string" THEN s.txt ELSE Page(s.task)

\* cut marks, for every span, the statements of t whose text the spans up to it
\* stand for.
Covers(t, ss, cut) ==
  /\ cut[0] = 0
  /\ \A j \in 1 .. Len(ss) :
       Doc[t][cut[j]] = Doc[t][cut[j - 1]] \o SpanText(ss[j])

InOrder(t) ==
  \E cut \in [0 .. Len(spans[t]) -> 0 .. pos[t]] :
    /\ Covers(t, spans[t], cut)
    /\ Doc[t][pos[t]] = Doc[t][cut[Len(spans[t])]] \o buf[t]
    /\ pc[t] = "result" => out[t] = Doc[t][cut[nread[t]]]

\* A ListWriter holds what its goroutine has written, in the order it was
\* written, with each <parallel> in its place (ListWriter.WriteString, WriteSpan),
\* and the loop of Result has so far assembled a prefix of it.
WriterInOrder == \A t \in Task : pc[t] \in {"run", "result"} => InOrder(t)

\* A call that has returned gave what a render on one goroutine gives: the same
\* html in the same order, or the error if its own goroutine met one; an error
\* inside a <parallel> only replaces the text of that <parallel>.
SequentialAnswer ==
  \A r \in Requests : reply[r] # Pending => reply[r] = SequentialReply(r)

\* The channel of a ChanSpan has room when its goroutine calls Done, so that the
\* goroutine can end even when nobody will read the span (a failed render).
NoBlockedSender ==
  \A t \in Task \ Requests :
    pc[t] = "send" => t \in setOnce \/ Len(chan[t]) < ChanCap

Spawns(t, u) == \E k \in 1 .. Len(Body[t]) :
                  Body[t][k].op = "parallel" /\ Body[t][k].task = u

\* A goroutine whose statements all succeeded has, once it delivers its text,
\* outlived every goroutine it started.  Only below an error (FailChild,
\* FailRequest) can a goroutine still run when its starter is gone.
Succeeded(t) == ~ HasFail(t) /\ t \notin NoChild /\ pc[t] \in {"send", "done"}

Joined(t) ==
  \A u \in Task : Spawns(t, u) => pc[u] = "done" /\ u \in getOnce

JoinedUnlessFailed == \A t \in Task : Succeeded(t) => Joined(t)

\* The detailed renderer implements the service: refinement mapping.
Service == INSTANCE PageService WITH
             Answer <- [r \in Requests |-> SequentialReply(r)],
             asked <- {r \in Requests : pc[r] # "idle"}

\* Every request is answered once with the sequential answer, and eventually.
ServiceSpec == Service!Spec

\* Every goroutine that was started ends, also those that a failed render has
\* abandoned: none stays blocked on its channel.
NoGoroutineLeak == \A t \in Task : (pc[t] # "idle") ~> (pc[t] = "done")
=============================================================================
