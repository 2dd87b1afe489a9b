------------------------ MODULE ParallelRenderProofs ------------------------
(***************************************************************************)
(* What ParallelRender guarantees for every page: any number of requests,  *)
(* any nesting of <parallel>, any failing statements and any schedule.     *)
(***************************************************************************)
EXTENDS ParallelRender, SequenceTheorems, TLAPS

-----------------------------------------------------------------------------
(* Lemmas about the constants and the operators *)

\* Writing to a buffer (bytebufferpool's WriteString) concatenates texts.
LEMMA TextConcat ==
  /\ <<>> \in Text
  /\ \A a \in Text : a \o <<>> = a /\ <<>> \o a = a
  /\ \A a, b \in Text : a \o b \in Text
  /\ \A a, b, c \in Text : (a \o b) \o c = a \o (b \o c)
BY EmptySeq, ConcatProperties, ConcatEmptySeq, ConcatAssociative DEF Text

\* The statements of a body, by the kind of step they are.
LEMMA BodyTyping ==
  ASSUME NEW t \in Task, NEW k \in 1 .. Len(Body[t])
  PROVE  /\ Len(Body[t]) \in Nat
         /\ Body[t][k].op = "write" => Body[t][k].txt \in Text
         /\ Body[t][k].op = "parallel" => Body[t][k].task \in Task \ Requests
<1>1. Body[t] \in Seq(Statement)
  BY TaskAssumption
<1>2. Len(Body[t]) \in Nat /\ Body[t][k] \in Statement
  BY <1>1, LenProperties, ElementOfSeq
<1>3. Body[t][k].op = "parallel" => Body[t][k].task \notin Requests
  BY SpawnAssumption
<1>4. QED
  BY <1>2, <1>3 DEF Statement

\* The length of a body bounds how far its goroutine gets.
LEMMA BodyLen == \A t \in Task : Len(Body[t]) \in Nat
BY TaskAssumption, LenProperties

\* What stands for a <parallel> is a text (FailChild, NilChild, BeginResult).
LEMMA PageTyping == \A t \in Task : Page(t) \in Text
<1> SUFFICES ASSUME NEW t \in Task PROVE Page(t) \in Text
  OBVIOUS
<1>1. Doc[t][Len(Body[t])] \in Text
  <2>1. Len(Body[t]) \in 0 .. Len(Body[t])
    BY BodyLen
  <2>2. QED
    BY <2>1, DocAssumption
<1>2. QED
  BY <1>1, TaskAssumption, EmptySeq DEF Page, Text

\* ListWriter.WriteSpan keeps the spans a sequence of spans, and adds one or two.
LEMMA FlushedTyping ==
  ASSUME NEW t \in Task, spans[t] \in Seq(Span), buf[t] \in Text
  PROVE  /\ Flushed(t) \in Seq(Span)
         /\ Len(Flushed(t)) \in Nat
         /\ Len(Flushed(t)) = IF buf[t] = <<>> THEN Len(spans[t]) ELSE Len(spans[t]) + 1
         /\ \A j \in 1 .. Len(spans[t]) : Flushed(t)[j] = spans[t][j]
         /\ buf[t] # <<>> =>
              Flushed(t)[Len(spans[t]) + 1] = [kind |-> "string", txt |-> buf[t]]
<1>1. [kind |-> "string", txt |-> buf[t]] \in Span
  BY DEF Span
<1>2. CASE buf[t] = <<>>
  BY <1>2, LenProperties DEF Flushed
<1>3. CASE buf[t] # <<>>
  <2>1. Flushed(t) = Append(spans[t], [kind |-> "string", txt |-> buf[t]])
    BY <1>3 DEF Flushed
  <2>2. QED
    BY <1>1, <1>3, <2>1, AppendProperties, LenProperties
<1>4. QED
  BY <1>2, <1>3

-----------------------------------------------------------------------------
(* Type correctness *)

\* The span that the loop of Result reads next.
LEMMA ReadingTyping ==
  ASSUME TypeOK, NEW t \in Task, NEW k, ReadingSpan(t, k)
  PROVE  /\ nread[t] + 1 \in 1 .. Len(spans[t])
         /\ spans[t][nread[t] + 1] \in Span
         /\ spans[t][nread[t] + 1].kind = k
BY LenProperties, ElementOfSeq DEF TypeOK, ReadingSpan

LEMMA TypeInit == Init => TypeOK
BY BodyLen, EmptySeq DEF Init, TypeOK, Text, ChanCap

LEMMA TypeStep == TypeOK /\ [Next]_vars => TypeOK'
<1> SUFFICES ASSUME TypeOK, [Next]_vars PROVE TypeOK'
  OBVIOUS
<1> USE DEF writer, span
<1>0. \A t \in Task : Len(Body[t]) \in Nat
  BY BodyLen
<1>1. ASSUME NEW r \in Requests, Request(r) PROVE TypeOK'
  BY <1>1, TaskAssumption DEF TypeOK, Request
<1>2. ASSUME NEW r \in Requests, FailRequest(r) PROVE TypeOK'
  BY <1>2, TaskAssumption, EmptySeq DEF TypeOK, FailRequest, Reply, Text
<1>3. ASSUME NEW r \in Requests, Return(r) PROVE TypeOK'
  BY <1>3, TaskAssumption DEF TypeOK, Return, Reply
<1>4. ASSUME NEW t \in Task, WriteString(t) PROVE TypeOK'
  <2>1. pos[t] + 1 \in 1 .. Len(Body[t])
    BY <1>0, <1>4 DEF TypeOK, WriteString, At
  <2>2. buf[t] \o Body[t][pos[t] + 1].txt \in Text
    BY <1>4, <2>1, BodyTyping, ConcatProperties DEF TypeOK, WriteString, At, Text
  <2>3. QED
    BY <1>0, <1>4, <2>1, <2>2 DEF TypeOK, WriteString
<1>5. ASSUME NEW t \in Task, Parallel(t) PROVE TypeOK'
  <2>1. pos[t] + 1 \in 1 .. Len(Body[t])
    BY <1>0, <1>5 DEF TypeOK, Parallel, At
  <2> DEFINE u == Body[t][pos[t] + 1].task
             s == [kind |-> "chan", task |-> u]
  <2>2. u \in Task /\ s \in Span
    BY <1>5, <2>1, BodyTyping DEF Parallel, At, Span
  <2>3. Flushed(t) \in Seq(Span) /\ Len(Flushed(t)) >= Len(spans[t])
    <3>1. spans[t] \in Seq(Span) /\ buf[t] \in Text /\ Len(spans[t]) \in Nat
      BY LenProperties DEF TypeOK
    <3>2. /\ Flushed(t) \in Seq(Span) /\ Len(Flushed(t)) \in Nat
          /\ Len(Flushed(t)) = IF buf[t] = <<>> THEN Len(spans[t]) ELSE Len(spans[t]) + 1
      BY <3>1, FlushedTyping
    <3>3. QED
      BY <3>1, <3>2
  <2>4. /\ Append(Flushed(t), s) \in Seq(Span)
        /\ Len(Append(Flushed(t), s)) = Len(Flushed(t)) + 1
        /\ Len(Flushed(t)) \in Nat /\ Len(spans[t]) \in Nat
    BY <2>2, <2>3, AppendProperties, LenProperties DEF TypeOK
  <2>5. /\ spans' = [spans EXCEPT ![t] = Append(Flushed(t), s)]
        /\ buf' = [buf EXCEPT ![t] = <<>>]
        /\ pc' = [pc EXCEPT ![u] = "run"]
        /\ pos' = [pos EXCEPT ![t] = @ + 1]
        /\ UNCHANGED <<nread, out, chan, setOnce, getOnce, got, reply>>
    BY <1>5 DEF Parallel, WriteSpan
  <2>6. \A x \in Task : nread'[x] <= Len(spans'[x])
    BY <2>3, <2>4, <2>5 DEF TypeOK
  <2>7. spans' \in [Task -> Seq(Span)]
    BY <2>4, <2>5 DEF TypeOK
  <2>8. pos' \in [Task -> Nat] /\ \A x \in Task : pos'[x] <= Len(Body[x])
    BY <1>0, <2>1, <2>5 DEF TypeOK
  <2> HIDE DEF u, s
  <2>9. pc' \in [Task -> {"idle", "run", "result", "send", "done"}]
    BY <2>2, <2>5 DEF TypeOK
  <2>10. buf' \in [Task -> Text]
    BY <2>5, EmptySeq DEF TypeOK, Text
  <2>11. QED
    BY <2>5, <2>6, <2>7, <2>8, <2>9, <2>10 DEF TypeOK
<1>6. ASSUME NEW t \in Task, NilChild(t) PROVE TypeOK'
  BY <1>6 DEF TypeOK, NilChild
<1>7. ASSUME NEW t \in Task, FailChild(t) PROVE TypeOK'
  BY <1>7, TaskAssumption DEF TypeOK, FailChild
<1>8. ASSUME NEW t \in Task, BeginResult(t) PROVE TypeOK'
  <2>1. /\ Flushed(t) \in Seq(Span)
        /\ Len(Flushed(t)) >= Len(spans[t])
        /\ Len(Flushed(t)) \in Nat /\ Len(spans[t]) \in Nat
    <3>1. spans[t] \in Seq(Span) /\ buf[t] \in Text /\ Len(spans[t]) \in Nat
      BY LenProperties DEF TypeOK
    <3>2. /\ Flushed(t) \in Seq(Span) /\ Len(Flushed(t)) \in Nat
          /\ Len(Flushed(t)) = IF buf[t] = <<>> THEN Len(spans[t]) ELSE Len(spans[t]) + 1
      BY <3>1, FlushedTyping
    <3>3. QED
      BY <3>1, <3>2
  <2>2. CASE spans[t] = <<>>
    BY <1>8, <2>2, EmptySeq DEF TypeOK, BeginResult, Text
  <2>3. CASE spans[t] # <<>>
    <3>1. /\ spans' = [spans EXCEPT ![t] = Flushed(t)]
          /\ buf' = [buf EXCEPT ![t] = <<>>]
          /\ pc' = [pc EXCEPT ![t] = "result"]
          /\ UNCHANGED <<pos, nread, out, chan, setOnce, getOnce, got, reply>>
      BY <1>8, <2>3 DEF BeginResult
    <3>2. \A x \in Task : nread'[x] <= Len(spans'[x])
      BY <2>1, <3>1 DEF TypeOK
    <3>3. QED
      BY <2>1, <3>1, <3>2, EmptySeq DEF TypeOK, Text
  <2>4. QED
    BY <2>2, <2>3
<1>10. ASSUME NEW t \in Task, ReadString(t) PROVE TypeOK'
  <2>1. nread[t] + 1 \in 1 .. Len(spans[t]) /\ spans[t][nread[t] + 1].txt \in Text
    BY <1>10, ReadingTyping DEF ReadString, Span
  <2>2. out[t] \o spans[t][nread[t] + 1].txt \in Text
    BY <2>1, ConcatProperties DEF TypeOK, Text
  <2>3. QED
    BY <1>10, <2>1, <2>2 DEF TypeOK, ReadString
<1>11. ASSUME NEW t \in Task, ReadChan(t) PROVE TypeOK'
  <2> DEFINE u == spans[t][nread[t] + 1].task
             txt == IF u \notin getOnce THEN Head(chan[u]) ELSE got[u]
  <2>1. nread[t] + 1 \in 1 .. Len(spans[t]) /\ u \in Task
    BY <1>11, ReadingTyping DEF ReadChan, Span
  <2>2. u \notin getOnce =>
          /\ chan[u] # <<>> /\ Head(chan[u]) \in Text
          /\ Tail(chan[u]) \in Seq(Text)
          /\ Len(Tail(chan[u])) <= ChanCap
    BY <1>11, <2>1, HeadTailProperties, LenProperties
       DEF TypeOK, ReadChan, ChanCap
  <2>3. txt \in Text /\ out[t] \o txt \in Text
    BY <2>1, <2>2, ConcatProperties DEF TypeOK, Text
  <2>4. /\ chan' = IF u \notin getOnce THEN [chan EXCEPT ![u] = Tail(@)] ELSE chan
        /\ got' = [got EXCEPT ![u] = txt]
        /\ getOnce' = getOnce \cup {u}
        /\ out' = [out EXCEPT ![t] = @ \o txt]
        /\ nread' = [nread EXCEPT ![t] = @ + 1]
        /\ UNCHANGED <<pc, pos, buf, spans, setOnce, reply>>
    BY <1>11 DEF ReadChan
  <2> HIDE DEF u, txt
  <2>5. chan' \in [Task -> Seq(Text)] /\ \A x \in Task : Len(chan'[x]) <= ChanCap
    BY <2>1, <2>2, <2>4 DEF TypeOK
  <2>6. QED
    BY <2>1, <2>3, <2>4, <2>5 DEF TypeOK
<1>12. ASSUME NEW t \in Task, EndResult(t) PROVE TypeOK'
  BY <1>12 DEF TypeOK, EndResult
<1>13. ASSUME NEW t \in Task, Done(t) PROVE TypeOK'
  <2>1. t \notin setOnce =>
          /\ Append(chan[t], out[t]) \in Seq(Text)
          /\ Len(Append(chan[t], out[t])) <= ChanCap
    BY <1>13, AppendProperties, LenProperties DEF TypeOK, Done, ChanCap
  <2>2. chan' \in [Task -> Seq(Text)] /\ \A x \in Task : Len(chan'[x]) <= ChanCap
    BY <1>13, <2>1 DEF TypeOK, Done
  <2>3. QED
    BY <1>13, <2>2 DEF TypeOK, Done
<1>14. CASE UNCHANGED vars
  BY <1>14 DEF TypeOK, vars
<1>15. QED
  BY <1>1, <1>2, <1>3, <1>4, <1>5, <1>6, <1>7, <1>8, <1>10, <1>11, <1>12,
     <1>13, <1>14 DEF Next, Step, RequestStep, Quiescent

\* Every goroutine, writer and channel keeps its type; a channel holds at most
\* the one string that make(chan string, 1) gives room for.
THEOREM TypeCorrect == Spec => []TypeOK
BY TypeInit, TypeStep, PTL DEF Spec, Safe

-----------------------------------------------------------------------------
(* The inductive invariant *)

\* What each phase of a goroutine has established.
Phase(t) ==
  /\ pc[t] = "idle" => pos[t] = 0 /\ buf[t] = <<>> /\ spans[t] = <<>>
  /\ pc[t] \in {"idle", "run"} => nread[t] = 0 /\ out[t] = <<>>
  /\ pc[t] = "result" => pos[t] = Len(Body[t]) /\ buf[t] = <<>> /\ t \notin NoChild
  /\ pc[t] = "send" => out[t] = Page(t)
  /\ \A k \in 1 .. pos[t] : Body[t][k].op # "fail"

\* Every <parallel> t has executed left a span, and the loop of Result has
\* received from every span before its index.
Joining(t) ==
  /\ pc[t] \in {"run", "result"} =>
       \A k \in 1 .. pos[t] : Body[t][k].op = "parallel" =>
         \E j \in 1 .. Len(spans[t]) :
           spans[t][j] = [kind |-> "chan", task |-> Body[t][k].task]
  /\ \A j \in 1 .. nread[t] :
       spans[t][j].kind = "chan" => spans[t][j].task \in getOnce

\* All that is known of goroutine t alone.
Local(t) ==
  /\ Phase(t)
  /\ Joining(t)
  /\ pc[t] \in {"run", "result"} => InOrder(t)
  /\ Succeeded(t) => Joined(t)

\* What is in, and has come out of, a channel is the page of its goroutine.
ChannelInv ==
  \A t \in Task :
    /\ chan[t] # <<>> => t \in setOnce /\ Head(chan[t]) = Page(t)
    /\ t \in setOnce => pc[t] = "done"
    /\ t \in getOnce => t \in setOnce /\ got[t] = Page(t)

\* A request is answered when it is done and not before.
ReplyInv ==
  \A r \in Requests :
    /\ pc[r] # "done" => reply[r] = Pending
    /\ pc[r] = "send" => ~ HasFail(r)

\* A goroutine that is not a request was started by a <parallel> executed before.
SpawnInv ==
  \A u \in Task \ Requests : pc[u] # "idle" =>
    \E t \in Task : \E k \in 1 .. pos[t] :
      Body[t][k].op = "parallel" /\ Body[t][k].task = u

Shared == ChannelInv /\ ReplyInv /\ SpawnInv /\ SequentialAnswer

IInv == TypeOK /\ Shared /\ \A t \in Task : Local(t)

-----------------------------------------------------------------------------
(* Lemmas of the induction *)

\* The statement a goroutine comes to next, and what it adds to the text.
LEMMA NextStatement ==
  ASSUME TypeOK, NEW t \in Task, NEW op, At(t, op)
  PROVE  /\ pos[t] + 1 \in 1 .. Len(Body[t])
         /\ Body[t][pos[t] + 1].op = op
         /\ Doc[t][pos[t]] \in Text
         /\ Doc[t][pos[t] + 1] = Doc[t][pos[t]] \o Written(Body[t][pos[t] + 1])
<1>1. pos[t] + 1 \in 1 .. Len(Body[t]) /\ pos[t] \in 0 .. Len(Body[t])
  BY BodyLen DEF TypeOK, At
<1>2. (pos[t] + 1) - 1 = pos[t]
  BY DEF TypeOK
<1>3. QED
  BY <1>1, <1>2, DocAssumption DEF At

\* Flushing the buffer into the spans keeps them in order and leaves it empty.
LEMMA FlushCovers ==
  ASSUME TypeOK, NEW t \in Task,
         NEW cut \in [0 .. Len(spans[t]) -> 0 .. pos[t]],
         Covers(t, spans[t], cut),
         Doc[t][pos[t]] = Doc[t][cut[Len(spans[t])]] \o buf[t]
  PROVE  \E c \in [0 .. Len(Flushed(t)) -> 0 .. pos[t]] :
           /\ Covers(t, Flushed(t), c)
           /\ Doc[t][pos[t]] = Doc[t][c[Len(Flushed(t))]]
<1> DEFINE n == Len(spans[t])
<1>1. spans[t] \in Seq(Span) /\ buf[t] \in Text /\ n \in Nat /\ pos[t] \in Nat
  BY LenProperties DEF TypeOK
<1>2. \A k \in 0 .. pos[t] : Doc[t][k] \in Text
  <2>1. \A k \in 0 .. pos[t] : k \in 0 .. Len(Body[t])
    BY <1>1, BodyLen DEF TypeOK
  <2>2. QED
    BY <2>1, DocAssumption
<1>3. CASE buf[t] = <<>>
  <2>1. Flushed(t) = spans[t]
    BY <1>3 DEF Flushed
  <2>2. Doc[t][cut[n]] \o <<>> = Doc[t][cut[n]]
    BY <1>1, <1>2, ConcatEmptySeq DEF Text
  <2>3. QED
    BY <1>3, <2>1, <2>2
<1>4. CASE buf[t] # <<>>
  <2> DEFINE c == [j \in 0 .. n + 1 |-> IF j <= n THEN cut[j] ELSE pos[t]]
  <2>1. /\ Len(Flushed(t)) = n + 1
        /\ \A j \in 1 .. n : Flushed(t)[j] = spans[t][j]
        /\ Flushed(t)[n + 1] = [kind |-> "string", txt |-> buf[t]]
    BY <1>1, <1>4, FlushedTyping
  <2>2. /\ c \in [0 .. n + 1 -> 0 .. pos[t]] /\ c[0] = 0 /\ c[n + 1] = pos[t]
        /\ \A j \in 0 .. n : c[j] = cut[j]
    BY <1>1 DEF Covers
  <2>3. \A j \in 1 .. n : Doc[t][cut[j]] = Doc[t][cut[j - 1]] \o SpanText(spans[t][j])
    BY DEF Covers
  <2> HIDE DEF c
  <2>4. ASSUME NEW j \in 1 .. n + 1
        PROVE  Doc[t][c[j]] = Doc[t][c[j - 1]] \o SpanText(Flushed(t)[j])
    <3> HIDE DEF n
    <3>1. CASE j \in 1 .. n
      <4>1. j \in 0 .. n /\ j - 1 \in 0 .. n
        BY <1>1, <3>1
      <4>2. c[j] = cut[j] /\ c[j - 1] = cut[j - 1] /\ Flushed(t)[j] = spans[t][j]
        BY <2>1, <2>2, <3>1, <4>1
      <4>3. QED
        BY <2>3, <3>1, <4>2
    <3>2. CASE j = n + 1
      <4>1. SpanText(Flushed(t)[j]) = buf[t]
        BY <2>1, <3>2 DEF SpanText
      <4>2. j - 1 = n /\ n \in 0 .. n
        BY <1>1, <3>2
      <4>3. c[j] = pos[t] /\ c[j - 1] = cut[n]
        BY <2>2, <3>2, <4>2
      <4>4. Doc[t][pos[t]] = Doc[t][cut[n]] \o buf[t]
        BY DEF n
      <4>5. QED
        BY <4>1, <4>3, <4>4
    <3>3. j \in 1 .. n \/ j = n + 1
      BY <1>1
    <3>4. QED
      BY <3>1, <3>2, <3>3
  <2>5. Covers(t, Flushed(t), c)
    BY <2>1, <2>2, <2>4 DEF Covers
  <2>6. QED
    BY <2>1, <2>2, <2>5
<1>5. QED
  BY <1>3, <1>4

\* A goroutine that a step does not move knows what it knew.
LEMMA Elsewhere ==
  ASSUME IInv, TypeOK', NEW x \in Task,
         pc'[x] = pc[x], pos'[x] = pos[x], buf'[x] = buf[x],
         spans'[x] = spans[x], nread'[x] = nread[x], out'[x] = out[x],
         getOnce \subseteq getOnce',
         \A u \in Task : pc[u] = "done" => pc'[u] = "done"
  PROVE  Local(x)'
<1>1. Local(x)
  BY DEF IInv
<1>2. Phase(x)'
  BY <1>1 DEF Local, Phase
<1>3. Joining(x)'
  BY <1>1 DEF Local, Joining
<1>4. (pc[x] \in {"run", "result"} => InOrder(x))'
  BY <1>1 DEF Local, InOrder, Covers, SpanText
<1>5. (Succeeded(x) => Joined(x))'
  BY <1>1 DEF Local, Succeeded, Joined
<1>6. QED
  BY <1>2, <1>3, <1>4, <1>5 DEF Local

\* A goroutine that a request or a <parallel> starts has written nothing.
LEMMA Starting ==
  ASSUME IInv, TypeOK', NEW x \in Task,
         pc[x] = "idle", pc'[x] = "run", pos'[x] = pos[x], buf'[x] = buf[x],
         spans'[x] = spans[x], nread'[x] = nread[x], out'[x] = out[x]
  PROVE  Local(x)'
<1>1. /\ pos'[x] = 0 /\ buf'[x] = <<>> /\ spans'[x] = <<>>
      /\ nread'[x] = 0 /\ out'[x] = <<>>
  BY DEF IInv, Local, Phase
<1>2. Phase(x)' /\ Joining(x)'
  BY <1>1 DEF Phase, Joining
<1>3. InOrder(x)'
  <2> DEFINE c == [j \in 0 .. 0 |-> 0]
  <2>1. Len(spans'[x]) = 0
    BY <1>1
  <2>2. c \in [0 .. Len(spans'[x]) -> 0 .. pos'[x]] /\ c[0] = 0
    BY <1>1, <2>1
  <2>3. Doc[x][0] = <<>> \o <<>>
    BY DocAssumption, EmptySeq, ConcatEmptySeq
  <2> HIDE DEF c
  <2>4. Covers(x, spans'[x], c)
    BY <2>1, <2>2 DEF Covers
  <2>5. QED
    BY <1>1, <2>1, <2>2, <2>3, <2>4 DEF InOrder, Covers, SpanText
<1>4. QED
  BY <1>2, <1>3 DEF Local, Succeeded

\* A step that lets every goroutine keep its starter, and gives one to those it
\* starts.
LEMMA SpawnFrame ==
  ASSUME IInv, TypeOK', \A x \in Task : pos'[x] >= pos[x],
         \A u \in Task \ Requests : pc'[u] # "idle" =>
           \/ pc[u] # "idle"
           \/ \E t \in Task : \E k \in 1 .. pos'[t] :
                Body[t][k].op = "parallel" /\ Body[t][k].task = u
  PROVE  SpawnInv'
<1> SUFFICES ASSUME NEW u \in Task \ Requests, pc'[u] # "idle"
             PROVE  \E t \in Task : \E k \in 1 .. pos'[t] :
                      Body[t][k].op = "parallel" /\ Body[t][k].task = u
  BY DEF SpawnInv
<1> SUFFICES ASSUME pc[u] # "idle"
             PROVE  \E t \in Task : \E k \in 1 .. pos'[t] :
                      Body[t][k].op = "parallel" /\ Body[t][k].task = u
  OBVIOUS
<1>1. PICK t \in Task : \E k \in 1 .. pos[t] :
              Body[t][k].op = "parallel" /\ Body[t][k].task = u
  BY DEF IInv, Shared, SpawnInv
<1>2. pos[t] \in Nat /\ pos'[t] \in Nat
  BY DEF IInv, TypeOK
<1>3. QED
  BY <1>1, <1>2

\* Steps that touch no channel keep what is known of the channels.
LEMMA ChannelFrame ==
  ASSUME IInv, UNCHANGED span, \A u \in Task : pc[u] = "done" => pc'[u] = "done"
  PROVE  ChannelInv'
BY DEF IInv, Shared, ChannelInv, span

-----------------------------------------------------------------------------
(* Every action keeps the invariant *)

LEMMA RequestKeeps ==
  ASSUME IInv, TypeOK', NEW r \in Requests, Request(r)
  PROVE  IInv'
<1>1. r \in Task
  BY TaskAssumption
<1>2. /\ pc[r] = "idle"
      /\ pc' = [pc EXCEPT ![r] = "run"]
      /\ UNCHANGED <<pos, buf, spans, nread, out, chan, setOnce, getOnce, got, reply>>
  BY DEF Request, writer, span
<1>3. pc \in [Task -> {"idle", "run", "result", "send", "done"}]
  BY DEF IInv, TypeOK
<1>4. Local(r)'
  BY <1>1, <1>2, <1>3, Starting
<1>5. \A x \in Task \ {r} : Local(x)'
  BY <1>1, <1>2, <1>3, Elsewhere
<1>6. ChannelInv'
  BY <1>2, <1>3, ChannelFrame DEF span
<1>7. ReplyInv' /\ SequentialAnswer'
  BY <1>1, <1>2, <1>3 DEF IInv, Shared, ReplyInv, SequentialAnswer, SequentialReply
<1>8. SpawnInv'
  BY <1>1, <1>2, <1>3, SpawnFrame DEF IInv, TypeOK
<1>9. QED
  BY <1>4, <1>5, <1>6, <1>7, <1>8 DEF IInv, Shared

LEMMA WriteStringKeeps ==
  ASSUME IInv, TypeOK', NEW t \in Task, WriteString(t)
  PROVE  IInv'
<1>1. /\ pc[t] = "run"
      /\ buf' = [buf EXCEPT ![t] = @ \o Body[t][pos[t] + 1].txt]
      /\ pos' = [pos EXCEPT ![t] = @ + 1]
      /\ UNCHANGED <<pc, spans, nread, out, chan, setOnce, getOnce, got, reply>>
  BY DEF WriteString, At, writer, span
<1>2. /\ pos[t] + 1 \in 1 .. Len(Body[t])
      /\ Body[t][pos[t] + 1].op = "write"
      /\ Doc[t][pos[t] + 1] = Doc[t][pos[t]] \o Body[t][pos[t] + 1].txt
  BY NextStatement DEF IInv, WriteString, Written
<1>3. TypeOK
  BY DEF IInv
<1>4. Phase(t)' /\ Joining(t)'
  BY <1>1, <1>2, <1>3 DEF IInv, Local, Phase, Joining, TypeOK
<1>5. InOrder(t)'
  <2>1. PICK cut \in [0 .. Len(spans[t]) -> 0 .. pos[t]] :
          /\ Covers(t, spans[t], cut)
          /\ Doc[t][pos[t]] = Doc[t][cut[Len(spans[t])]] \o buf[t]
    BY <1>1 DEF IInv, Local, InOrder
  <2>2. /\ Len(spans[t]) \in Nat /\ buf[t] \in Text /\ pos[t] \in Nat
        /\ Body[t][pos[t] + 1].txt \in Text
    BY <1>2, <1>3, BodyTyping, LenProperties DEF TypeOK
  <2>3. Doc[t][cut[Len(spans[t])]] \in Text
    <3>1. cut[Len(spans[t])] \in 0 .. Len(Body[t])
      BY <1>2, <2>2, BodyLen
    <3>2. QED
      BY <3>1, DocAssumption
  <2>4. Doc[t][pos[t] + 1] = Doc[t][cut[Len(spans[t])]] \o (buf[t] \o Body[t][pos[t] + 1].txt)
    <3>1. Doc[t][pos[t] + 1] = (Doc[t][cut[Len(spans[t])]] \o buf[t]) \o Body[t][pos[t] + 1].txt
      BY <1>2, <2>1
    <3>2. QED
      BY <2>2, <2>3, <3>1, TextConcat
  <2>5. cut \in [0 .. Len(spans[t]) -> 0 .. pos[t] + 1]
    BY <2>2
  <2>6. Covers(t, spans'[t], cut)
    BY <1>1, <2>1 DEF Covers, SpanText
  <2>7. buf'[t] = buf[t] \o Body[t][pos[t] + 1].txt /\ pos'[t] = pos[t] + 1
    BY <1>1, <1>3 DEF TypeOK
  <2>8. QED
    BY <1>1, <2>4, <2>5, <2>6, <2>7 DEF InOrder, Covers, SpanText
<1>6. Local(t)'
  BY <1>1, <1>4, <1>5 DEF Local, Succeeded
<1>7. \A x \in Task \ {t} : Local(x)'
  BY <1>1, <1>3, Elsewhere DEF TypeOK
<1>8. ChannelInv'
  BY <1>1, ChannelFrame DEF span
<1>9. ReplyInv' /\ SequentialAnswer'
  BY <1>1 DEF IInv, Shared, ReplyInv, SequentialAnswer, SequentialReply
<1>10. SpawnInv'
  BY <1>1, <1>3, SpawnFrame DEF TypeOK
<1>11. QED
  BY <1>6, <1>7, <1>8, <1>9, <1>10 DEF IInv, Shared

\* The task of a <parallel> that is executed is idle: nothing else starts it.
LEMMA ParallelTask ==
  ASSUME IInv, NEW t \in Task, Parallel(t)
  PROVE  LET u == Body[t][pos[t] + 1].task
         IN u \in Task \ Requests /\ u # t /\ pc[u] = "idle"
<1> DEFINE u == Body[t][pos[t] + 1].task
<1>1. /\ pos[t] + 1 \in 1 .. Len(Body[t])
      /\ Body[t][pos[t] + 1].op = "parallel"
      /\ pc[t] = "run"
  BY NextStatement DEF IInv, Parallel, At
<1>2. u \in Task \ Requests
  BY <1>1, BodyTyping
<1>3. ASSUME pc[u] # "idle" PROVE FALSE
  <2>1. PICK x \in Task : \E k \in 1 .. pos[x] :
               Body[x][k].op = "parallel" /\ Body[x][k].task = u
    BY <1>2, <1>3 DEF IInv, Shared, SpawnInv
  <2>2. PICK k \in 1 .. pos[x] : Body[x][k].op = "parallel" /\ Body[x][k].task = u
    BY <2>1
  <2>3. k \in 1 .. Len(Body[x])
    BY <2>2, BodyLen DEF IInv, TypeOK
  <2>4. x = t /\ k = pos[t] + 1
    BY <1>1, <2>2, <2>3, SpawnAssumption
  <2>5. QED
    BY <2>2, <2>4 DEF IInv, TypeOK
<1>4. QED
  BY <1>1, <1>2, <1>3

LEMMA ParallelKeeps ==
  ASSUME IInv, TypeOK', NEW t \in Task, Parallel(t)
  PROVE  IInv'
<1>0. PICK u \in Task \ Requests :
              u = Body[t][pos[t] + 1].task /\ u # t /\ pc[u] = "idle"
  BY ParallelTask
<1> DEFINE s == [kind |-> "chan", task |-> u]
           m == Len(Flushed(t))
<1>1. /\ pc[t] = "run"
      /\ pc' = [pc EXCEPT ![u] = "run"]
      /\ spans' = [spans EXCEPT ![t] = Append(Flushed(t), s)]
      /\ buf' = [buf EXCEPT ![t] = <<>>]
      /\ pos' = [pos EXCEPT ![t] = @ + 1]
      /\ UNCHANGED <<nread, out, chan, setOnce, getOnce, got, reply>>
  BY <1>0 DEF Parallel, WriteSpan, At, span
<1>2. /\ pos[t] + 1 \in 1 .. Len(Body[t])
      /\ Body[t][pos[t] + 1].op = "parallel"
      /\ Doc[t][pos[t]] \in Text
      /\ Doc[t][pos[t] + 1] = Doc[t][pos[t]] \o Page(u)
  BY <1>0, NextStatement DEF IInv, Parallel, Written
<1>3. u \in Task \ Requests /\ u # t /\ pc[u] = "idle"
  BY <1>0
<1>4. TypeOK /\ pos[t] \in Nat
  BY DEF IInv, TypeOK
<1>5. s \in Span
  BY <1>3 DEF Span
<1>6. /\ m \in Nat /\ Len(spans[t]) \in Nat /\ m >= Len(spans[t])
      /\ \A j \in 1 .. Len(spans[t]) : Flushed(t)[j] = spans[t][j]
      /\ Flushed(t) \in Seq(Span)
  <2>1. spans[t] \in Seq(Span) /\ buf[t] \in Text /\ Len(spans[t]) \in Nat
    BY <1>4, LenProperties DEF TypeOK
  <2>2. /\ Flushed(t) \in Seq(Span) /\ m \in Nat
        /\ m = IF buf[t] = <<>> THEN Len(spans[t]) ELSE Len(spans[t]) + 1
        /\ \A j \in 1 .. Len(spans[t]) : Flushed(t)[j] = spans[t][j]
    BY <2>1, FlushedTyping
  <2>3. QED
    BY <2>1, <2>2
<1>7. /\ Len(spans'[t]) = m + 1
      /\ \A j \in 1 .. m : spans'[t][j] = Flushed(t)[j]
      /\ spans'[t][m + 1] = s
  <2>1. spans'[t] = Append(Flushed(t), s)
    BY <1>1, <1>4 DEF TypeOK
  <2>2. QED
    BY <1>5, <1>6, <2>1, AppendProperties
<1>8. /\ pc'[t] = "run" /\ pos'[t] = pos[t] + 1 /\ buf'[t] = <<>>
      /\ nread'[t] = 0 /\ out'[t] = <<>>
  BY <1>1, <1>3, <1>4 DEF IInv, Local, Phase, TypeOK
<1> HIDE DEF s, m
<1>9. Phase(t)'
  BY <1>2, <1>4, <1>8 DEF IInv, Local, Phase
<1>10. Joining(t)'
  <2> SUFFICES ASSUME NEW k \in 1 .. pos[t] + 1, Body[t][k].op = "parallel"
               PROVE  \E j \in 1 .. Len(spans'[t]) :
                        spans'[t][j] = [kind |-> "chan", task |-> Body[t][k].task]
    BY <1>8 DEF Joining
  <2>1. CASE k \in 1 .. pos[t]
    <3>1. PICK j \in 1 .. Len(spans[t]) :
                 spans[t][j] = [kind |-> "chan", task |-> Body[t][k].task]
      BY <1>1, <2>1 DEF IInv, Local, Joining
    <3>2. j \in 1 .. m /\ j \in 1 .. m + 1
      BY <1>6, <3>1
    <3>3. spans'[t][j] = spans[t][j]
      BY <1>6, <1>7, <3>1, <3>2
    <3>4. QED
      BY <1>7, <3>1, <3>2, <3>3
  <2>2. CASE k = pos[t] + 1
    <3>1. m + 1 \in 1 .. Len(spans'[t])
      BY <1>6, <1>7
    <3>2. spans'[t][m + 1] = [kind |-> "chan", task |-> Body[t][k].task]
      BY <1>0, <1>7, <2>2 DEF s
    <3>3. QED
      BY <3>1, <3>2
  <2>3. k \in 1 .. pos[t] \/ k = pos[t] + 1
    BY <1>4
  <2>4. QED
    BY <2>1, <2>2, <2>3
<1>11. InOrder(t)'
  <2>1. PICK cut \in [0 .. Len(spans[t]) -> 0 .. pos[t]] :
          /\ Covers(t, spans[t], cut)
          /\ Doc[t][pos[t]] = Doc[t][cut[Len(spans[t])]] \o buf[t]
    BY <1>1 DEF IInv, Local, InOrder
  <2>2. PICK c \in [0 .. m -> 0 .. pos[t]] :
          Covers(t, Flushed(t), c) /\ Doc[t][pos[t]] = Doc[t][c[m]]
    BY <1>4, <2>1, FlushCovers DEF m
  <2> DEFINE d == [j \in 0 .. m + 1 |-> IF j <= m THEN c[j] ELSE pos[t] + 1]
  <2>3. /\ d \in [0 .. m + 1 -> 0 .. pos[t] + 1]
        /\ d[0] = c[0] /\ d[m + 1] = pos[t] + 1
        /\ \A j \in 0 .. m : d[j] = c[j]
    BY <1>4, <1>6
  <2> HIDE DEF d
  <2>4. ASSUME NEW j \in 1 .. m + 1
        PROVE  Doc[t][d[j]] = Doc[t][d[j - 1]] \o SpanText(spans'[t][j])
    <3>1. CASE j \in 1 .. m
      <4>1. d[j] = c[j] /\ d[j - 1] = c[j - 1] /\ spans'[t][j] = Flushed(t)[j]
        BY <1>6, <1>7, <2>3, <3>1
      <4>2. \A i \in 1 .. m : Doc[t][c[i]] = Doc[t][c[i - 1]] \o SpanText(Flushed(t)[i])
        BY <2>2 DEF Covers, m
      <4>3. QED
        BY <3>1, <4>1, <4>2
    <3>2. CASE j = m + 1
      <4>1. j - 1 = m /\ m \in 0 .. m
        BY <1>6, <3>2
      <4>2. d[j] = pos[t] + 1 /\ d[j - 1] = c[m]
        BY <2>3, <3>2, <4>1
      <4>3. SpanText(spans'[t][j]) = Page(u)
        BY <1>7, <3>2 DEF SpanText, s
      <4>4. QED
        BY <1>2, <2>2, <4>2, <4>3
    <3>3. j \in 1 .. m \/ j = m + 1
      BY <1>6
    <3>4. QED
      BY <3>1, <3>2, <3>3
  <2>5. Covers(t, spans'[t], d)
    BY <1>7, <2>2, <2>3, <2>4 DEF Covers
  <2>6. Doc[t][pos[t] + 1] \in Text
    BY <1>2, <1>3, TextConcat, PageTyping
  <2>7. Doc[t][pos[t] + 1] = Doc[t][d[m + 1]] \o <<>>
    BY <2>3, <2>6, TextConcat
  <2>8. QED
    BY <1>7, <1>8, <2>3, <2>5, <2>7 DEF InOrder, Covers, SpanText
<1>12. Local(t)'
  BY <1>8, <1>9, <1>10, <1>11 DEF Local, Succeeded
<1>13. Local(u)'
  <2>1. /\ pc'[u] = "run" /\ pos'[u] = pos[u] /\ buf'[u] = buf[u]
        /\ spans'[u] = spans[u] /\ nread'[u] = nread[u] /\ out'[u] = out[u]
    BY <1>1, <1>3, <1>4 DEF TypeOK
  <2>2. QED
    BY <1>3, <2>1, Starting
<1>14. \A x \in Task : pc[x] = "done" => pc'[x] = "done"
  BY <1>1, <1>3, <1>4 DEF TypeOK
<1>15. ASSUME NEW x \in Task \ {t, u} PROVE Local(x)'
  <2>1. /\ pc'[x] = pc[x] /\ pos'[x] = pos[x] /\ buf'[x] = buf[x]
        /\ spans'[x] = spans[x] /\ nread'[x] = nread[x] /\ out'[x] = out[x]
    BY <1>1, <1>4 DEF TypeOK
  <2>2. QED
    BY <1>1, <1>14, <2>1, Elsewhere
<1>16. ChannelInv'
  BY <1>1, <1>14, ChannelFrame DEF span
<1>17. ReplyInv' /\ SequentialAnswer'
  BY <1>1, <1>3, <1>4, TaskAssumption
     DEF IInv, Shared, ReplyInv, SequentialAnswer, SequentialReply, TypeOK
<1>18. SpawnInv'
  <2>1. \E k \in 1 .. pos'[t] : Body[t][k].op = "parallel" /\ Body[t][k].task = u
    <3>1. pos[t] + 1 \in 1 .. pos'[t]
      BY <1>4, <1>8
    <3>2. QED
      BY <1>0, <1>2, <3>1
  <2>2. \A x \in Task : pos'[x] >= pos[x]
    BY <1>1, <1>4 DEF TypeOK
  <2>3. \A x \in Task : x # u => pc'[x] = pc[x]
    BY <1>1, <1>4 DEF TypeOK
  <2>4. QED
    BY <2>1, <2>2, <2>3, SpawnFrame
<1>19. QED
  BY <1>12, <1>13, <1>15, <1>16, <1>17, <1>18 DEF IInv, Shared

LEMMA NilChildKeeps ==
  ASSUME IInv, TypeOK', NEW t \in Task, NilChild(t)
  PROVE  IInv'
<1>1. /\ pc[t] = "run" /\ t \in NoChild /\ t \notin Requests
      /\ pc' = [pc EXCEPT ![t] = "send"]
      /\ UNCHANGED <<pos, buf, spans, nread, out, chan, setOnce, getOnce, got, reply>>
  BY TaskAssumption DEF NilChild, writer, span
<1>2. TypeOK /\ pc'[t] = "send"
  BY <1>1 DEF IInv, TypeOK
<1>3. Local(t)'
  BY <1>1, <1>2 DEF IInv, Local, Phase, Joining, Succeeded, Page
<1>4. \A x \in Task \ {t} : Local(x)'
  BY <1>1, <1>2, Elsewhere DEF TypeOK
<1>5. \A x \in Task : pc[x] = "done" => pc'[x] = "done"
  BY <1>1, <1>2 DEF TypeOK
<1>6. ChannelInv'
  BY <1>1, <1>5, ChannelFrame DEF span
<1>7. ReplyInv' /\ SequentialAnswer'
  BY <1>1, <1>2, TaskAssumption
     DEF IInv, Shared, ReplyInv, SequentialAnswer, SequentialReply, TypeOK
<1>8. SpawnInv'
  BY <1>1, <1>2, SpawnFrame DEF TypeOK
<1>9. QED
  BY <1>3, <1>4, <1>6, <1>7, <1>8 DEF IInv, Shared

LEMMA FailChildKeeps ==
  ASSUME IInv, TypeOK', NEW t \in Task, FailChild(t)
  PROVE  IInv'
<1>1. /\ pc[t] = "run" /\ t \notin NoChild /\ t \notin Requests
      /\ pc' = [pc EXCEPT ![t] = "send"]
      /\ out' = [out EXCEPT ![t] = ErrText[t]]
      /\ UNCHANGED <<pos, buf, spans, nread, chan, setOnce, getOnce, got, reply>>
  BY DEF FailChild, At, writer, span
<1>2. TypeOK /\ pc'[t] = "send" /\ out'[t] = ErrText[t]
  BY <1>1 DEF IInv, TypeOK
<1>3. HasFail(t)
  BY NextStatement DEF IInv, FailChild, HasFail
<1>4. Local(t)'
  BY <1>1, <1>2, <1>3 DEF IInv, Local, Phase, Joining, Succeeded, Page
<1>5. \A x \in Task \ {t} : Local(x)'
  BY <1>1, <1>2, Elsewhere DEF TypeOK
<1>6. \A x \in Task : pc[x] = "done" => pc'[x] = "done"
  BY <1>1, <1>2 DEF TypeOK
<1>7. ChannelInv'
  BY <1>1, <1>6, ChannelFrame DEF span
<1>8. ReplyInv' /\ SequentialAnswer'
  BY <1>1, <1>2, TaskAssumption
     DEF IInv, Shared, ReplyInv, SequentialAnswer, SequentialReply, TypeOK
<1>9. SpawnInv'
  BY <1>1, <1>2, SpawnFrame DEF TypeOK
<1>10. QED
  BY <1>4, <1>5, <1>7, <1>8, <1>9 DEF IInv, Shared

LEMMA FailRequestKeeps ==
  ASSUME IInv, TypeOK', NEW r \in Requests, FailRequest(r)
  PROVE  IInv'
<1>1. r \in Task /\ TypeOK
  BY TaskAssumption DEF IInv
<1>2. /\ pc[r] = "run"
      /\ pc' = [pc EXCEPT ![r] = "done"]
      /\ reply' = [reply EXCEPT ![r] = [ok |-> FALSE, html |-> <<>>]]
      /\ UNCHANGED <<pos, buf, spans, nread, out, chan, setOnce, getOnce, got>>
  BY DEF FailRequest, At, writer, span
<1>3. HasFail(r)
  BY <1>1, NextStatement DEF FailRequest, HasFail
<1>4. pc'[r] = "done" /\ reply'[r] = SequentialReply(r)
  BY <1>1, <1>2, <1>3 DEF TypeOK, SequentialReply
<1>5. Local(r)'
  BY <1>1, <1>2, <1>3, <1>4 DEF IInv, Local, Phase, Joining, Succeeded
<1>6. \A x \in Task \ {r} : Local(x)'
  BY <1>1, <1>2, Elsewhere DEF TypeOK
<1>7. \A x \in Task : pc[x] = "done" => pc'[x] = "done"
  BY <1>1, <1>2 DEF TypeOK
<1>8. ChannelInv'
  BY <1>2, <1>7, ChannelFrame DEF span
<1>9. ReplyInv' /\ SequentialAnswer'
  <2>1. \A q \in Requests : q # r => pc'[q] = pc[q] /\ reply'[q] = reply[q]
    BY <1>1, <1>2 DEF TypeOK
  <2>2. QED
    BY <1>4, <2>1, TaskAssumption
       DEF IInv, Shared, ReplyInv, SequentialAnswer, SequentialReply
<1>10. SpawnInv'
  BY <1>1, <1>2, SpawnFrame DEF TypeOK
<1>11. QED
  BY <1>5, <1>6, <1>8, <1>9, <1>10 DEF IInv, Shared

LEMMA ReturnKeeps ==
  ASSUME IInv, TypeOK', NEW r \in Requests, Return(r)
  PROVE  IInv' /\ reply[r] = Pending /\ reply'[r] = SequentialReply(r)
<1>1. r \in Task /\ r \notin NoChild /\ TypeOK
  BY TaskAssumption DEF IInv
<1>2. /\ pc[r] = "send"
      /\ pc' = [pc EXCEPT ![r] = "done"]
      /\ reply' = [reply EXCEPT ![r] = [ok |-> TRUE, html |-> out[r]]]
      /\ UNCHANGED <<pos, buf, spans, nread, out, chan, setOnce, getOnce, got>>
  BY DEF Return, writer, span
<1>3. ~ HasFail(r) /\ out[r] = Page(r) /\ reply[r] = Pending
  BY <1>1, <1>2 DEF IInv, Shared, ReplyInv, Local, Phase
<1>4. pc'[r] = "done" /\ reply'[r] = SequentialReply(r)
  BY <1>1, <1>2, <1>3 DEF TypeOK, SequentialReply, Page
<1>5. \A x \in Task : pc[x] = "done" => pc'[x] = "done"
  BY <1>1, <1>2 DEF TypeOK
<1>6. Local(r)'
  <2>1. Joined(r)
    BY <1>1, <1>2, <1>3 DEF IInv, Local, Succeeded
  <2>2. Joined(r)'
    BY <1>2, <1>5, <2>1 DEF Joined
  <2>3. QED
    BY <1>1, <1>2, <1>4, <2>2 DEF IInv, Local, Phase, Joining
<1>7. \A x \in Task \ {r} : Local(x)'
  BY <1>1, <1>2, Elsewhere DEF TypeOK
<1>8. ChannelInv'
  BY <1>2, <1>5, ChannelFrame DEF span
<1>9. ReplyInv' /\ SequentialAnswer'
  <2>1. \A q \in Requests : q # r => pc'[q] = pc[q] /\ reply'[q] = reply[q]
    BY <1>1, <1>2 DEF TypeOK
  <2>2. QED
    BY <1>4, <2>1, TaskAssumption
       DEF IInv, Shared, ReplyInv, SequentialAnswer, SequentialReply
<1>10. SpawnInv'
  BY <1>1, <1>2, SpawnFrame DEF TypeOK
<1>11. QED
  BY <1>3, <1>4, <1>6, <1>7, <1>8, <1>9, <1>10 DEF IInv, Shared

LEMMA DoneKeeps ==
  ASSUME IInv, TypeOK', NEW t \in Task, Done(t)
  PROVE  IInv'
<1>1. TypeOK
  BY DEF IInv
<1>2. t \notin setOnce /\ chan[t] = <<>> /\ out[t] = Page(t) /\ t \notin getOnce
  BY DEF IInv, Shared, ChannelInv, Local, Phase, Done
<1>3. /\ pc[t] = "send" /\ t \notin Requests
      /\ pc' = [pc EXCEPT ![t] = "done"]
      /\ chan' = [chan EXCEPT ![t] = Append(@, out[t])]
      /\ setOnce' = setOnce \cup {t}
      /\ UNCHANGED <<pos, buf, spans, nread, out, getOnce, got, reply>>
  BY <1>2 DEF Done, writer
<1>4. \A x \in Task : pc[x] = "done" => pc'[x] = "done"
  BY <1>3, <1>1 DEF TypeOK
<1>5. Local(t)'
  <2>1. Succeeded(t)' => Joined(t)
    BY <1>3 DEF IInv, Local, Succeeded
  <2>2. Succeeded(t)' => Joined(t)'
    BY <1>3, <1>4, <2>1 DEF Joined
  <2>3. pc'[t] = "done"
    BY <1>1, <1>3 DEF TypeOK
  <2>4. QED
    BY <1>3, <2>2, <2>3 DEF IInv, Local, Phase, Joining
<1>6. \A x \in Task \ {t} : Local(x)'
  BY <1>3, <1>1, <1>4, Elsewhere DEF TypeOK
<1>7. ChannelInv'
  <2>1. /\ chan'[t] = Append(<<>>, Page(t)) /\ pc'[t] = "done"
        /\ \A x \in Task \ {t} : chan'[x] = chan[x] /\ pc'[x] = pc[x]
    BY <1>1, <1>2, <1>3 DEF TypeOK
  <2>2. Head(Append(<<>>, Page(t))) = Page(t)
    OBVIOUS
  <2>3. QED
    BY <1>2, <1>3, <2>1, <2>2 DEF IInv, Shared, ChannelInv
<1>8. ReplyInv' /\ SequentialAnswer'
  BY <1>1, <1>3, TaskAssumption
     DEF IInv, Shared, ReplyInv, SequentialAnswer, SequentialReply, TypeOK
<1>9. SpawnInv'
  BY <1>1, <1>3, SpawnFrame DEF TypeOK
<1>10. QED
  BY <1>5, <1>6, <1>7, <1>8, <1>9 DEF IInv, Shared

\* A goroutine that has executed its whole body has met no error.
LEMMA Unfailed ==
  ASSUME IInv, NEW t \in Task, pos[t] = Len(Body[t])
  PROVE  /\ ~ HasFail(t)
         /\ t \notin NoChild => Page(t) = Doc[t][pos[t]]
BY DEF IInv, Local, Phase, HasFail, Page

LEMMA BeginResultKeeps ==
  ASSUME IInv, TypeOK', NEW t \in Task, BeginResult(t)
  PROVE  IInv'
<1> DEFINE m == Len(Flushed(t))
<1>1. /\ pc[t] = "run" /\ t \notin NoChild /\ pos[t] = Len(Body[t])
      /\ buf' = [buf EXCEPT ![t] = <<>>]
      /\ UNCHANGED <<pos, nread, chan, setOnce, getOnce, got, reply>>
  BY DEF BeginResult, span
<1>2. TypeOK /\ spans[t] \in Seq(Span) /\ Len(spans[t]) \in Nat /\ buf[t] \in Text
  BY LenProperties DEF IInv, TypeOK
<1>3. ~ HasFail(t) /\ Page(t) = Doc[t][pos[t]]
  BY <1>1, Unfailed
<1>4. PICK cut \in [0 .. Len(spans[t]) -> 0 .. pos[t]] :
        /\ Covers(t, spans[t], cut)
        /\ Doc[t][pos[t]] = Doc[t][cut[Len(spans[t])]] \o buf[t]
  BY <1>1 DEF IInv, Local, InOrder
<1>5. nread[t] = 0 /\ out[t] = <<>>
  BY <1>1 DEF IInv, Local, Phase
<1>6. /\ \A x \in Task \ {t} : pc'[x] = pc[x] /\ out'[x] = out[x] /\ spans'[x] = spans[x]
      /\ pc'[t] \in {"send", "result"} /\ buf'[t] = <<>>
  BY <1>1, <1>2 DEF BeginResult, TypeOK
<1>7. Local(t)'
  <2>1. CASE spans[t] = <<>>
    <3>1. pc'[t] = "send" /\ out'[t] = buf[t] /\ spans' = spans
      BY <1>2, <2>1 DEF BeginResult, TypeOK
    <3>2. out'[t] = Page(t)
      <4>1. cut[Len(spans[t])] = 0
        BY <2>1, <1>4 DEF Covers
      <4>2. Doc[t][pos[t]] = <<>> \o buf[t]
        BY <1>4, <4>1, DocAssumption
      <4>3. QED
        BY <1>2, <1>3, <3>1, <4>2, TextConcat
    <3>3. Joined(t)'
      <4>1. Len(spans[t]) = 0
        BY <2>1
      <4>2. \A k \in 1 .. Len(Body[t]) : Body[t][k].op # "parallel"
        <5>1. \A k \in 1 .. pos[t] : Body[t][k].op = "parallel" =>
                \E j \in 1 .. Len(spans[t]) : TRUE
          BY <1>1 DEF IInv, Local, Joining
        <5>2. QED
          BY <1>1, <4>1, <5>1
      <4>3. QED
        BY <4>2 DEF Joined, Spawns
    <3>4. QED
      BY <1>1, <1>5, <3>1, <3>2, <3>3 DEF IInv, Local, Phase, Joining
  <2>2. CASE spans[t] # <<>>
    <3>1. pc'[t] = "result" /\ out' = out /\ spans'[t] = Flushed(t)
      BY <1>2, <2>2 DEF BeginResult, TypeOK
    <3>2. Phase(t)'
      BY <1>1, <1>6, <3>1 DEF IInv, Local, Phase
    <3>3. /\ m \in Nat /\ m >= Len(spans[t])
          /\ \A j \in 1 .. Len(spans[t]) : Flushed(t)[j] = spans[t][j]
      <4>1. /\ m \in Nat /\ \A j \in 1 .. Len(spans[t]) : Flushed(t)[j] = spans[t][j]
            /\ m = IF buf[t] = <<>> THEN Len(spans[t]) ELSE Len(spans[t]) + 1
        BY <1>2, FlushedTyping
      <4>2. QED
        BY <1>2, <4>1
    <3>4. Joining(t)'
      <4>1. \A j \in 1 .. Len(spans[t]) : j \in 1 .. m
        BY <1>2, <3>3
      <4>2. QED
        BY <1>1, <1>5, <3>1, <3>3, <4>1 DEF IInv, Local, Joining
    <3>5. InOrder(t)'
      <4>1. PICK c \in [0 .. m -> 0 .. pos[t]] :
              Covers(t, Flushed(t), c) /\ Doc[t][pos[t]] = Doc[t][c[m]]
        BY <1>2, <1>4, FlushCovers
      <4>2. Doc[t][pos[t]] \in Text
        BY <1>3, PageTyping
      <4>3. Doc[t][pos[t]] = Doc[t][c[m]] \o <<>>
        BY <4>1, <4>2, TextConcat
      <4>4. out[t] = Doc[t][c[0]]
        BY <1>5, <4>1, DocAssumption DEF Covers
      <4>5. QED
        <5>1. /\ spans'[t] = Flushed(t) /\ pos'[t] = pos[t] /\ nread'[t] = 0
              /\ buf'[t] = <<>> /\ out'[t] = out[t]
          BY <1>1, <1>5, <1>6, <3>1
        <5>2. c \in [0 .. Len(spans'[t]) -> 0 .. pos'[t]] /\ Covers(t, spans'[t], c)
          BY <4>1, <5>1
        <5>3. QED
          BY <4>3, <4>4, <5>1, <5>2 DEF InOrder, Covers, SpanText
    <3>6. QED
      BY <3>1, <3>2, <3>4, <3>5 DEF Local, Succeeded
  <2>3. QED
    BY <2>1, <2>2
<1>8. \A x \in Task : pc[x] = "done" => pc'[x] = "done"
  BY <1>1, <1>6
<1>9. ASSUME NEW x \in Task \ {t} PROVE Local(x)'
  <2>1. buf'[x] = buf[x]
    BY <1>1, <1>2 DEF TypeOK
  <2>2. QED
    BY <1>1, <1>6, <1>8, <2>1, Elsewhere
<1>10. ChannelInv'
  BY <1>1, <1>8, ChannelFrame DEF span
<1>11. ReplyInv' /\ SequentialAnswer'
  BY <1>1, <1>3, <1>6, TaskAssumption
     DEF IInv, Shared, ReplyInv, SequentialAnswer, SequentialReply
<1>12. SpawnInv'
  BY <1>1, <1>2, <1>6, SpawnFrame DEF TypeOK
<1>13. QED
  BY <1>7, <1>9, <1>10, <1>11, <1>12 DEF IInv, Shared

\* One turn of the loop of Result: the text of the span is appended to out.
LEMMA LoopKeepsOrder ==
  ASSUME IInv, NEW t \in Task, NEW k, ReadingSpan(t, k),
         pc'[t] = pc[t], pos'[t] = pos[t], buf'[t] = buf[t], spans'[t] = spans[t],
         nread'[t] = nread[t] + 1,
         out'[t] = out[t] \o SpanText(spans[t][nread[t] + 1])
  PROVE  InOrder(t)'
<1>1. PICK cut \in [0 .. Len(spans[t]) -> 0 .. pos[t]] :
        /\ Covers(t, spans[t], cut)
        /\ Doc[t][pos[t]] = Doc[t][cut[Len(spans[t])]] \o buf[t]
        /\ out[t] = Doc[t][cut[nread[t]]]
  BY DEF IInv, Local, InOrder, ReadingSpan
<1>2. nread[t] + 1 \in 1 .. Len(spans[t]) /\ (nread[t] + 1) - 1 = nread[t]
  BY ReadingTyping DEF IInv, TypeOK
<1>3. out'[t] = Doc[t][cut[nread[t] + 1]]
  BY <1>1, <1>2 DEF Covers
<1>4. QED
  BY <1>1, <1>3 DEF InOrder, Covers, SpanText

LEMMA ReadStringKeeps ==
  ASSUME IInv, TypeOK', NEW t \in Task, ReadString(t)
  PROVE  IInv'
<1>1. /\ pc[t] = "result"
      /\ out' = [out EXCEPT ![t] = @ \o spans[t][nread[t] + 1].txt]
      /\ nread' = [nread EXCEPT ![t] = @ + 1]
      /\ UNCHANGED <<pc, pos, buf, spans, chan, setOnce, getOnce, got, reply>>
  BY DEF ReadString, ReadingSpan, writer, span
<1>2. TypeOK /\ nread[t] \in Nat
  BY DEF IInv, TypeOK
<1>3. spans[t][nread[t] + 1].kind = "string"
  BY DEF ReadString, ReadingSpan
<1>4. /\ nread'[t] = nread[t] + 1
      /\ out'[t] = out[t] \o SpanText(spans[t][nread[t] + 1])
  BY <1>1, <1>2, <1>3 DEF TypeOK, SpanText
<1>5. InOrder(t)'
  BY <1>1, <1>4, LoopKeepsOrder DEF ReadString
<1>6. Phase(t)'
  BY <1>1 DEF IInv, Local, Phase
<1>7. Joining(t)'
  <2>1. \A j \in 1 .. nread[t] + 1 : j \in 1 .. nread[t] \/ j = nread[t] + 1
    BY <1>2
  <2>2. QED
    BY <1>1, <1>3, <1>4, <2>1 DEF IInv, Local, Joining
<1>8. Local(t)'
  BY <1>1, <1>5, <1>6, <1>7 DEF Local, Succeeded
<1>9. \A x \in Task \ {t} : Local(x)'
  BY <1>1, <1>2, Elsewhere DEF TypeOK
<1>10. ChannelInv'
  BY <1>1, ChannelFrame DEF span
<1>11. ReplyInv' /\ SequentialAnswer'
  BY <1>1 DEF IInv, Shared, ReplyInv, SequentialAnswer, SequentialReply
<1>12. SpawnInv'
  BY <1>1, <1>2, SpawnFrame DEF TypeOK
<1>13. QED
  BY <1>8, <1>9, <1>10, <1>11, <1>12 DEF IInv, Shared

LEMMA ReadChanKeeps ==
  ASSUME IInv, TypeOK', NEW t \in Task, ReadChan(t)
  PROVE  IInv'
<1>1. TypeOK /\ nread[t] \in Nat
  BY DEF IInv, TypeOK
<1>2. /\ spans[t][nread[t] + 1].kind = "chan"
      /\ spans[t][nread[t] + 1].task \in Task
  BY <1>1, ReadingTyping DEF ReadChan, Span
<1>3. PICK u \in Task : u = spans[t][nread[t] + 1].task
  BY <1>2
<1>4. /\ u \notin getOnce => chan[u] # <<>>
      /\ chan' = IF u \notin getOnce THEN [chan EXCEPT ![u] = Tail(@)] ELSE chan
      /\ got' = [got EXCEPT ![u] = IF u \notin getOnce THEN Head(chan[u]) ELSE got[u]]
      /\ getOnce' = getOnce \cup {u}
      /\ out' = [out EXCEPT ![t] = @ \o IF u \notin getOnce THEN Head(chan[u]) ELSE got[u]]
      /\ nread' = [nread EXCEPT ![t] = @ + 1]
      /\ pc[t] = "result"
      /\ UNCHANGED <<pc, pos, buf, spans, setOnce, reply>>
  BY <1>3 DEF ReadChan, ReadingSpan, writer
<1>5. /\ u \notin getOnce => Head(chan[u]) = Page(u)
      /\ u \in getOnce => got[u] = Page(u)
      /\ u \in setOnce
  BY <1>4 DEF IInv, Shared, ChannelInv
<1>6. /\ nread'[t] = nread[t] + 1
      /\ out'[t] = out[t] \o SpanText(spans[t][nread[t] + 1])
      /\ got'[u] = Page(u)
  BY <1>1, <1>2, <1>3, <1>4, <1>5 DEF TypeOK, SpanText
<1>7. InOrder(t)'
  BY <1>4, <1>6, LoopKeepsOrder DEF ReadChan
<1>8. Phase(t)'
  BY <1>4 DEF IInv, Local, Phase
<1>9. Joining(t)'
  <2>1. \A j \in 1 .. nread[t] + 1 : j \in 1 .. nread[t] \/ j = nread[t] + 1
    BY <1>1
  <2>2. QED
    BY <1>3, <1>4, <1>6, <2>1 DEF IInv, Local, Joining
<1>10. Local(t)'
  BY <1>4, <1>7, <1>8, <1>9 DEF Local, Succeeded
<1>11. \A x \in Task \ {t} : Local(x)'
  BY <1>1, <1>4, Elsewhere DEF TypeOK
<1>12. ChannelInv'
  <2>1. u \notin getOnce => chan'[u] = <<>>
    <3>1. SUFFICES ASSUME u \notin getOnce PROVE chan'[u] = <<>>
      OBVIOUS
    <3>2. chan[u] \in Seq(Text) /\ chan[u] # <<>> /\ Len(chan[u]) <= 1
      BY <1>1, <1>4, <3>1 DEF TypeOK, ChanCap
    <3>3. Tail(chan[u]) \in Seq(Text) /\ Len(Tail(chan[u])) = 0
      <4>1. Len(chan[u]) = 1
        <5>1. Len(chan[u]) \in Nat \ {0}
          BY <3>2, EmptySeq
        <5>2. \A n \in Nat \ {0} : n <= 1 => n = 1
          OBVIOUS
        <5>3. QED
          BY <3>2, <5>1, <5>2
      <4>2. Tail(chan[u]) \in Seq(Text) /\ Len(Tail(chan[u])) = Len(chan[u]) - 1
        BY <3>2, HeadTailProperties
      <4>3. QED
        BY <4>1, <4>2
    <3>4. chan'[u] = Tail(chan[u])
      BY <1>1, <1>4, <3>1 DEF TypeOK
    <3>5. QED
      BY <3>3, <3>4, EmptySeq
  <2>2. \A x \in Task \ {u} : chan'[x] = chan[x] /\ got'[x] = got[x]
    BY <1>1, <1>4 DEF TypeOK
  <2>3. u \in getOnce => chan'[u] = chan[u]
    BY <1>4
  <2>4. QED
    BY <1>4, <1>5, <1>6, <2>1, <2>2, <2>3 DEF IInv, Shared, ChannelInv
<1>13. ReplyInv' /\ SequentialAnswer'
  BY <1>4 DEF IInv, Shared, ReplyInv, SequentialAnswer, SequentialReply
<1>14. SpawnInv'
  BY <1>1, <1>4, SpawnFrame DEF TypeOK
<1>15. QED
  BY <1>10, <1>11, <1>12, <1>13, <1>14 DEF IInv, Shared

LEMMA EndResultKeeps ==
  ASSUME IInv, TypeOK', NEW t \in Task, EndResult(t)
  PROVE  IInv'
<1>1. /\ pc[t] = "result" /\ nread[t] = Len(spans[t])
      /\ pc' = [pc EXCEPT ![t] = "send"]
      /\ UNCHANGED <<pos, buf, spans, nread, out, chan, setOnce, getOnce, got, reply>>
  BY DEF EndResult, writer, span
<1>2. TypeOK /\ pc'[t] = "send"
  BY <1>1 DEF IInv, TypeOK
<1>3. pos[t] = Len(Body[t]) /\ buf[t] = <<>> /\ t \notin NoChild
  BY <1>1 DEF IInv, Local, Phase
<1>4. ~ HasFail(t) /\ Page(t) = Doc[t][pos[t]]
  BY <1>3, Unfailed
<1>5. out[t] = Page(t)
  <2>1. PICK cut \in [0 .. Len(spans[t]) -> 0 .. pos[t]] :
          /\ Doc[t][pos[t]] = Doc[t][cut[Len(spans[t])]] \o buf[t]
          /\ out[t] = Doc[t][cut[nread[t]]]
    BY <1>1 DEF IInv, Local, InOrder
  <2>2. Doc[t][pos[t]] = out[t] \o <<>>
    BY <1>1, <1>3, <2>1
  <2>3. out[t] \in Text
    BY <1>2 DEF TypeOK
  <2>4. QED
    BY <1>4, <2>2, <2>3, TextConcat
<1>6. Joined(t)
  <2> SUFFICES ASSUME NEW u \in Task, Spawns(t, u)
               PROVE  pc[u] = "done" /\ u \in getOnce
    BY DEF Joined
  <2>1. PICK k \in 1 .. Len(Body[t]) : Body[t][k].op = "parallel" /\ Body[t][k].task = u
    BY DEF Spawns
  <2>2. PICK j \in 1 .. Len(spans[t]) : spans[t][j] = [kind |-> "chan", task |-> u]
    BY <1>1, <1>3, <2>1 DEF IInv, Local, Joining
  <2>3. u \in getOnce
    BY <1>1, <2>2 DEF IInv, Local, Joining
  <2>4. QED
    BY <2>3 DEF IInv, Shared, ChannelInv
<1>7. \A x \in Task : pc[x] = "done" => pc'[x] = "done"
  BY <1>1, <1>2 DEF TypeOK
<1>8. Local(t)'
  <2>1. Joined(t)'
    BY <1>1, <1>6, <1>7 DEF Joined
  <2>2. QED
    BY <1>1, <1>2, <1>5, <2>1 DEF IInv, Local, Phase, Joining
<1>9. \A x \in Task \ {t} : Local(x)'
  BY <1>1, <1>2, Elsewhere DEF TypeOK
<1>10. ChannelInv'
  BY <1>1, <1>7, ChannelFrame DEF span
<1>11. ReplyInv' /\ SequentialAnswer'
  BY <1>1, <1>2, <1>4, TaskAssumption
     DEF IInv, Shared, ReplyInv, SequentialAnswer, SequentialReply, TypeOK
<1>12. SpawnInv'
  BY <1>1, <1>2, SpawnFrame DEF TypeOK
<1>13. QED
  BY <1>8, <1>9, <1>10, <1>11, <1>12 DEF IInv, Shared

LEMMA StutterKeeps ==
  ASSUME IInv, TypeOK', UNCHANGED vars
  PROVE  IInv'
<1>1. UNCHANGED <<pc, pos, buf, spans, nread, out, chan, setOnce, getOnce, got, reply>>
  BY DEF vars
<1>2. \A x \in Task : Local(x)'
  BY <1>1, Elsewhere
<1>3. ChannelInv'
  BY <1>1, ChannelFrame DEF span
<1>4. ReplyInv' /\ SequentialAnswer'
  BY <1>1 DEF IInv, Shared, ReplyInv, SequentialAnswer, SequentialReply
<1>5. SpawnInv'
  BY <1>1, SpawnFrame DEF IInv, TypeOK
<1>6. QED
  BY <1>2, <1>3, <1>4, <1>5 DEF IInv, Shared

LEMMA IInvInit == Init => IInv
<1> SUFFICES ASSUME Init PROVE IInv
  OBVIOUS
<1>1. TypeOK
  BY TypeInit
<1>2. Shared
  BY TaskAssumption
     DEF Init, Shared, ChannelInv, ReplyInv, SpawnInv, SequentialAnswer
<1>3. ASSUME NEW t \in Task PROVE Local(t)
  <2>1. /\ pc[t] = "idle" /\ pos[t] = 0 /\ buf[t] = <<>> /\ spans[t] = <<>>
        /\ nread[t] = 0 /\ out[t] = <<>>
    BY DEF Init
  <2>2. Phase(t)
    BY <2>1 DEF Phase
  <2>3. Joining(t)
    BY <2>1 DEF Joining
  <2>4. QED
    BY <2>1, <2>2, <2>3 DEF Local, Succeeded
<1>4. QED
  BY <1>1, <1>2, <1>3 DEF IInv

LEMMA IInvStep == IInv /\ [Next]_vars => IInv'
<1> SUFFICES ASSUME IInv, [Next]_vars PROVE IInv'
  OBVIOUS
<1>1. TypeOK'
  BY TypeStep DEF IInv
<1>2. ASSUME NEW r \in Requests, Request(r) \/ RequestStep(r) PROVE IInv'
  BY <1>1, <1>2, RequestKeeps, FailRequestKeeps, ReturnKeeps DEF RequestStep
<1>3. ASSUME NEW t \in Task, Step(t) PROVE IInv'
  BY <1>1, <1>3, WriteStringKeeps, ParallelKeeps, NilChildKeeps, FailChildKeeps,
     BeginResultKeeps, ReadStringKeeps, ReadChanKeeps, EndResultKeeps, DoneKeeps
     DEF Step
<1>4. CASE UNCHANGED vars
  BY <1>1, <1>4, StutterKeeps
<1>5. QED
  BY <1>2, <1>3, <1>4 DEF Next, Quiescent

-----------------------------------------------------------------------------
(* The theorems *)

THEOREM Invariance == Spec => []IInv
BY IInvInit, IInvStep, PTL DEF Spec, Safe

\* Whatever the schedule, a ListWriter holds its goroutine's texts in the order
\* they were written, each <parallel> in its place (vpl.go, ListWriter).
THEOREM WriterOrdered == Spec => []WriterInOrder
<1>1. IInv => WriterInOrder
  BY DEF IInv, Local, WriterInOrder
<1>2. QED
  BY <1>1, Invariance, PTL

\* RenderComponent and RenderTpl return what one goroutine would have rendered.
THEOREM AnswerIsSequential == Spec => []SequentialAnswer
<1>1. IInv => SequentialAnswer
  BY DEF IInv, Shared
<1>2. QED
  BY <1>1, Invariance, PTL

\* The one-place buffer of NewChanSpan always has room for the string that Done
\* sends, read or not: no abandoned goroutine blocks on its channel.
THEOREM SenderNeverBlocks == Spec => []NoBlockedSender
<1>1. IInv => NoBlockedSender
  <2> SUFFICES ASSUME IInv, NEW t \in Task \ Requests, pc[t] = "send"
               PROVE  t \in setOnce \/ Len(chan[t]) < ChanCap
    BY DEF NoBlockedSender
  <2>1. chan[t] = <<>>
    BY DEF IInv, Shared, ChannelInv
  <2>2. Len(chan[t]) = 0
    BY <2>1
  <2>3. QED
    BY <2>2 DEF ChanCap
<1>2. QED
  BY <1>1, Invariance, PTL

\* A goroutine that met no error ends after all the goroutines it started.
THEOREM JoinsItsChildren == Spec => []JoinedUnlessFailed
<1>1. IInv => JoinedUnlessFailed
  BY DEF IInv, Local, JoinedUnlessFailed
<1>2. QED
  BY <1>1, Invariance, PTL

\* The concurrent renderer implements the service specification of PageService:
\* a request is answered at most once, after it was made, with the sequential
\* answer, and no step of another goroutine shows at the interface.
THEOREM ImplementsService == Spec => Service!Safety
<1> DEFINE asked == {r \in Requests : pc[r] # "idle"}
<1>1. Init => Service!Init
  BY TaskAssumption DEF Init, Service!Init
<1>2. IInv /\ [Next]_vars => [Service!Next]_(Service!svars)
  <2> SUFFICES ASSUME IInv, [Next]_vars PROVE [Service!Next]_(Service!svars)
    OBVIOUS
  <2> USE TaskAssumption DEF Service!svars, Service!Next, Service!Ask, Service!Return
  <2>1. pc \in [Task -> {"idle", "run", "result", "send", "done"}]
    BY DEF IInv, TypeOK
  <2>2. ASSUME NEW r \in Requests, Request(r)
        PROVE  [Service!Next]_(Service!svars)
    <3>1. asked' = asked \cup {r} /\ r \notin asked /\ reply' = reply
      BY <2>1, <2>2 DEF Request
    <3>2. QED
      BY <3>1
  <2>3. ASSUME NEW r \in Requests, FailRequest(r)
        PROVE  [Service!Next]_(Service!svars)
    <3>1. HasFail(r)
      BY <2>3, NextStatement DEF FailRequest, HasFail, IInv
    <3>2. reply[r] = Pending
      BY <2>3 DEF FailRequest, At, IInv, Shared, ReplyInv
    <3>3. asked' = asked /\ r \in asked
      BY <2>1, <2>3 DEF FailRequest, At
    <3>4. reply' = [reply EXCEPT ![r] = SequentialReply(r)]
      BY <2>3, <3>1 DEF FailRequest, SequentialReply
    <3>5. QED
      BY <3>2, <3>3, <3>4
  <2>4. ASSUME NEW r \in Requests, Return(r)
        PROVE  [Service!Next]_(Service!svars)
    <3>1. ~ HasFail(r) /\ out[r] = Page(r) /\ reply[r] = Pending /\ r \notin NoChild
      BY <2>4 DEF Return, IInv, Shared, ReplyInv, Local, Phase
    <3>2. asked' = asked /\ r \in asked
      BY <2>1, <2>4 DEF Return
    <3>3. reply' = [reply EXCEPT ![r] = SequentialReply(r)]
      BY <2>4, <3>1 DEF Return, SequentialReply, Page
    <3>4. QED
      BY <3>1, <3>2, <3>3
  <2>5. ASSUME NEW t \in Task, Step(t)
        PROVE  asked' = asked /\ reply' = reply
    <3>1. CASE Parallel(t)
      <4>1. PICK u \in Task \ Requests : u = Body[t][pos[t] + 1].task
        BY <3>1, ParallelTask
      <4>2. pc' = [pc EXCEPT ![u] = "run"] /\ reply' = reply
        BY <3>1, <4>1 DEF Parallel
      <4>3. QED
        BY <2>1, <4>1, <4>2
    <3>2. CASE \/ WriteString(t) \/ NilChild(t) \/ FailChild(t) \/ BeginResult(t)
               \/ ReadString(t) \/ ReadChan(t) \/ EndResult(t) \/ Done(t)
      <4>1. reply' = reply
        BY <3>2 DEF WriteString, NilChild, FailChild, BeginResult,
                    ReadString, ReadChan, EndResult, Done
      <4>2. \A r \in Requests : pc'[r] # "idle" <=> pc[r] # "idle"
        BY <2>1, <3>2 DEF WriteString, NilChild, FailChild, BeginResult,
             ReadString, ReadChan, EndResult, Done, At, ReadingSpan
      <4>3. QED
        BY <4>1, <4>2
    <3>3. QED
      BY <2>5, <3>1, <3>2 DEF Step
  <2>6. CASE UNCHANGED vars
    BY <2>6 DEF vars
  <2>7. QED
    BY <2>2, <2>3, <2>4, <2>5, <2>6 DEF Next, RequestStep, Quiescent
<1>3. QED
  BY <1>1, <1>2, Invariance, PTL DEF Spec, Safe, Service!Safety
=============================================================================
