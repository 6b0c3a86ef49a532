---------------------------- MODULE Serve_proofs ----------------------------
(***************************************************************************)
(* The data session answers every line as the protocol promises, for every *)
(* number of lines and every largest request number.                       *)
(***************************************************************************)
EXTENDS Serve, SequenceTheorems, TLAPS

-----------------------------------------------------------------------------
(***************************************************************************)
(* The invariant: where the lines of the client are.  The first Answered   *)
(* lines have a response; the next is being answered if the session is at  *)
(* it; then come the queue, the line the reader holds, and the input.      *)
(***************************************************************************)
Answered == Len(responses)
Received == Answered + (IF session = "answer" THEN 1 ELSE 0)
Sent == Received + Len(queue)
Read == Sent + (IF reader = "send" THEN 1 ELSE 0)

Responded == [id : 0 .. NoId, result : {"error", "order", "value"}]

\* The types of the session's state.
ServeTypeOK ==
    /\ input \in Seq(Line) /\ queue \in Seq(Line) /\ written \in Seq(Line)
    /\ responses \in Seq(Responded)
    /\ closed \in BOOLEAN /\ cancelled \in BOOLEAN /\ broken \in BOOLEAN
    /\ reader \in {"read", "send", "gone"}
    /\ session \in {"check", "wait", "answer"} \cup Ends
    /\ reader = "send" => held \in Line
    /\ session = "answer" => line \in Line
    /\ lastId \in 0 .. NoId

\* No line is lost, repeated or overtaken on its way through the threads.
Flow ==
    /\ Len(written) = Read + Len(input)
    /\ session = "answer" => line = written[Answered + 1]
    /\ \A k \in 1 .. Len(queue) : queue[k] = written[Received + k]
    /\ reader = "send" => held = written[Sent + 1]
    /\ \A k \in 1 .. Len(input) : input[k] = written[Read + k]

\* lastId is the largest number of the requests answered so far.
LastIdRight ==
    /\ \A j \in 1 .. Answered : written[j].kind = "request" => lastId # NoId /\ written[j].id <= lastId
    /\ lastId # NoId =>
          \E j \in 1 .. Answered : written[j].kind = "request" /\ written[j].id = lastId

\* The reader only leaves at the end of the input, or behind a line that the
\* session will fail on.
ReaderLeft ==
    reader = "gone" =>
        \/ input = <<>> /\ closed
        \/ session = "answer" /\ line = Unframed
        \/ \E k \in 1 .. Len(queue) : queue[k] = Unframed

Framed == \A j \in 1 .. Answered : written[j] # Unframed

ServeInv ==
    /\ ServeTypeOK
    /\ session \notin Ends => Flow /\ LastIdRight /\ ReaderLeft /\ Framed
    /\ AnswersRight

-----------------------------------------------------------------------------
(***************************************************************************)
(* Facts that several steps need.                                          *)
(***************************************************************************)

\* A line that cannot be framed is no request, and no line is None.
LEMMA LineKinds ==
    /\ Unframed \in Line /\ Unframed.kind # "request"
    /\ \A l \in Line : l.kind = "request" => l \in Request /\ l.id \in 0 .. MaxId
                                            /\ l.outcome \in {"value", "error"}
    /\ NoId \in Nat /\ NoId \notin 0 .. MaxId /\ MaxId \in Nat
  BY BoundsAssumption DEF Line, Request, Malformed, Unframed, NoId

\* Positions of a part of a sequence are positions of the whole.
LEMMA Within ==
    /\ \A m, n \in Nat : m <= n => \A k \in 1 .. m : k \in 1 .. n
    /\ \A a, b, n \in Nat : a + b <= n => \A k \in 1 .. b : a + k \in 1 .. n
  OBVIOUS

\* Lengths are natural numbers.
LEMMA Lengths ==
    ASSUME ServeTypeOK
    PROVE  /\ Len(input) \in Nat /\ Len(queue) \in Nat /\ Len(written) \in Nat /\ Len(responses) \in Nat
           /\ DOMAIN responses = 1 .. Len(responses) /\ DOMAIN written = 1 .. Len(written)
           /\ Answered \in Nat /\ Received \in Nat /\ Sent \in Nat /\ Read \in Nat
           /\ Answered <= Received /\ Received <= Sent /\ Sent <= Read
<1>1. /\ Len(input) \in Nat /\ Len(queue) \in Nat /\ Len(written) \in Nat /\ Len(responses) \in Nat
      /\ DOMAIN responses = 1 .. Len(responses) /\ DOMAIN written = 1 .. Len(written)
  BY DEF ServeTypeOK
<1>2. Answered \in Nat /\ Received \in Nat /\ Answered <= Received
  BY <1>1 DEF Answered, Received
<1>3. Sent \in Nat /\ Received <= Sent
  BY <1>1, <1>2 DEF Sent
<1>4. Read \in Nat /\ Sent <= Read
  BY <1>3 DEF Read
<1> QED  BY <1>1, <1>2, <1>3, <1>4

\* The promised answer to a line depends on the lines up to it only.
LEMMA PromiseKept ==
    ASSUME ServeTypeOK, NEW k \in 1 .. Len(written),
           \A j \in 1 .. Len(written) : written'[j] = written[j]
    PROVE  Promised(k)' = Promised(k)
<1>1. Len(written) \in Nat
  BY Lengths
<1>2. \A j \in 1 .. k - 1 : written'[j] = written[j]
  BY <1>1
<1>3. written'[k] = written[k]
  OBVIOUS
<1> QED  BY <1>2, <1>3 DEF Promised

\* A step that writes no line and no response keeps the answers right, unless it
\* is the one that ends the session.
LEMMA AnswersKept ==
    ASSUME ServeTypeOK, AnswersRight, UNCHANGED <<written, responses>>,
           session' = session \/ (session \notin Ends /\ session' \notin {"ended", "framing failed"}),
           closed => closed'
    PROVE  AnswersRight'
<1>1. \A k \in 1 .. Len(written) : Promised(k)' = Promised(k)
  BY PromiseKept
<1>2. \A k \in DOMAIN responses' : responses'[k] = Promised(k)'
  <2>1. DOMAIN responses = 1 .. Len(responses) /\ Len(responses) \in Nat /\ Len(written) \in Nat
    BY Lengths
  <2>2. \A k \in DOMAIN responses : k \in 1 .. Len(written) /\ responses[k] = Promised(k)
    <3>1. Len(responses) <= Len(written) /\ \A k \in DOMAIN responses : responses[k] = Promised(k)
      BY DEF AnswersRight
    <3> QED  BY <2>1, <3>1, Within
  <2> QED  BY <1>1, <2>2
<1>3. session' = "framing failed" <=> session = "framing failed"
  BY DEF Ends
<1>4. session' = "ended" => session = "ended"
  BY DEF Ends
<1> QED  BY <1>2, <1>3, <1>4 DEF AnswersRight

-----------------------------------------------------------------------------
(***************************************************************************)
(* Every step keeps the invariant.                                         *)
(***************************************************************************)

\* The client writes a line.
LEMMA WriteInv ==
    ASSUME ServeInv, NEW l \in Line, Write(l)
    PROVE  ServeInv'
<1>1. /\ ~closed /\ input' = Append(input, l) /\ written' = Append(written, l)
      /\ UNCHANGED <<closed, reader, held, queue, session, line, lastId, cancelled, broken, responses>>
  BY DEF Write, readerVars, hostVars
<1>2. ServeTypeOK /\ AnswersRight
  BY DEF ServeInv
<1>3. /\ input \in Seq(Line) /\ written \in Seq(Line) /\ queue \in Seq(Line)
      /\ Len(input) \in Nat /\ Len(written) \in Nat /\ Len(queue) \in Nat /\ Len(responses) \in Nat
      /\ DOMAIN responses = 1 .. Len(responses)
      /\ Answered \in Nat /\ Received \in Nat /\ Sent \in Nat /\ Read \in Nat
      /\ Answered <= Received /\ Received <= Sent /\ Sent <= Read
  BY <1>2, Lengths DEF ServeTypeOK
<1>4. /\ input' \in Seq(Line) /\ Len(input') = Len(input) + 1 /\ input'[Len(input) + 1] = l
      /\ \A k \in 1 .. Len(input) : input'[k] = input[k]
  BY <1>1, <1>3
<1>5. /\ written' \in Seq(Line) /\ Len(written') = Len(written) + 1 /\ written'[Len(written) + 1] = l
      /\ \A k \in 1 .. Len(written) : written'[k] = written[k]
  BY <1>1, <1>3
<1>6. ServeTypeOK'
  BY <1>1, <1>2, <1>4, <1>5 DEF ServeTypeOK
<1>7. Answered' = Answered /\ Received' = Received /\ Sent' = Sent /\ Read' = Read
  BY <1>1 DEF Answered, Received, Sent, Read
<1>8. ASSUME session' \notin Ends PROVE Flow' /\ LastIdRight' /\ ReaderLeft' /\ Framed'
  <2>1. Flow /\ LastIdRight /\ ReaderLeft /\ Framed
    BY <1>1, <1>8 DEF ServeInv
  <2>2. /\ Len(written) = Read + Len(input)
        /\ session = "answer" => line = written[Answered + 1] /\ Answered + 1 = Received
        /\ \A k \in 1 .. Len(queue) : queue[k] = written[Received + k]
        /\ reader = "send" => held = written[Sent + 1] /\ Sent + 1 = Read
        /\ \A k \in 1 .. Len(input) : input[k] = written[Read + k]
    BY <2>1 DEF Flow, Received, Read
  <2>3. Sent = Received + Len(queue)
    BY DEF Sent
  <2>4. session = "answer" => line = written'[Answered + 1]
    BY <1>3, <1>5, <2>2
  <2>5. \A k \in 1 .. Len(queue) : queue[k] = written'[Received + k]
    <3>1. \A k \in 1 .. Len(queue) : Received + k \in 1 .. Len(written)
      <4>1. Received + Len(queue) <= Len(written)
        BY <1>3, <2>2, <2>3
      <4> QED  BY <1>3, <4>1, Within
    <3> QED  BY <1>5, <2>2, <3>1
  <2>6. reader = "send" => held = written'[Sent + 1]
    BY <1>3, <1>5, <2>2
  <2>7. \A k \in 1 .. Len(input') : input'[k] = written'[Read + k]
    <3>1. SUFFICES ASSUME NEW k \in 1 .. Len(input') PROVE input'[k] = written'[Read + k]
      OBVIOUS
    <3>2. CASE k \in 1 .. Len(input)
      <4>1. Read + k \in 1 .. Len(written)
        BY <1>3, <2>2, <3>2
      <4> QED  BY <1>4, <1>5, <2>2, <3>2, <4>1
    <3>3. CASE k = Len(input) + 1
      BY <1>3, <1>4, <1>5, <2>2, <3>3
    <3>4. k \in 1 .. Len(input) \/ k = Len(input) + 1
      BY <1>3, <1>4, <3>1
    <3> QED  BY <3>2, <3>3, <3>4
  <2>8. Len(written') = Read' + Len(input')
    BY <1>3, <1>4, <1>5, <1>7, <2>2
  <2>9. Flow'
    BY <1>1, <1>7, <2>4, <2>5, <2>6, <2>7, <2>8 DEF Flow
  <2>10. \A j \in 1 .. Answered : written'[j] = written[j]
    BY <1>3, <1>5, <2>2
  <2>11. LastIdRight' /\ Framed'
    BY <1>1, <1>7, <2>1, <2>10 DEF LastIdRight, Framed
  <2>12. ReaderLeft'
    BY <1>1, <2>1 DEF ReaderLeft
  <2> QED  BY <2>9, <2>11, <2>12
<1>9. AnswersRight'
  <2>1. \A k \in 1 .. Len(written) : Promised(k)' = Promised(k)
    BY <1>2, <1>5, PromiseKept
  <2>2. \A k \in 1 .. Len(responses) : k \in 1 .. Len(written) /\ written'[k] = written[k]
    <3>1. Len(responses) <= Len(written)
      BY <1>2 DEF AnswersRight
    <3> QED  BY <1>3, <1>5, <3>1, Within
  <2>3. \A k \in DOMAIN responses' : responses'[k] = Promised(k)'
    BY <1>1, <1>2, <1>3, <2>1, <2>2 DEF AnswersRight
  <2>4. Len(responses') <= Len(written')
    <3>1. Len(responses) <= Len(written)
      BY <1>2 DEF AnswersRight
    <3> QED  BY <1>1, <1>3, <1>5, <3>1
  <2>5. session' # "ended"
    BY <1>1, <1>2 DEF AnswersRight
  <2>6. session' = "framing failed" <=> \E k \in DOMAIN responses' : written'[k] = Unframed
    BY <1>1, <1>2, <1>3, <2>2 DEF AnswersRight
  <2>7. session' = "framing failed" => written'[Len(responses')] = Unframed
    <3>1. SUFFICES ASSUME session' = "framing failed" PROVE written'[Len(responses)] = Unframed
      BY <1>1
    <3>2. written[Len(responses)] = Unframed /\ Len(responses) \in 1 .. Len(responses)
      <4>1. written[Len(responses)] = Unframed /\ \E k \in DOMAIN responses : written[k] = Unframed
        BY <1>1, <1>2, <3>1 DEF AnswersRight
      <4> QED  BY <1>3, <4>1
    <3> QED  BY <2>2, <3>2
  <2> QED  BY <2>3, <2>4, <2>5, <2>6, <2>7 DEF AnswersRight
<1> QED  BY <1>6, <1>8, <1>9 DEF ServeInv

\* The client closes its input; the session is cancelled; the output breaks.
LEMMA HostInv ==
    ASSUME ServeInv, CloseInput \/ Cancel \/ Break
    PROVE  ServeInv'
<1>1. UNCHANGED <<input, written, reader, held, queue, session, line, lastId, responses>>
  BY DEF CloseInput, Cancel, Break, readerVars, hostVars, clientVars
<1>a. closed' \in BOOLEAN /\ cancelled' \in BOOLEAN /\ broken' \in BOOLEAN
  BY DEF CloseInput, Cancel, Break, hostVars, clientVars, ServeInv, ServeTypeOK
<1>2. closed => closed'
  BY DEF CloseInput, Cancel, Break, clientVars
<1>3. ServeTypeOK'
  BY <1>1, <1>a DEF ServeInv, ServeTypeOK
<1>4. Answered' = Answered /\ Received' = Received /\ Sent' = Sent /\ Read' = Read
  BY <1>1 DEF Answered, Received, Sent, Read
<1>5. AnswersRight'
  BY <1>1, <1>2, AnswersKept DEF ServeInv
<1>6. ASSUME session' \notin Ends PROVE Flow' /\ LastIdRight' /\ ReaderLeft' /\ Framed'
  BY <1>1, <1>2, <1>4, <1>6 DEF ServeInv, Flow, LastIdRight, ReaderLeft, Framed
<1> QED  BY <1>3, <1>5, <1>6 DEF ServeInv

\* The reader takes a line from the input.
LEMMA ReadLineInv ==
    ASSUME ServeInv, ReadLine
    PROVE  ServeInv'
<1>1. /\ reader = "read" /\ input # <<>> /\ held' = Head(input) /\ input' = Tail(input) /\ reader' = "send"
      /\ UNCHANGED <<closed, written, queue, session, line, lastId, cancelled, broken, responses>>
  BY DEF ReadLine, hostVars
<1>2. ServeTypeOK /\ AnswersRight
  BY DEF ServeInv
<1>3. /\ Len(input) \in Nat /\ Len(written) \in Nat /\ Len(queue) \in Nat /\ Sent \in Nat /\ input \in Seq(Line)
  BY <1>2, Lengths DEF ServeTypeOK
<1>4. /\ Len(input) >= 1 /\ held' = input[1] /\ held' \in Line
      /\ input' \in Seq(Line) /\ Len(input') = Len(input) - 1
      /\ \A k \in 1 .. Len(input) - 1 : input'[k] = input[k + 1]
  BY <1>1, <1>3
<1>5. ServeTypeOK'
  BY <1>1, <1>2, <1>4 DEF ServeTypeOK
<1>6. Answered' = Answered /\ Received' = Received /\ Sent' = Sent /\ Read' = Sent + 1 /\ Read = Sent
  BY <1>1, <1>3 DEF Answered, Received, Sent, Read
<1>7. ASSUME session' \notin Ends PROVE Flow' /\ LastIdRight' /\ ReaderLeft' /\ Framed'
  <2>1. Flow /\ LastIdRight /\ ReaderLeft /\ Framed
    BY <1>1, <1>7 DEF ServeInv
  <2>2. held' = written[Sent + 1]
    BY <1>3, <1>4, <1>6, <2>1 DEF Flow
  <2>3. \A k \in 1 .. Len(input') : input'[k] = written[Sent + 1 + k]
    BY <1>3, <1>4, <1>6, <2>1 DEF Flow
  <2>4. Len(written) = Sent + 1 + Len(input')
    BY <1>3, <1>4, <1>6, <2>1 DEF Flow
  <2>5. Flow'
    BY <1>1, <1>6, <2>1, <2>2, <2>3, <2>4 DEF Flow
  <2>6. LastIdRight' /\ Framed' /\ ReaderLeft'
    BY <1>1, <1>6, <2>1 DEF LastIdRight, Framed, ReaderLeft
  <2> QED  BY <2>5, <2>6
<1>8. AnswersRight'
  BY <1>1, <1>2, AnswersKept
<1> QED  BY <1>5, <1>7, <1>8 DEF ServeInv

\* The reader finds the end of the input.
LEMMA ReadEndInv ==
    ASSUME ServeInv, ReadEnd
    PROVE  ServeInv'
<1>1. /\ reader = "read" /\ input = <<>> /\ closed /\ reader' = "gone"
      /\ UNCHANGED <<input, closed, written, held, queue, session, line, lastId, cancelled, broken, responses>>
  BY DEF ReadEnd, hostVars, clientVars
<1>2. ServeTypeOK'
  BY <1>1 DEF ServeInv, ServeTypeOK
<1>3. Answered' = Answered /\ Received' = Received /\ Sent' = Sent /\ Read' = Read
  BY <1>1 DEF Answered, Received, Sent, Read
<1>4. AnswersRight'
  BY <1>1, AnswersKept DEF ServeInv
<1>5. ASSUME session' \notin Ends PROVE Flow' /\ LastIdRight' /\ ReaderLeft' /\ Framed'
  BY <1>1, <1>3, <1>5 DEF ServeInv, Flow, LastIdRight, ReaderLeft, Framed
<1> QED  BY <1>2, <1>4, <1>5 DEF ServeInv

\* The reader hands its line to the session, or finds it gone.
LEMMA SendLineInv ==
    ASSUME ServeInv, SendLine
    PROVE  ServeInv'
<1>1. /\ reader = "send"
      /\ queue' = IF session \in Ends THEN queue ELSE Append(queue, held)
      /\ reader' = IF session \in Ends \/ held = Unframed THEN "gone" ELSE "read"
      /\ UNCHANGED <<input, closed, written, session, line, lastId, cancelled, broken, responses>>
  BY DEF SendLine, hostVars, clientVars
<1>2. ServeTypeOK /\ AnswersRight /\ held \in Line
  BY <1>1 DEF ServeInv, ServeTypeOK
<1>3. /\ Len(input) \in Nat /\ Len(written) \in Nat /\ Len(queue) \in Nat /\ Sent \in Nat /\ queue \in Seq(Line)
      /\ Received \in Nat
  BY <1>2, Lengths DEF ServeTypeOK
<1>4. /\ Append(queue, held) \in Seq(Line) /\ Len(Append(queue, held)) = Len(queue) + 1
      /\ Append(queue, held)[Len(queue) + 1] = held
      /\ \A k \in 1 .. Len(queue) : Append(queue, held)[k] = queue[k]
  BY <1>2, <1>3
<1>5. ServeTypeOK'
  <2>1. queue' \in Seq(Line) /\ reader' \in {"read", "gone"}
    BY <1>1, <1>3, <1>4
  <2> QED  BY <1>1, <1>2, <2>1 DEF ServeTypeOK
<1>6. ASSUME session' \notin Ends PROVE Flow' /\ LastIdRight' /\ ReaderLeft' /\ Framed'
  <2>1. Flow /\ LastIdRight /\ ReaderLeft /\ Framed
    BY <1>1, <1>6 DEF ServeInv
  <2>2. queue' = Append(queue, held) /\ reader' = IF held = Unframed THEN "gone" ELSE "read"
    BY <1>1, <1>6
  <2>3. Answered' = Answered /\ Received' = Received
    BY <1>1 DEF Answered, Received
  <2>4. Sent = Received + Len(queue) /\ Read = Sent + 1
    BY <1>1 DEF Sent, Read
  <2>5. Sent' = Sent + 1 /\ Read' = Sent + 1
    <3>1. reader' # "send"
      BY <2>2
    <3>2. Sent' = Received' + Len(queue')
      BY DEF Sent
    <3>3. Sent' = Sent + 1
      BY <1>3, <1>4, <2>2, <2>3, <2>4, <3>2
    <3>4. Read' = Sent' + 0
      BY <3>1 DEF Read
    <3> QED  BY <1>3, <3>3, <3>4
  <2>6. \A k \in 1 .. Len(queue') : queue'[k] = written[Received + k]
    <3>1. \A k \in 1 .. Len(queue) : queue[k] = written[Received + k]
      BY <2>1 DEF Flow
    <3>2. held = written[Received + Len(queue) + 1]
      BY <1>1, <2>1, <2>4 DEF Flow
    <3>3. SUFFICES ASSUME NEW k \in 1 .. Len(queue') PROVE queue'[k] = written[Received + k]
      OBVIOUS
    <3>4. CASE k \in 1 .. Len(queue)
      BY <1>4, <2>2, <3>1, <3>4
    <3>5. CASE k = Len(queue) + 1
      <4>1. Received + k = Received + Len(queue) + 1
        BY <1>1, <1>3, <3>5
      <4> QED  BY <1>4, <2>2, <3>2, <3>5, <4>1
    <3>6. k \in 1 .. Len(queue) \/ k = Len(queue) + 1
      BY <1>3, <1>4, <2>2
    <3> QED  BY <3>4, <3>5, <3>6
  <2>7. Flow'
    BY <1>1, <2>1, <2>2, <2>3, <2>4, <2>5, <2>6 DEF Flow
  <2>8. LastIdRight' /\ Framed'
    BY <1>1, <2>1, <2>3 DEF LastIdRight, Framed
  <2>9. ReaderLeft'
    <3>1. SUFFICES ASSUME held = Unframed PROVE \E k \in 1 .. Len(queue') : queue'[k] = Unframed
      BY <2>2 DEF ReaderLeft
    <3> QED  BY <1>3, <1>4, <2>2, <3>1
  <2> QED  BY <2>7, <2>8, <2>9
<1>7. AnswersRight'
  BY <1>1, <1>2, AnswersKept
<1> QED  BY <1>5, <1>6, <1>7 DEF ServeInv

\* The session looks at the cancellation, or waits in vain for a line.
LEMMA LoopInv ==
    ASSUME ServeInv, CheckCancelled \/ Timeout
    PROVE  ServeInv'
<1>1. /\ session \in {"check", "wait"} /\ session' \in {"check", "wait", "cancelled"}
      /\ UNCHANGED <<input, closed, written, reader, held, queue, line, lastId, cancelled, broken, responses>>
  BY DEF CheckCancelled, Timeout, readerVars, hostVars, clientVars
<1>2. ServeTypeOK'
  BY <1>1 DEF ServeInv, ServeTypeOK, Ends
<1>3. Answered' = Answered /\ Received' = Received /\ Sent' = Sent /\ Read' = Read
  BY <1>1 DEF Answered, Received, Sent, Read
<1>4. session \notin Ends /\ session' \notin {"ended", "framing failed", "answer"} /\ session # "answer"
  BY <1>1 DEF Ends
<1>5. AnswersRight'
  BY <1>1, <1>4, AnswersKept DEF ServeInv
<1>6. Flow' /\ LastIdRight' /\ ReaderLeft' /\ Framed'
  BY <1>1, <1>3, <1>4 DEF ServeInv, Flow, LastIdRight, ReaderLeft, Framed
<1> QED  BY <1>2, <1>5, <1>6 DEF ServeInv

\* The session takes the next line from the channel.
LEMMA ReceiveInv ==
    ASSUME ServeInv, Receive
    PROVE  ServeInv'
<1>1. /\ session = "wait" /\ queue # <<>> /\ line' = Head(queue) /\ queue' = Tail(queue) /\ session' = "answer"
      /\ UNCHANGED <<input, closed, written, reader, held, lastId, cancelled, broken, responses>>
  BY DEF Receive, readerVars, hostVars, clientVars
<1>2. ServeTypeOK /\ AnswersRight /\ session \notin Ends /\ session' \notin Ends
  BY <1>1 DEF ServeInv, Ends
<1>3. /\ Len(written) \in Nat /\ Len(queue) \in Nat /\ Answered \in Nat /\ queue \in Seq(Line) /\ Len(input) \in Nat
  BY <1>2, Lengths DEF ServeTypeOK
<1>4. /\ Len(queue) >= 1 /\ line' = queue[1] /\ line' \in Line
      /\ queue' \in Seq(Line) /\ Len(queue') = Len(queue) - 1
      /\ \A k \in 1 .. Len(queue) - 1 : queue'[k] = queue[k + 1]
  BY <1>1, <1>3
<1>5. ServeTypeOK'
  BY <1>1, <1>2, <1>4 DEF ServeTypeOK
<1>6. Flow /\ LastIdRight /\ ReaderLeft /\ Framed
  BY <1>2 DEF ServeInv
<1>7. Answered' = Answered /\ Received' = Answered + 1 /\ Received = Answered
  BY <1>1, <1>3 DEF Answered, Received
<1>8. Sent' = Sent /\ Sent = Answered + Len(queue)
  BY <1>3, <1>4, <1>7 DEF Sent
<1>9. Read' = Read
  BY <1>1, <1>8 DEF Read
<1>10. line' = written[Answered + 1]
  BY <1>3, <1>4, <1>6, <1>7 DEF Flow
<1>11. \A k \in 1 .. Len(queue') : queue'[k] = written[Answered + 1 + k]
  BY <1>3, <1>4, <1>6, <1>7 DEF Flow
<1>12. Flow'
  BY <1>1, <1>6, <1>7, <1>8, <1>9, <1>10, <1>11 DEF Flow
<1>13. LastIdRight' /\ Framed'
  BY <1>1, <1>6, <1>7 DEF LastIdRight, Framed
<1>14. ReaderLeft'
  <2>1. SUFFICES ASSUME NEW k \in 1 .. Len(queue), queue[k] = Unframed
                 PROVE  line' = Unframed \/ \E j \in 1 .. Len(queue') : queue'[j] = Unframed
    BY <1>1, <1>6 DEF ReaderLeft
  <2>2. CASE k = 1
    BY <1>4, <2>1, <2>2
  <2>3. CASE k # 1
    <3>1. k - 1 \in 1 .. Len(queue) - 1 /\ (k - 1) + 1 = k
      BY <1>3, <2>1, <2>3
    <3>2. queue'[k - 1] = Unframed /\ k - 1 \in 1 .. Len(queue')
      BY <1>4, <2>1, <3>1
    <3> QED  BY <3>2
  <2> QED  BY <2>2, <2>3
<1>15. AnswersRight'
  BY <1>1, <1>2, AnswersKept
<1> QED  BY <1>5, <1>12, <1>13, <1>14, <1>15 DEF ServeInv

\* The reader is gone and the channel is empty.
LEMMA DisconnectedInv ==
    ASSUME ServeInv, Disconnected
    PROVE  ServeInv'
<1>1. /\ session = "wait" /\ queue = <<>> /\ reader = "gone" /\ session' = "ended"
      /\ UNCHANGED <<input, closed, written, reader, held, queue, line, lastId, cancelled, broken, responses>>
  BY DEF Disconnected, readerVars, hostVars, clientVars
<1>2. ServeTypeOK /\ AnswersRight /\ session \notin Ends /\ session' \in Ends
  BY <1>1 DEF ServeInv, Ends
<1>3. ServeTypeOK'
  BY <1>1, <1>2 DEF ServeTypeOK
<1>4. Flow /\ ReaderLeft
  BY <1>2 DEF ServeInv
<1>5. input = <<>> /\ closed
  BY <1>1, <1>4 DEF ReaderLeft
<1>6. Len(responses) = Len(written)
  <2>1. Len(queue) = 0 /\ Len(input) = 0 /\ Len(responses) \in Nat
    BY <1>1, <1>2, <1>5, Lengths
  <2>2. Len(written) = Read + 0
    BY <1>4, <2>1 DEF Flow
  <2>3. Read = Len(responses)
    BY <1>1, <2>1 DEF Read, Sent, Received, Answered
  <2> QED  BY <2>1, <2>2, <2>3
<1>7. AnswersRight'
  <2>1. \A k \in 1 .. Len(written) : Promised(k)' = Promised(k)
    BY <1>1, <1>2, PromiseKept
  <2>2. DOMAIN responses = 1 .. Len(written)
    BY <1>2, <1>6, Lengths
  <2>3. \A k \in DOMAIN responses' : responses'[k] = Promised(k)'
    BY <1>1, <1>2, <2>1, <2>2 DEF AnswersRight
  <2>4. ~\E k \in DOMAIN responses' : written'[k] = Unframed
    BY <1>1, <1>2 DEF AnswersRight
  <2>5. Len(responses') <= Len(written')
    BY <1>1, <1>2 DEF AnswersRight
  <2> QED  BY <1>1, <1>5, <1>6, <2>3, <2>4, <2>5 DEF AnswersRight
<1> QED  BY <1>2, <1>3, <1>7 DEF ServeInv

\* The response to the line being answered is the promised one: the session
\* compares with the largest number so far, the protocol with all of them.
LEMMA ResponsePromised ==
    ASSUME ServeInv, session = "answer"
    PROVE  Response(line) = Promised(Answered + 1)
<1>1. ServeTypeOK /\ session \notin Ends /\ line \in Line
  BY DEF ServeInv, ServeTypeOK, Ends
<1>2. line = written[Answered + 1] /\ LastIdRight
  BY <1>1 DEF ServeInv, Flow
<1>3. Answered \in Nat
  BY <1>1, Lengths
<1>4. CASE line.kind # "request"
  BY <1>2, <1>4 DEF Response, Promised, Refused
<1>5. CASE line.kind = "request"
  <2>1. line.id \in 0 .. MaxId /\ NoId \notin 0 .. MaxId /\ MaxId \in Nat
    BY <1>1, <1>5, LineKinds
  <2>2. Refused(line) <=> \E j \in 1 .. (Answered + 1) - 1 : written[j].kind = "request" /\ written[j].id >= line.id
    <3>1. (Answered + 1) - 1 = Answered
      BY <1>3
    <3>2. ASSUME Refused(line)
          PROVE  \E j \in 1 .. Answered : written[j].kind = "request" /\ written[j].id >= line.id
      <4>1. lastId # NoId /\ line.id <= lastId
        BY <3>2 DEF Refused
      <4>2. PICK j \in 1 .. Answered : written[j].kind = "request" /\ written[j].id = lastId
        BY <1>2, <4>1 DEF LastIdRight
      <4>3. written[j].id >= line.id
        BY <4>1, <4>2
      <4> QED  BY <4>2, <4>3
    <3>3. ASSUME NEW j \in 1 .. Answered, written[j].kind = "request", written[j].id >= line.id
          PROVE  Refused(line)
      <4>1. lastId # NoId /\ written[j].id <= lastId
        BY <1>2, <3>3 DEF LastIdRight
      <4>2. lastId \in Nat
        <5>1. lastId \in 0 .. NoId /\ NoId \in Nat
          BY <1>1, LineKinds DEF ServeTypeOK
        <5> QED  BY <5>1
      <4>3. written[j].id \in Nat /\ line.id \in Nat
        <5>1. j \in 1 .. Len(written)
          <6>1. Answered <= Len(written) /\ Len(written) \in Nat
            BY <1>1, Lengths DEF ServeInv, AnswersRight, Answered
          <6> QED  BY <1>3, <3>3, <6>1, Within
        <5>2. written[j] \in Line
          BY <1>1, <5>1 DEF ServeTypeOK
        <5>3. written[j].id \in 0 .. MaxId
          BY <3>3, <5>2, LineKinds
        <5> QED  BY <2>1, <5>3
      <4>4. line.id <= lastId
        BY <3>3, <4>1, <4>2, <4>3
      <4> QED  BY <1>5, <4>1, <4>4 DEF Refused
    <3> QED  BY <3>1, <3>2, <3>3
  <2> QED  BY <1>2, <1>5, <2>2 DEF Response, Promised
<1> QED  BY <1>4, <1>5

\* The session answers a line, and ends if it cannot write or cannot go on.
LEMMA AnswerInv ==
    ASSUME ServeInv, Answer
    PROVE  ServeInv'
<1>1. /\ session = "answer" /\ lastId' = IF Consumes(line) THEN line.id ELSE lastId
      /\ responses' = IF broken THEN responses ELSE Append(responses, Response(line))
      /\ session' = IF broken THEN "output failed" ELSE IF line = Unframed THEN "framing failed" ELSE "check"
      /\ UNCHANGED <<input, closed, written, reader, held, queue, cancelled, broken>>
  BY DEF Answer, readerVars, hostVars, clientVars
<1>2. ServeTypeOK /\ AnswersRight /\ session \notin Ends
  BY <1>1 DEF ServeInv, Ends
<1>3. Flow /\ LastIdRight /\ ReaderLeft /\ Framed
  BY <1>2 DEF ServeInv
<1>4. /\ Len(written) \in Nat /\ Len(queue) \in Nat /\ Len(responses) \in Nat /\ Len(input) \in Nat
      /\ Answered \in Nat /\ Answered = Len(responses) /\ DOMAIN responses = 1 .. Len(responses)
      /\ Received \in Nat /\ Sent \in Nat /\ Read \in Nat /\ Received <= Read
      /\ line \in Line /\ lastId \in 0 .. NoId
  <2>1. /\ Len(written) \in Nat /\ Len(queue) \in Nat /\ Len(responses) \in Nat /\ Len(input) \in Nat
        /\ Answered \in Nat /\ DOMAIN responses = 1 .. Len(responses)
        /\ Received \in Nat /\ Sent \in Nat /\ Read \in Nat /\ Received <= Sent /\ Sent <= Read
    BY <1>2, Lengths
  <2>2. line \in Line /\ lastId \in 0 .. NoId
    BY <1>1, <1>2 DEF ServeTypeOK
  <2>3. Received <= Read
    BY <2>1
  <2> QED  BY <2>1, <2>2, <2>3 DEF Answered
<1>5. line = written[Answered + 1] /\ Received = Answered + 1 /\ Answered + 1 <= Len(written)
  <2>1. line = written[Answered + 1] /\ Len(written) = Read + Len(input)
    BY <1>1, <1>3 DEF Flow
  <2>2. Received = Answered + 1
    BY <1>1 DEF Received
  <2> QED  BY <1>4, <2>1, <2>2
<1>6. Response(line) \in Responded
  <2>1. CASE line.kind # "request"
    <3>1. NoId \in 0 .. NoId
      BY LineKinds
    <3> QED  BY <2>1, <3>1 DEF Response, Refused, Responded
  <2>2. CASE line.kind = "request"
    <3>1. line.id \in 0 .. MaxId /\ line.outcome \in {"value", "error"} /\ MaxId \in Nat
      BY <1>4, <2>2, LineKinds
    <3>2. line.id \in 0 .. NoId
      BY <3>1 DEF NoId
    <3> QED  BY <2>2, <3>1, <3>2 DEF Response, Responded
  <2> QED  BY <2>1, <2>2
<1>7. lastId' \in 0 .. NoId
  <2>1. CASE Consumes(line)
    <3>1. line.id \in 0 .. MaxId /\ MaxId \in Nat
      BY <1>4, <2>1, LineKinds DEF Consumes
    <3>2. line.id \in 0 .. NoId
      BY <3>1 DEF NoId
    <3> QED  BY <1>1, <2>1, <3>2
  <2>2. CASE ~Consumes(line)
    BY <1>1, <1>4, <2>2
  <2> QED  BY <2>1, <2>2
<1>8. responses' \in Seq(Responded)
  <2>1. responses \in Seq(Responded)
    BY <1>2 DEF ServeTypeOK
  <2>2. CASE broken
    BY <1>1, <2>1, <2>2
  <2>3. CASE ~broken
    <3>1. Append(responses, Response(line)) \in Seq(Responded)
      BY <1>6, <2>1, AppendProperties
    <3> QED  BY <1>1, <2>3, <3>1
  <2> QED  BY <2>2, <2>3
<1>9. session' \in {"check"} \cup Ends /\ session' # "answer" /\ session' # "ended"
  BY <1>1 DEF Ends
<1>10. ServeTypeOK'
  BY <1>1, <1>2, <1>7, <1>8, <1>9 DEF ServeTypeOK
<1>11. CASE broken
  <2>1. session' = "output failed" /\ responses' = responses
    BY <1>1, <1>11
  <2>2. AnswersRight'
    BY <1>1, <1>2, <2>1, AnswersKept
  <2> QED  BY <1>10, <2>1, <2>2 DEF ServeInv, Ends
<1>12. CASE ~broken
  <2>1. /\ responses' = Append(responses, Response(line))
        /\ session' = IF line = Unframed THEN "framing failed" ELSE "check"
    BY <1>1, <1>12
  <2>2. /\ Len(responses') = Len(responses) + 1 /\ responses'[Len(responses) + 1] = Response(line)
        /\ DOMAIN responses' = 1 .. Len(responses) + 1
        /\ \A k \in 1 .. Len(responses) : responses'[k] = responses[k]
    <3>1. responses \in Seq(Responded)
      BY <1>2 DEF ServeTypeOK
    <3>2. /\ Len(responses') = Len(responses) + 1 /\ responses'[Len(responses) + 1] = Response(line)
          /\ \A k \in 1 .. Len(responses) : responses'[k] = responses[k]
      BY ZenonT(60), <1>6, <2>1, <3>1, AppendProperties
    <3>3. DOMAIN responses' = 1 .. Len(responses')
      BY <1>8, LenProperties
    <3> QED  BY <3>2, <3>3
  <2>3. Answered' = Answered + 1
    BY <1>4, <2>2 DEF Answered
  <2>4. \A k \in 1 .. Len(written) : Promised(k)' = Promised(k)
    BY <1>1, <1>2, PromiseKept
  <2>5. \A k \in 1 .. Len(responses) : k \in 1 .. Len(written) /\ responses[k] = Promised(k)
    BY <1>2, <1>4, <1>5, Within DEF AnswersRight
  <2>6. ASSUME NEW k \in DOMAIN responses' PROVE responses'[k] = Promised(k)'
    <3>1. CASE k \in 1 .. Len(responses)
      BY <2>2, <2>4, <2>5, <3>1
    <3>2. CASE k = Len(responses) + 1
      <4>1. k \in 1 .. Len(written) /\ k = Answered + 1
        BY <1>4, <1>5, <3>2
      <4>2. Response(line) = Promised(Answered + 1)
        BY <1>1, ResponsePromised
      <4> QED  BY <2>2, <2>4, <3>2, <4>1, <4>2
    <3>3. k \in 1 .. Len(responses) \/ k = Len(responses) + 1
      BY <1>4, <2>2, <2>6
    <3> QED  BY <3>1, <3>2, <3>3
  <2>7. \A k \in 1 .. Len(responses) : written[k] # Unframed
    BY <1>3, <1>4 DEF Framed
  <2>8. session' = "framing failed" <=> \E k \in DOMAIN responses' : written'[k] = Unframed
    <3>1. (\E k \in DOMAIN responses' : written'[k] = Unframed) <=> line = Unframed
      <4>1. \A k \in DOMAIN responses' : k \in 1 .. Len(responses) \/ k = Len(responses) + 1
        BY <1>4, <2>2
      <4>2. Len(responses) + 1 \in DOMAIN responses'
        BY <1>4, <2>2
      <4> QED  BY <1>1, <1>4, <1>5, <2>7, <4>1, <4>2
    <3> QED  BY <2>1, <3>1
  <2>9. session' = "framing failed" => written'[Len(responses')] = Unframed
    BY <1>1, <1>4, <1>5, <2>1, <2>2
  <2>10. Len(responses') <= Len(written')
    BY <1>1, <1>4, <1>5, <2>2
  <2>11. AnswersRight'
    BY <1>9, <2>6, <2>8, <2>9, <2>10 DEF AnswersRight
  <2>12. ASSUME session' \notin Ends PROVE Flow' /\ LastIdRight' /\ ReaderLeft' /\ Framed'
    <3>1. session' = "check" /\ line # Unframed
      BY <2>1, <2>12 DEF Ends
    <3>2. Received' = Received
      <4>1. Received' = Answered' + 0
        BY <3>1 DEF Received
      <4> QED  BY <1>4, <1>5, <2>3, <4>1
    <3>3. Sent' = Sent /\ Read' = Read
      BY <1>1, <3>2 DEF Sent, Read
    <3>4. Flow'
      BY <1>1, <1>3, <3>1, <3>2, <3>3 DEF Flow
    <3>5. Framed'
      <4>1. \A j \in 1 .. Answered + 1 : j \in 1 .. Answered \/ j = Answered + 1
        BY <1>4
      <4> QED  BY <1>1, <1>3, <1>5, <2>3, <3>1, <4>1 DEF Framed
    <3>6. ReaderLeft'
      BY <1>1, <1>3, <3>1 DEF ReaderLeft
    <3>7. LastIdRight'
      <4>1. \A j \in 1 .. Answered + 1 : j \in 1 .. Answered \/ j = Answered + 1
        BY <1>4
      <4>2. \A j \in 1 .. Answered : j \in 1 .. Answered + 1
        BY <1>4
      <4>3. Answered + 1 \in 1 .. Answered + 1
        BY <1>4
      <4>4. /\ \A j \in 1 .. Answered : written[j].kind = "request" => lastId # NoId /\ written[j].id <= lastId
            /\ lastId # NoId => \E j \in 1 .. Answered : written[j].kind = "request" /\ written[j].id = lastId
        BY <1>3 DEF LastIdRight
      <4>5. \A j \in 1 .. Answered : written[j].kind = "request" => written[j].id \in Nat
        <5>1. SUFFICES ASSUME NEW j \in 1 .. Answered, written[j].kind = "request" PROVE written[j].id \in Nat
          OBVIOUS
        <5>2. j \in 1 .. Len(written)
          BY <1>4, <1>5, <5>1
        <5>3. written[j] \in Line
          BY <1>2, <5>2 DEF ServeTypeOK
        <5>4. written[j].id \in 0 .. MaxId /\ MaxId \in Nat
          BY <5>1, <5>3, LineKinds
        <5> QED  BY <5>4
      <4>6. CASE Consumes(line)
        <5>1. line.kind = "request" /\ ~(lastId # NoId /\ line.id <= lastId) /\ lastId' = line.id
          BY <1>1, <4>6 DEF Consumes, Refused
        <5>2. line.id \in Nat /\ lastId \in Nat /\ line.id # NoId
          BY <1>4, <5>1, LineKinds
        <5>3. ASSUME NEW j \in 1 .. Answered, written[j].kind = "request" PROVE written[j].id <= line.id
          BY <4>4, <4>5, <5>1, <5>2, <5>3
        <5>4. \A j \in 1 .. Answered + 1 : written[j].kind = "request" => written[j].id <= line.id
          BY <1>5, <4>1, <5>2, <5>3
        <5>5. \E j \in 1 .. Answered + 1 : written[j].kind = "request" /\ written[j].id = line.id
          BY <1>5, <4>3, <5>1
        <5> QED  BY <1>1, <2>3, <5>1, <5>2, <5>4, <5>5 DEF LastIdRight
      <4>7. CASE ~Consumes(line)
        <5>1. line.kind = "request" => lastId # NoId /\ line.id <= lastId
          BY <4>7 DEF Consumes, Refused
        <5>2. lastId' = lastId
          BY <1>1, <4>7
        <5> QED  BY <1>1, <1>5, <2>3, <4>1, <4>2, <4>4, <5>1, <5>2 DEF LastIdRight
      <4> QED  BY <4>6, <4>7
    <3> QED  BY <3>4, <3>5, <3>6, <3>7
  <2> QED  BY <1>10, <2>11, <2>12 DEF ServeInv
<1> QED  BY <1>11, <1>12

-----------------------------------------------------------------------------
(***************************************************************************)
(* The theorems.                                                           *)
(***************************************************************************)

\* The session starts with nothing written and nothing answered.
LEMMA InitInv == Init => ServeInv
<1>1. SUFFICES ASSUME Init PROVE ServeInv
  OBVIOUS
<1>2. /\ input = <<>> /\ closed = FALSE /\ written = <<>> /\ reader = "read" /\ queue = <<>>
      /\ session = "check" /\ lastId = NoId /\ cancelled = FALSE /\ broken = FALSE /\ responses = <<>>
  BY <1>1 DEF Init
<1>3. ServeTypeOK
  <2>1. NoId \in 0 .. NoId
    BY LineKinds
  <2>2. <<>> \in Seq(Line) /\ <<>> \in Seq(Responded)
    OBVIOUS
  <2> QED  BY <1>2, <2>1, <2>2 DEF ServeTypeOK
<1>4. Answered = 0 /\ Received = 0 /\ Sent = 0 /\ Read = 0
  BY <1>2 DEF Answered, Received, Sent, Read
<1>5. Flow /\ LastIdRight /\ ReaderLeft /\ Framed
  BY <1>2, <1>4 DEF Flow, LastIdRight, ReaderLeft, Framed
<1>6. AnswersRight
  BY <1>2 DEF AnswersRight
<1> QED  BY <1>3, <1>5, <1>6 DEF ServeInv

\* Every step of the client, the host and both threads keeps the invariant.
LEMMA NextInv == ServeInv /\ [Next]_vars => ServeInv'
<1>1. SUFFICES ASSUME ServeInv, [Next]_vars PROVE ServeInv'
  OBVIOUS
<1>2. CASE UNCHANGED vars
  <2>1. /\ UNCHANGED <<input, closed, reader, held, queue, session>>
        /\ UNCHANGED <<line, lastId, cancelled, broken, written, responses>>
    BY <1>2 DEF vars
  <2>2. Answered' = Answered /\ Received' = Received /\ Sent' = Sent /\ Read' = Read
    BY <2>1 DEF Answered, Received, Sent, Read
  <2>3. ServeTypeOK'
    BY <1>1, <2>1 DEF ServeInv, ServeTypeOK
  <2>4. AnswersRight'
    BY <1>1, <2>1, AnswersKept DEF ServeInv
  <2>5. ASSUME session' \notin Ends PROVE Flow' /\ LastIdRight' /\ ReaderLeft' /\ Framed'
    BY <1>1, <2>1, <2>2, <2>5 DEF ServeInv, Flow, LastIdRight, ReaderLeft, Framed
  <2> QED  BY <2>3, <2>4, <2>5 DEF ServeInv
<1>3. CASE Next
  <2>1. CASE \E l \in Line : Write(l)
    BY <1>1, <2>1, WriteInv
  <2>2. CASE CloseInput \/ Cancel \/ Break
    BY <1>1, <2>2, HostInv
  <2>3. CASE Reader
    BY <1>1, <2>3, ReadLineInv, ReadEndInv, SendLineInv DEF Reader
  <2>4. CASE Session
    BY <1>1, <2>4, LoopInv, ReceiveInv, DisconnectedInv, AnswerInv DEF Session
  <2>5. CASE Finished
    BY <1>2, <2>5 DEF Finished
  <2> QED  BY <1>3, <2>1, <2>2, <2>3, <2>4, <2>5 DEF Next
<1> QED  BY <1>1, <1>2, <1>3

\* The inductive invariant: every line is answered, being answered, queued, held
\* by the reader or still in the input, in this order.
THEOREM ServeInvariance == Spec => []ServeInv
  BY InitInv, NextInv, PTL DEF Spec

\* Every response is the promised answer to the line in its place, whatever the
\* number of lines, the numbers on them and the interleaving of the threads.
THEOREM Answers == Spec => []AnswersRight
<1>1. ServeInv => AnswersRight
  BY DEF ServeInv
<1> QED  BY <1>1, ServeInvariance, PTL

====
