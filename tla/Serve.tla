------------------------------- MODULE Serve -------------------------------
(***************************************************************************)
(* The data session of `teamy-bend serve' (cli/serve/serve_cli.rs and      *)
(* protocol.rs).  A reader thread takes lines from standard input and      *)
(* hands them over a channel with room for one; the session answers them   *)
(* one by one, until the input ends, a line cannot be framed, the output   *)
(* breaks or the session is cancelled.                                     *)
(*                                                                         *)
(* A line is what it turns out to be: a decoded request with its number    *)
(* and the outcome of its call, a malformed request (rejected by the       *)
(* scanner of JsonScan.tla or by the decoder), or bytes that are too long, *)
(* not UTF-8 or unreadable.                                                *)
(***************************************************************************)
EXTENDS Naturals, Sequences, FiniteSets

CONSTANTS
    MaxId,      \* the largest request number, u64::MAX in the code
    MaxLines    \* how many lines a client writes

ASSUME BoundsAssumption == MaxId \in Nat /\ MaxLines \in Nat

Request == [kind : {"request"}, id : 0 .. MaxId, outcome : {"value", "error"}]
Malformed == [kind |-> "malformed"]
Unframed == [kind |-> "unframed"]
Line == Request \cup {Malformed, Unframed}
NoId == MaxId + 1
None == [kind |-> "none"]

VARIABLES
    input,      \* lines in standard input that were not read yet
    closed,     \* the client closed standard input
    reader,     \* "read", "send" while it holds a line, or "gone"
    held,       \* the line the reader holds
    queue,      \* the channel between the threads
    session,    \* "check", "wait", "answer", or how it ended
    line,       \* the line that is being answered
    lastId,     \* the largest number that was accepted, if any
    cancelled,  \* the cancellation token
    broken,     \* standard output cannot be written any more
    written,    \* every line the client wrote, in order
    responses   \* every response, in order

vars == <<input, closed, reader, held, queue, session, line, lastId,
          cancelled, broken, written, responses>>
clientVars == <<input, closed, written>>
readerVars == <<reader, held>>
hostVars == <<cancelled, broken>>

Ends == {"ended", "framing failed", "output failed", "cancelled"}
Capacity == 1

Init ==
    /\ input = <<>> /\ closed = FALSE /\ written = <<>>
    /\ reader = "read" /\ held = None
    /\ queue = <<>>
    /\ session = "check" /\ line = None /\ lastId = NoId
    /\ cancelled = FALSE /\ broken = FALSE
    /\ responses = <<>>

-----------------------------------------------------------------------------
(* The client and the host.                                                *)
Write(l) ==
    /\ ~closed
    /\ Len(written) < MaxLines
    /\ input' = Append(input, l)
    /\ written' = Append(written, l)
    /\ UNCHANGED <<closed, readerVars, queue, session, line, lastId, hostVars, responses>>

CloseInput ==
    /\ ~closed
    /\ closed' = TRUE
    /\ UNCHANGED <<input, written, readerVars, queue, session, line, lastId, hostVars, responses>>

Cancel ==
    /\ ~cancelled
    /\ session \notin Ends
    /\ cancelled' = TRUE
    /\ UNCHANGED <<clientVars, readerVars, queue, session, line, lastId, broken, responses>>

Break ==
    /\ ~broken
    /\ session \notin Ends
    /\ broken' = TRUE
    /\ UNCHANGED <<clientVars, readerVars, queue, session, line, lastId, cancelled, responses>>

-----------------------------------------------------------------------------
(* The reader thread.                                                      *)
ReadLine ==
    /\ reader = "read"
    /\ input # <<>>
    /\ held' = Head(input)
    /\ input' = Tail(input)
    /\ reader' = "send"
    /\ UNCHANGED <<closed, written, queue, session, line, lastId, hostVars, responses>>

ReadEnd ==
    /\ reader = "read"
    /\ input = <<>>
    /\ closed
    /\ reader' = "gone"
    /\ UNCHANGED <<clientVars, held, queue, session, line, lastId, hostVars, responses>>

(* The send blocks while the channel is full.  It fails once the session   *)
(* has dropped the receiver; after an error the reader ends either way.    *)
SendLine ==
    /\ reader = "send"
    /\ session \in Ends \/ Len(queue) < Capacity
    /\ queue' = IF session \in Ends THEN queue ELSE Append(queue, held)
    /\ reader' = IF session \in Ends \/ held = Unframed THEN "gone" ELSE "read"
    /\ held' = None
    /\ UNCHANGED <<clientVars, session, line, lastId, hostVars, responses>>

-----------------------------------------------------------------------------
(* The session.                                                            *)
\* Mutant: the cancellation is not looked at between two lines.
CheckNothing ==
    /\ session = "check"
    /\ session' = "wait"
    /\ UNCHANGED <<clientVars, readerVars, queue, line, lastId, hostVars, responses>>

CheckCancelled ==
    /\ session = "check"
    /\ session' = IF cancelled THEN "cancelled" ELSE "wait"
    /\ UNCHANGED <<clientVars, readerVars, queue, line, lastId, hostVars, responses>>

(* recv_timeout: a line, or the end of the reader behind the last line.    *)
Receive ==
    /\ session = "wait"
    /\ queue # <<>>
    /\ line' = Head(queue)
    /\ queue' = Tail(queue)
    /\ session' = "answer"
    /\ UNCHANGED <<clientVars, readerVars, lastId, hostVars, responses>>

Timeout ==
    /\ session = "wait"
    /\ queue = <<>>
    /\ reader # "gone"
    /\ session' = "check"
    /\ UNCHANGED <<clientVars, readerVars, queue, line, lastId, hostVars, responses>>

Disconnected ==
    /\ session = "wait"
    /\ queue = <<>>
    /\ reader = "gone"
    /\ session' = "ended"
    /\ UNCHANGED <<clientVars, readerVars, queue, line, lastId, hostVars, responses>>

(* respond: the number is consumed before the call, whatever its outcome.  *)
Refused(l) == l.kind = "request" /\ lastId # NoId /\ l.id <= lastId

\* Mutant: only a successful call consumes its number.
ConsumesOnSuccess(l) == l.kind = "request" /\ ~Refused(l) /\ l.outcome = "value"

Consumes(l) == l.kind = "request" /\ ~Refused(l)
Response(l) ==
    CASE l.kind # "request" -> [id |-> NoId, result |-> "error"]
      [] Refused(l) -> [id |-> l.id, result |-> "order"]
      [] OTHER -> [id |-> l.id, result |-> l.outcome]

Answer ==
    /\ session = "answer"
    /\ lastId' = IF Consumes(line) THEN line.id ELSE lastId
    /\ responses' = IF broken THEN responses ELSE Append(responses, Response(line))
    /\ session' = IF broken THEN "output failed"
                  ELSE IF line = Unframed THEN "framing failed" ELSE "check"
    /\ line' = None
    /\ UNCHANGED <<clientVars, readerVars, queue, hostVars>>

Finished == session \in Ends /\ reader = "gone" /\ UNCHANGED vars

Reader == ReadLine \/ ReadEnd \/ SendLine
Session == CheckCancelled \/ Receive \/ Timeout \/ Disconnected \/ Answer
Next ==
    \/ \E l \in Line : Write(l)
    \/ CloseInput \/ Cancel \/ Break \/ Reader \/ Session \/ Finished

Spec == Init /\ [][Next]_vars

(* Both threads run on; recv_timeout returns after 50 ms at the latest.    *)
FairSpec == Spec /\ WF_vars(Reader) /\ WF_vars(Session)

-----------------------------------------------------------------------------
(* Properties.                                                             *)

(* What the protocol promises for the k-th line, from the lines alone: a   *)
(* request is refused if an earlier one had a number as large, even one    *)
(* whose call failed, and lines that are no requests do not matter.        *)
Promised(k) ==
    LET l == written[k]
    IN  IF l.kind # "request" THEN [id |-> NoId, result |-> "error"]
        ELSE [id |-> l.id,
              result |-> IF \E j \in 1 .. k - 1 :
                                written[j].kind = "request" /\ written[j].id >= l.id
                         THEN "order" ELSE l.outcome]

(* Every response is the promised answer to the line in its place: none is *)
(* lost, repeated, reordered between the threads or answered with another  *)
(* request's number.  A session that ends with its input has answered all  *)
(* lines, one that fails on a line that cannot be framed has answered it   *)
(* last, and no line behind it is answered.                                *)
AnswersRight ==
    /\ Len(responses) <= Len(written)
    /\ \A k \in DOMAIN responses : responses[k] = Promised(k)
    /\ session = "ended" => Len(responses) = Len(written) /\ closed
    /\ session = "framing failed" <=>
            \E k \in DOMAIN responses : written[k] = Unframed
    /\ session = "framing failed" => written[Len(responses)] = Unframed

(* A client that closes its input, or a cancellation, ends the session,    *)
(* also while the reader blocks on the input or on a full channel.         *)
SessionEnds == (closed \/ cancelled) ~> session \in Ends
=============================================================================
