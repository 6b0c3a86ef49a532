---------------------------- MODULE ChannelOrder ----------------------------
(***************************************************************************)
(* The channel table with a history of what went through each channel, to  *)
(* state what the table promises about order: Fifo is implemented.         *)
(***************************************************************************)
EXTENDS Channels, SequencesExt

CONSTANTS
    MaxOpens,    \* bound on the channels opened
    MaxOffers    \* bound on the payloads offered to all of them

ASSUME OrderAssumption == MaxOpens \in Nat /\ MaxOffers \in Nat

VARIABLES
    offered,   \* per handle, the payloads send was called with and did not refuse
    accepted,  \* per handle, those whose sender was told True
    received,  \* per handle, those some receiver was told Some
    ended      \* the handles some receiver was told None about

history == <<offered, accepted, received, ended>>
orderVars == <<channelVars, history>>

-----------------------------------------------------------------------------
Push(log, h, p) == [log EXCEPT ![h] = Append(@, p)]

Told(tag) ==
    \/ transition'.outcome = "ready" /\ transition'.answer.tag = tag
    \/ \E k \in DOMAIN transition'.wakes : transition'.wakes[k].answer.tag = tag

OrderedOpen ==
    /\ Cardinality(handles) < MaxOpens
    /\ \E room \in Rooms : OpenReused(room) \/ OpenNew(room)
    /\ UNCHANGED history

OrderedSend(h, p, c) ==
    /\ Send(h, p, c)
    /\ offered' = IF transition'.outcome = "parked" \/ Told("True")
                  THEN Push(offered, h, p) ELSE offered
    /\ accepted' = IF Told("True") THEN Push(accepted, h, p) ELSE accepted
    /\ received' = IF Told("Some") THEN Push(received, h, p) ELSE received
    /\ ended' = ended

OrderedRecv(h, c) ==
    /\ Recv(h, c)
    /\ received' = IF Told("Some") THEN Push(received, h, transition'.answer.payload)
                                   ELSE received
    /\ accepted' = IF Told("True") THEN Push(accepted, h, Head(At(h).wait).payload)
                                   ELSE accepted
    /\ ended' = IF Told("None") THEN ended \cup {h} ELSE ended
    /\ offered' = offered

OrderedClose(h) ==
    /\ Close(h)
    /\ ended' = IF Told("None") THEN ended \cup {h} ELSE ended
    /\ UNCHANGED <<offered, accepted, received>>

Offers == MapThenSumSet(LAMBDA h : Len(offered[h]), handles)

OrderedInit ==
    /\ Init
    /\ offered = [h \in Handle |-> <<>>]
    /\ accepted = [h \in Handle |-> <<>>]
    /\ received = [h \in Handle |-> <<>>]
    /\ ended = {}

OrderedNext ==
    \/ OrderedOpen
    \/ \E h \in handles :
          \/ \E c \in Continuation \ ParkedTasks :
                \/ /\ Offers < MaxOffers
                   /\ \E p \in Payload : OrderedSend(h, p, c)
                \/ OrderedRecv(h, c)
          \/ OrderedClose(h)

OrderedSpec == OrderedInit /\ [][OrderedNext]_orderVars

-----------------------------------------------------------------------------
ParkedPayloads(ch) ==
    IF FrontIs(ch, "Sender") THEN [k \in DOMAIN ch.wait |-> ch.wait[k].payload] ELSE <<>>

\* Nothing is lost, repeated or overtaken on its way through send and recv: what
\* was accepted is what was received and then what is buffered, and while the
\* channel is open what was offered is that and then what parked senders hold.
InOrder ==
    \A h \in handles :
        /\ IF Live(h)
           THEN /\ accepted[h] = received[h] \o At(h).buffer
                /\ At(h).closed \/ offered[h] = accepted[h] \o ParkedPayloads(At(h))
           ELSE accepted[h] = received[h]
        /\ IsPrefix(accepted[h], offered[h])

-----------------------------------------------------------------------------
Contract == INSTANCE Fifo WITH
    known <- handles,
    open <- {h \in handles : Sendable(h)}

\* The table, with its parking, handoff, refilling, closing and row reuse,
\* implements the first-in-first-out channels that Fifo specifies.
ImplementsFifo == Contract!Spec

=============================================================================
