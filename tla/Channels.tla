------------------------------ MODULE Channels ------------------------------
(***************************************************************************)
(* The channel table of the native runtime, src/runtime/channels.rs: rows  *)
(* addressed by (index, generation) handles, a stack of free rows, and two *)
(* counters that bound the payloads and the waiters of the whole table.    *)
(* Every operation returns a Transition: the answer for the calling task,  *)
(* or that it parked, and the parked tasks it wakes, in order.  Applying a *)
(* Transition to the run queue is the scheduler's business (TaskDriver).   *)
(***************************************************************************)
EXTENDS Integers, Sequences, FiniteSets

CONSTANTS
    Continuation,   \* continuations of suspended tasks (thunk ids)
    Payload,        \* values sent through channels (thunk ids)
    Rooms,          \* capacities the program asks for
    ArenaLimit,     \* ARENA_LIMIT: rows, payloads and waiters
    MaxGeneration,  \* u32::MAX
    NoChannel,      \* None in Row::channel
    NoPayload       \* the absence of a payload

ASSUME ChannelAssumption ==
    /\ ArenaLimit \in Nat \ {0}
    /\ MaxGeneration \in Nat \ {0}
    /\ Rooms \subseteq Nat
    /\ NoPayload \notin Payload

VARIABLES
    rows,        \* sequence of [generation, channel]
    free,        \* indexes of reusable rows, a stack
    payloads,    \* buffered payloads plus those of parked senders
    waiters,     \* parked tasks
    handles,     \* handles the program holds; they cannot be forged
    transition   \* what the last operation returned

table == <<rows, free, payloads, waiters>>
channelVars == <<rows, free, payloads, waiters, handles, transition>>

-----------------------------------------------------------------------------
Handle == [index : 1..ArenaLimit, generation : 1..MaxGeneration]

Answer == [tag : {"True", "False", "Some", "None", "Unit"},
           payload : Payload \cup {NoPayload}]

Plain(tag) == [tag |-> tag, payload |-> NoPayload]
Some(p) == [tag |-> "Some", payload |-> p]

Waiter == [kind : {"Sender", "Receiver"}, continuation : Continuation,
           payload : Payload \cup {NoPayload}]

Sender(c, p) == [kind |-> "Sender", continuation |-> c, payload |-> p]
Receiver(c) == [kind |-> "Receiver", continuation |-> c, payload |-> NoPayload]

Channel == [room : Nat, closed : BOOLEAN,
            buffer : Seq(Payload), wait : Seq(Waiter)]

ASSUME NoChannelAssumption == NoChannel \notin Channel

NewChannel(room) ==
    [room |-> room, closed |-> FALSE, buffer |-> <<>>, wait |-> <<>>]

Row == [generation : 0..MaxGeneration, channel : Channel \cup {NoChannel}]

Wake == [continuation : Continuation, answer : Answer]

\* The errors that say a budget is used up, and the ones that say the table is
\* not what channels.rs believes it is.
BudgetFaults == {"channel table budget", "payload budget", "waiter budget"}
InternalFaults == {"generation exhausted", "buffered channel waiter"}

Transition == [outcome : {"ready", "parked", "failed"}, answer : Answer,
               wakes : Seq(Wake), fault : BudgetFaults \cup InternalFaults \cup {"none"}]

Ready(answer, wakes) == [outcome |-> "ready", answer |-> answer,
                         wakes |-> wakes, fault |-> "none"]
Parked == [outcome |-> "parked", answer |-> Plain("Unit"),
           wakes |-> <<>>, fault |-> "none"]
Failed(error) == [outcome |-> "failed", answer |-> Plain("Unit"),
                  wakes |-> <<>>, fault |-> error]

-----------------------------------------------------------------------------
(***************************************************************************)
(* Reading and storing a channel.                                          *)
(***************************************************************************)
At(h) ==
    IF h.index \in DOMAIN rows /\ rows[h.index].generation = h.generation
    THEN rows[h.index].channel
    ELSE NoChannel

Live(h) == At(h) # NoChannel

FrontIs(ch, kind) == ch.wait # <<>> /\ Head(ch.wait).kind = kind

Store(i, ch) ==
    /\ rows' = [rows EXCEPT ![i] = [@ EXCEPT !.channel = ch]]
    /\ free' = free

\* Mutant: the row is reset, its generation with it.
ReleaseReset(i) ==
    /\ rows' = [rows EXCEPT ![i] = [generation |-> 0, channel |-> NoChannel]]
    /\ free' = Append(free, i)

\* Mutant: a row is reused after its last generation.
ReleaseUnretired(i) ==
    /\ rows' = [rows EXCEPT ![i] = [@ EXCEPT !.channel = NoChannel]]
    /\ free' = Append(free, i)

\* A row whose generation is used up is retired, never reused.
Release(i) ==
    /\ rows' = [rows EXCEPT ![i] = [@ EXCEPT !.channel = NoChannel]]
    /\ free' = IF rows[i].generation < MaxGeneration THEN Append(free, i) ELSE free

\* Mutant: a drained closed channel keeps its row.
StoreOnly(i, ch) == Store(i, ch)

\* Mutant: closing releases the row whatever is left in the buffer.
StoreOrReleaseEager(i, ch) == IF ch.closed THEN Release(i) ELSE Store(i, ch)

\* A closed channel keeps its row until its buffer has been drained.
StoreOrRelease(i, ch) ==
    IF ch.closed /\ ch.buffer = <<>> THEN Release(i) ELSE Store(i, ch)

-----------------------------------------------------------------------------
(***************************************************************************)
(* open                                                                    *)
(***************************************************************************)
OpenRow(index, grown, room) ==
    LET generation == grown[index].generation + 1
    IN  IF generation <= MaxGeneration
        THEN /\ rows' = [grown EXCEPT ![index] =
                            [generation |-> generation, channel |-> NewChannel(room)]]
             /\ handles' = handles \cup {[index |-> index, generation |-> generation]}
             /\ transition' = Ready(Plain("Unit"), <<>>)
        ELSE /\ rows' = grown
             /\ handles' = handles
             /\ transition' = Failed("generation exhausted")

OpenReused(room) ==
    /\ free # <<>>
    /\ free' = SubSeq(free, 1, Len(free) - 1)
    /\ OpenRow(free[Len(free)], rows, room)
    /\ UNCHANGED <<payloads, waiters>>

\* Mutant: the table grows one row past its limit.
OpenNewOver(room) ==
    /\ free = <<>>
    /\ Len(rows) <= ArenaLimit
    /\ free' = free
    /\ OpenRow(Len(rows) + 1,
               Append(rows, [generation |-> 0, channel |-> NoChannel]), room)
    /\ UNCHANGED <<payloads, waiters>>

OpenNew(room) ==
    /\ free = <<>>
    /\ Len(rows) < ArenaLimit
    /\ free' = free
    /\ OpenRow(Len(rows) + 1,
               Append(rows, [generation |-> 0, channel |-> NoChannel]), room)
    /\ UNCHANGED <<payloads, waiters>>

OpenFull ==
    /\ free = <<>>
    /\ Len(rows) >= ArenaLimit
    /\ transition' = Failed("channel table budget")
    /\ UNCHANGED <<table, handles>>

-----------------------------------------------------------------------------
(***************************************************************************)
(* send                                                                    *)
(***************************************************************************)
SendRefused(h) ==
    /\ IF Live(h) THEN At(h).closed ELSE TRUE
    /\ transition' = Ready(Plain("False"), <<>>)
    /\ UNCHANGED <<table, handles>>

Sendable(h) == Live(h) /\ ~At(h).closed

SendExhausted(h) ==
    /\ Sendable(h)
    /\ ~FrontIs(At(h), "Receiver")
    /\ \/ /\ payloads >= ArenaLimit
          /\ transition' = Failed("payload budget")
       \/ /\ payloads < ArenaLimit
          /\ Len(At(h).buffer) >= At(h).room
          /\ waiters >= ArenaLimit
          /\ transition' = Failed("waiter budget")
    /\ UNCHANGED <<table, handles>>

SendHandoff(h, p) ==
    /\ Sendable(h)
    /\ FrontIs(At(h), "Receiver")
    /\ LET ch == At(h)
           wake == [continuation |-> Head(ch.wait).continuation, answer |-> Some(p)]
       IN  /\ Store(h.index, [ch EXCEPT !.wait = Tail(ch.wait)])
           /\ transition' = Ready(Plain("True"), <<wake>>)
    /\ waiters' = waiters - 1
    /\ UNCHANGED <<payloads, handles>>

\* Mutant: a free slot is preferred to a parked receiver.
SendBufferedFirst(h, p) ==
    /\ Sendable(h)
    /\ payloads < ArenaLimit
    /\ Len(At(h).buffer) < At(h).room
    /\ Store(h.index, [At(h) EXCEPT !.buffer = Append(At(h).buffer, p)])
    /\ transition' = Ready(Plain("True"), <<>>)
    /\ payloads' = payloads + 1
    /\ UNCHANGED <<waiters, handles>>

SendBuffered(h, p) ==
    /\ Sendable(h)
    /\ ~FrontIs(At(h), "Receiver")
    /\ payloads < ArenaLimit
    /\ Len(At(h).buffer) < At(h).room
    /\ Store(h.index, [At(h) EXCEPT !.buffer = Append(At(h).buffer, p)])
    /\ transition' = Ready(Plain("True"), <<>>)
    /\ payloads' = payloads + 1
    /\ UNCHANGED <<waiters, handles>>

SendParked(h, p, c) ==
    /\ Sendable(h)
    /\ ~FrontIs(At(h), "Receiver")
    /\ payloads < ArenaLimit
    /\ waiters < ArenaLimit
    /\ Len(At(h).buffer) >= At(h).room
    /\ Store(h.index, [At(h) EXCEPT !.wait = Append(At(h).wait, Sender(c, p))])
    /\ transition' = Parked
    /\ payloads' = payloads + 1
    /\ waiters' = waiters + 1
    /\ UNCHANGED handles

Send(h, p, c) ==
    \/ SendRefused(h)
    \/ SendExhausted(h)
    \/ SendHandoff(h, p)
    \/ SendBuffered(h, p)
    \/ SendParked(h, p, c)

-----------------------------------------------------------------------------
(***************************************************************************)
(* recv                                                                    *)
(***************************************************************************)
RecvStale(h) ==
    /\ ~Live(h)
    /\ transition' = Ready(Plain("None"), <<>>)
    /\ UNCHANGED <<table, handles>>

RecvExhausted(h) ==
    /\ Live(h)
    /\ At(h).buffer = <<>> /\ ~FrontIs(At(h), "Sender") /\ ~At(h).closed
    /\ waiters >= ArenaLimit
    /\ transition' = Failed("waiter budget")
    /\ UNCHANGED <<table, handles>>

\* Take the oldest payload and let nobody wait for the slot it leaves.
RecvBuffered(h) ==
    /\ Live(h)
    /\ At(h).buffer # <<>>
    /\ At(h).wait = <<>>
    /\ StoreOrRelease(h.index, [At(h) EXCEPT !.buffer = Tail(At(h).buffer)])
    /\ transition' = Ready(Some(Head(At(h).buffer)), <<>>)
    /\ payloads' = payloads - 1
    /\ UNCHANGED <<waiters, handles>>

\* Mutant: the refill goes ahead of the payloads already buffered.
RefilledFront(ch, payload) == <<payload>> \o Tail(ch.buffer)

Refilled(ch, payload) == Append(Tail(ch.buffer), payload)

\* Take the oldest payload; the oldest parked sender fills the slot it leaves.
RecvRefilled(h) ==
    /\ Live(h)
    /\ At(h).buffer # <<>>
    /\ At(h).wait # <<>>
    /\ payloads' = payloads - 1
    /\ LET ch == At(h)
           first == Head(ch.wait)
           wake == [continuation |-> first.continuation, answer |-> Plain("True")]
       IN  IF first.kind = "Sender"
           THEN /\ StoreOrRelease(h.index,
                       [ch EXCEPT !.buffer = Refilled(ch, first.payload),
                                  !.wait = Tail(ch.wait)])
                /\ waiters' = waiters - 1
                /\ transition' = Ready(Some(Head(ch.buffer)), <<wake>>)
           ELSE /\ Store(h.index, [ch EXCEPT !.buffer = Tail(ch.buffer),
                                             !.wait = Tail(ch.wait)])
                /\ waiters' = waiters
                /\ transition' = Failed("buffered channel waiter")
    /\ UNCHANGED handles

RecvHandoff(h) ==
    /\ Live(h)
    /\ At(h).buffer = <<>>
    /\ FrontIs(At(h), "Sender")
    /\ LET ch == At(h)
           first == Head(ch.wait)
           wake == [continuation |-> first.continuation, answer |-> Plain("True")]
       IN  /\ Store(h.index, [ch EXCEPT !.wait = Tail(ch.wait)])
           /\ transition' = Ready(Some(first.payload), <<wake>>)
    /\ payloads' = payloads - 1
    /\ waiters' = waiters - 1
    /\ UNCHANGED handles

\* recv also releases a closed, empty channel; Coherent shows it never meets one.
RecvEmpty(h, c) ==
    /\ Live(h)
    /\ At(h).buffer = <<>>
    /\ ~FrontIs(At(h), "Sender")
    /\ At(h).closed \/ waiters < ArenaLimit
    /\ IF At(h).closed
       THEN /\ Release(h.index)
            /\ transition' = Ready(Plain("None"), <<>>)
            /\ waiters' = waiters
       ELSE /\ Store(h.index, [At(h) EXCEPT !.wait = Append(At(h).wait, Receiver(c))])
            /\ transition' = Parked
            /\ waiters' = waiters + 1
    /\ UNCHANGED <<payloads, handles>>

Recv(h, c) ==
    \/ RecvStale(h)
    \/ RecvExhausted(h)
    \/ RecvBuffered(h)
    \/ RecvRefilled(h)
    \/ RecvHandoff(h)
    \/ RecvEmpty(h, c)

-----------------------------------------------------------------------------
(***************************************************************************)
(* close                                                                   *)
(***************************************************************************)
CloseIgnored(h) ==
    /\ ~Sendable(h)
    /\ transition' = Ready(Plain("Unit"), <<>>)
    /\ UNCHANGED <<table, handles>>

\* What a parked task is told when its channel closes.
Dismissal(waiter) ==
    [continuation |-> waiter.continuation,
     answer |-> IF waiter.kind = "Sender" THEN Plain("False") ELSE Plain("None")]

ParkedSenders(ch) == {k \in DOMAIN ch.wait : ch.wait[k].kind = "Sender"}

\* Mutant: the payloads of dismissed senders stay counted.
CloseOpenLeaking(h) ==
    /\ Sendable(h)
    /\ LET ch == At(h)
       IN  /\ StoreOrRelease(h.index, [ch EXCEPT !.closed = TRUE, !.wait = <<>>])
           /\ waiters' = waiters - Len(ch.wait)
           /\ transition' = Ready(Plain("Unit"),
                                  [k \in 1..Len(ch.wait) |-> Dismissal(ch.wait[k])])
    /\ UNCHANGED <<payloads, handles>>

CloseOpen(h) ==
    /\ Sendable(h)
    /\ LET ch == At(h)
       IN  /\ StoreOrRelease(h.index, [ch EXCEPT !.closed = TRUE, !.wait = <<>>])
           /\ waiters' = waiters - Len(ch.wait)
           /\ payloads' = payloads - Cardinality(ParkedSenders(ch))
           /\ transition' = Ready(Plain("Unit"),
                                  [k \in 1..Len(ch.wait) |-> Dismissal(ch.wait[k])])
    /\ UNCHANGED handles

Close(h) == CloseIgnored(h) \/ CloseOpen(h)

-----------------------------------------------------------------------------
Init ==
    /\ rows = <<>>
    /\ free = <<>>
    /\ payloads = 0
    /\ waiters = 0
    /\ handles = {}
    /\ transition = Ready(Plain("Unit"), <<>>)

\* The tasks parked on some channel.
ParkedOn(i) ==
    IF rows[i].channel = NoChannel THEN {}
    ELSE {rows[i].channel.wait[k].continuation : k \in DOMAIN rows[i].channel.wait}

ParkedTasks == UNION {ParkedOn(i) : i \in DOMAIN rows}

\* Only a running task asks for an operation, so its continuation is not parked.
Next ==
    \/ \E room \in Rooms : OpenReused(room) \/ OpenNew(room)
    \/ OpenFull
    \/ \E h \in handles :
          \/ \E c \in Continuation \ ParkedTasks :
                \/ \E p \in Payload : Send(h, p, c)
                \/ Recv(h, c)
          \/ Close(h)

Spec == Init /\ [][Next]_channelVars

-----------------------------------------------------------------------------
(***************************************************************************)
(* Properties.                                                             *)
(***************************************************************************)

\* The state of channels.rs keeps its types: indexes stay inside the table and
\* every parked sender carries a payload.
SendersLoaded(ch) == \A k \in ParkedSenders(ch) : ch.wait[k].payload \in Payload

TypeOK ==
    /\ rows \in Seq(Row)
    /\ Len(rows) <= ArenaLimit
    /\ free \in Seq(1..Len(rows))
    /\ payloads \in Int
    /\ waiters \in Int
    /\ handles \subseteq Handle
    /\ transition \in Transition
    /\ \A i \in DOMAIN rows : rows[i].channel # NoChannel => SendersLoaded(rows[i].channel)

\* What send, recv and close keep true of a channel between operations: tasks
\* of one kind wait on it; receivers only on an empty buffer, senders only on a
\* full one; a closed channel has payloads left and nobody waiting.
ChannelCoherent(ch) ==
    /\ Len(ch.buffer) <= ch.room
    /\ \A k \in DOMAIN ch.wait : ch.wait[k].kind = "Receiver" => ch.buffer = <<>>
    /\ \A k \in DOMAIN ch.wait : ch.wait[k].kind = "Sender" => Len(ch.buffer) = ch.room
    /\ \A j, k \in DOMAIN ch.wait : ch.wait[j].kind = ch.wait[k].kind
    /\ ch.closed => ch.buffer # <<>> /\ ch.wait = <<>>

Coherent ==
    \A i \in DOMAIN rows : rows[i].channel # NoChannel =>
        ChannelCoherent(rows[i].channel)

\* The free stack of open and release holds each reusable row once, and only
\* those: no row is leaked, none is handed out while a channel lives in it, and
\* a retired row (generation at u32::MAX) never comes back.
FreeListExact ==
    /\ \A j, k \in DOMAIN free : free[j] = free[k] => j = k
    /\ \A i \in DOMAIN rows :
          (\E k \in DOMAIN free : free[k] = i)
             <=> (rows[i].channel = NoChannel /\ rows[i].generation < MaxGeneration)

\* The places of the table that hold a buffered payload, a parked task, a
\* parked sender.
Occupied == {i \in DOMAIN rows : rows[i].channel # NoChannel}
BufferSlots == UNION {{i} \X DOMAIN rows[i].channel.buffer : i \in Occupied}
WaitSlots == UNION {{i} \X DOMAIN rows[i].channel.wait : i \in Occupied}
SenderSlots == UNION {{i} \X ParkedSenders(rows[i].channel) : i \in Occupied}

\* The counters payloads and waiters, which send, recv and close adjust one by
\* one, always equal what the table holds, so the ARENA_LIMIT checks test the
\* real sizes and no decrement wraps.
CountersExact ==
    /\ payloads = Cardinality(BufferSlots) + Cardinality(SenderSlots)
    /\ waiters = Cardinality(WaitSlots)
    /\ payloads <= ArenaLimit
    /\ waiters <= ArenaLimit

\* The internal errors of channels.rs ("invalid native buffered channel
\* waiter", "IO channel generation exhausted") never happen; only budgets fail.
NoInternalError == transition.fault \in BudgetFaults \cup {"none"}

\* A handle whose channel was released never names a channel again, whatever is
\* opened in its row later: release and open never revive a generation.
StaleForever ==
    [][\A h \in handles : ~Live(h) => ~Live(h)']_channelVars

=============================================================================
