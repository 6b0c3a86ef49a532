-------------------------- MODULE Channels_proofs --------------------------
(***************************************************************************)
(* What the channel table promises for every number of tasks, payloads,    *)
(* rooms and generations.                                                  *)
(***************************************************************************)
EXTENDS ChannelOrder, SequenceTheorems, FiniteSetTheorems, TLAPS

\* No handle the program holds is newer than its row, so the handle open mints
\* was never held before.
HandlesOld ==
    \A h \in handles :
        h.index \in DOMAIN rows /\ h.generation <= rows[h.index].generation

\* What the operations keep true of rows, the free stack and the handles.
TableInv ==
    /\ rows \in Seq(Row)
    /\ Len(rows) <= ArenaLimit
    /\ free \in Seq(1..Len(rows))
    /\ handles \subseteq Handle
    /\ \A i \in Occupied : SendersLoaded(rows[i].channel)
    /\ Coherent
    /\ FreeListExact
    /\ HandlesOld

\* A live handle names a row of the table and the channel in it.
LEMMA LiveRow ==
    ASSUME TableInv, NEW h \in handles, Live(h)
    PROVE  /\ h.index \in DOMAIN rows
           /\ h.index \in Occupied
           /\ rows[h.index].generation = h.generation
           /\ At(h) = rows[h.index].channel
           /\ At(h) \in Channel
           /\ SendersLoaded(At(h))
           /\ ChannelCoherent(At(h))
<1>1. h.index \in DOMAIN rows /\ rows[h.index].generation = h.generation
  BY DEF Live, At
<1>2. At(h) = rows[h.index].channel /\ rows[h.index].channel # NoChannel
  BY <1>1 DEF Live, At
<1>3. rows[h.index] \in Row /\ h.index \in Occupied
  BY <1>1, <1>2 DEF TableInv, Occupied
<1>4. At(h) \in Channel
  BY <1>2, <1>3 DEF Row
<1> QED  BY <1>1, <1>2, <1>3, <1>4 DEF TableInv, Coherent

\* Replacing one row leaves every other row as it is.
LEMMA RowUpdate ==
    ASSUME rows \in Seq(Row), NEW i \in DOMAIN rows, NEW ch \in Channel \cup {NoChannel},
           rows' = [rows EXCEPT ![i] = [@ EXCEPT !.channel = ch]]
    PROVE  /\ rows' \in Seq(Row)
           /\ Len(rows') = Len(rows)
           /\ DOMAIN rows' = DOMAIN rows
           /\ rows'[i].channel = ch
           /\ \A j \in DOMAIN rows : rows'[j].generation = rows[j].generation
           /\ \A j \in DOMAIN rows : j # i => rows'[j] = rows[j]
<1> DEFINE row == [rows[i] EXCEPT !.channel = ch]
<1>1. DOMAIN rows = 1..Len(rows) /\ rows[i] \in Row
  BY ElementOfSeq, LenProperties
<1>2. row \in Row /\ row.channel = ch /\ row.generation = rows[i].generation
  BY <1>1 DEF Row
<1>3. rows' = [rows EXCEPT ![i] = row]
  OBVIOUS
<1> HIDE DEF row
<1>4. /\ rows' \in Seq(Row)
      /\ Len(rows') = Len(rows)
      /\ \A j \in 1..Len(rows) : rows'[j] = IF j = i THEN row ELSE rows[j]
  BY SMTT(30), <1>1, <1>2, <1>3, ExceptSeq
<1> QED  BY <1>1, <1>2, <1>4, LenProperties

\* Storing a coherent channel in an occupied row keeps the table in order.
LEMMA StoreKeepsTable ==
    ASSUME TableInv, NEW i \in Occupied, NEW ch \in Channel,
           SendersLoaded(ch), ChannelCoherent(ch),
           Store(i, ch), handles' = handles
    PROVE  TableInv'
<1>1. /\ rows' \in Seq(Row)
      /\ Len(rows') = Len(rows)
      /\ DOMAIN rows' = DOMAIN rows
      /\ i \in DOMAIN rows
      /\ rows'[i].channel = ch
      /\ \A j \in DOMAIN rows : rows'[j].generation = rows[j].generation
      /\ \A j \in DOMAIN rows : j # i => rows'[j] = rows[j]
  BY RowUpdate DEF TableInv, Store, Occupied
<1>2. ch # NoChannel /\ rows[i].channel # NoChannel
  BY NoChannelAssumption DEF Occupied
<1>3. Coherent' /\ (\A j \in Occupied : SendersLoaded(rows[j].channel))'
  BY <1>1, <1>2 DEF TableInv, Coherent, Occupied
<1>4. FreeListExact' /\ free' \in Seq(1..Len(rows'))
  BY <1>1, <1>2 DEF TableInv, Store, FreeListExact
<1>5. HandlesOld'
  BY <1>1 DEF TableInv, HandlesOld
<1> QED  BY <1>1, <1>3, <1>4, <1>5 DEF TableInv

\* Releasing an occupied row keeps the table in order.
LEMMA ReleaseKeepsTable ==
    ASSUME TableInv, NEW i \in Occupied, Release(i), handles' = handles
    PROVE  TableInv'
<1>1. /\ rows' \in Seq(Row)
      /\ Len(rows') = Len(rows)
      /\ DOMAIN rows' = DOMAIN rows
      /\ i \in DOMAIN rows
      /\ rows'[i].channel = NoChannel
      /\ \A j \in DOMAIN rows : rows'[j].generation = rows[j].generation
      /\ \A j \in DOMAIN rows : j # i => rows'[j] = rows[j]
  BY RowUpdate DEF TableInv, Release, Occupied
<1>2. Coherent' /\ (\A j \in Occupied : SendersLoaded(rows[j].channel))'
  BY <1>1 DEF TableInv, Coherent, Occupied
<1>3. HandlesOld'
  BY <1>1 DEF TableInv, HandlesOld
<1>4. DOMAIN rows = 1..Len(rows) /\ DOMAIN free = 1..Len(free) /\ Len(free) \in Nat
  BY LenProperties DEF TableInv
<1>5. \A k \in DOMAIN free : free[k] # i
  BY <1>1 DEF TableInv, FreeListExact, Occupied
<1>6. CASE rows[i].generation < MaxGeneration
  <2>1. /\ free' \in Seq(1..Len(rows))
        /\ DOMAIN free' = 1..(Len(free) + 1)
        /\ free'[Len(free) + 1] = i
        /\ \A k \in DOMAIN free : free'[k] = free[k]
    BY <1>1, <1>4, <1>6, AppendProperties DEF TableInv, Release
  <2>a. DOMAIN free' = DOMAIN free \cup {Len(free) + 1} /\ Len(free) + 1 \notin DOMAIN free
    BY <1>4, <2>1
  <2>2. \A j, k \in DOMAIN free' : free'[j] = free'[k] => j = k
    BY <1>5, <2>1, <2>a DEF TableInv, FreeListExact
  <2>3. \A j \in DOMAIN rows' :
          (\E k \in DOMAIN free' : free'[k] = j)
             <=> (j = i \/ \E k \in DOMAIN free : free[k] = j)
    BY <2>1, <2>a
  <2>4. FreeListExact'
    BY <1>1, <1>6, <2>2, <2>3 DEF TableInv, FreeListExact
  <2> QED  BY <1>1, <1>2, <1>3, <2>1, <2>4 DEF TableInv
<1>7. CASE ~(rows[i].generation < MaxGeneration)
  <2>1. free' = free
    BY <1>7 DEF Release
  <2>2. FreeListExact'
    BY <1>1, <1>5, <1>7, <2>1 DEF TableInv, FreeListExact
  <2> QED  BY <1>1, <1>2, <1>3, <2>1, <2>2 DEF TableInv
<1> QED  BY <1>6, <1>7

\* Opening a channel in an unoccupied row, old or new, keeps the table in order.
LEMMA OpenKeepsTable ==
    ASSUME TableInv, NEW room \in Rooms, OpenReused(room) \/ OpenNew(room)
    PROVE  TableInv' /\ transition' = Ready(Plain("Unit"), <<>>)
<1> USE ChannelAssumption
<1>1. DOMAIN rows = 1..Len(rows) /\ DOMAIN free = 1..Len(free) /\ Len(rows) \in Nat /\ Len(free) \in Nat
  BY LenProperties DEF TableInv
<1>2. NewChannel(room) \in Channel /\ NewChannel(room) # NoChannel
  <2>1. <<>> \in Seq(Payload) /\ <<>> \in Seq(Waiter) /\ room \in Nat
    BY EmptySeq
  <2>2. NewChannel(room) \in Channel
    BY <2>1, Zenon DEF NewChannel, Channel
  <2> QED  BY <2>2, NoChannelAssumption
<1>3. ChannelCoherent(NewChannel(room)) /\ SendersLoaded(NewChannel(room))
  BY DEF NewChannel, ChannelCoherent, SendersLoaded, ParkedSenders
<1>4. CASE OpenReused(room)
  <2> DEFINE i == free[Len(free)]
             row == [generation |-> rows[i].generation + 1, channel |-> NewChannel(room)]
  <2>1. Len(free) \in DOMAIN free
    BY <1>1, <1>4, EmptySeq DEF OpenReused, TableInv
  <2>2. i \in DOMAIN rows /\ rows[i] \in Row
    BY <1>1, <2>1, ElementOfSeq DEF TableInv
  <2>3. rows[i].channel = NoChannel /\ rows[i].generation < MaxGeneration
    BY <2>1, <2>2 DEF TableInv, FreeListExact
  <2>4. rows[i].generation \in 0..MaxGeneration
    BY <2>2 DEF Row
  <2>5. row \in Row
    BY <1>2, <2>3, <2>4 DEF Row
  <2>6. /\ rows' = [rows EXCEPT ![i] = row]
        /\ handles' = handles \cup {[index |-> i, generation |-> rows[i].generation + 1]}
        /\ transition' = Ready(Plain("Unit"), <<>>)
    <3>1. rows[i].generation + 1 <= MaxGeneration
      BY <2>3, <2>4
    <3> QED  BY <1>4, <3>1, Zenon DEF OpenReused, OpenRow
  <2>7. free' = SubSeq(free, 1, Len(free) - 1)
    BY <1>4 DEF OpenReused
  <2> HIDE DEF i
  <2>8. /\ row.channel = NewChannel(room)
        /\ row.generation = rows[i].generation + 1
    OBVIOUS
  <2> HIDE DEF row
  <2>9. /\ rows' \in Seq(Row)
        /\ Len(rows') = Len(rows)
        /\ DOMAIN rows' = DOMAIN rows
        /\ \A j \in DOMAIN rows : rows'[j] = IF j = i THEN row ELSE rows[j]
    BY <1>1, <2>2, <2>5, <2>6, ExceptSeq, LenProperties DEF TableInv
  <2>10. Coherent' /\ (\A j \in Occupied : SendersLoaded(rows[j].channel))'
    BY <1>3, <2>8, <2>9 DEF TableInv, Coherent, Occupied
  <2>11. HandlesOld' /\ handles' \subseteq Handle
    <3>1. \A j \in DOMAIN rows : rows[j].generation \in Nat
      <4>1. \A j \in DOMAIN rows : rows[j] \in Row
        BY <1>1, ElementOfSeq DEF TableInv
      <4> QED  BY <4>1 DEF Row
    <3>2. [index |-> i, generation |-> rows[i].generation + 1] \in Handle
      BY <1>1, <2>2, <2>3, <2>4 DEF Handle, TableInv
    <3> QED  BY <3>1, <3>2, <2>2, <2>6, <2>8, <2>9 DEF TableInv, HandlesOld, Handle
  <2>12. /\ free' \in Seq(1..Len(rows))
         /\ DOMAIN free' = 1..(Len(free) - 1)
         /\ \A k \in DOMAIN free' : free'[k] = free[k]
    BY SMTT(30), <1>1, <2>1, <2>7, SubSeqProperties, LenProperties DEF TableInv
  <2>13. FreeListExact'
    <3>1. \A j, k \in DOMAIN free' : free'[j] = free'[k] => j = k
      BY <1>1, <2>12 DEF TableInv, FreeListExact
    <3>2. \A k \in DOMAIN free' : free'[k] # i
      <4>1. \A k \in DOMAIN free' : k \in DOMAIN free /\ k # Len(free)
        BY <1>1, <2>12
      <4> QED  BY <4>1, <2>1, <2>12 DEF TableInv, FreeListExact, i
    <3>3. \A j \in DOMAIN rows :
             (\E k \in DOMAIN free' : free'[k] = j)
                <=> (j # i /\ \E k \in DOMAIN free : free[k] = j)
      <4>1. \A k \in DOMAIN free : k \in DOMAIN free' \/ k = Len(free)
        BY <1>1, <2>12
      <4>2. \A k \in DOMAIN free' : k \in DOMAIN free
        BY <1>1, <2>12
      <4> QED  BY <4>1, <4>2, <3>2, <2>12 DEF i
    <3> QED  BY <1>2, <2>8, <2>9, <3>1, <3>3 DEF TableInv, FreeListExact
  <2> QED  BY <2>6, <2>9, <2>10, <2>11, <2>12, <2>13 DEF TableInv
<1>5. CASE OpenNew(room)
  <2> DEFINE i == Len(rows) + 1
             row == [generation |-> 1, channel |-> NewChannel(room)]
  <2>1. row \in Row
    BY <1>2 DEF Row
  <2> DEFINE grown == Append(rows, [generation |-> 0, channel |-> NoChannel])
  <2>2. [generation |-> 0, channel |-> NoChannel] \in Row
    BY DEF Row
  <2>3. /\ grown \in Seq(Row) /\ Len(grown) = i /\ i \in 1..Len(grown)
        /\ grown[i] = [generation |-> 0, channel |-> NoChannel]
        /\ \A j \in DOMAIN rows : grown[j] = rows[j]
    BY <1>1, <2>2, AppendProperties DEF TableInv
  <2>4. /\ rows' = [grown EXCEPT ![i] = row]
        /\ handles' = handles \cup {[index |-> i, generation |-> 1]}
        /\ transition' = Ready(Plain("Unit"), <<>>)
        /\ free' = free /\ free = <<>> /\ Len(rows) < ArenaLimit
    <3>1. grown[i].generation + 1 <= MaxGeneration /\ grown[i].generation + 1 = 1
      BY <2>3
    <3> QED  BY <1>5, <3>1 DEF OpenNew, OpenRow
  <2> HIDE DEF row, grown
  <2>5. /\ rows' \in Seq(Row)
        /\ Len(rows') = i
        /\ DOMAIN rows' = 1..i
        /\ \A j \in 1..i : rows'[j] = IF j = i THEN row ELSE grown[j]
    BY <2>1, <2>3, <2>4, ExceptSeq, LenProperties
  <2>6. /\ rows'[i] = row
        /\ \A j \in DOMAIN rows : j \in DOMAIN rows' /\ rows'[j] = rows[j]
        /\ DOMAIN rows' = DOMAIN rows \cup {i}
    BY <1>1, <2>3, <2>5
  <2> HIDE DEF i
  <2>7. row.generation = 1 /\ row.channel = NewChannel(room)
    BY DEF row
  <2>8. Coherent' /\ (\A j \in Occupied : SendersLoaded(rows[j].channel))'
    BY <1>3, <2>6, <2>7 DEF TableInv, Coherent, Occupied
  <2>9. HandlesOld'
    BY <2>4, <2>6, <2>7 DEF TableInv, HandlesOld
  <2>10. handles' \subseteq Handle
    BY <1>1, <2>4 DEF TableInv, Handle, i
  <2>11. FreeListExact' /\ free' \in Seq(1..Len(rows'))
    BY <1>2, <2>4, <2>6, <2>7, EmptySeq DEF TableInv, FreeListExact
  <2>12. Len(rows') <= ArenaLimit
    BY <1>1, <2>4, <2>5 DEF i
  <2> QED  BY <2>4, <2>5, <2>8, <2>9, <2>10, <2>11, <2>12 DEF TableInv
<1> QED  BY <1>4, <1>5

-----------------------------------------------------------------------------
(***************************************************************************)
(* The channel each operation stores.                                      *)
(***************************************************************************)

\* The first waiter of a queue, and the queue without it.
LEMMA WaitFront ==
    ASSUME NEW ch \in Channel, ch.wait # <<>>
    PROVE  /\ ch.wait \in Seq(Waiter)
           /\ Len(ch.wait) \in Nat \ {0}
           /\ DOMAIN ch.wait = 1..Len(ch.wait)
           /\ 1 \in DOMAIN ch.wait
           /\ Head(ch.wait) = ch.wait[1]
           /\ Head(ch.wait) \in Waiter
           /\ Tail(ch.wait) \in Seq(Waiter)
           /\ Len(Tail(ch.wait)) = Len(ch.wait) - 1
           /\ DOMAIN Tail(ch.wait) = 1..(Len(ch.wait) - 1)
           /\ \A k \in DOMAIN Tail(ch.wait) :
                 k + 1 \in DOMAIN ch.wait /\ Tail(ch.wait)[k] = ch.wait[k + 1]
<1>1. ch.wait \in Seq(Waiter)
  BY DEF Channel
<1>2. Len(ch.wait) \in Nat \ {0} /\ DOMAIN ch.wait = 1..Len(ch.wait)
  BY <1>1, EmptySeq, LenProperties
<1>3. /\ Head(ch.wait) = ch.wait[1] /\ Tail(ch.wait) \in Seq(Waiter)
      /\ Len(Tail(ch.wait)) = Len(ch.wait) - 1
      /\ \A k \in 1..Len(Tail(ch.wait)) : Tail(ch.wait)[k] = ch.wait[k + 1]
  BY <1>1, HeadTailProperties
<1>4. ch.wait[1] \in Waiter
  BY <1>1, <1>2, ElementOfSeq
<1>5. DOMAIN Tail(ch.wait) = 1..(Len(ch.wait) - 1)
  BY <1>3, LenProperties
<1> QED  BY <1>1, <1>2, <1>3, <1>4, <1>5

\* Replacing the buffer and the queue of a channel.
LEMMA ChannelUpdate ==
    ASSUME NEW ch \in Channel, NEW b \in Seq(Payload), NEW w \in Seq(Waiter)
    PROVE  /\ [ch EXCEPT !.wait = w] \in Channel
           /\ [ch EXCEPT !.buffer = b] \in Channel
           /\ [ch EXCEPT !.buffer = b, !.wait = w] \in Channel
           /\ [ch EXCEPT !.closed = TRUE, !.wait = w] \in Channel
  BY DEF Channel

\* Taking the first waiter off an open channel's queue.
LEMMA TakeWaiter ==
    ASSUME NEW ch \in Channel, SendersLoaded(ch), ChannelCoherent(ch), ch.wait # <<>>
    PROVE  /\ [ch EXCEPT !.wait = Tail(ch.wait)] \in Channel
           /\ SendersLoaded([ch EXCEPT !.wait = Tail(ch.wait)])
           /\ ChannelCoherent([ch EXCEPT !.wait = Tail(ch.wait)])
<1> DEFINE new == [ch EXCEPT !.wait = Tail(ch.wait)]
<1>1. new \in Channel
  BY WaitFront, ChannelUpdate DEF Channel
<1>2. new.wait = Tail(ch.wait) /\ new.buffer = ch.buffer /\ new.room = ch.room /\ new.closed = ch.closed
  BY DEF Channel
<1> HIDE DEF new
<1>3. \A k \in DOMAIN new.wait : k + 1 \in DOMAIN ch.wait /\ new.wait[k] = ch.wait[k + 1]
  BY <1>2, WaitFront
<1>4. SendersLoaded(new)
  BY <1>3 DEF SendersLoaded, ParkedSenders
<1>5. ChannelCoherent(new)
  BY <1>2, <1>3 DEF ChannelCoherent
<1> QED  BY <1>1, <1>4, <1>5 DEF new

\* Parking one more task on an open channel.
LEMMA ParkWaiter ==
    ASSUME NEW ch \in Channel, SendersLoaded(ch), ChannelCoherent(ch), ~ch.closed,
           NEW w \in Waiter,
           w.kind = "Sender" => w.payload \in Payload /\ Len(ch.buffer) >= ch.room
                                /\ ~FrontIs(ch, "Receiver"),
           w.kind = "Receiver" => ch.buffer = <<>> /\ ~FrontIs(ch, "Sender")
    PROVE  /\ [ch EXCEPT !.wait = Append(ch.wait, w)] \in Channel
           /\ SendersLoaded([ch EXCEPT !.wait = Append(ch.wait, w)])
           /\ ChannelCoherent([ch EXCEPT !.wait = Append(ch.wait, w)])
<1> DEFINE new == [ch EXCEPT !.wait = Append(ch.wait, w)]
<1>1. /\ ch.wait \in Seq(Waiter) /\ ch.buffer \in Seq(Payload) /\ ch.room \in Nat
      /\ Len(ch.wait) \in Nat /\ DOMAIN ch.wait = 1..Len(ch.wait) /\ Len(ch.buffer) \in Nat
  <2>1. ch.wait \in Seq(Waiter) /\ ch.buffer \in Seq(Payload) /\ ch.room \in Nat
    BY DEF Channel
  <2> QED  BY <2>1, LenProperties
<1>2. /\ Append(ch.wait, w) \in Seq(Waiter)
      /\ DOMAIN Append(ch.wait, w) = 1..(Len(ch.wait) + 1)
      /\ Append(ch.wait, w)[Len(ch.wait) + 1] = w
      /\ \A k \in 1..Len(ch.wait) : Append(ch.wait, w)[k] = ch.wait[k]
  BY <1>1, AppendProperties, LenProperties
<1>3. new \in Channel
  BY <1>2, ChannelUpdate, <1>1
<1>4. new.wait = Append(ch.wait, w) /\ new.buffer = ch.buffer /\ new.room = ch.room /\ new.closed = ch.closed
  BY DEF Channel
<1> HIDE DEF new
<1>5. \A k \in DOMAIN new.wait : (k \in DOMAIN ch.wait /\ new.wait[k] = ch.wait[k]) \/ new.wait[k] = w
  BY <1>1, <1>2, <1>4
<1>6. SendersLoaded(new)
  BY <1>5 DEF SendersLoaded, ParkedSenders
<1>7. \A k \in DOMAIN ch.wait : ch.wait[k].kind = w.kind
  <2>1. SUFFICES ASSUME NEW k \in DOMAIN ch.wait PROVE ch.wait[k].kind = w.kind
    OBVIOUS
  <2>2. ch.wait # <<>>
    BY <1>1, <2>1, EmptySeq
  <2>3. Head(ch.wait) \in Waiter /\ Head(ch.wait).kind = ch.wait[k].kind
    BY <2>1, <2>2, WaitFront DEF ChannelCoherent
  <2> QED  BY <2>2, <2>3 DEF FrontIs, Waiter
<1>8. ChannelCoherent(new)
  <2>1. \A k \in DOMAIN new.wait : new.wait[k].kind = w.kind
    BY <1>5, <1>7
  <2>2. w.kind = "Sender" => Len(ch.buffer) = ch.room
    BY <1>1 DEF ChannelCoherent
  <2> QED  BY <1>4, <2>1, <2>2 DEF ChannelCoherent
<1> QED  BY <1>3, <1>6, <1>8 DEF new

\* The types of a channel's parts.
LEMMA ChannelParts ==
    ASSUME NEW ch \in Channel
    PROVE  /\ ch.wait \in Seq(Waiter) /\ ch.buffer \in Seq(Payload) /\ ch.room \in Nat
           /\ ch.closed \in BOOLEAN
           /\ Len(ch.wait) \in Nat /\ DOMAIN ch.wait = 1..Len(ch.wait)
           /\ Len(ch.buffer) \in Nat /\ DOMAIN ch.buffer = 1..Len(ch.buffer)
<1>1. ch.wait \in Seq(Waiter) /\ ch.buffer \in Seq(Payload) /\ ch.room \in Nat /\ ch.closed \in BOOLEAN
  BY DEF Channel
<1> QED  BY <1>1, LenProperties

\* A waiter at the front of the queue that is not of one kind is of the other.
LEMMA FrontKind ==
    ASSUME NEW ch \in Channel, ch.wait # <<>>
    PROVE  FrontIs(ch, "Sender") \/ FrontIs(ch, "Receiver")
  BY WaitFront DEF FrontIs, Waiter

\* Buffering a payload: nobody can be waiting.
LEMMA PushPayload ==
    ASSUME NEW ch \in Channel, ChannelCoherent(ch), ~ch.closed, NEW p \in Payload,
           ~FrontIs(ch, "Receiver"), Len(ch.buffer) < ch.room
    PROVE  LET new == [ch EXCEPT !.buffer = Append(ch.buffer, p)]
           IN  /\ ch.wait = <<>>
               /\ new \in Channel /\ SendersLoaded(new) /\ ChannelCoherent(new)
               /\ new.wait = <<>> /\ Len(new.buffer) = Len(ch.buffer) + 1
<1> DEFINE new == [ch EXCEPT !.buffer = Append(ch.buffer, p)]
<1>1. ch.wait = <<>>
  <2>1. SUFFICES ASSUME ch.wait # <<>> PROVE FALSE
    OBVIOUS
  <2>2. Head(ch.wait).kind = "Sender"
    BY <2>1, FrontKind DEF FrontIs
  <2> QED  BY <2>1, <2>2, WaitFront, ChannelParts DEF ChannelCoherent
<1>2. Append(ch.buffer, p) \in Seq(Payload) /\ Len(Append(ch.buffer, p)) = Len(ch.buffer) + 1
  BY ChannelParts, AppendProperties
<1>3. new \in Channel
  BY <1>2, ChannelUpdate, ChannelParts
<1>4. new.wait = <<>> /\ new.buffer = Append(ch.buffer, p) /\ new.room = ch.room /\ new.closed = ch.closed
  BY <1>1 DEF Channel
<1> HIDE DEF new
<1>5. DOMAIN new.wait = {}
  BY <1>4
<1>6. SendersLoaded(new) /\ ChannelCoherent(new)
  BY <1>2, <1>4, <1>5, ChannelParts DEF SendersLoaded, ParkedSenders, ChannelCoherent
<1> QED  BY <1>1, <1>2, <1>3, <1>4, <1>6 DEF new

\* Taking the oldest payload of a channel nobody waits on.
LEMMA PopPayload ==
    ASSUME NEW ch \in Channel, ChannelCoherent(ch), ch.buffer # <<>>, ch.wait = <<>>
    PROVE  LET new == [ch EXCEPT !.buffer = Tail(ch.buffer)]
           IN  /\ new \in Channel /\ SendersLoaded(new)
               /\ ~(new.closed /\ new.buffer = <<>>) => ChannelCoherent(new)
               /\ new.wait = <<>> /\ Len(new.buffer) = Len(ch.buffer) - 1
               /\ Head(ch.buffer) \in Payload
<1> DEFINE new == [ch EXCEPT !.buffer = Tail(ch.buffer)]
<1>1. Tail(ch.buffer) \in Seq(Payload) /\ Len(Tail(ch.buffer)) = Len(ch.buffer) - 1
      /\ Head(ch.buffer) \in Payload
  BY ChannelParts, HeadTailProperties
<1>2. new \in Channel
  BY <1>1, ChannelUpdate, ChannelParts
<1>3. new.wait = <<>> /\ new.buffer = Tail(ch.buffer) /\ new.room = ch.room /\ new.closed = ch.closed
  BY DEF Channel
<1> HIDE DEF new
<1>4. DOMAIN new.wait = {}
  BY <1>3
<1>5. SendersLoaded(new) /\ (~(new.closed /\ new.buffer = <<>>) => ChannelCoherent(new))
  BY <1>1, <1>3, <1>4, ChannelParts DEF SendersLoaded, ParkedSenders, ChannelCoherent
<1> QED  BY <1>1, <1>2, <1>3, <1>5 DEF new

\* Taking the oldest payload of a channel a task waits on: the task is a sender,
\* and its payload fills the slot.
LEMMA RefillBuffer ==
    ASSUME NEW ch \in Channel, SendersLoaded(ch), ChannelCoherent(ch),
           ch.buffer # <<>>, ch.wait # <<>>
    PROVE  LET new == [ch EXCEPT !.buffer = Append(Tail(ch.buffer), Head(ch.wait).payload),
                                 !.wait = Tail(ch.wait)]
           IN  /\ Head(ch.wait).kind = "Sender"
               /\ ~ch.closed /\ ~new.closed
               /\ new \in Channel /\ SendersLoaded(new) /\ ChannelCoherent(new)
               /\ new.wait = Tail(ch.wait) /\ Len(new.buffer) = Len(ch.buffer)
               /\ Head(ch.buffer) \in Payload
               /\ Head(ch.wait).payload \in Payload
<1> DEFINE new == [ch EXCEPT !.buffer = Append(Tail(ch.buffer), Head(ch.wait).payload),
                             !.wait = Tail(ch.wait)]
<1>1. Head(ch.wait).kind = "Sender"
  BY FrontKind, WaitFront DEF FrontIs, ChannelCoherent
<1>2. Head(ch.wait).payload \in Payload
  BY <1>1, WaitFront DEF SendersLoaded, ParkedSenders
<1>3. /\ Tail(ch.buffer) \in Seq(Payload)
      /\ Len(Tail(ch.buffer)) = Len(ch.buffer) - 1
      /\ Head(ch.buffer) \in Payload
  BY ChannelParts, HeadTailProperties
<1>4. /\ Append(Tail(ch.buffer), Head(ch.wait).payload) \in Seq(Payload)
      /\ Len(Append(Tail(ch.buffer), Head(ch.wait).payload)) = Len(ch.buffer)
  BY <1>2, <1>3, AppendProperties, ChannelParts
<1>5. new \in Channel
  BY <1>4, ChannelUpdate, WaitFront
<1>6. /\ new.wait = Tail(ch.wait) /\ new.room = ch.room /\ new.closed = ch.closed
      /\ Len(new.buffer) = Len(ch.buffer)
  BY <1>4 DEF Channel
<1> HIDE DEF new
<1>7. \A k \in DOMAIN new.wait : k + 1 \in DOMAIN ch.wait /\ new.wait[k] = ch.wait[k + 1]
  BY <1>6, WaitFront
<1>8. \A k \in DOMAIN ch.wait : ch.wait[k].kind = "Sender"
  BY <1>1, WaitFront DEF ChannelCoherent
<1>9. Len(ch.buffer) = ch.room /\ ~ch.closed
  BY <1>1, WaitFront DEF ChannelCoherent
<1>10. SendersLoaded(new) /\ ChannelCoherent(new)
  BY <1>6, <1>7, <1>8, <1>9, ChannelParts DEF SendersLoaded, ParkedSenders, ChannelCoherent
<1> QED  BY <1>1, <1>2, <1>3, <1>5, <1>6, <1>9, <1>10 DEF new

\* Closing a channel empties its queue.
LEMMA ShutChannel ==
    ASSUME NEW ch \in Channel, ChannelCoherent(ch)
    PROVE  LET new == [ch EXCEPT !.closed = TRUE, !.wait = <<>>]
           IN  /\ new \in Channel /\ SendersLoaded(new)
               /\ ~(new.closed /\ new.buffer = <<>>) => ChannelCoherent(new)
               /\ new.wait = <<>> /\ new.buffer = ch.buffer /\ new.closed
<1> DEFINE new == [ch EXCEPT !.closed = TRUE, !.wait = <<>>]
<1>1. new \in Channel
  BY ChannelUpdate, ChannelParts, EmptySeq
<1>2. new.wait = <<>> /\ new.buffer = ch.buffer /\ new.room = ch.room /\ new.closed
  BY DEF Channel
<1> HIDE DEF new
<1>3. DOMAIN new.wait = {}
  BY <1>2
<1>4. SendersLoaded(new) /\ (~(new.closed /\ new.buffer = <<>>) => ChannelCoherent(new))
  BY <1>2, <1>3 DEF SendersLoaded, ParkedSenders, ChannelCoherent
<1> QED  BY <1>1, <1>2, <1>4 DEF new

-----------------------------------------------------------------------------
(***************************************************************************)
(* Every operation returns a well-formed transition and, unless a budget   *)
(* is used up, succeeds.                                                   *)
(***************************************************************************)
Sound(t) == t \in Transition /\ t.fault \in BudgetFaults \cup {"none"}

\* A successful answer, with the wakes that go with it.
LEMMA ReadySound ==
    ASSUME NEW answer \in Answer, NEW wakes \in Seq(Wake)
    PROVE  Sound(Ready(answer, wakes))
<1>1. Ready(answer, wakes) \in Transition
  BY Zenon DEF Ready, Transition
<1>2. Ready(answer, wakes).fault = "none"
  BY Zenon DEF Ready
<1> QED  BY <1>1, <1>2 DEF Sound

\* The answers send, recv and close give.
LEMMA Answers ==
    /\ \A tag \in {"True", "False", "Some", "None", "Unit"} : Plain(tag) \in Answer
    /\ \A p \in Payload : Some(p) \in Answer
    /\ <<>> \in Seq(Wake)
    /\ \A w \in Wake : <<w>> \in Seq(Wake)
<1>1. \A tag \in {"True", "False", "Some", "None", "Unit"} : Plain(tag) \in Answer
  BY DEF Plain, Answer
<1>2. \A p \in Payload : Some(p) \in Answer
  BY DEF Some, Answer
<1>3. <<>> \in Seq(Wake) /\ \A w \in Wake : <<w>> \in Seq(Wake)
  OBVIOUS
<1> QED  BY <1>1, <1>2, <1>3

\* A task that parks, or that a budget stops.
LEMMA OtherSound ==
    /\ Sound(Parked)
    /\ \A e \in BudgetFaults : Sound(Failed(e))
<1>1. Plain("Unit") \in Answer /\ <<>> \in Seq(Wake)
  BY Answers
<1>2. Parked \in Transition /\ Parked.fault = "none"
  BY <1>1, Zenon DEF Parked, Transition
<1>3. \A e \in BudgetFaults : Failed(e) \in Transition /\ Failed(e).fault = e
  BY <1>1, Zenon DEF Failed, Transition
<1> QED  BY <1>2, <1>3 DEF Sound

\* Storing or releasing a channel keeps the table in order.
LEMMA StoreOrReleaseKeepsTable ==
    ASSUME TableInv, NEW i \in Occupied, NEW ch \in Channel,
           SendersLoaded(ch), ~(ch.closed /\ ch.buffer = <<>>) => ChannelCoherent(ch),
           StoreOrRelease(i, ch), handles' = handles
    PROVE  TableInv'
  BY StoreKeepsTable, ReleaseKeepsTable DEF StoreOrRelease

\* An operation that changes nothing keeps the table in order.
LEMMA IdleKeepsTable ==
    ASSUME TableInv, UNCHANGED <<table, handles>>
    PROVE  TableInv'
  BY DEF TableInv, table, Coherent, FreeListExact, HandlesOld, Occupied

\* send keeps the table in order and never meets an internal error.
LEMMA SendStep ==
    ASSUME TableInv, NEW h \in handles, NEW p \in Payload, NEW c \in Continuation,
           Send(h, p, c)
    PROVE  TableInv' /\ Sound(transition')
<1>1. CASE SendRefused(h)
  BY <1>1, IdleKeepsTable, ReadySound, Answers DEF SendRefused
<1>2. CASE SendExhausted(h)
  BY <1>2, IdleKeepsTable, OtherSound DEF SendExhausted, BudgetFaults
<1>3. CASE SendHandoff(h, p)
  <2>1. Live(h) /\ At(h).wait # <<>> /\ handles' = handles
    BY <1>3 DEF SendHandoff, Sendable, FrontIs
  <2>2. TableInv'
    BY <1>3, <2>1, LiveRow, TakeWaiter, StoreKeepsTable DEF SendHandoff
  <2>3. [continuation |-> Head(At(h).wait).continuation, answer |-> Some(p)] \in Wake
    BY <2>1, LiveRow, WaitFront, Answers DEF Wake, Waiter
  <2> QED  BY <1>3, <2>2, <2>3, ReadySound, Answers DEF SendHandoff
<1>4. CASE SendBuffered(h, p)
  <2>1. Live(h) /\ ~At(h).closed /\ handles' = handles
    BY <1>4 DEF SendBuffered, Sendable
  <2>2. TableInv'
    BY <1>4, <2>1, LiveRow, PushPayload, StoreKeepsTable DEF SendBuffered
  <2> QED  BY <1>4, <2>2, ReadySound, Answers DEF SendBuffered
<1>5. CASE SendParked(h, p, c)
  <2>1. Live(h) /\ ~At(h).closed /\ handles' = handles
    BY <1>5 DEF SendParked, Sendable
  <2>2. /\ Sender(c, p) \in Waiter
        /\ Sender(c, p).kind = "Sender"
        /\ Sender(c, p).payload \in Payload
    BY DEF Sender, Waiter
  <2>3. TableInv'
    BY <1>5, <2>1, <2>2, LiveRow, ParkWaiter, StoreKeepsTable DEF SendParked
  <2> QED  BY <1>5, <2>3, OtherSound DEF SendParked
<1> QED  BY <1>1, <1>2, <1>3, <1>4, <1>5 DEF Send

\* recv keeps the table in order and never meets an internal error.
LEMMA RecvStep ==
    ASSUME TableInv, NEW h \in handles, NEW c \in Continuation, Recv(h, c)
    PROVE  TableInv' /\ Sound(transition')
<1>1. CASE RecvStale(h)
  BY <1>1, IdleKeepsTable, ReadySound, Answers DEF RecvStale
<1>2. CASE RecvExhausted(h)
  BY <1>2, IdleKeepsTable, OtherSound DEF RecvExhausted, BudgetFaults
<1>3. CASE RecvBuffered(h)
  <2>1. Live(h) /\ handles' = handles
    BY <1>3 DEF RecvBuffered
  <2>2. TableInv'
    BY <1>3, <2>1, LiveRow, PopPayload, StoreOrReleaseKeepsTable DEF RecvBuffered
  <2>3. Head(At(h).buffer) \in Payload
    BY <1>3, <2>1, LiveRow, PopPayload DEF RecvBuffered
  <2> QED  BY <1>3, <2>2, <2>3, ReadySound, Answers DEF RecvBuffered
<1>4. CASE RecvRefilled(h)
  <2>1. Live(h) /\ handles' = handles /\ At(h).buffer # <<>> /\ At(h).wait # <<>>
    BY <1>4 DEF RecvRefilled, Refilled
  <2>2. Head(At(h).wait).kind = "Sender" /\ Head(At(h).buffer) \in Payload
    BY <2>1, LiveRow, RefillBuffer
  <2>3. TableInv'
    BY <1>4, <2>1, <2>2, LiveRow, RefillBuffer, StoreOrReleaseKeepsTable DEF RecvRefilled, Refilled
  <2>4. [continuation |-> Head(At(h).wait).continuation, answer |-> Plain("True")] \in Wake
    BY <2>1, LiveRow, WaitFront, Answers DEF Wake, Waiter
  <2> QED  BY <1>4, <2>2, <2>3, <2>4, ReadySound, Answers DEF RecvRefilled, Refilled
<1>5. CASE RecvHandoff(h)
  <2>1. Live(h) /\ At(h).wait # <<>> /\ handles' = handles /\ Head(At(h).wait).kind = "Sender"
    BY <1>5 DEF RecvHandoff, FrontIs
  <2>2. TableInv'
    BY <1>5, <2>1, LiveRow, TakeWaiter, StoreKeepsTable DEF RecvHandoff
  <2>3. [continuation |-> Head(At(h).wait).continuation, answer |-> Plain("True")] \in Wake
    BY <2>1, LiveRow, WaitFront, Answers DEF Wake, Waiter
  <2>4. Head(At(h).wait).payload \in Payload
    BY <2>1, LiveRow, WaitFront DEF SendersLoaded, ParkedSenders
  <2> QED  BY <1>5, <2>2, <2>3, <2>4, ReadySound, Answers DEF RecvHandoff
<1>6. CASE RecvEmpty(h, c)
  <2>1. Live(h) /\ handles' = handles /\ At(h).buffer = <<>> /\ ~FrontIs(At(h), "Sender")
    BY <1>6 DEF RecvEmpty
  <2>2. ~At(h).closed
    BY <2>1, LiveRow DEF ChannelCoherent
  <2>3. Receiver(c) \in Waiter /\ Receiver(c).kind = "Receiver"
    BY DEF Receiver, Waiter
  <2>4. Store(h.index, [At(h) EXCEPT !.wait = Append(At(h).wait, Receiver(c))])
        /\ transition' = Parked
    BY <1>6, <2>2 DEF RecvEmpty
  <2>5. TableInv'
    BY <2>1, <2>2, <2>3, <2>4, LiveRow, ParkWaiter, StoreKeepsTable
  <2> QED  BY <2>4, <2>5, OtherSound
<1> QED  BY <1>1, <1>2, <1>3, <1>4, <1>5, <1>6 DEF Recv

\* close keeps the table in order and wakes every waiter once, in order.
LEMMA CloseStep ==
    ASSUME TableInv, NEW h \in handles, Close(h)
    PROVE  TableInv' /\ Sound(transition')
<1>1. CASE CloseIgnored(h)
  BY <1>1, IdleKeepsTable, ReadySound, Answers DEF CloseIgnored
<1>2. CASE CloseOpen(h)
  <2>1. Live(h) /\ handles' = handles
    BY <1>2 DEF CloseOpen, Sendable
  <2>2. TableInv'
    BY <1>2, <2>1, LiveRow, ShutChannel, StoreOrReleaseKeepsTable DEF CloseOpen
  <2>3. At(h).wait \in Seq(Waiter)
    BY <2>1, LiveRow, ChannelParts
  <2>4. \A k \in 1..Len(At(h).wait) : Dismissal(At(h).wait[k]) \in Wake
    <3>1. \A k \in 1..Len(At(h).wait) : At(h).wait[k] \in Waiter
      BY <2>3, ElementOfSeq
    <3> QED  BY <3>1, Answers DEF Dismissal, Wake, Waiter
  <2>5. [k \in 1..Len(At(h).wait) |-> Dismissal(At(h).wait[k])] \in Seq(Wake)
    BY <2>3, <2>4, LenProperties
  <2> QED  BY <1>2, <2>2, <2>5, ReadySound, Answers DEF CloseOpen
<1> QED  BY <1>1, <1>2 DEF Close

-----------------------------------------------------------------------------
(***************************************************************************)
(* Counting what the table holds.                                          *)
(***************************************************************************)

\* One column of n slots.
LEMMA ColumnSize ==
    ASSUME NEW i, NEW n \in Nat
    PROVE  IsFiniteSet({i} \X (1..n)) /\ Cardinality({i} \X (1..n)) = n
<1>1. IsFiniteSet(1..n) /\ Cardinality(1..n) = n
  BY FS_Interval
<1>2. IsFiniteSet({i}) /\ Cardinality({i}) = 1
  BY FS_Singleton
<1> QED  BY <1>1, <1>2, FS_Product

\* S is one column of n slots beside the columns of rest.
Columns(S, rest, i, n) ==
    /\ S = rest \cup ({i} \X (1..n))
    /\ \A s \in rest : s[1] # i

\* Replacing one column of a family of columns by another.
LEMMA ColumnChange ==
    ASSUME NEW S, NEW T, NEW i, NEW m \in Nat, NEW n \in Nat, NEW rest,
           IsFiniteSet(S),
           Columns(S, rest, i, m), Columns(T, rest, i, n)
    PROVE  /\ IsFiniteSet(T)
           /\ Cardinality(T) = Cardinality(S) - m + n
           /\ m <= Cardinality(S)
<1> DEFINE old == {i} \X (1..m)
           new == {i} \X (1..n)
<1>1. rest \cap old = {} /\ rest \cap new = {} /\ S = rest \cup old /\ T = rest \cup new
  BY DEF Columns
<1>2. /\ IsFiniteSet(old) /\ Cardinality(old) = m
      /\ IsFiniteSet(new) /\ Cardinality(new) = n
  BY ColumnSize
<1> HIDE DEF old, new
<1>4. rest \in SUBSET S
  BY <1>1
<1>5. IsFiniteSet(rest) /\ Cardinality(rest) \in Nat
  BY <1>4, FS_Subset, FS_CardinalityType
<1>6. Cardinality({}) = 0
  BY FS_EmptySet
<1>7. Cardinality(rest \cup old) = Cardinality(rest) + Cardinality(old) - Cardinality(rest \cap old)
  BY <1>2, <1>5, FS_Union
<1>8. IsFiniteSet(rest \cup new)
      /\ Cardinality(rest \cup new) = Cardinality(rest) + Cardinality(new) - Cardinality(rest \cap new)
  BY <1>2, <1>5, FS_Union
<1>9. /\ Cardinality(rest \cap old) = 0 /\ Cardinality(rest \cap new) = 0
      /\ Cardinality(S) = Cardinality(rest \cup old)
      /\ Cardinality(T) = Cardinality(rest \cup new)
  BY <1>1, <1>6, Zenon
<1>10. IsFiniteSet(T)
  BY <1>1, <1>8, Zenon
<1> QED  BY <1>10, <1>2, <1>5, <1>7, <1>8, <1>9

SenderCount(ch) == IF FrontIs(ch, "Sender") THEN Len(ch.wait) ELSE 0

\* Waiters of one kind: the parked senders are all of them or none.
LEMMA SendersColumn ==
    ASSUME NEW ch \in Channel,
           \A j, k \in DOMAIN ch.wait : ch.wait[j].kind = ch.wait[k].kind
    PROVE  ParkedSenders(ch) = 1..SenderCount(ch) /\ SenderCount(ch) \in Nat
<1>1. DOMAIN ch.wait = 1..Len(ch.wait) /\ Len(ch.wait) \in Nat
  BY ChannelParts
<1>2. CASE ch.wait = <<>>
  BY <1>1, <1>2, EmptySeq DEF ParkedSenders, SenderCount, FrontIs
<1>3. CASE ch.wait # <<>>
  <2>1. 1 \in DOMAIN ch.wait /\ Head(ch.wait) = ch.wait[1]
    BY <1>3, WaitFront
  <2> QED  BY <1>1, <1>3, <2>1 DEF ParkedSenders, SenderCount, FrontIs
<1> QED  BY <1>2, <1>3

Finite == IsFiniteSet(BufferSlots) /\ IsFiniteSet(WaitSlots) /\ IsFiniteSet(SenderSlots)

\* Storing or releasing one channel changes the three counts by what it holds.
LEMMA Counted ==
    ASSUME TableInv, Finite, NEW i \in Occupied, NEW ch \in Channel,
           StoreOrRelease(i, ch),
           \A j, k \in DOMAIN ch.wait : ch.wait[j].kind = ch.wait[k].kind,
           ch.closed /\ ch.buffer = <<>> => ch.wait = <<>>
    PROVE  LET old == rows[i].channel
           IN  /\ Finite'
               /\ Cardinality(BufferSlots)' = Cardinality(BufferSlots) - Len(old.buffer) + Len(ch.buffer)
               /\ Cardinality(WaitSlots)' = Cardinality(WaitSlots) - Len(old.wait) + Len(ch.wait)
               /\ Cardinality(SenderSlots)' = Cardinality(SenderSlots) - SenderCount(old) + SenderCount(ch)
<1> DEFINE old == rows[i].channel
           others == Occupied \ {i}
           restB == UNION {{j} \X DOMAIN rows[j].channel.buffer : j \in others}
           restW == UNION {{j} \X DOMAIN rows[j].channel.wait : j \in others}
           restS == UNION {{j} \X ParkedSenders(rows[j].channel) : j \in others}
<1>1. i \in DOMAIN rows /\ old \in Channel /\ ChannelCoherent(old)
  <2>1. i \in DOMAIN rows /\ rows[i] \in Row /\ old # NoChannel
    BY ElementOfSeq, LenProperties DEF TableInv, Occupied
  <2> QED  BY <2>1 DEF Row, TableInv, Coherent
<1>2. /\ DOMAIN old.buffer = 1..Len(old.buffer) /\ Len(old.buffer) \in Nat
      /\ DOMAIN old.wait = 1..Len(old.wait) /\ Len(old.wait) \in Nat
      /\ ParkedSenders(old) = 1..SenderCount(old) /\ SenderCount(old) \in Nat
  BY <1>1, ChannelParts, SendersColumn DEF ChannelCoherent
<1>3. /\ DOMAIN ch.buffer = 1..Len(ch.buffer) /\ Len(ch.buffer) \in Nat
      /\ DOMAIN ch.wait = 1..Len(ch.wait) /\ Len(ch.wait) \in Nat
      /\ ParkedSenders(ch) = 1..SenderCount(ch) /\ SenderCount(ch) \in Nat
  BY ChannelParts, SendersColumn
<1>4. /\ BufferSlots = restB \cup ({i} \X (1..Len(old.buffer)))
      /\ WaitSlots = restW \cup ({i} \X (1..Len(old.wait)))
      /\ SenderSlots = restS \cup ({i} \X (1..SenderCount(old)))
  BY <1>2 DEF BufferSlots, WaitSlots, SenderSlots
<1>5. /\ BufferSlots' = restB \cup ({i} \X (1..Len(ch.buffer)))
      /\ WaitSlots' = restW \cup ({i} \X (1..Len(ch.wait)))
      /\ SenderSlots' = restS \cup ({i} \X (1..SenderCount(ch)))
  <2>1. CASE Store(i, ch)
    <3>1. /\ DOMAIN rows' = DOMAIN rows
          /\ rows'[i].channel = ch
          /\ \A j \in DOMAIN rows : j # i => rows'[j] = rows[j]
      BY <1>1, <2>1, RowUpdate DEF TableInv, Store
    <3>2. Occupied' = others \cup {i}
      BY <1>1, <3>1, NoChannelAssumption DEF Occupied
    <3>3. \A j \in others : rows'[j] = rows[j]
      BY <3>1 DEF Occupied
    <3> HIDE DEF others
    <3> QED  BY <1>3, <3>1, <3>2, <3>3 DEF BufferSlots, WaitSlots, SenderSlots
  <2>2. CASE Release(i) /\ ch.closed /\ ch.buffer = <<>>
    <3>1. /\ DOMAIN rows' = DOMAIN rows
          /\ rows'[i].channel = NoChannel
          /\ \A j \in DOMAIN rows : j # i => rows'[j] = rows[j]
      BY <1>1, <2>2, RowUpdate DEF TableInv, Release
    <3>2. Occupied' = others
      BY <1>1, <3>1 DEF Occupied
    <3>3. \A j \in others : rows'[j] = rows[j]
      BY <3>1 DEF Occupied
    <3>4. Len(ch.buffer) = 0 /\ Len(ch.wait) = 0 /\ SenderCount(ch) = 0
      BY <2>2, EmptySeq DEF SenderCount, FrontIs
    <3>5. {i} \X (1..0) = {}
      OBVIOUS
    <3> HIDE DEF others
    <3> QED  BY <3>2, <3>3, <3>4, <3>5 DEF BufferSlots, WaitSlots, SenderSlots
  <2> QED  BY <2>1, <2>2 DEF StoreOrRelease
<1>6. /\ \A s \in restB : s[1] # i
      /\ \A s \in restW : s[1] # i
      /\ \A s \in restS : s[1] # i
  OBVIOUS
<1> HIDE DEF restB, restW, restS, old
<1>7. /\ IsFiniteSet(BufferSlots')
      /\ Cardinality(BufferSlots') = Cardinality(BufferSlots) - Len(old.buffer) + Len(ch.buffer)
  <2>1. Columns(BufferSlots, restB, i, Len(old.buffer)) /\ Columns(BufferSlots', restB, i, Len(ch.buffer))
    BY <1>4, <1>5, <1>6 DEF Columns
  <2> QED  BY <1>2, <1>3, <2>1, ColumnChange DEF Finite
<1>8. /\ IsFiniteSet(WaitSlots')
      /\ Cardinality(WaitSlots') = Cardinality(WaitSlots) - Len(old.wait) + Len(ch.wait)
  <2>1. Columns(WaitSlots, restW, i, Len(old.wait)) /\ Columns(WaitSlots', restW, i, Len(ch.wait))
    BY <1>4, <1>5, <1>6 DEF Columns
  <2> QED  BY <1>2, <1>3, <2>1, ColumnChange DEF Finite
<1>9. /\ IsFiniteSet(SenderSlots')
      /\ Cardinality(SenderSlots') = Cardinality(SenderSlots) - SenderCount(old) + SenderCount(ch)
  <2>1. Columns(SenderSlots, restS, i, SenderCount(old)) /\ Columns(SenderSlots', restS, i, SenderCount(ch))
    BY <1>4, <1>5, <1>6 DEF Columns
  <2> QED  BY <1>2, <1>3, <2>1, ColumnChange DEF Finite
<1> QED  BY <1>7, <1>8, <1>9 DEF Finite, old

\* How the number of parked senders changes with the queue.
LEMMA SenderCounts ==
    ASSUME NEW ch \in Channel, ChannelCoherent(ch), NEW new \in Channel
    PROVE  /\ new.wait = ch.wait => SenderCount(new) = SenderCount(ch)
           /\ new.wait = <<>> => SenderCount(new) = 0
           /\ ch.wait # <<>> /\ new.wait = Tail(ch.wait) =>
                 SenderCount(new) = IF FrontIs(ch, "Sender") THEN SenderCount(ch) - 1
                                                             ELSE SenderCount(ch)
           /\ \A w \in Waiter :
                 new.wait = Append(ch.wait, w) /\ (w.kind = "Sender" => ~FrontIs(ch, "Receiver"))
                                             /\ (w.kind = "Receiver" => ~FrontIs(ch, "Sender")) =>
                 SenderCount(new) = IF w.kind = "Sender" THEN SenderCount(ch) + 1
                                                         ELSE SenderCount(ch)
<1>1. new.wait = ch.wait => SenderCount(new) = SenderCount(ch)
  BY DEF SenderCount, FrontIs
<1>2. new.wait = <<>> => SenderCount(new) = 0
  BY DEF SenderCount, FrontIs
<1>3. ASSUME ch.wait # <<>>, new.wait = Tail(ch.wait)
      PROVE  SenderCount(new) = IF FrontIs(ch, "Sender") THEN SenderCount(ch) - 1
                                                         ELSE SenderCount(ch)
  <2>1. Len(new.wait) = Len(ch.wait) - 1 /\ Len(ch.wait) \in Nat \ {0}
    BY <1>3, WaitFront
  <2>2. CASE new.wait = <<>>
    BY <2>1, <2>2 DEF SenderCount, FrontIs
  <2>3. CASE new.wait # <<>>
    <3>1. Head(new.wait) = new.wait[1] /\ 1 \in DOMAIN new.wait
      BY <2>3, WaitFront
    <3>2. new.wait[1] = ch.wait[2] /\ 2 \in DOMAIN ch.wait /\ 1 \in DOMAIN ch.wait
          /\ Head(ch.wait) = ch.wait[1]
      BY <1>3, <3>1, WaitFront
    <3>3. FrontIs(new, "Sender") <=> FrontIs(ch, "Sender")
      BY <1>3, <2>3, <3>1, <3>2 DEF FrontIs, ChannelCoherent
    <3> QED  BY <2>1, <3>3 DEF SenderCount
  <2> QED  BY <2>2, <2>3
<1>4. ASSUME NEW w \in Waiter, new.wait = Append(ch.wait, w),
             w.kind = "Sender" => ~FrontIs(ch, "Receiver"),
             w.kind = "Receiver" => ~FrontIs(ch, "Sender")
      PROVE  SenderCount(new) = IF w.kind = "Sender" THEN SenderCount(ch) + 1
                                                     ELSE SenderCount(ch)
  <2>1. Len(new.wait) = Len(ch.wait) + 1 /\ Len(ch.wait) \in Nat /\ new.wait # <<>>
    BY <1>4, ChannelParts, AppendProperties, EmptySeq
  <2>2. Head(new.wait) = IF ch.wait = <<>> THEN w ELSE Head(ch.wait)
    BY <1>4, ChannelParts
  <2>3. w.kind \in {"Sender", "Receiver"}
    BY DEF Waiter
  <2>4. CASE ch.wait = <<>>
    BY <2>1, <2>2, <2>3, <2>4, EmptySeq DEF SenderCount, FrontIs
  <2>5. CASE ch.wait # <<>>
    <3>1. FrontIs(ch, w.kind)
      BY <1>4, <2>3, <2>5, FrontKind
    <3> QED  BY <2>1, <2>2, <2>3, <2>5, <3>1 DEF SenderCount, FrontIs
  <2> QED  BY <2>4, <2>5
<1> QED  BY <1>1, <1>2, <1>3, <1>4

CountInv == Finite /\ CountersExact

\* Counted, for an operation that updates the channel of a live handle.
LEMMA CountedAt ==
    ASSUME TableInv, CountInv, NEW h \in handles, Live(h), NEW new \in Channel,
           StoreOrRelease(h.index, new),
           \A j, k \in DOMAIN new.wait : new.wait[j].kind = new.wait[k].kind,
           new.closed /\ new.buffer = <<>> => new.wait = <<>>,
           payloads' = payloads + (Len(new.buffer) - Len(At(h).buffer))
                                + (SenderCount(new) - SenderCount(At(h))),
           waiters' = waiters + (Len(new.wait) - Len(At(h).wait)),
           payloads' <= payloads \/ (payloads < ArenaLimit /\ payloads' = payloads + 1),
           waiters' <= waiters \/ (waiters < ArenaLimit /\ waiters' = waiters + 1)
    PROVE  CountInv'
<1>1. At(h) = rows[h.index].channel /\ h.index \in Occupied /\ At(h) \in Channel
      /\ ChannelCoherent(At(h))
  BY LiveRow
<1>2. /\ Finite'
      /\ Cardinality(BufferSlots)' = Cardinality(BufferSlots) - Len(At(h).buffer) + Len(new.buffer)
      /\ Cardinality(WaitSlots)' = Cardinality(WaitSlots) - Len(At(h).wait) + Len(new.wait)
      /\ Cardinality(SenderSlots)' = Cardinality(SenderSlots) - SenderCount(At(h)) + SenderCount(new)
  BY <1>1, Counted DEF CountInv
<1>3. /\ Len(At(h).buffer) \in Nat /\ Len(new.buffer) \in Nat
      /\ Len(At(h).wait) \in Nat /\ Len(new.wait) \in Nat
      /\ SenderCount(At(h)) \in Nat /\ SenderCount(new) \in Nat
  BY <1>1, ChannelParts, SendersColumn DEF ChannelCoherent
<1>4. /\ Cardinality(BufferSlots) \in Nat /\ Cardinality(WaitSlots) \in Nat
      /\ Cardinality(SenderSlots) \in Nat
  BY FS_CardinalityType DEF CountInv, Finite
<1>5. ArenaLimit \in Nat
  BY ChannelAssumption
<1>6. /\ payloads = Cardinality(BufferSlots) + Cardinality(SenderSlots)
      /\ waiters = Cardinality(WaitSlots)
      /\ payloads <= ArenaLimit /\ waiters <= ArenaLimit
  BY DEF CountInv, CountersExact
<1>7. /\ payloads' = Cardinality(BufferSlots)' + Cardinality(SenderSlots)'
      /\ waiters' = Cardinality(WaitSlots)'
      /\ payloads' <= ArenaLimit /\ waiters' <= ArenaLimit
  <2> DEFINE oldB == Len(At(h).buffer)
             newB == Len(new.buffer)
             oldW == Len(At(h).wait)
             newW == Len(new.wait)
             oldS == SenderCount(At(h))
             newS == SenderCount(new)
  <2>0. /\ payloads' = payloads + (newB - oldB) + (newS - oldS)
        /\ waiters' = waiters + (newW - oldW)
        /\ payloads' <= payloads \/ (payloads < ArenaLimit /\ payloads' = payloads + 1)
        /\ waiters' <= waiters \/ (waiters < ArenaLimit /\ waiters' = waiters + 1)
    OBVIOUS
  <2>a. oldB \in Nat /\ newB \in Nat /\ oldW \in Nat /\ newW \in Nat /\ oldS \in Nat /\ newS \in Nat
    BY <1>3
  <2>b. /\ Cardinality(BufferSlots)' = Cardinality(BufferSlots) - oldB + newB
        /\ Cardinality(WaitSlots)' = Cardinality(WaitSlots) - oldW + newW
        /\ Cardinality(SenderSlots)' = Cardinality(SenderSlots) - oldS + newS
    BY <1>2
  <2> HIDE DEF oldB, newB, oldW, newW, oldS, newS
  <2>1. payloads \in Int /\ waiters \in Int
    BY <1>4, <1>6
  <2>2. payloads' \in Int /\ waiters' \in Int
    BY ONLY <2>0, <2>1, <2>a
  <2>3. payloads' = Cardinality(BufferSlots)' + Cardinality(SenderSlots)'
    BY ONLY <1>4, <1>6, <2>0, <2>a, <2>b
  <2>4. waiters' = Cardinality(WaitSlots)'
    BY ONLY <1>4, <1>6, <2>0, <2>a, <2>b
  <2>5. payloads' <= ArenaLimit /\ waiters' <= ArenaLimit
    BY ONLY <1>5, <1>6, <2>0, <2>1, <2>2
  <2> QED  BY <2>3, <2>4, <2>5
<1> QED  BY <1>2, <1>7 DEF CountInv, CountersExact

\* A coherent channel is stored, never released, by StoreOrRelease.
LEMMA StoreIsKept ==
    ASSUME NEW i, NEW ch, ChannelCoherent(ch), Store(i, ch)
    PROVE  /\ StoreOrRelease(i, ch)
           /\ ch.closed /\ ch.buffer = <<>> => ch.wait = <<>>
           /\ \A j, k \in DOMAIN ch.wait : ch.wait[j].kind = ch.wait[k].kind
  BY DEF StoreOrRelease, ChannelCoherent

\* An operation that changes nothing keeps the counts.
LEMMA IdleKeepsCount ==
    ASSUME CountInv, UNCHANGED table
    PROVE  CountInv'
  BY DEF CountInv, Finite, CountersExact, table, BufferSlots, WaitSlots, SenderSlots, Occupied

\* Row i, and no other, comes to hold a channel, an empty one.
Opened(i, room) ==
    /\ i \notin Occupied
    /\ Occupied' = Occupied \cup {i}
    /\ rows'[i].channel = NewChannel(room)
    /\ \A j \in Occupied : rows'[j] = rows[j]
    /\ payloads' = payloads /\ waiters' = waiters

\* open occupies one row more, with an empty channel, and leaves the others alone.
LEMMA OpenedRow ==
    ASSUME TableInv, NEW room \in Rooms, OpenReused(room) \/ OpenNew(room)
    PROVE  \E i : Opened(i, room)
<1>1. DOMAIN rows = 1..Len(rows) /\ Len(rows) \in Nat /\ DOMAIN free = 1..Len(free) /\ Len(free) \in Nat
  BY LenProperties DEF TableInv
<1>2. NewChannel(room) # NoChannel
  <2>1. <<>> \in Seq(Payload) /\ <<>> \in Seq(Waiter) /\ room \in Nat
    BY EmptySeq, ChannelAssumption
  <2>2. NewChannel(room) \in Channel
    BY <2>1, Zenon DEF NewChannel, Channel
  <2> QED  BY <2>2, NoChannelAssumption
<1>3. CASE OpenReused(room)
  <2> DEFINE i == free[Len(free)]
  <2>1. Len(free) \in DOMAIN free /\ i \in DOMAIN rows
    BY <1>1, <1>3, EmptySeq, ElementOfSeq DEF OpenReused, TableInv
  <2>2. rows[i].channel = NoChannel /\ rows[i].generation < MaxGeneration /\ rows[i] \in Row
    BY <1>1, <2>1, ElementOfSeq DEF TableInv, FreeListExact
  <2>3. rows[i].generation + 1 <= MaxGeneration
    BY <2>2, ChannelAssumption DEF Row
  <2>4. rows' = [rows EXCEPT ![i] = [generation |-> rows[i].generation + 1,
                                     channel |-> NewChannel(room)]]
        /\ payloads' = payloads /\ waiters' = waiters
    BY <1>3, <2>3, Zenon DEF OpenReused, OpenRow
  <2> HIDE DEF i
  <2>5. /\ DOMAIN rows' = DOMAIN rows /\ rows'[i].channel = NewChannel(room)
        /\ \A j \in DOMAIN rows : j # i => rows'[j] = rows[j]
    BY <2>1, <2>4, <1>1
  <2> WITNESS i
  <2> QED  BY <1>2, <2>1, <2>2, <2>4, <2>5 DEF Opened, Occupied
<1>4. CASE OpenNew(room)
  <2> DEFINE i == Len(rows) + 1
             grown == Append(rows, [generation |-> 0, channel |-> NoChannel])
  <2>1. /\ Len(grown) = i /\ DOMAIN grown = 1..i
        /\ grown[i] = [generation |-> 0, channel |-> NoChannel]
        /\ \A j \in DOMAIN rows : grown[j] = rows[j]
    BY <1>1, AppendProperties DEF TableInv
  <2>2. grown[i].generation + 1 <= MaxGeneration
    BY <2>1, ChannelAssumption
  <2>3. /\ rows' = [grown EXCEPT ![i] = [generation |-> grown[i].generation + 1,
                                         channel |-> NewChannel(room)]]
        /\ payloads' = payloads /\ waiters' = waiters
    BY <1>4, <2>2, Zenon DEF OpenNew, OpenRow
  <2> HIDE DEF grown
  <2>4. /\ DOMAIN rows' = 1..i /\ rows'[i].channel = NewChannel(room)
        /\ \A j \in DOMAIN rows : j # i /\ rows'[j] = rows[j]
    BY <1>1, <2>1, <2>3
  <2>5. DOMAIN rows' = DOMAIN rows \cup {i} /\ i \notin DOMAIN rows
    BY <1>1, <2>4
  <2> HIDE DEF i
  <2> WITNESS i
  <2> QED  BY <1>2, <2>3, <2>4, <2>5 DEF Opened, Occupied
<1> QED  BY <1>3, <1>4

\* A new channel holds nothing.
LEMMA OpenKeepsCount ==
    ASSUME TableInv, CountInv, NEW room \in Rooms, OpenReused(room) \/ OpenNew(room)
    PROVE  CountInv'
<1>1. PICK i : Opened(i, room)
  BY OpenedRow
<1>2. NewChannel(room).buffer = <<>> /\ NewChannel(room).wait = <<>>
  BY DEF NewChannel
<1>3. BufferSlots' = BufferSlots
  BY <1>1, <1>2 DEF Opened, BufferSlots
<1>4. WaitSlots' = WaitSlots
  BY <1>1, <1>2 DEF Opened, WaitSlots
<1>5. SenderSlots' = SenderSlots
  BY <1>1, <1>2 DEF Opened, SenderSlots, ParkedSenders
<1> QED  BY <1>1, <1>3, <1>4, <1>5 DEF Opened, CountInv, Finite, CountersExact

\* send adjusts the counters by exactly what it adds or removes.
LEMMA SendKeepsCount ==
    ASSUME TableInv, CountInv, NEW h \in handles, NEW p \in Payload, NEW c \in Continuation,
           Send(h, p, c)
    PROVE  CountInv'
<1> DEFINE ch == At(h)
<1>a. payloads \in Int /\ waiters \in Int
  BY FS_CardinalityType DEF CountInv, Finite, CountersExact
<1>1. CASE SendRefused(h)
  BY <1>1, IdleKeepsCount DEF SendRefused
<1>2. CASE SendExhausted(h)
  BY <1>2, IdleKeepsCount DEF SendExhausted
<1>b. ASSUME Sendable(h)
      PROVE  /\ ch \in Channel /\ SendersLoaded(ch) /\ ChannelCoherent(ch) /\ Live(h) /\ ~ch.closed
             /\ Len(ch.buffer) \in Nat /\ Len(ch.wait) \in Nat /\ SenderCount(ch) \in Nat
  <2>1. Live(h) /\ ch \in Channel /\ SendersLoaded(ch) /\ ChannelCoherent(ch) /\ ~ch.closed
    BY <1>b, LiveRow DEF Sendable
  <2> QED  BY <2>1, ChannelParts, SendersColumn DEF ChannelCoherent
<1>3. CASE SendHandoff(h, p)
  <2> DEFINE new == [ch EXCEPT !.wait = Tail(ch.wait)]
  <2>1. Sendable(h) /\ FrontIs(ch, "Receiver") /\ ch.wait # <<>> /\ ~FrontIs(ch, "Sender")
    BY <1>3 DEF SendHandoff, FrontIs
  <2>2. new \in Channel /\ ChannelCoherent(new)
    BY <1>b, <2>1, TakeWaiter
  <2>3. new.wait = Tail(ch.wait) /\ new.buffer = ch.buffer
    BY <1>b, <2>1 DEF Channel
  <2>4. Store(h.index, new) /\ payloads' = payloads /\ waiters' = waiters - 1
    BY <1>3 DEF SendHandoff
  <2> HIDE DEF new, ch
  <2>5. Len(new.wait) = Len(ch.wait) - 1 /\ SenderCount(new) = SenderCount(ch)
    BY <1>b, <2>1, <2>2, <2>3, WaitFront, SenderCounts
  <2>6. /\ payloads' = payloads + (Len(new.buffer) - Len(ch.buffer)) + (SenderCount(new) - SenderCount(ch))
        /\ waiters' = waiters + (Len(new.wait) - Len(ch.wait))
        /\ payloads' <= payloads /\ waiters' <= waiters
    BY <1>a, <1>b, <2>1, <2>3, <2>4, <2>5
  <2> QED  BY <1>b, <2>1, <2>2, <2>4, <2>6, StoreIsKept, CountedAt DEF ch
<1>4. CASE SendBuffered(h, p)
  <2> DEFINE new == [ch EXCEPT !.buffer = Append(ch.buffer, p)]
  <2>1. Sendable(h) /\ ~FrontIs(ch, "Receiver") /\ Len(ch.buffer) < ch.room /\ payloads < ArenaLimit
    BY <1>4 DEF SendBuffered
  <2>2. /\ ch.wait = <<>> /\ new \in Channel /\ ChannelCoherent(new)
        /\ new.wait = <<>> /\ Len(new.buffer) = Len(ch.buffer) + 1
    BY <1>b, <2>1, PushPayload
  <2>3. Store(h.index, new) /\ payloads' = payloads + 1 /\ waiters' = waiters
    BY <1>4 DEF SendBuffered
  <2> HIDE DEF new, ch
  <2>4. SenderCount(new) = SenderCount(ch) /\ Len(new.wait) = Len(ch.wait)
    BY <1>b, <2>1, <2>2, SenderCounts
  <2>5. /\ payloads' = payloads + (Len(new.buffer) - Len(ch.buffer)) + (SenderCount(new) - SenderCount(ch))
        /\ waiters' = waiters + (Len(new.wait) - Len(ch.wait))
        /\ payloads < ArenaLimit /\ payloads' = payloads + 1 /\ waiters' <= waiters
    BY <1>a, <1>b, <2>1, <2>2, <2>3, <2>4
  <2> QED  BY ZenonT(60), <1>b, <2>1, <2>2, <2>3, <2>5, StoreIsKept, CountedAt DEF ch
<1>5. CASE SendParked(h, p, c)
  <2> DEFINE w == Sender(c, p)
             new == [ch EXCEPT !.wait = Append(ch.wait, w)]
  <2>1. /\ Sendable(h) /\ ~FrontIs(ch, "Receiver") /\ Len(ch.buffer) >= ch.room
        /\ payloads < ArenaLimit /\ waiters < ArenaLimit
    BY <1>5 DEF SendParked
  <2>2. w \in Waiter /\ w.kind = "Sender" /\ w.payload \in Payload
    BY DEF Sender, Waiter
  <2>3. Store(h.index, new) /\ payloads' = payloads + 1 /\ waiters' = waiters + 1
    BY <1>5 DEF SendParked
  <2> HIDE DEF w
  <2>4. new \in Channel /\ ChannelCoherent(new)
    BY <1>b, <2>1, <2>2, ParkWaiter
  <2>5. new.wait = Append(ch.wait, w) /\ new.buffer = ch.buffer
    BY <1>b, <2>1 DEF Channel
  <2> HIDE DEF new, ch
  <2>6. SenderCount(new) = SenderCount(ch) + 1
    BY <1>b, <2>1, <2>2, <2>4, <2>5, SenderCounts
  <2>7. Len(new.wait) = Len(ch.wait) + 1
    BY <1>b, <2>1, <2>2, <2>5, ChannelParts, AppendProperties
  <2>8. /\ payloads' = payloads + (Len(new.buffer) - Len(ch.buffer)) + (SenderCount(new) - SenderCount(ch))
        /\ waiters' = waiters + (Len(new.wait) - Len(ch.wait))
    BY <1>a, <1>b, <2>1, <2>3, <2>5, <2>6, <2>7
  <2> QED  BY <1>b, <2>1, <2>3, <2>4, <2>8, StoreIsKept, CountedAt DEF ch
<1> QED  BY <1>1, <1>2, <1>3, <1>4, <1>5 DEF Send

\* recv adjusts the counters by exactly what it adds or removes.
LEMMA RecvKeepsCount ==
    ASSUME TableInv, CountInv, NEW h \in handles, NEW c \in Continuation, Recv(h, c)
    PROVE  CountInv'
<1> DEFINE ch == At(h)
<1>a. payloads \in Int /\ waiters \in Int
  BY FS_CardinalityType DEF CountInv, Finite, CountersExact
<1>1. CASE RecvStale(h)
  BY <1>1, IdleKeepsCount DEF RecvStale
<1>2. CASE RecvExhausted(h)
  BY <1>2, IdleKeepsCount DEF RecvExhausted
<1>b. ASSUME Live(h)
      PROVE  /\ ch \in Channel /\ SendersLoaded(ch) /\ ChannelCoherent(ch)
             /\ Len(ch.buffer) \in Nat /\ Len(ch.wait) \in Nat /\ SenderCount(ch) \in Nat
  BY <1>b, LiveRow, ChannelParts, SendersColumn DEF ChannelCoherent
<1>3. CASE RecvBuffered(h)
  <2> DEFINE new == [ch EXCEPT !.buffer = Tail(ch.buffer)]
  <2>1. Live(h) /\ ch.buffer # <<>> /\ ch.wait = <<>>
    BY <1>3 DEF RecvBuffered
  <2>2. new \in Channel /\ new.wait = <<>> /\ Len(new.buffer) = Len(ch.buffer) - 1
    BY <1>b, <2>1, PopPayload
  <2>3. StoreOrRelease(h.index, new) /\ payloads' = payloads - 1 /\ waiters' = waiters
    BY <1>3 DEF RecvBuffered
  <2> HIDE DEF new, ch
  <2>4. SenderCount(new) = SenderCount(ch) /\ Len(new.wait) = Len(ch.wait) /\ DOMAIN new.wait = {}
    BY <1>b, <2>1, <2>2, SenderCounts
  <2>5. /\ payloads' = payloads + (Len(new.buffer) - Len(ch.buffer)) + (SenderCount(new) - SenderCount(ch))
        /\ waiters' = waiters + (Len(new.wait) - Len(ch.wait))
        /\ payloads' <= payloads /\ waiters' <= waiters
    BY <1>a, <1>b, <2>1, <2>2, <2>3, <2>4
  <2> QED  BY <1>b, <2>1, <2>2, <2>3, <2>4, <2>5, CountedAt DEF ch
<1>4. CASE RecvRefilled(h)
  <2> DEFINE new == [ch EXCEPT !.buffer = Append(Tail(ch.buffer), Head(ch.wait).payload),
                               !.wait = Tail(ch.wait)]
  <2>1. Live(h) /\ ch.buffer # <<>> /\ ch.wait # <<>>
    BY <1>4 DEF RecvRefilled, Refilled
  <2>2. /\ Head(ch.wait).kind = "Sender"
        /\ new \in Channel /\ ChannelCoherent(new)
        /\ new.wait = Tail(ch.wait) /\ Len(new.buffer) = Len(ch.buffer)
    BY <1>b, <2>1, RefillBuffer
  <2>3. StoreOrRelease(h.index, new) /\ payloads' = payloads - 1 /\ waiters' = waiters - 1
    BY <1>4, <2>2 DEF RecvRefilled, Refilled
  <2> HIDE DEF new, ch
  <2>4. FrontIs(ch, "Sender")
    BY <2>1, <2>2 DEF FrontIs
  <2>5. Len(new.wait) = Len(ch.wait) - 1 /\ SenderCount(new) = SenderCount(ch) - 1
    BY <1>b, <2>1, <2>2, <2>4, WaitFront, SenderCounts
  <2>6. /\ payloads' = payloads + (Len(new.buffer) - Len(ch.buffer)) + (SenderCount(new) - SenderCount(ch))
        /\ waiters' = waiters + (Len(new.wait) - Len(ch.wait))
        /\ payloads' <= payloads /\ waiters' <= waiters
    BY <1>a, <1>b, <2>1, <2>2, <2>3, <2>5
  <2>7. /\ \A j, k \in DOMAIN new.wait : new.wait[j].kind = new.wait[k].kind
        /\ new.closed /\ new.buffer = <<>> => new.wait = <<>>
    BY <2>2 DEF ChannelCoherent
  <2> QED  BY <1>b, <2>1, <2>2, <2>3, <2>6, <2>7, CountedAt DEF ch
<1>5. CASE RecvHandoff(h)
  <2> DEFINE new == [ch EXCEPT !.wait = Tail(ch.wait)]
  <2>1. Live(h) /\ FrontIs(ch, "Sender") /\ ch.wait # <<>>
    BY <1>5 DEF RecvHandoff, FrontIs
  <2>2. new \in Channel /\ ChannelCoherent(new)
    BY <1>b, <2>1, TakeWaiter
  <2>3. new.wait = Tail(ch.wait) /\ new.buffer = ch.buffer
    BY <1>b, <2>1 DEF Channel
  <2>4. Store(h.index, new) /\ payloads' = payloads - 1 /\ waiters' = waiters - 1
    BY <1>5 DEF RecvHandoff
  <2> HIDE DEF new, ch
  <2>5. Len(new.wait) = Len(ch.wait) - 1 /\ SenderCount(new) = SenderCount(ch) - 1
    BY <1>b, <2>1, <2>2, <2>3, WaitFront, SenderCounts
  <2>6. /\ payloads' = payloads + (Len(new.buffer) - Len(ch.buffer)) + (SenderCount(new) - SenderCount(ch))
        /\ waiters' = waiters + (Len(new.wait) - Len(ch.wait))
        /\ payloads' <= payloads /\ waiters' <= waiters
    BY <1>a, <1>b, <2>1, <2>3, <2>4, <2>5
  <2> QED  BY <1>b, <2>1, <2>2, <2>4, <2>6, StoreIsKept, CountedAt DEF ch
<1>6. CASE RecvEmpty(h, c)
  <2> DEFINE w == Receiver(c)
             new == [ch EXCEPT !.wait = Append(ch.wait, w)]
  <2>1. Live(h) /\ ch.buffer = <<>> /\ ~FrontIs(ch, "Sender")
    BY <1>6 DEF RecvEmpty
  <2>2. ~ch.closed
    BY <1>b, <2>1 DEF ChannelCoherent
  <2>3. w \in Waiter /\ w.kind = "Receiver"
    BY DEF Receiver, Waiter
  <2>4. /\ Store(h.index, new) /\ payloads' = payloads
        /\ waiters' = waiters + 1 /\ waiters < ArenaLimit
    BY <1>6, <2>2 DEF RecvEmpty
  <2> HIDE DEF w
  <2>5. new \in Channel /\ ChannelCoherent(new)
    BY <1>b, <2>1, <2>2, <2>3, ParkWaiter
  <2>6. new.wait = Append(ch.wait, w) /\ new.buffer = ch.buffer
    BY <1>b, <2>1 DEF Channel
  <2> HIDE DEF new, ch
  <2>7. SenderCount(new) = SenderCount(ch)
    BY <1>b, <2>1, <2>3, <2>5, <2>6, SenderCounts
  <2>8. Len(new.wait) = Len(ch.wait) + 1
    BY <1>b, <2>1, <2>3, <2>6, ChannelParts, AppendProperties
  <2>9. /\ payloads' = payloads + (Len(new.buffer) - Len(ch.buffer)) + (SenderCount(new) - SenderCount(ch))
        /\ waiters' = waiters + (Len(new.wait) - Len(ch.wait))
        /\ payloads' <= payloads
    BY <1>a, <1>b, <2>1, <2>4, <2>6, <2>7, <2>8
  <2> QED  BY ZenonT(60), <1>b, <2>1, <2>4, <2>5, <2>9, StoreIsKept, CountedAt DEF ch
<1> QED  BY <1>1, <1>2, <1>3, <1>4, <1>5, <1>6 DEF Recv

\* close takes every parked task, and the payloads of the senders among them,
\* out of the counters.
LEMMA CloseKeepsCount ==
    ASSUME TableInv, CountInv, NEW h \in handles, Close(h)
    PROVE  CountInv'
<1> DEFINE ch == At(h)
<1>a. payloads \in Int /\ waiters \in Int
  BY FS_CardinalityType DEF CountInv, Finite, CountersExact
<1>1. CASE CloseIgnored(h)
  BY <1>1, IdleKeepsCount DEF CloseIgnored
<1>2. CASE CloseOpen(h)
  <2> DEFINE new == [ch EXCEPT !.closed = TRUE, !.wait = <<>>]
  <2>1. Live(h) /\ ch \in Channel /\ ChannelCoherent(ch)
    BY <1>2, LiveRow DEF CloseOpen, Sendable
  <2>2. /\ Len(ch.buffer) \in Nat /\ Len(ch.wait) \in Nat /\ SenderCount(ch) \in Nat
        /\ ParkedSenders(ch) = 1..SenderCount(ch)
    BY <2>1, ChannelParts, SendersColumn DEF ChannelCoherent
  <2>3. new \in Channel /\ new.wait = <<>> /\ new.buffer = ch.buffer
    BY <2>1, ShutChannel
  <2>4. /\ StoreOrRelease(h.index, new)
        /\ payloads' = payloads - Cardinality(ParkedSenders(ch))
        /\ waiters' = waiters - Len(ch.wait)
    BY <1>2 DEF CloseOpen
  <2> HIDE DEF new, ch
  <2>5. Cardinality(ParkedSenders(ch)) = SenderCount(ch)
    BY <2>2, FS_Interval
  <2>6. SenderCount(new) = 0 /\ Len(new.wait) = 0 /\ DOMAIN new.wait = {}
    BY <2>1, <2>3, SenderCounts
  <2>7. /\ payloads' = payloads + (Len(new.buffer) - Len(ch.buffer)) + (SenderCount(new) - SenderCount(ch))
        /\ waiters' = waiters + (Len(new.wait) - Len(ch.wait))
        /\ payloads' <= payloads /\ waiters' <= waiters
    BY <1>a, <2>2, <2>3, <2>4, <2>5, <2>6
  <2> QED  BY <2>1, <2>3, <2>4, <2>6, <2>7, CountedAt DEF ch
<1> QED  BY <1>1, <1>2 DEF Close

-----------------------------------------------------------------------------
(***************************************************************************)
(* The theorems.                                                           *)
(***************************************************************************)
Inv == TableInv /\ Sound(transition) /\ CountInv

\* The empty table satisfies the invariant.
LEMMA InitInv == Init => Inv
<1> SUFFICES ASSUME Init PROVE Inv
  OBVIOUS
<1>1. rows = <<>> /\ free = <<>> /\ payloads = 0 /\ waiters = 0 /\ handles = {}
  BY DEF Init
<1>2. DOMAIN rows = {} /\ Occupied = {} /\ Len(rows) = 0 /\ DOMAIN free = {}
  BY <1>1, EmptySeq DEF Occupied
<1>3. TableInv
  BY <1>1, <1>2, EmptySeq, ChannelAssumption
     DEF TableInv, Coherent, FreeListExact, HandlesOld
<1>4. BufferSlots = {} /\ WaitSlots = {} /\ SenderSlots = {}
  BY <1>2 DEF BufferSlots, WaitSlots, SenderSlots
<1>5. CountInv
  BY <1>1, <1>4, FS_EmptySet, ChannelAssumption DEF CountInv, Finite, CountersExact
<1>6. Sound(transition)
  BY ReadySound, Answers DEF Init
<1> QED  BY <1>3, <1>5, <1>6 DEF Inv

\* Every operation keeps the invariant.
LEMMA NextInv == Inv /\ [Next]_channelVars => Inv'
<1> SUFFICES ASSUME Inv, [Next]_channelVars PROVE Inv'
  OBVIOUS
<1> USE DEF Inv
<1>1. ASSUME NEW room \in Rooms, OpenReused(room) \/ OpenNew(room) PROVE Inv'
  BY <1>1, OpenKeepsTable, OpenKeepsCount, ReadySound, Answers
<1>2. CASE OpenFull
  BY <1>2, IdleKeepsTable, IdleKeepsCount, OtherSound DEF OpenFull, BudgetFaults
<1>3. ASSUME NEW h \in handles, NEW p \in Payload, NEW c \in Continuation, Send(h, p, c)
      PROVE  Inv'
  BY <1>3, SendStep, SendKeepsCount
<1>4. ASSUME NEW h \in handles, NEW c \in Continuation, Recv(h, c) PROVE Inv'
  BY <1>4, RecvStep, RecvKeepsCount
<1>5. ASSUME NEW h \in handles, Close(h) PROVE Inv'
  BY <1>5, CloseStep, CloseKeepsCount
<1>6. CASE UNCHANGED channelVars
  <2>1. UNCHANGED <<table, handles>> /\ transition' = transition
    BY <1>6 DEF channelVars, table
  <2> QED  BY <2>1, IdleKeepsTable, IdleKeepsCount
<1> QED  BY <1>1, <1>2, <1>3, <1>4, <1>5, <1>6 DEF Next

\* The inductive invariant holds in every reachable state of the table.
THEOREM Invariance == Spec => []Inv
  BY InitInv, NextInv, PTL DEF Spec

\* The state of channels.rs keeps its types whatever the program does.
THEOREM TypeCorrect == Spec => []TypeOK
<1>1. Inv => TypeOK
  <2> SUFFICES ASSUME Inv PROVE TypeOK
    OBVIOUS
  <2>1. payloads \in Int /\ waiters \in Int
    BY FS_CardinalityType DEF Inv, CountInv, Finite, CountersExact
  <2>2. \A i \in DOMAIN rows : rows[i].channel # NoChannel => SendersLoaded(rows[i].channel)
    BY DEF Inv, TableInv, Occupied
  <2> QED  BY <2>1, <2>2 DEF Inv, TableInv, Sound, TypeOK
<1> QED  BY <1>1, Invariance, PTL

\* Waiters of one kind, receivers on empty and senders on full buffers only, and
\* closed channels that hold payloads and no waiter, for any number of tasks.
THEOREM Coherence == Spec => []Coherent
<1>1. Inv => Coherent
  BY DEF Inv, TableInv
<1> QED  BY <1>1, Invariance, PTL

\* The free stack of open and release is exact, and retired rows never return.
THEOREM FreeListExactness == Spec => []FreeListExact
<1>1. Inv => FreeListExact
  BY DEF Inv, TableInv
<1> QED  BY <1>1, Invariance, PTL

\* payloads and waiters always count what the table holds and never pass
\* ARENA_LIMIT, so neither counter underflows nor drifts from the table.
THEOREM CountersExactness == Spec => []CountersExact
<1>1. Inv => CountersExact
  BY DEF Inv, CountInv
<1> QED  BY <1>1, Invariance, PTL

\* No operation ever returns one of the internal errors of channels.rs.
THEOREM InternalErrorFreedom == Spec => []NoInternalError
<1>1. Inv => NoInternalError
  BY DEF Inv, Sound, NoInternalError
<1> QED  BY <1>1, Invariance, PTL

\* Changing the channel of an occupied row revives no stale handle.
LEMMA RowChangeKeepsStale ==
    ASSUME TableInv, NEW i \in Occupied, NEW ch \in Channel \cup {NoChannel},
           rows' = [rows EXCEPT ![i] = [@ EXCEPT !.channel = ch]]
    PROVE  \A h \in handles : ~Live(h) => ~Live(h)'
<1>1. /\ DOMAIN rows' = DOMAIN rows /\ i \in DOMAIN rows /\ rows[i].channel # NoChannel
      /\ \A j \in DOMAIN rows : rows'[j].generation = rows[j].generation
      /\ \A j \in DOMAIN rows : j # i => rows'[j] = rows[j]
  BY RowUpdate DEF TableInv, Occupied
<1> QED  BY <1>1 DEF Live, At

\* A handle whose channel was released never names a channel again.
THEOREM Staleness == Spec => StaleForever
<1> DEFINE Kept == \A h \in handles : ~Live(h) => ~Live(h)'
<1>1. ASSUME Inv, [Next]_channelVars PROVE Kept
  <2> USE <1>1 DEF Inv
  <2>1. ASSUME rows' = rows PROVE Kept
    BY <2>1 DEF Live, At
  <2>2. ASSUME NEW h \in handles, Live(h), NEW ch \in Channel, StoreOrRelease(h.index, ch) PROVE Kept
    BY <2>2, LiveRow, RowChangeKeepsStale DEF StoreOrRelease, Store, Release
  <2>3. ASSUME NEW h \in handles, Live(h), NEW ch \in Channel, Store(h.index, ch) PROVE Kept
    BY <2>3, LiveRow, RowChangeKeepsStale DEF Store
  <2>4. ASSUME NEW h \in handles, Live(h), Release(h.index) PROVE Kept
    BY <2>4, LiveRow, RowChangeKeepsStale DEF Release
  <2>5. ASSUME NEW room \in Rooms, OpenReused(room) PROVE Kept
    <3> DEFINE i == free[Len(free)]
    <3>1. DOMAIN rows = 1..Len(rows) /\ DOMAIN free = 1..Len(free) /\ Len(free) \in Nat
      BY LenProperties DEF TableInv
    <3>2. Len(free) \in DOMAIN free /\ i \in DOMAIN rows
      BY <2>5, <3>1, EmptySeq, ElementOfSeq DEF OpenReused, TableInv
    <3>3. rows[i].generation < MaxGeneration /\ rows[i] \in Row
      BY <3>1, <3>2, ElementOfSeq DEF TableInv, FreeListExact
    <3>4. rows[i].generation + 1 <= MaxGeneration /\ rows[i].generation \in Nat
      BY <3>3, ChannelAssumption DEF Row
    <3>5. rows' = [rows EXCEPT ![i] = [generation |-> rows[i].generation + 1,
                                       channel |-> NewChannel(room)]]
      BY <2>5, <3>4, Zenon DEF OpenReused, OpenRow
    <3> HIDE DEF i
    <3>6. /\ DOMAIN rows' = DOMAIN rows /\ rows'[i].generation = rows[i].generation + 1
          /\ \A j \in DOMAIN rows : j # i => rows'[j] = rows[j]
      BY <3>2, <3>5
    <3>7. \A h \in handles : h.index = i => h.generation <= rows[i].generation /\ h.generation \in Nat
      BY DEF TableInv, HandlesOld, Handle
    <3>8. \A h \in handles : h.index = i => h.generation # rows'[i].generation
      BY <3>4, <3>6, <3>7
    <3>9. SUFFICES ASSUME NEW h \in handles, ~Live(h) PROVE ~Live(h)'
      OBVIOUS
    <3>10. CASE h.index = i
      BY <3>8, <3>10 DEF Live, At
    <3>11. CASE h.index # i
      BY <3>6, <3>9, <3>11 DEF Live, At
    <3> QED  BY <3>10, <3>11
  <2>6. ASSUME NEW room \in Rooms, OpenNew(room) PROVE Kept
    <3> DEFINE i == Len(rows) + 1
               grown == Append(rows, [generation |-> 0, channel |-> NoChannel])
    <3>1. DOMAIN rows = 1..Len(rows) /\ Len(rows) \in Nat
      BY LenProperties DEF TableInv
    <3>2. \A j \in DOMAIN rows : grown[j] = rows[j] /\ j \in DOMAIN grown /\ j # i
      BY <3>1, AppendProperties DEF TableInv
    <3>3. \A j \in DOMAIN rows : j \in DOMAIN rows' /\ rows'[j] = rows[j]
      BY <2>6, <3>2 DEF OpenNew, OpenRow
    <3>4. \A h \in handles : h.index \in DOMAIN rows
      BY DEF TableInv, HandlesOld
    <3> QED  BY <3>3, <3>4 DEF Live, At
  <2>7. CASE OpenFull \/ UNCHANGED channelVars
    BY <2>1, <2>7 DEF OpenFull, table, channelVars
  <2>8. ASSUME NEW h \in handles, NEW p \in Payload, NEW c \in Continuation, Send(h, p, c) PROVE Kept
    <3>1. CASE SendRefused(h) \/ SendExhausted(h)
      BY <2>1, <3>1 DEF SendRefused, SendExhausted, table
    <3>2. CASE SendHandoff(h, p)
      BY <2>3, <3>2, LiveRow, TakeWaiter DEF SendHandoff, Sendable, FrontIs
    <3>3. CASE SendBuffered(h, p)
      BY <2>3, <3>3, LiveRow, PushPayload DEF SendBuffered, Sendable
    <3>4. CASE SendParked(h, p, c)
      <4>1. Sender(c, p) \in Waiter /\ Sender(c, p).kind = "Sender" /\ Sender(c, p).payload \in Payload
        BY DEF Sender, Waiter
      <4> QED  BY <2>3, <3>4, <4>1, LiveRow, ParkWaiter DEF SendParked, Sendable
    <3> QED  BY <2>8, <3>1, <3>2, <3>3, <3>4 DEF Send
  <2>9. ASSUME NEW h \in handles, NEW c \in Continuation, Recv(h, c) PROVE Kept
    <3>1. CASE RecvStale(h) \/ RecvExhausted(h)
      BY <2>1, <3>1 DEF RecvStale, RecvExhausted, table
    <3>2. CASE RecvBuffered(h)
      BY <2>2, <3>2, LiveRow, PopPayload DEF RecvBuffered
    <3>3. CASE RecvRefilled(h)
      BY <2>2, <3>3, LiveRow, RefillBuffer DEF RecvRefilled, Refilled
    <3>4. CASE RecvHandoff(h)
      BY <2>3, <3>4, LiveRow, TakeWaiter DEF RecvHandoff, FrontIs
    <3>5. CASE RecvEmpty(h, c)
      <4>1. Receiver(c) \in Waiter
        BY DEF Receiver, Waiter
      <4>2. Live(h) /\ At(h) \in Channel
        BY <3>5, LiveRow DEF RecvEmpty
      <4>3. [At(h) EXCEPT !.wait = Append(At(h).wait, Receiver(c))] \in Channel
        BY <4>1, <4>2, ChannelParts, AppendProperties, ChannelUpdate
      <4> QED  BY <2>3, <2>4, <3>5, <4>2, <4>3 DEF RecvEmpty
    <3> QED  BY <2>9, <3>1, <3>2, <3>3, <3>4, <3>5 DEF Recv
  <2>10. ASSUME NEW h \in handles, Close(h) PROVE Kept
    <3>1. CASE CloseIgnored(h)
      BY <2>1, <3>1 DEF CloseIgnored, table
    <3>2. CASE CloseOpen(h)
      BY <2>2, <3>2, LiveRow, ShutChannel DEF CloseOpen, Sendable
    <3> QED  BY <2>10, <3>1, <3>2 DEF Close
  <2> QED  BY <2>5, <2>6, <2>7, <2>8, <2>9, <2>10 DEF Next
<1>2. ASSUME Inv, [Next]_channelVars PROVE [Kept]_channelVars
  BY <1>1, <1>2
<1> QED  BY <1>2, Invariance, PTL DEF Spec, StaleForever

-----------------------------------------------------------------------------
(***************************************************************************)
(* Channels are first in, first out for every number of tasks, payloads,   *)
(* rooms and generations: InOrder is invariant, and the table implements   *)
(* Fifo.                                                                   *)
(***************************************************************************)

-----------------------------------------------------------------------------
(***************************************************************************)
(* Sequences.                                                              *)
(***************************************************************************)

\* Moving the first element of the second sequence to the end of the first.
LEMMA ShiftHead ==
    ASSUME NEW r \in Seq(Payload), NEW b \in Seq(Payload), b # <<>>
    PROVE  Append(r, Head(b)) \o Tail(b) = r \o b
<1>1. Head(b) \in Payload /\ Tail(b) \in Seq(Payload) /\ b = <<Head(b)>> \o Tail(b)
  BY HeadTailProperties
<1>2. Append(r, Head(b)) = r \o <<Head(b)>>
  BY <1>1
<1> QED  BY <1>1, <1>2, ConcatAssociative

\* Appending to the second of two sequences.
LEMMA AppendLast ==
    ASSUME NEW r \in Seq(Payload), NEW b \in Seq(Payload), NEW p \in Payload
    PROVE  Append(r \o b, p) = r \o Append(b, p)
<1>1. Append(r \o b, p) = (r \o b) \o <<p>> /\ Append(b, p) = b \o <<p>>
  OBVIOUS
<1> QED  BY <1>1, ConcatAssociative

\* Cutting a sequence after its first part, or one element later.
LEMMA CutPrefix ==
    ASSUME NEW S, NEW r \in Seq(S), NEW b \in Seq(S)
    PROVE  /\ SubSeq(r \o b, 1, Len(r)) = r
           /\ b # <<>> => SubSeq(r \o b, 1, Len(r) + 1) = Append(r, Head(b))
           /\ Len(r) <= Len(r \o b)
           /\ b # <<>> => Len(r) + 1 <= Len(r \o b)
<1>1. Len(r) \in Nat /\ Len(b) \in Nat /\ r \o b \in Seq(S) /\ Len(r \o b) = Len(r) + Len(b)
  OBVIOUS
<1>2. SubSeq(r \o b, 1, Len(r)) = r
  BY <1>1
<1>3. ASSUME b # <<>> PROVE SubSeq(r \o b, 1, Len(r) + 1) = Append(r, Head(b))
  <2>1. Len(b) >= 1 /\ Head(b) = b[1]
    BY <1>1, <1>3
  <2>2. Len(SubSeq(r \o b, 1, Len(r) + 1)) = Len(r) + 1
    BY <1>1, <2>1
  <2>3. \A k \in 1..(Len(r) + 1) : SubSeq(r \o b, 1, Len(r) + 1)[k] = Append(r, Head(b))[k]
    BY <1>1, <2>1
  <2> QED  BY <1>1, <2>1, <2>2, <2>3, SeqEqual
<1>4. b # <<>> => Len(b) >= 1
  BY <1>1
<1> QED  BY <1>1, <1>2, <1>3, <1>4

\* A sequence starts with its first part.
LEMMA PrefixOfConcat ==
    ASSUME NEW S, NEW r \in Seq(S), NEW b \in Seq(S)
    PROVE  IsPrefix(r, r \o b)
  BY DEF IsPrefix

-----------------------------------------------------------------------------
(***************************************************************************)
(* What an operation on one handle does to the channels of the others.     *)
(***************************************************************************)

\* The fields of a handle name it.
LEMMA HandleFields ==
    ASSUME NEW g \in Handle, NEW h \in Handle, g.index = h.index, g.generation = h.generation
    PROVE  g = h
  BY DEF Handle

\* Changing the channel of a live handle's row changes what this handle names,
\* and no other.
LEMMA RowChangeAt ==
    ASSUME TableInv, NEW h \in handles, Live(h), NEW ch \in Channel \cup {NoChannel},
           rows' = [rows EXCEPT ![h.index] = [@ EXCEPT !.channel = ch]], handles' = handles
    PROVE  \A g \in handles : At(g)' = IF g = h THEN ch ELSE At(g)
<1>1. h.index \in DOMAIN rows /\ rows[h.index].generation = h.generation
  BY LiveRow
<1>2. /\ DOMAIN rows' = DOMAIN rows
      /\ rows'[h.index].channel = ch
      /\ \A j \in DOMAIN rows : rows'[j].generation = rows[j].generation
      /\ \A j \in DOMAIN rows : j # h.index => rows'[j] = rows[j]
  BY <1>1, RowUpdate DEF TableInv
<1>3. SUFFICES ASSUME NEW g \in handles PROVE At(g)' = IF g = h THEN ch ELSE At(g)
  OBVIOUS
<1>4. CASE g = h
  BY <1>1, <1>2, <1>4 DEF At
<1>5. CASE g # h /\ g.index = h.index
  <2>1. g.generation # h.generation
    BY <1>5, HandleFields DEF TableInv
  <2> QED  BY <1>1, <1>2, <1>5, <2>1 DEF At
<1>6. CASE g # h /\ g.index # h.index
  BY <1>2, <1>6 DEF At
<1> QED  BY <1>4, <1>5, <1>6

\* Storing a channel in its row.
LEMMA StoreAt ==
    ASSUME TableInv, NEW h \in handles, Live(h), NEW ch \in Channel,
           handles' = handles, Store(h.index, ch)
    PROVE  \A g \in handles : At(g)' = IF g = h THEN ch ELSE At(g)
  BY RowChangeAt DEF Store

\* Storing a channel, or releasing its row once it is closed and drained.
LEMMA StoreOrReleaseAt ==
    ASSUME TableInv, NEW h \in handles, Live(h), NEW ch \in Channel,
           handles' = handles, StoreOrRelease(h.index, ch)
    PROVE  \A g \in handles :
              At(g)' = IF g # h THEN At(g)
                       ELSE IF ch.closed /\ ch.buffer = <<>> THEN NoChannel ELSE ch
  BY RowChangeAt DEF StoreOrRelease, Store, Release

\* A channel that is opened gets a handle nobody held, and changes no other.
LEMMA OpenAt ==
    ASSUME TableInv, NEW room \in Rooms, OpenReused(room) \/ OpenNew(room)
    PROVE  \E h \in Handle :
              /\ h \notin handles
              /\ handles' = handles \cup {h}
              /\ At(h)' = NewChannel(room)
              /\ \A g \in handles : At(g)' = At(g)
<1> USE ChannelAssumption
<1>1. DOMAIN rows = 1..Len(rows) /\ DOMAIN free = 1..Len(free) /\ Len(rows) \in Nat /\ Len(free) \in Nat
  BY LenProperties DEF TableInv
<1>2. \A h \in handles : h \in Handle /\ h.generation \in Nat /\ h.index \in DOMAIN rows
                            /\ h.generation <= rows[h.index].generation
  BY DEF TableInv, HandlesOld, Handle
<1>4. CASE OpenReused(room)
  <2> DEFINE i == free[Len(free)]
             row == [generation |-> rows[i].generation + 1, channel |-> NewChannel(room)]
             new == [index |-> i, generation |-> rows[i].generation + 1]
  <2>1. Len(free) \in DOMAIN free /\ i \in DOMAIN rows
    BY <1>1, <1>4, EmptySeq, ElementOfSeq DEF OpenReused, TableInv
  <2>2. rows[i].generation < MaxGeneration /\ rows[i] \in Row /\ rows[i].channel = NoChannel
    BY <1>1, <2>1, ElementOfSeq DEF TableInv, FreeListExact
  <2>3. rows[i].generation + 1 <= MaxGeneration /\ rows[i].generation \in Nat
    BY <2>2 DEF Row
  <2>4. rows' = [rows EXCEPT ![i] = row] /\ handles' = handles \cup {new}
    BY <1>4, <2>3, Zenon DEF OpenReused, OpenRow
  <2>a. row.generation = rows[i].generation + 1 /\ row.channel = NewChannel(room)
    OBVIOUS
  <2>5. new \in Handle /\ new.index = i /\ new.generation = rows[i].generation + 1
    BY <1>1, <2>1, <2>3 DEF Handle, TableInv
  <2> HIDE DEF i, row, new
  <2>6. /\ DOMAIN rows' = DOMAIN rows
        /\ rows'[i].generation = rows[i].generation + 1 /\ rows'[i].channel = NewChannel(room)
        /\ \A j \in DOMAIN rows : j # i => rows'[j] = rows[j]
    BY <2>1, <2>4, <2>a
  <2>b. PICK h \in Handle : h = new
    BY <2>5
  <2>7. h \notin handles
    BY <1>2, <2>3, <2>5, <2>b
  <2>8. At(h)' = NewChannel(room)
    BY <2>1, <2>5, <2>6, <2>b DEF At
  <2>9. ASSUME NEW g \in handles PROVE At(g)' = At(g)
    <3>1. CASE g.index = i
      <4>1. g.generation # rows'[i].generation
        BY <1>2, <2>3, <2>6, <3>1
      <4> QED  BY <2>2, <3>1, <4>1 DEF At
    <3>2. CASE g.index # i
      BY <2>6, <3>2 DEF At
    <3> QED  BY <3>1, <3>2
  <2> QED  BY <2>4, <2>7, <2>8, <2>9, <2>b
<1>5. CASE OpenNew(room)
  <2> DEFINE i == Len(rows) + 1
             empty == [generation |-> 0, channel |-> NoChannel]
             grown == Append(rows, empty)
             row == [generation |-> 1, channel |-> NewChannel(room)]
             new == [index |-> i, generation |-> 1]
  <2>1. /\ DOMAIN grown = 1..i /\ grown[i] = empty /\ grown[i].generation = 0
        /\ \A j \in DOMAIN rows : grown[j] = rows[j] /\ j \in DOMAIN grown /\ j # i
    BY <1>1, AppendProperties DEF TableInv
  <2>2. grown[i].generation + 1 = 1 /\ grown[i].generation + 1 <= MaxGeneration
    BY <2>1
  <2>3. rows' = [grown EXCEPT ![i] = row] /\ handles' = handles \cup {new}
    BY <1>5, <2>2 DEF OpenNew, OpenRow
  <2>a. row.generation = 1 /\ row.channel = NewChannel(room)
    OBVIOUS
  <2>4. new \in Handle /\ new.index = i /\ new.generation = 1
    BY <1>1, <1>5 DEF Handle, OpenNew
  <2> HIDE DEF grown, new, empty, row
  <2>5. /\ i \in DOMAIN rows'
        /\ rows'[i].generation = 1 /\ rows'[i].channel = NewChannel(room)
        /\ \A j \in DOMAIN rows : j \in DOMAIN rows' /\ rows'[j] = rows[j]
    BY <1>1, <2>1, <2>3, <2>a
  <2>b. PICK h \in Handle : h = new
    BY <2>4
  <2>6. h \notin handles
    BY <1>1, <1>2, <2>4, <2>b
  <2>7. At(h)' = NewChannel(room)
    BY <2>4, <2>5, <2>b DEF At
  <2>8. \A g \in handles : At(g)' = At(g)
    BY <1>2, <2>5 DEF At
  <2> QED  BY <2>3, <2>6, <2>7, <2>8, <2>b
<1> QED  BY <1>4, <1>5

-----------------------------------------------------------------------------
(***************************************************************************)
(* The invariant.                                                          *)
(***************************************************************************)

\* The histories are sequences of payloads, empty for handles not yet opened.
HistoryOK ==
    /\ offered \in [Handle -> Seq(Payload)]
    /\ accepted \in [Handle -> Seq(Payload)]
    /\ received \in [Handle -> Seq(Payload)]
    /\ \A h \in Handle \ handles :
          offered[h] = <<>> /\ accepted[h] = <<>> /\ received[h] = <<>>

\* What InOrder says of one handle that names the channel ch.
OrderedRow(ch, off, acc, rec) ==
    /\ IF ch # NoChannel
       THEN /\ acc = rec \o ch.buffer
            /\ ch.closed \/ off = acc \o ParkedPayloads(ch)
       ELSE acc = rec
    /\ IsPrefix(acc, off)

OrderInv == Inv /\ HistoryOK /\ InOrder

\* InOrder, handle by handle.
LEMMA InOrderEach ==
    InOrder <=> \A h \in handles : OrderedRow(At(h), offered[h], accepted[h], received[h])
  BY DEF InOrder, OrderedRow, Live

\* The handles that Fifo calls open.
Opens == {h \in handles : Sendable(h)}

\* A step on one handle that keeps its own history in order, and adds to no
\* other, keeps all of them in order.
LEMMA OneHandleOrder ==
    ASSUME InOrder, handles \subseteq Handle, HistoryOK, NEW h \in handles, handles' = handles,
           HistoryOK',
           \A g \in handles : g # h =>
              /\ At(g)' = At(g)
              /\ offered'[g] = offered[g] /\ accepted'[g] = accepted[g] /\ received'[g] = received[g],
           OrderedRow(At(h)', offered'[h], accepted'[h], received'[h])
    PROVE  InOrder'
<1>1. ASSUME NEW g \in handles PROVE OrderedRow(At(g)', offered'[g], accepted'[g], received'[g])
  BY InOrderEach
<1> QED  BY <1>1 DEF InOrder, OrderedRow, Live

\* Appending to the history of one handle.
LEMMA PushLog ==
    ASSUME NEW log \in [Handle -> Seq(Payload)], NEW h \in Handle, NEW p \in Payload
    PROVE  /\ Push(log, h, p) \in [Handle -> Seq(Payload)]
           /\ Push(log, h, p)[h] = Append(log[h], p)
           /\ \A g \in Handle : g # h => Push(log, h, p)[g] = log[g]
  BY DEF Push

\* Who is told what by a transition.
LEMMA ToldWhat ==
    ASSUME NEW tag
    PROVE  /\ \A a, w : transition' = Ready(a, w) =>
                 /\ transition'.outcome = "ready"
                 /\ transition'.answer = a
                 /\ Told(tag) <=> (a.tag = tag \/ \E k \in DOMAIN w : w[k].answer.tag = tag)
           /\ \A e : transition' = Failed(e) => ~Told(tag) /\ transition'.outcome = "failed"
           /\ transition' = Parked => ~Told(tag) /\ transition'.outcome = "parked"
  BY DEF Told, Ready, Failed, Parked

\* Nobody parked, senders parked, and the payloads they hold.
LEMMA ParkedPayloadsType ==
    ASSUME NEW ch \in Channel, SendersLoaded(ch), ChannelCoherent(ch)
    PROVE  /\ ParkedPayloads(ch) \in Seq(Payload)
           /\ FrontIs(ch, "Sender") => /\ Len(ParkedPayloads(ch)) = Len(ch.wait)
                                       /\ ParkedPayloads(ch) # <<>>
                                       /\ Head(ParkedPayloads(ch)) = Head(ch.wait).payload
           /\ ~FrontIs(ch, "Sender") => ParkedPayloads(ch) = <<>>
<1>1. CASE ~FrontIs(ch, "Sender")
  BY <1>1 DEF ParkedPayloads
<1>2. CASE FrontIs(ch, "Sender")
  <2>1. ch.wait # <<>> /\ Head(ch.wait).kind = "Sender"
    BY <1>2 DEF FrontIs
  <2>2. /\ ch.wait \in Seq(Waiter) /\ Len(ch.wait) \in Nat \ {0} /\ DOMAIN ch.wait = 1..Len(ch.wait)
        /\ Head(ch.wait) = ch.wait[1]
    BY <2>1, WaitFront
  <2>3. \A k \in 1..Len(ch.wait) : ch.wait[k].payload \in Payload
    BY <2>1, <2>2 DEF ChannelCoherent, SendersLoaded, ParkedSenders
  <2>4. ParkedPayloads(ch) = [k \in 1..Len(ch.wait) |-> ch.wait[k].payload]
    BY <1>2, <2>2 DEF ParkedPayloads
  <2>5. ParkedPayloads(ch) \in Seq(Payload) /\ Len(ParkedPayloads(ch)) = Len(ch.wait)
    BY <2>2, <2>3, <2>4
  <2>6. ParkedPayloads(ch) # <<>> /\ Head(ParkedPayloads(ch)) = ParkedPayloads(ch)[1]
    BY <2>2, <2>5
  <2> QED  BY <1>2, <2>2, <2>4, <2>5, <2>6
<1> QED  BY <1>1, <1>2

\* Taking the first sender off the queue takes its payload off the payloads.
LEMMA ParkedPayloadsTail ==
    ASSUME NEW ch \in Channel, SendersLoaded(ch), ChannelCoherent(ch), FrontIs(ch, "Sender"),
           NEW new \in Channel, SendersLoaded(new), ChannelCoherent(new), new.wait = Tail(ch.wait)
    PROVE  ParkedPayloads(new) = Tail(ParkedPayloads(ch))
<1>1. ch.wait # <<>> /\ Head(ch.wait).kind = "Sender"
  BY DEF FrontIs
<1>2. /\ ch.wait \in Seq(Waiter) /\ Len(ch.wait) \in Nat \ {0} /\ DOMAIN ch.wait = 1..Len(ch.wait)
      /\ Head(ch.wait) = ch.wait[1]
      /\ Len(Tail(ch.wait)) = Len(ch.wait) - 1
      /\ DOMAIN Tail(ch.wait) = 1..(Len(ch.wait) - 1)
      /\ \A k \in DOMAIN Tail(ch.wait) : k + 1 \in DOMAIN ch.wait /\ Tail(ch.wait)[k] = ch.wait[k + 1]
  BY <1>1, WaitFront
<1>3. ParkedPayloads(ch) = [k \in 1..Len(ch.wait) |-> ch.wait[k].payload]
  BY <1>2 DEF ParkedPayloads
<1>4. ParkedPayloads(ch) \in Seq(Payload) /\ ParkedPayloads(ch) # <<>>
  BY ParkedPayloadsType
<1>5. /\ Tail(ParkedPayloads(ch)) \in Seq(Payload) /\ Len(Tail(ParkedPayloads(ch))) = Len(ch.wait) - 1
      /\ \A k \in 1..(Len(ch.wait) - 1) : Tail(ParkedPayloads(ch))[k] = ch.wait[k + 1].payload
  BY <1>2, <1>3, <1>4
<1>6. CASE Len(ch.wait) = 1
  <2>1. new.wait = <<>> /\ Tail(ParkedPayloads(ch)) = <<>>
    BY <1>2, <1>5, <1>6
  <2> QED  BY <2>1 DEF ParkedPayloads, FrontIs
<1>7. CASE Len(ch.wait) # 1
  <2>1. new.wait # <<>> /\ Head(new.wait) = new.wait[1] /\ new.wait[1] = ch.wait[2] /\ 2 \in DOMAIN ch.wait
    <3>a. Len(ch.wait) \in Nat \ {0}
      BY <1>2
    <3>1. Len(ch.wait) - 1 \in Nat \ {0} /\ 1 \in 1..(Len(ch.wait) - 1)
      <4>1. \A n \in Nat \ {0} : n # 1 => n - 1 \in Nat \ {0} /\ 1 \in 1..(n - 1)
        OBVIOUS
      <4> QED  BY <1>7, <3>a, <4>1
    <3>2. DOMAIN Tail(ch.wait) = 1..(Len(ch.wait) - 1) /\ Len(Tail(ch.wait)) = Len(ch.wait) - 1
      BY <1>2
    <3>3. 1 \in DOMAIN Tail(ch.wait) /\ new.wait # <<>>
      BY SMTT(30), <3>1, <3>2
    <3>4. Tail(ch.wait)[1] = ch.wait[1 + 1] /\ 1 + 1 \in DOMAIN ch.wait
      BY <1>2, <3>3
    <3> QED  BY <3>3, <3>4, WaitFront
  <2>2. ch.wait[2].kind = "Sender"
    BY SMTT(30), <1>1, <1>2, <2>1 DEF ChannelCoherent
  <2>3. ParkedPayloads(new) = [k \in 1..(Len(ch.wait) - 1) |-> new.wait[k].payload]
    BY <1>2, <2>1, <2>2 DEF ParkedPayloads, FrontIs
  <2>4. /\ ParkedPayloads(new) \in Seq(Payload) /\ Len(ParkedPayloads(new)) = Len(ch.wait) - 1
    BY <1>2, <2>1, <2>2, ParkedPayloadsType DEF FrontIs
  <2>5. \A k \in 1..(Len(ch.wait) - 1) : ParkedPayloads(new)[k] = Tail(ParkedPayloads(ch))[k]
    BY <1>2, <1>5, <2>3
  <2> QED  BY <1>5, <2>4, <2>5, SeqEqual
<1> QED  BY <1>6, <1>7

\* Parking one more sender adds its payload at the end.
LEMMA ParkedPayloadsAppend ==
    ASSUME NEW ch \in Channel, SendersLoaded(ch), ChannelCoherent(ch), ~FrontIs(ch, "Receiver"),
           NEW c \in Continuation, NEW p \in Payload,
           NEW new \in Channel, SendersLoaded(new), ChannelCoherent(new),
           new.wait = Append(ch.wait, Sender(c, p))
    PROVE  ParkedPayloads(new) = Append(ParkedPayloads(ch), p)
<1>1. /\ ch.wait \in Seq(Waiter) /\ Len(ch.wait) \in Nat /\ DOMAIN ch.wait = 1..Len(ch.wait)
  BY ChannelParts
<1>2. Sender(c, p) \in Waiter /\ Sender(c, p).kind = "Sender" /\ Sender(c, p).payload = p
  BY DEF Sender, Waiter
<1>3. /\ new.wait \in Seq(Waiter) /\ Len(new.wait) = Len(ch.wait) + 1 /\ new.wait # <<>>
      /\ DOMAIN new.wait = 1..(Len(ch.wait) + 1)
      /\ Head(new.wait) = new.wait[1]
      /\ new.wait[Len(ch.wait) + 1] = Sender(c, p)
      /\ \A k \in 1..Len(ch.wait) : new.wait[k] = ch.wait[k]
  BY <1>1, <1>2, AppendProperties, WaitFront
<1>4. FrontIs(new, "Sender")
  BY <1>1, <1>2, <1>3 DEF ChannelCoherent, FrontIs
<1>5. ParkedPayloads(new) = [k \in 1..(Len(ch.wait) + 1) |-> new.wait[k].payload]
  BY <1>3, <1>4 DEF ParkedPayloads
<1>6. ParkedPayloads(new) \in Seq(Payload) /\ Len(ParkedPayloads(new)) = Len(ch.wait) + 1
  BY <1>3, <1>4, ParkedPayloadsType
<1>7. CASE ch.wait = <<>>
  <2>1. ParkedPayloads(ch) = <<>> /\ Len(ch.wait) = 0
    BY <1>7 DEF ParkedPayloads, FrontIs
  <2>2. ParkedPayloads(new)[1] = p /\ Len(ParkedPayloads(new)) = 1
    BY <1>2, <1>3, <1>5, <1>6, <2>1
  <2> QED  BY <1>6, <2>1, <2>2
<1>8. CASE ch.wait # <<>>
  <2>1. FrontIs(ch, "Sender")
    BY <1>8, FrontKind
  <2>2. ParkedPayloads(ch) = [k \in 1..Len(ch.wait) |-> ch.wait[k].payload]
    BY <1>1, <2>1 DEF ParkedPayloads
  <2>3. ParkedPayloads(ch) \in Seq(Payload) /\ Len(ParkedPayloads(ch)) = Len(ch.wait)
    BY <2>1, ParkedPayloadsType
  <2>4. \A k \in 1..(Len(ch.wait) + 1) : ParkedPayloads(new)[k] = Append(ParkedPayloads(ch), p)[k]
    BY <1>1, <1>2, <1>3, <1>5, <2>2, <2>3
  <2>5. Append(ParkedPayloads(ch), p) \in Seq(Payload) /\ Len(Append(ParkedPayloads(ch), p)) = Len(ch.wait) + 1
    BY <2>3
  <2> QED  BY <1>6, <2>4, <2>5, SeqEqual
<1> QED  BY <1>7, <1>8

-----------------------------------------------------------------------------
(***************************************************************************)
(* Every operation keeps the histories in order and is a step of Fifo, or  *)
(* none.                                                                   *)
(***************************************************************************)
FifoStep == [Contract!Next]_(Contract!fifoVars)
OrderKept == HistoryOK' /\ InOrder' /\ FifoStep

\* Parts of the invariant that every operation needs.
LEMMA OrderParts ==
    ASSUME OrderInv, NEW h \in handles
    PROVE  /\ TableInv /\ handles \subseteq Handle /\ h \in Handle
           /\ offered[h] \in Seq(Payload) /\ accepted[h] \in Seq(Payload) /\ received[h] \in Seq(Payload)
           /\ OrderedRow(At(h), offered[h], accepted[h], received[h])
           /\ IsPrefix(accepted[h], offered[h])
  BY InOrderEach DEF OrderInv, Inv, TableInv, HistoryOK, OrderedRow

\* A step that touches neither the table nor the histories.
LEMMA IdleKept ==
    ASSUME OrderInv, UNCHANGED <<table, handles, offered, accepted, received, ended>>
    PROVE  OrderKept
<1>1. HistoryOK'
  BY DEF OrderInv, HistoryOK
<1>2. \A h : At(h)' = At(h)
  BY DEF table, At
<1>3. InOrder'
  BY <1>2 DEF OrderInv, InOrder, Live
<1>4. Opens' = Opens
  BY <1>2 DEF Opens, Sendable, Live
<1> QED  BY <1>1, <1>3, <1>4 DEF OrderKept, FifoStep, Contract!fifoVars, Opens

\* The set of open handles only depends on what the handles name.
LEMMA OpensSame ==
    ASSUME handles' = handles, NEW h \in handles,
           \A g \in handles : g # h => At(g)' = At(g)
    PROVE  /\ (Sendable(h)' <=> Sendable(h)) => Opens' = Opens
           /\ (Sendable(h) /\ ~Sendable(h)') => Opens' = Opens \ {h}
  BY DEF Opens, Sendable, Live

\* A sequence and its one-element extension.
LEMMA OneMoreOpened ==
    ASSUME NEW S, NEW r \in Seq(S), NEW p \in S
    PROVE  /\ Append(r, p) \in Seq(S) /\ Append(r, p) = r \o <<p>>
           /\ Append(r, p) \o <<>> = Append(r, p) /\ r \o <<>> = r
           /\ Len(r) + 1 <= Len(Append(r, p)) /\ Len(r) + 0 <= Len(r)
           /\ SubSeq(Append(r, p), 1, Len(r) + 1) = Append(r, p)
           /\ SubSeq(Append(r, p), 1, Len(r) + 0) = r
           /\ SubSeq(r, 1, Len(r) + 0) = r
           /\ IsPrefix(Append(r, p), Append(r, p)) /\ IsPrefix(r, r)
<1>1. /\ Append(r, p) \in Seq(S) /\ Append(r, p) = r \o <<p>>
      /\ Append(r, p) \o <<>> = Append(r, p) /\ r \o <<>> = r
      /\ Len(r) \in Nat /\ Len(Append(r, p)) = Len(r) + 1
  OBVIOUS
<1>2. Len(r) + 0 = Len(r)
  BY <1>1
<1>3. SubSeq(r, 1, Len(r)) = r /\ SubSeq(Append(r, p), 1, Len(r)) = r
  BY <1>1
<1>4. SubSeq(Append(r, p), 1, Len(r) + 1) = Append(r, p)
  BY <1>1
<1>5. <<>> \in Seq(S)
  OBVIOUS
<1>6. IsPrefix(Append(r, p), Append(r, p)) /\ IsPrefix(r, r)
  BY <1>1, <1>5, PrefixOfConcat
<1> QED  BY <1>1, <1>2, <1>3, <1>4, <1>6

\* At most one payload is added to a history.
Pushed(log, next, h) == next = log \/ \E p \in Payload : next = Push(log, h, p)

\* What a history is after at most one payload was added to it.
LEMMA PushedLog ==
    ASSUME NEW log \in [Handle -> Seq(Payload)], NEW next, NEW h \in Handle, Pushed(log, next, h)
    PROVE  /\ next \in [Handle -> Seq(Payload)]
           /\ \A g \in Handle : g # h => next[g] = log[g]
           /\ next[h] = log[h] \/ \E p \in Payload : next[h] = Append(log[h], p)
<1>1. CASE next = log
  BY <1>1
<1>2. ASSUME NEW p \in Payload, next = Push(log, h, p)
      PROVE  /\ next \in [Handle -> Seq(Payload)]
             /\ \A g \in Handle : g # h => next[g] = log[g]
             /\ next[h] = Append(log[h], p)
  BY <1>2, PushLog
<1> QED  BY <1>1, <1>2 DEF Pushed

\* Appending nothing or one payload, as Fifo writes it.
LEMMA FifoAdmits ==
    ASSUME accepted \in [Handle -> Seq(Payload)], NEW h \in Handle, Pushed(accepted, accepted', h)
    PROVE  \E admitted \in {<<>>} \cup {<<p>> : p \in Payload} :
              /\ admitted # <<>> => accepted' # accepted
              /\ accepted' = [accepted EXCEPT ![h] = @ \o admitted]
<1>1. accepted[h] \in Seq(Payload)
  OBVIOUS
<1>2. CASE accepted' = accepted
  <2>1. accepted[h] \o <<>> = accepted[h]
    BY <1>1
  <2>2. accepted' = [accepted EXCEPT ![h] = @ \o <<>>]
    BY <1>2, <2>1
  <2> QED  BY <2>2
<1>3. ASSUME NEW p \in Payload, accepted' = Push(accepted, h, p)
      PROVE  <<p>> \in {<<>>} \cup {<<q>> : q \in Payload} /\ accepted' # accepted /\ accepted' = [accepted EXCEPT ![h] = @ \o <<p>>]
  <2>1. Append(accepted[h], p) = accepted[h] \o <<p>>
    BY <1>1, OneMoreOpened
  <2>2. accepted' = [accepted EXCEPT ![h] = @ \o <<p>>]
    BY <1>3, <2>1 DEF Push
  <2>3. accepted'[h] = Append(accepted[h], p) /\ Append(accepted[h], p) # accepted[h]
    BY <1>1, <1>3, PushLog
  <2> QED  BY <2>2, <2>3
<1> QED  BY <1>2, <1>3 DEF Pushed

\* The three histories after a step that adds at most one payload to each.
LEMMA PushedLogs ==
    ASSUME NEW h \in Handle,
           offered \in [Handle -> Seq(Payload)], Pushed(offered, offered', h),
           accepted \in [Handle -> Seq(Payload)], Pushed(accepted, accepted', h),
           received \in [Handle -> Seq(Payload)], Pushed(received, received', h)
    PROVE  /\ offered' \in [Handle -> Seq(Payload)]
           /\ accepted' \in [Handle -> Seq(Payload)]
           /\ received' \in [Handle -> Seq(Payload)]
           /\ \A g \in Handle : g # h => /\ offered'[g] = offered[g] /\ accepted'[g] = accepted[g]
                                         /\ received'[g] = received[g]
           /\ received'[h] = received[h] \/ \E p \in Payload : received'[h] = Append(received[h], p)
<1>1. /\ offered' \in [Handle -> Seq(Payload)]
      /\ \A g \in Handle : g # h => offered'[g] = offered[g]
  BY PushedLog
<1>2. /\ accepted' \in [Handle -> Seq(Payload)]
      /\ \A g \in Handle : g # h => accepted'[g] = accepted[g]
  BY PushedLog
<1>3. /\ received' \in [Handle -> Seq(Payload)]
      /\ \A g \in Handle : g # h => received'[g] = received[g]
      /\ received'[h] = received[h] \/ \E p \in Payload : received'[h] = Append(received[h], p)
  BY PushedLog
<1> QED  BY <1>1, <1>2, <1>3

\* A step that accepts at most one payload and hands out at most one keeps the
\* histories in order, if it does so for its own handle, and is a Move of Fifo.
LEMMA MoveKept ==
    ASSUME OrderInv, NEW h \in handles, handles' = handles, ended' = ended,
           NEW new \in Channel \cup {NoChannel},
           \A g \in handles : At(g)' = IF g = h THEN new ELSE At(g),
           Sendable(h) <=> new # NoChannel /\ ~new.closed,
           Pushed(offered, offered', h), Pushed(accepted, accepted', h), Pushed(received, received', h),
           accepted' # accepted => Sendable(h),
           OrderedRow(new, offered'[h], accepted'[h], received'[h])
    PROVE  OrderKept
<1>1. /\ handles \subseteq Handle /\ h \in Handle
      /\ offered \in [Handle -> Seq(Payload)]
      /\ accepted \in [Handle -> Seq(Payload)]
      /\ received \in [Handle -> Seq(Payload)]
      /\ InOrder /\ HistoryOK
  BY OrderParts DEF OrderInv, HistoryOK
<1>2. /\ offered' \in [Handle -> Seq(Payload)]
      /\ accepted' \in [Handle -> Seq(Payload)]
      /\ received' \in [Handle -> Seq(Payload)]
      /\ \A g \in Handle : g # h => /\ offered'[g] = offered[g] /\ accepted'[g] = accepted[g]
                                    /\ received'[g] = received[g]
      /\ received'[h] = received[h] \/ \E p \in Payload : received'[h] = Append(received[h], p)
  BY <1>1, PushedLogs
<1>3. HistoryOK'
  BY <1>1, <1>2 DEF HistoryOK
<1>4. At(h)' = new
  OBVIOUS
<1>5. InOrder'
  <2>1. OrderedRow(At(h)', offered'[h], accepted'[h], received'[h])
    BY <1>4
  <2>2. \A g \in handles : g # h =>
              /\ At(g)' = At(g)
              /\ offered'[g] = offered[g] /\ accepted'[g] = accepted[g] /\ received'[g] = received[g]
    BY <1>1, <1>2
  <2> QED  BY <1>1, <1>3, <2>1, <2>2, OneHandleOrder
<1>6. Sendable(h)' <=> Sendable(h)
  BY <1>4 DEF Sendable, Live
<1>7. Opens' = Opens
  BY <1>6, OpensSame
<1>8. /\ SubSeq(accepted'[h], 1, Len(received'[h])) = received'[h]
      /\ Len(received'[h]) <= Len(accepted'[h])
      /\ Len(received'[h]) \in Nat
  <2>1. PICK b \in Seq(Payload) : accepted'[h] = received'[h] \o b
    <3>1. CASE new = NoChannel
      <4>1. accepted'[h] = received'[h] /\ received'[h] \in Seq(Payload) /\ <<>> \in Seq(Payload)
        BY <1>1, <1>2, <3>1 DEF OrderedRow
      <4>2. received'[h] \o <<>> = received'[h]
        BY <4>1
      <4> QED  BY <4>1, <4>2
    <3>2. CASE new # NoChannel
      BY <3>2, ChannelParts DEF OrderedRow
    <3> QED  BY <3>1, <3>2
  <2>2. received'[h] \in Seq(Payload)
    BY <1>1, <1>2
  <2> QED  BY <2>1, <2>2, CutPrefix, LenProperties
<1>9. PICK n \in 0..1 : Len(received'[h]) = Len(received[h]) + n
  <2>1. received[h] \in Seq(Payload) /\ Len(received[h]) \in Nat
    BY <1>1
  <2>2. CASE received'[h] = received[h]
    <3>1. Len(received'[h]) = Len(received[h]) + 0
      BY <2>1, <2>2
    <3> QED  BY <3>1
  <2>3. ASSUME NEW p \in Payload, received'[h] = Append(received[h], p)
        PROVE  Len(received'[h]) = Len(received[h]) + 1
    BY <2>1, <2>3
  <2> QED  BY <1>2, <2>2, <2>3
<1>10. received' = [received EXCEPT ![h] = SubSeq(accepted'[h], 1, Len(@) + n)]
  <2>1. received'[h] = SubSeq(accepted'[h], 1, Len(received[h]) + n)
    BY <1>8, <1>9
  <2> QED  BY <1>1, <1>2, <2>1
<1>11. PICK admitted \in {<<>>} \cup {<<p>> : p \in Payload} :
              /\ admitted # <<>> => accepted' # accepted
              /\ accepted' = [accepted EXCEPT ![h] = @ \o admitted]
  BY <1>1, FifoAdmits
<1>12. Contract!Move(h)
  <2>1. admitted # <<>> => h \in Opens
    BY <1>11 DEF Opens
  <2>2. Len(received[h]) + n <= Len(accepted'[h])
    BY <1>8, <1>9
  <2>3. UNCHANGED <<handles, Opens, ended>>
    BY <1>7
  <2> QED  BY <1>10, <1>11, <2>1, <2>2, <2>3 DEF Contract!Move, Opens
<1>13. FifoStep
  BY <1>1, <1>12 DEF FifoStep, Contract!Next
<1> QED  BY <1>3, <1>5, <1>13 DEF OrderKept

\* What a live handle of the table names, and the histories of its channel.
LEMMA LiveOrder ==
    ASSUME OrderInv, NEW h \in handles, Live(h)
    PROVE  /\ TableInv /\ h \in Handle
           /\ At(h) \in Channel /\ SendersLoaded(At(h)) /\ ChannelCoherent(At(h)) /\ At(h) # NoChannel
           /\ At(h).buffer \in Seq(Payload)
           /\ offered[h] \in Seq(Payload) /\ accepted[h] \in Seq(Payload) /\ received[h] \in Seq(Payload)
           /\ accepted[h] = received[h] \o At(h).buffer
           /\ At(h).closed \/ offered[h] = accepted[h] \o ParkedPayloads(At(h))
           /\ IsPrefix(accepted[h], offered[h])
           /\ \A p \in Payload : /\ Push(offered, h, p)[h] = Append(offered[h], p)
                                 /\ Push(accepted, h, p)[h] = Append(accepted[h], p)
                                 /\ Push(received, h, p)[h] = Append(received[h], p)
<1>1. /\ TableInv /\ h \in Handle
      /\ offered[h] \in Seq(Payload) /\ accepted[h] \in Seq(Payload) /\ received[h] \in Seq(Payload)
      /\ OrderedRow(At(h), offered[h], accepted[h], received[h])
      /\ IsPrefix(accepted[h], offered[h])
  BY OrderParts
<1>2. At(h) # NoChannel
  BY DEF Live
<1>3. At(h) \in Channel /\ SendersLoaded(At(h)) /\ ChannelCoherent(At(h)) /\ At(h).buffer \in Seq(Payload)
  BY <1>1, LiveRow, ChannelParts
<1>4. /\ accepted[h] = received[h] \o At(h).buffer
      /\ At(h).closed \/ offered[h] = accepted[h] \o ParkedPayloads(At(h))
  BY <1>1, <1>2 DEF OrderedRow
<1>5. \A p \in Payload : /\ Push(offered, h, p)[h] = Append(offered[h], p)
                         /\ Push(accepted, h, p)[h] = Append(accepted[h], p)
                         /\ Push(received, h, p)[h] = Append(received[h], p)
  BY <1>1, PushLog DEF OrderInv, HistoryOK
<1> QED  BY <1>1, <1>2, <1>3, <1>4, <1>5

\* A queue whose front is a receiver holds no payload, nor does the rest of it.
LEMMA ReceiversHoldNothing ==
    ASSUME NEW ch \in Channel, ChannelCoherent(ch), FrontIs(ch, "Receiver"),
           NEW new \in Channel, new.wait = Tail(ch.wait)
    PROVE  ch.buffer = <<>> /\ ParkedPayloads(ch) = <<>> /\ ParkedPayloads(new) = <<>>
<1>1. ch.wait # <<>> /\ Head(ch.wait).kind = "Receiver"
  BY DEF FrontIs
<1>2. ch.wait[1].kind = "Receiver" /\ 1 \in DOMAIN ch.wait
  BY <1>1, WaitFront
<1>3. ch.buffer = <<>> /\ \A k \in DOMAIN ch.wait : ch.wait[k].kind = "Receiver"
  BY <1>2 DEF ChannelCoherent
<1>4. ParkedPayloads(ch) = <<>>
  BY <1>1 DEF ParkedPayloads, FrontIs
<1>5. ParkedPayloads(new) = <<>>
  <2>1. SUFFICES ASSUME new.wait # <<>> PROVE Head(new.wait).kind # "Sender"
    BY DEF ParkedPayloads, FrontIs
  <2>2. Head(new.wait) = new.wait[1] /\ 1 \in DOMAIN new.wait
    BY <2>1, WaitFront
  <2>3. new.wait[1] = ch.wait[1 + 1] /\ 1 + 1 \in DOMAIN ch.wait
    BY <1>1, <2>2, WaitFront
  <2> QED  BY <1>3, <2>2, <2>3
<1> QED  BY <1>3, <1>4, <1>5

\* A payload handed to a parked receiver.
LEMMA SendHandoffKept ==
    ASSUME OrderInv, NEW h \in handles, NEW p \in Payload, SendHandoff(h, p),
           offered' = Push(offered, h, p), accepted' = Push(accepted, h, p),
           received' = Push(received, h, p), ended' = ended
    PROVE  OrderKept
<1>1. /\ Sendable(h) /\ Live(h) /\ ~At(h).closed /\ FrontIs(At(h), "Receiver") /\ handles' = handles
      /\ Store(h.index, [At(h) EXCEPT !.wait = Tail(At(h).wait)])
  BY DEF SendHandoff, Sendable
<1>2. PICK ch \in Channel : ch = At(h)
  BY <1>1, LiveOrder
<1>3. /\ TableInv /\ SendersLoaded(ch) /\ ChannelCoherent(ch) /\ received[h] \in Seq(Payload)
      /\ accepted[h] \in Seq(Payload)
      /\ accepted[h] = received[h] \o ch.buffer /\ offered[h] = accepted[h] \o ParkedPayloads(ch)
      /\ offered'[h] = Append(offered[h], p) /\ accepted'[h] = Append(accepted[h], p)
      /\ received'[h] = Append(received[h], p)
  BY <1>1, <1>2, LiveOrder
<1>4. PICK new \in Channel : new = [ch EXCEPT !.wait = Tail(ch.wait)]
  BY <1>1, <1>2, <1>3, TakeWaiter DEF FrontIs
<1>5. new.wait = Tail(ch.wait) /\ new.buffer = ch.buffer /\ new.closed = ch.closed /\ new # NoChannel
  BY <1>4, NoChannelAssumption DEF Channel
<1>6. \A g \in handles : At(g)' = IF g = h THEN new ELSE At(g)
  BY <1>1, <1>2, <1>3, <1>4, StoreAt
<1>7. ch.buffer = <<>> /\ ParkedPayloads(ch) = <<>> /\ ParkedPayloads(new) = <<>>
  BY <1>1, <1>2, <1>3, <1>5, ReceiversHoldNothing
<1>8. accepted[h] = received[h] /\ offered[h] = received[h]
  BY <1>3, <1>7
<1>9. /\ Append(received[h], p) \o <<>> = Append(received[h], p)
      /\ IsPrefix(Append(received[h], p), Append(received[h], p))
  BY <1>3, OneMoreOpened
<1>10. OrderedRow(new, offered'[h], accepted'[h], received'[h])
  BY <1>3, <1>5, <1>7, <1>8, <1>9 DEF OrderedRow
<1>11. /\ Pushed(offered, offered', h) /\ Pushed(accepted, accepted', h) /\ Pushed(received, received', h)
       /\ (Sendable(h) <=> new # NoChannel /\ ~new.closed)
  BY <1>1, <1>2, <1>5 DEF Pushed
<1> QED  BY <1>1, <1>6, <1>10, <1>11, MoveKept

\* A payload put into the buffer.
LEMMA SendBufferedKept ==
    ASSUME OrderInv, NEW h \in handles, NEW p \in Payload, SendBuffered(h, p),
           offered' = Push(offered, h, p), accepted' = Push(accepted, h, p),
           received' = received, ended' = ended
    PROVE  OrderKept
<1>1. /\ Sendable(h) /\ Live(h) /\ ~At(h).closed /\ ~FrontIs(At(h), "Receiver") /\ handles' = handles
      /\ Len(At(h).buffer) < At(h).room
      /\ Store(h.index, [At(h) EXCEPT !.buffer = Append(At(h).buffer, p)])
  BY DEF SendBuffered, Sendable
<1>2. PICK ch \in Channel : ch = At(h)
  BY <1>1, LiveOrder
<1>3. /\ TableInv /\ ChannelCoherent(ch) /\ received[h] \in Seq(Payload) /\ accepted[h] \in Seq(Payload)
      /\ ch.buffer \in Seq(Payload)
      /\ accepted[h] = received[h] \o ch.buffer /\ offered[h] = accepted[h] \o ParkedPayloads(ch)
      /\ offered'[h] = Append(offered[h], p) /\ accepted'[h] = Append(accepted[h], p)
  BY <1>1, <1>2, LiveOrder
<1>4. PICK new \in Channel : new = [ch EXCEPT !.buffer = Append(ch.buffer, p)]
  BY <1>1, <1>2, <1>3, PushPayload
<1>5. new.wait = <<>> /\ ch.wait = <<>>
  BY <1>1, <1>2, <1>3, <1>4, PushPayload
<1>6. new.buffer = Append(ch.buffer, p) /\ new.closed = ch.closed /\ new # NoChannel
  BY <1>4, NoChannelAssumption DEF Channel
<1>7. \A g \in handles : At(g)' = IF g = h THEN new ELSE At(g)
  BY <1>1, <1>2, <1>3, <1>4, StoreAt
<1>8. ParkedPayloads(ch) = <<>> /\ ParkedPayloads(new) = <<>>
  BY <1>5 DEF ParkedPayloads, FrontIs
<1>9. offered[h] = accepted[h]
  BY <1>3, <1>8
<1>10. Append(received[h] \o ch.buffer, p) = received[h] \o Append(ch.buffer, p)
  <2>1. \A r, b \in Seq(Payload) : Append(r \o b, p) = r \o Append(b, p)
    BY AppendLast
  <2> QED  BY <1>3, <2>1
<1>11. /\ Append(accepted[h], p) \o <<>> = Append(accepted[h], p)
       /\ IsPrefix(Append(accepted[h], p), Append(accepted[h], p))
  BY <1>3, OneMoreOpened
<1>12. OrderedRow(new, offered'[h], accepted'[h], received'[h])
  BY <1>3, <1>6, <1>8, <1>9, <1>10, <1>11 DEF OrderedRow
<1>13. /\ Pushed(offered, offered', h) /\ Pushed(accepted, accepted', h) /\ Pushed(received, received', h)
       /\ (Sendable(h) <=> new # NoChannel /\ ~new.closed)
  BY <1>1, <1>2, <1>6 DEF Pushed
<1> QED  BY <1>1, <1>7, <1>12, <1>13, MoveKept

\* A sender that parks with its payload.
LEMMA SendParkedKept ==
    ASSUME OrderInv, NEW h \in handles, NEW p \in Payload, NEW c \in Continuation, SendParked(h, p, c),
           offered' = Push(offered, h, p), accepted' = accepted, received' = received, ended' = ended
    PROVE  OrderKept
<1>1. /\ Sendable(h) /\ Live(h) /\ ~At(h).closed /\ ~FrontIs(At(h), "Receiver") /\ handles' = handles
      /\ Len(At(h).buffer) >= At(h).room
      /\ Store(h.index, [At(h) EXCEPT !.wait = Append(At(h).wait, Sender(c, p))])
  BY DEF SendParked, Sendable
<1>2. PICK ch \in Channel : ch = At(h)
  BY <1>1, LiveOrder
<1>3. /\ TableInv /\ SendersLoaded(ch) /\ ChannelCoherent(ch) /\ accepted[h] \in Seq(Payload)
      /\ accepted[h] = received[h] \o ch.buffer /\ offered[h] = accepted[h] \o ParkedPayloads(ch)
      /\ offered'[h] = Append(offered[h], p)
  BY <1>1, <1>2, LiveOrder
<1>4. Sender(c, p) \in Waiter /\ Sender(c, p).kind = "Sender" /\ Sender(c, p).payload = p
  BY DEF Sender, Waiter
<1>5. PICK new \in Channel : new = [ch EXCEPT !.wait = Append(ch.wait, Sender(c, p))]
  BY <1>1, <1>2, <1>3, <1>4, ParkWaiter
<1>6. SendersLoaded(new) /\ ChannelCoherent(new)
  BY <1>1, <1>2, <1>3, <1>4, <1>5, ParkWaiter
<1>7. new.wait = Append(ch.wait, Sender(c, p)) /\ new.buffer = ch.buffer /\ new.closed = ch.closed /\ new # NoChannel
  BY <1>5, NoChannelAssumption DEF Channel
<1>8. \A g \in handles : At(g)' = IF g = h THEN new ELSE At(g)
  BY <1>1, <1>2, <1>3, <1>5, StoreAt
<1>9. ParkedPayloads(new) = Append(ParkedPayloads(ch), p) /\ ParkedPayloads(ch) \in Seq(Payload)
  BY <1>1, <1>2, <1>3, <1>6, <1>7, ParkedPayloadsAppend, ParkedPayloadsType
<1>10. Append(accepted[h] \o ParkedPayloads(ch), p) = accepted[h] \o Append(ParkedPayloads(ch), p)
  <2>1. \A r, b \in Seq(Payload) : Append(r \o b, p) = r \o Append(b, p)
    BY AppendLast
  <2> QED  BY <1>3, <1>9, <2>1
<1>11. offered'[h] = accepted[h] \o ParkedPayloads(new) /\ ParkedPayloads(new) \in Seq(Payload)
  <2>1. Append(ParkedPayloads(ch), p) \in Seq(Payload)
    BY <1>9, OneMoreOpened
  <2> QED  BY <1>3, <1>9, <1>10, <2>1
<1>12. IsPrefix(accepted[h], offered'[h])
  BY <1>3, <1>11, PrefixOfConcat
<1>13. OrderedRow(new, offered'[h], accepted'[h], received'[h])
  BY <1>3, <1>7, <1>11, <1>12 DEF OrderedRow
<1>14. /\ Pushed(offered, offered', h) /\ Pushed(accepted, accepted', h) /\ Pushed(received, received', h)
       /\ (Sendable(h) <=> new # NoChannel /\ ~new.closed)
  BY <1>1, <1>2, <1>7 DEF Pushed
<1> QED  BY <1>1, <1>8, <1>13, <1>14, MoveKept

\* The offer of a payload on a channel.
LEMMA SendKept ==
    ASSUME OrderInv, NEW h \in handles, NEW p \in Payload, NEW c \in Continuation, OrderedSend(h, p, c)
    PROVE  OrderKept
<1>1. /\ offered' = IF transition'.outcome = "parked" \/ Told("True") THEN Push(offered, h, p) ELSE offered
      /\ accepted' = IF Told("True") THEN Push(accepted, h, p) ELSE accepted
      /\ received' = IF Told("Some") THEN Push(received, h, p) ELSE received
      /\ ended' = ended
  BY DEF OrderedSend
<1>2. CASE SendRefused(h)
  <2>1. transition' = Ready(Plain("False"), <<>>) /\ UNCHANGED <<table, handles>>
    BY <1>2 DEF SendRefused
  <2>2. ~Told("True") /\ ~Told("Some") /\ transition'.outcome # "parked"
    BY <2>1, ToldWhat DEF Plain
  <2> QED  BY <1>1, <2>1, <2>2, IdleKept
<1>3. CASE SendExhausted(h)
  <2>1. (\E e : transition' = Failed(e)) /\ UNCHANGED <<table, handles>>
    BY <1>3 DEF SendExhausted
  <2>2. ~Told("True") /\ ~Told("Some") /\ transition'.outcome # "parked"
    BY <2>1, ToldWhat
  <2> QED  BY <1>1, <2>1, <2>2, IdleKept
<1>4. CASE SendHandoff(h, p)
  <2>1. PICK w : transition' = Ready(Plain("True"), <<w>>) /\ w.answer = Some(p)
    BY SMTT(30), <1>4 DEF SendHandoff
  <2>2. Plain("True").tag = "True" /\ w.answer.tag = "Some" /\ <<w>>[1] = w /\ 1 \in DOMAIN <<w>>
    BY <2>1 DEF Plain, Some
  <2>3. Told("True") /\ Told("Some")
    BY <2>1, <2>2, ToldWhat
  <2> QED  BY <1>1, <1>4, <2>3, SendHandoffKept
<1>5. CASE SendBuffered(h, p)
  <2>1. transition' = Ready(Plain("True"), <<>>)
    BY <1>5 DEF SendBuffered
  <2>2. Told("True") /\ ~Told("Some")
    BY <2>1, ToldWhat DEF Plain
  <2> QED  BY <1>1, <1>5, <2>2, SendBufferedKept
<1>6. CASE SendParked(h, p, c)
  <2>1. transition' = Parked
    BY <1>6 DEF SendParked
  <2>2. ~Told("True") /\ ~Told("Some") /\ transition'.outcome = "parked"
    BY <2>1, ToldWhat
  <2> QED  BY <1>1, <1>6, <2>2, SendParkedKept
<1> QED  BY <1>2, <1>3, <1>4, <1>5, <1>6 DEF OrderedSend, Send

\* The oldest payload of a channel nobody waits on is received.
LEMMA RecvBufferedKept ==
    ASSUME OrderInv, NEW h \in handles, RecvBuffered(h), offered' = offered, accepted' = accepted,
           received' = Push(received, h, Head(At(h).buffer)), ended' = ended
    PROVE  OrderKept
<1>1. /\ Live(h) /\ At(h).buffer # <<>> /\ At(h).wait = <<>> /\ handles' = handles
      /\ StoreOrRelease(h.index, [At(h) EXCEPT !.buffer = Tail(At(h).buffer)])
  BY DEF RecvBuffered
<1>2. PICK ch \in Channel : ch = At(h)
  BY <1>1, LiveOrder
<1>3. /\ TableInv /\ ChannelCoherent(ch) /\ ch # NoChannel
      /\ received[h] \in Seq(Payload) /\ ch.buffer \in Seq(Payload) /\ accepted[h] \in Seq(Payload)
      /\ accepted[h] = received[h] \o ch.buffer
      /\ ch.closed \/ offered[h] = accepted[h] \o ParkedPayloads(ch)
      /\ IsPrefix(accepted[h], offered[h])
      /\ \A p \in Payload : Push(received, h, p)[h] = Append(received[h], p)
  BY <1>1, <1>2, LiveOrder
<1>4. PICK new \in Channel : new = [ch EXCEPT !.buffer = Tail(ch.buffer)]
  BY <1>1, <1>2, <1>3, PopPayload
<1>5. Head(ch.buffer) \in Payload /\ Tail(ch.buffer) \in Seq(Payload)
  BY <1>1, <1>2, <1>3, HeadTailProperties
<1>6. new.buffer = Tail(ch.buffer) /\ new.closed = ch.closed /\ new # NoChannel /\ new.wait = <<>> /\ ch.wait = <<>>
  BY <1>1, <1>2, <1>4, NoChannelAssumption DEF Channel
<1>7. PICK x \in Channel \cup {NoChannel} : x = IF new.closed /\ new.buffer = <<>> THEN NoChannel ELSE new
  OBVIOUS
<1>8. \A g \in handles : At(g)' = IF g = h THEN x ELSE At(g)
  <2>1. StoreOrRelease(h.index, new)
    BY <1>1, <1>2, <1>4
  <2>2. \A g \in handles : At(g)' = IF g # h THEN At(g)
                                    ELSE IF new.closed /\ new.buffer = <<>> THEN NoChannel ELSE new
    BY <1>1, <1>3, <2>1, StoreOrReleaseAt
  <2> QED  BY <1>7, <2>2
<1>9. ParkedPayloads(ch) = <<>> /\ ParkedPayloads(new) = <<>>
  BY <1>6 DEF ParkedPayloads, FrontIs
<1>10. received'[h] = Append(received[h], Head(ch.buffer))
  BY <1>2, <1>3, <1>5
<1>11. accepted'[h] = received'[h] \o new.buffer
  <2>1. Append(received[h], Head(ch.buffer)) \o Tail(ch.buffer) = received[h] \o ch.buffer
    BY <1>1, <1>2, <1>3, ShiftHead
  <2> QED  BY <1>3, <1>6, <1>10, <2>1
<1>12. new.buffer = <<>> => accepted'[h] = received'[h]
  <2>1. received'[h] \in Seq(Payload)
    <3>1. Append(received[h], Head(ch.buffer)) \in Seq(Payload)
      BY <1>3, <1>5, OneMoreOpened
    <3> QED  BY <1>10, <3>1
  <2>2. received'[h] \o <<>> = received'[h]
    BY <2>1
  <2> QED  BY <1>11, <2>2
<1>13. OrderedRow(x, offered'[h], accepted'[h], received'[h])
  <2>1. CASE new.closed /\ new.buffer = <<>>
    BY <1>3, <1>7, <1>12, <2>1 DEF OrderedRow
  <2>2. CASE ~(new.closed /\ new.buffer = <<>>)
    BY <1>3, <1>6, <1>7, <1>9, <1>11, <2>2 DEF OrderedRow
  <2> QED  BY <2>1, <2>2
<1>14. Sendable(h) <=> x # NoChannel /\ ~x.closed
  BY <1>2, <1>3, <1>6, <1>7 DEF Sendable, Live
<1>15. /\ Pushed(offered, offered', h) /\ Pushed(accepted, accepted', h) /\ Pushed(received, received', h)
  BY <1>2, <1>5 DEF Pushed
<1> QED  BY <1>1, <1>8, <1>13, <1>14, <1>15, MoveKept

\* The oldest payload is received and the oldest parked sender fills its slot.
LEMMA RecvRefilledKept ==
    ASSUME OrderInv, NEW h \in handles, RecvRefilled(h), offered' = offered,
           accepted' = Push(accepted, h, Head(At(h).wait).payload),
           received' = Push(received, h, Head(At(h).buffer)), ended' = ended
    PROVE  OrderKept
<1>1. Live(h) /\ At(h).buffer # <<>> /\ At(h).wait # <<>> /\ handles' = handles
  BY DEF RecvRefilled
<1>2. PICK ch \in Channel : ch = At(h)
  BY <1>1, LiveOrder
<1>3. /\ TableInv /\ SendersLoaded(ch) /\ ChannelCoherent(ch) /\ ch # NoChannel
      /\ received[h] \in Seq(Payload) /\ ch.buffer \in Seq(Payload) /\ accepted[h] \in Seq(Payload)
      /\ accepted[h] = received[h] \o ch.buffer
      /\ ch.closed \/ offered[h] = accepted[h] \o ParkedPayloads(ch)
      /\ \A p \in Payload : /\ Push(received, h, p)[h] = Append(received[h], p)
                            /\ Push(accepted, h, p)[h] = Append(accepted[h], p)
  BY <1>1, <1>2, LiveOrder
<1>a. ch.buffer # <<>> /\ ch.wait # <<>>
  BY <1>1, <1>2
<1>4. PICK p \in Payload : p = Head(ch.wait).payload
  BY <1>3, <1>a, RefillBuffer
<1>5. PICK new \in Channel : new = [ch EXCEPT !.buffer = Append(Tail(ch.buffer), p), !.wait = Tail(ch.wait)]
  BY <1>3, <1>4, <1>a, RefillBuffer
<1>6. /\ Head(ch.wait).kind = "Sender" /\ ~ch.closed /\ SendersLoaded(new) /\ ChannelCoherent(new)
      /\ Head(ch.buffer) \in Payload
  BY <1>3, <1>4, <1>5, <1>a, RefillBuffer
<1>7. /\ new.buffer = Append(Tail(ch.buffer), p) /\ new.wait = Tail(ch.wait) /\ new.closed = ch.closed
      /\ new # NoChannel
  BY <1>5, NoChannelAssumption DEF Channel
<1>8. \A g \in handles : At(g)' = IF g = h THEN new ELSE At(g)
  <2>1. StoreOrRelease(h.index, new)
    BY <1>2, <1>4, <1>5, <1>6 DEF RecvRefilled, Refilled
  <2>2. Store(h.index, new)
    BY <1>6, <1>7, <2>1 DEF StoreOrRelease
  <2> QED  BY <1>1, <1>3, <2>2, StoreAt
<1>9. FrontIs(ch, "Sender")
  BY <1>6, <1>a DEF FrontIs
<1>10. /\ ParkedPayloads(ch) \in Seq(Payload) /\ ParkedPayloads(ch) # <<>> /\ Head(ParkedPayloads(ch)) = p
       /\ ParkedPayloads(new) = Tail(ParkedPayloads(ch))
  <2>1. ParkedPayloads(new) = Tail(ParkedPayloads(ch))
    BY <1>3, <1>6, <1>7, <1>9, ParkedPayloadsTail
  <2> QED  BY <1>3, <1>4, <1>9, <2>1, ParkedPayloadsType
<1>11. received'[h] = Append(received[h], Head(ch.buffer)) /\ accepted'[h] = Append(accepted[h], p)
  BY <1>2, <1>3, <1>4, <1>6
<1>12. received'[h] \in Seq(Payload) /\ accepted'[h] \in Seq(Payload) /\ Tail(ch.buffer) \in Seq(Payload)
  <2>1. Append(received[h], Head(ch.buffer)) \in Seq(Payload) /\ Append(accepted[h], p) \in Seq(Payload)
    BY <1>3, <1>6, OneMoreOpened
  <2>2. Tail(ch.buffer) \in Seq(Payload)
    BY <1>3, <1>a
  <2> QED  BY <1>11, <2>1, <2>2
<1>13. accepted'[h] = received'[h] \o new.buffer
  <2>1. Append(received[h], Head(ch.buffer)) \o Tail(ch.buffer) = received[h] \o ch.buffer
    BY <1>3, <1>a, ShiftHead
  <2>2. Append(received'[h] \o Tail(ch.buffer), p) = received'[h] \o Append(Tail(ch.buffer), p)
    <3>1. \A r, b \in Seq(Payload) : Append(r \o b, p) = r \o Append(b, p)
      BY AppendLast
    <3> QED  BY <1>12, <3>1
  <2> QED  BY <1>3, <1>7, <1>11, <2>1, <2>2
<1>14. offered'[h] = accepted'[h] \o ParkedPayloads(new) /\ ParkedPayloads(new) \in Seq(Payload)
  <2>1. Append(accepted[h], Head(ParkedPayloads(ch))) \o Tail(ParkedPayloads(ch)) = accepted[h] \o ParkedPayloads(ch)
    BY <1>3, <1>10, ShiftHead
  <2>2. Tail(ParkedPayloads(ch)) \in Seq(Payload)
    BY <1>10
  <2> QED  BY <1>3, <1>6, <1>10, <1>11, <2>1, <2>2
<1>15. IsPrefix(accepted'[h], offered'[h])
  BY <1>12, <1>14, PrefixOfConcat
<1>16. OrderedRow(new, offered'[h], accepted'[h], received'[h])
  BY <1>7, <1>13, <1>14, <1>15 DEF OrderedRow
<1>17. Sendable(h) /\ (Sendable(h) <=> new # NoChannel /\ ~new.closed)
  BY <1>1, <1>2, <1>6, <1>7 DEF Sendable
<1>18. Pushed(offered, offered', h) /\ Pushed(accepted, accepted', h) /\ Pushed(received, received', h)
  BY <1>2, <1>4, <1>6 DEF Pushed
<1> QED  BY <1>1, <1>8, <1>16, <1>17, <1>18, MoveKept

\* A receiver takes the payload of a parked sender.
LEMMA RecvHandoffKept ==
    ASSUME OrderInv, NEW h \in handles, RecvHandoff(h), offered' = offered,
           accepted' = Push(accepted, h, Head(At(h).wait).payload),
           received' = Push(received, h, Head(At(h).wait).payload), ended' = ended
    PROVE  OrderKept
<1>1. /\ Live(h) /\ At(h).buffer = <<>> /\ FrontIs(At(h), "Sender") /\ handles' = handles
      /\ Store(h.index, [At(h) EXCEPT !.wait = Tail(At(h).wait)])
  BY DEF RecvHandoff
<1>2. PICK ch \in Channel : ch = At(h)
  BY <1>1, LiveOrder
<1>3. /\ TableInv /\ SendersLoaded(ch) /\ ChannelCoherent(ch) /\ ch # NoChannel
      /\ received[h] \in Seq(Payload) /\ accepted[h] \in Seq(Payload)
      /\ accepted[h] = received[h] \o ch.buffer
      /\ ch.closed \/ offered[h] = accepted[h] \o ParkedPayloads(ch)
      /\ \A p \in Payload : /\ Push(received, h, p)[h] = Append(received[h], p)
                            /\ Push(accepted, h, p)[h] = Append(accepted[h], p)
  BY <1>1, <1>2, LiveOrder
<1>4. ch.buffer = <<>> /\ FrontIs(ch, "Sender") /\ ch.wait # <<>> /\ ~ch.closed
  BY <1>1, <1>2, <1>3 DEF FrontIs, ChannelCoherent
<1>5. /\ ParkedPayloads(ch) \in Seq(Payload) /\ ParkedPayloads(ch) # <<>>
      /\ Head(ParkedPayloads(ch)) = Head(ch.wait).payload
  BY <1>3, <1>4, ParkedPayloadsType
<1>6. PICK p \in Payload : p = Head(ch.wait).payload
  BY <1>5, HeadTailProperties
<1>7. PICK new \in Channel : new = [ch EXCEPT !.wait = Tail(ch.wait)]
  BY <1>3, <1>4, TakeWaiter
<1>8. SendersLoaded(new) /\ ChannelCoherent(new)
  BY <1>3, <1>4, <1>7, TakeWaiter
<1>9. new.wait = Tail(ch.wait) /\ new.buffer = <<>> /\ new.closed = ch.closed /\ new # NoChannel
  BY <1>4, <1>7, NoChannelAssumption DEF Channel
<1>10. \A g \in handles : At(g)' = IF g = h THEN new ELSE At(g)
  BY <1>1, <1>2, <1>3, <1>7, StoreAt
<1>11. ParkedPayloads(new) = Tail(ParkedPayloads(ch))
  BY <1>3, <1>4, <1>8, <1>9, ParkedPayloadsTail
<1>12. accepted[h] = received[h]
  BY <1>3, <1>4
<1>13. received'[h] = Append(received[h], p) /\ accepted'[h] = Append(accepted[h], p)
  BY <1>2, <1>3, <1>6
<1>14. accepted'[h] = received'[h] /\ received'[h] \in Seq(Payload)
  <2>1. Append(received[h], p) \in Seq(Payload)
    BY <1>3, OneMoreOpened
  <2> QED  BY <1>12, <1>13, <2>1
<1>15. accepted'[h] = received'[h] \o new.buffer
  BY <1>9, <1>14
<1>16. offered'[h] = accepted'[h] \o ParkedPayloads(new) /\ ParkedPayloads(new) \in Seq(Payload)
  <2>1. Append(accepted[h], Head(ParkedPayloads(ch))) \o Tail(ParkedPayloads(ch)) = accepted[h] \o ParkedPayloads(ch)
    BY <1>3, <1>5, ShiftHead
  <2>2. Tail(ParkedPayloads(ch)) \in Seq(Payload)
    BY <1>5
  <2> QED  BY <1>3, <1>4, <1>5, <1>6, <1>11, <1>13, <2>1, <2>2
<1>17. IsPrefix(accepted'[h], offered'[h])
  BY <1>14, <1>16, PrefixOfConcat
<1>18. OrderedRow(new, offered'[h], accepted'[h], received'[h])
  BY <1>9, <1>15, <1>16, <1>17 DEF OrderedRow
<1>19. Sendable(h) /\ (Sendable(h) <=> new # NoChannel /\ ~new.closed)
  BY <1>1, <1>2, <1>4, <1>9 DEF Sendable
<1>20. Pushed(offered, offered', h) /\ Pushed(accepted, accepted', h) /\ Pushed(received, received', h)
  BY <1>2, <1>6 DEF Pushed
<1> QED  BY <1>1, <1>10, <1>18, <1>19, <1>20, MoveKept

\* A receiver that parks on an open, empty channel nobody sends to.
LEMMA RecvParkedKept ==
    ASSUME OrderInv, NEW h \in handles, NEW c \in Continuation, RecvEmpty(h, c), ~At(h).closed,
           offered' = offered, accepted' = accepted, received' = received, ended' = ended
    PROVE  OrderKept
<1>1. /\ Live(h) /\ At(h).buffer = <<>> /\ ~FrontIs(At(h), "Sender") /\ handles' = handles
      /\ Store(h.index, [At(h) EXCEPT !.wait = Append(At(h).wait, Receiver(c))])
  BY DEF RecvEmpty
<1>2. PICK ch \in Channel : ch = At(h)
  BY <1>1, LiveOrder
<1>3. /\ TableInv /\ SendersLoaded(ch) /\ ChannelCoherent(ch) /\ ch # NoChannel
      /\ accepted[h] = received[h] \o ch.buffer
      /\ offered[h] = accepted[h] \o ParkedPayloads(ch)
      /\ IsPrefix(accepted[h], offered[h])
      /\ ch.wait \in Seq(Waiter)
  BY <1>1, <1>2, LiveOrder, ChannelParts
<1>4. Receiver(c) \in Waiter /\ Receiver(c).kind = "Receiver"
  BY DEF Receiver, Waiter
<1>5. PICK new \in Channel : new = [ch EXCEPT !.wait = Append(ch.wait, Receiver(c))]
  BY <1>1, <1>2, <1>3, <1>4, ParkWaiter
<1>6. ChannelCoherent(new)
  BY <1>1, <1>2, <1>3, <1>4, <1>5, ParkWaiter
<1>7. new.wait = Append(ch.wait, Receiver(c)) /\ new.buffer = ch.buffer /\ new.closed = ch.closed /\ new # NoChannel
  BY <1>5, NoChannelAssumption DEF Channel
<1>8. \A g \in handles : At(g)' = IF g = h THEN new ELSE At(g)
  BY <1>1, <1>2, <1>3, <1>5, StoreAt
<1>9. ParkedPayloads(ch) = <<>>
  BY <1>1, <1>2 DEF ParkedPayloads
<1>10. ParkedPayloads(new) = <<>>
  <2>1. /\ Len(ch.wait) \in Nat /\ Len(new.wait) = Len(ch.wait) + 1 /\ DOMAIN new.wait = 1..(Len(ch.wait) + 1)
        /\ new.wait[Len(ch.wait) + 1] = Receiver(c)
    BY <1>3, <1>4, <1>7, AppendProperties, LenProperties
  <2>2. Len(ch.wait) + 1 \in DOMAIN new.wait /\ 1 \in DOMAIN new.wait /\ new.wait # <<>>
    BY <2>1
  <2>3. new.wait[1].kind = "Receiver" /\ Head(new.wait) = new.wait[1]
    BY <1>4, <1>6, <2>1, <2>2, WaitFront DEF ChannelCoherent
  <2> QED  BY <2>3 DEF ParkedPayloads, FrontIs
<1>11. OrderedRow(new, offered'[h], accepted'[h], received'[h])
  BY <1>3, <1>7, <1>9, <1>10 DEF OrderedRow
<1>12. Sendable(h) <=> new # NoChannel /\ ~new.closed
  BY <1>1, <1>2, <1>7 DEF Sendable
<1>13. Pushed(offered, offered', h) /\ Pushed(accepted, accepted', h) /\ Pushed(received, received', h)
  BY DEF Pushed
<1> QED  BY <1>1, <1>8, <1>11, <1>12, <1>13, MoveKept

\* A receiver is told that a channel which is gone has ended.
LEMMA RecvStaleKept ==
    ASSUME OrderInv, NEW h \in handles, RecvStale(h), UNCHANGED <<offered, accepted, received>>,
           ended' = ended \cup {h}
    PROVE  OrderKept
<1>1. ~Live(h) /\ UNCHANGED <<table, handles>>
  BY DEF RecvStale
<1>2. h \in Handle /\ accepted[h] = received[h]
  BY <1>1, OrderParts DEF OrderedRow, Live
<1>3. HistoryOK'
  BY <1>1 DEF OrderInv, HistoryOK
<1>4. \A g : At(g)' = At(g)
  BY <1>1 DEF table, At
<1>5. InOrder'
  BY <1>1, <1>4 DEF OrderInv, InOrder, Live
<1>6. Opens' = Opens /\ h \notin Opens
  BY <1>1, <1>4 DEF Opens, Sendable, Live
<1>7. Contract!End(h)
  BY <1>1, <1>2, <1>6 DEF Contract!End, Contract!Drained, Opens
<1> QED  BY <1>2, <1>3, <1>5, <1>7 DEF OrderKept, FifoStep, Contract!Next

\* The request of a payload.
LEMMA RecvKept ==
    ASSUME OrderInv, NEW h \in handles, NEW c \in Continuation, OrderedRecv(h, c)
    PROVE  OrderKept
<1>1. /\ received' = IF Told("Some") THEN Push(received, h, transition'.answer.payload) ELSE received
      /\ accepted' = IF Told("True") THEN Push(accepted, h, Head(At(h).wait).payload) ELSE accepted
      /\ ended' = IF Told("None") THEN ended \cup {h} ELSE ended
      /\ offered' = offered
  BY DEF OrderedRecv
<1>2. CASE RecvStale(h)
  <2>1. transition' = Ready(Plain("None"), <<>>)
    BY <1>2 DEF RecvStale
  <2>2. ~Told("True") /\ ~Told("Some") /\ Told("None")
    BY <2>1, ToldWhat DEF Plain
  <2> QED  BY <1>1, <1>2, <2>2, RecvStaleKept
<1>3. CASE RecvExhausted(h)
  <2>1. (\E e : transition' = Failed(e)) /\ UNCHANGED <<table, handles>>
    BY <1>3 DEF RecvExhausted
  <2>2. ~Told("True") /\ ~Told("Some") /\ ~Told("None")
    BY <2>1, ToldWhat
  <2> QED  BY <1>1, <2>1, <2>2, IdleKept
<1>4. CASE RecvBuffered(h)
  <2>1. transition' = Ready(Some(Head(At(h).buffer)), <<>>)
    BY <1>4 DEF RecvBuffered
  <2>2. Some(Head(At(h).buffer)).tag = "Some" /\ Some(Head(At(h).buffer)).payload = Head(At(h).buffer)
    BY DEF Some
  <2>3. ~Told("True") /\ Told("Some") /\ ~Told("None") /\ transition'.answer.payload = Head(At(h).buffer)
    BY <2>1, <2>2, ToldWhat
  <2> QED  BY <1>1, <1>4, <2>3, RecvBufferedKept
<1>5. CASE RecvRefilled(h)
  <2>1. Live(h) /\ At(h).buffer # <<>> /\ At(h).wait # <<>>
    BY <1>5 DEF RecvRefilled
  <2>2. Head(At(h).wait).kind = "Sender"
    BY <2>1, LiveOrder, RefillBuffer
  <2>3. PICK w : transition' = Ready(Some(Head(At(h).buffer)), <<w>>) /\ w.answer = Plain("True")
    <3>1. PICK w : /\ w = [continuation |-> Head(At(h).wait).continuation, answer |-> Plain("True")]
                   /\ transition' = Ready(Some(Head(At(h).buffer)), <<w>>)
      BY <1>5, <2>2, Zenon DEF RecvRefilled
    <3> QED  BY <3>1
  <2>4. /\ Some(Head(At(h).buffer)).tag = "Some" /\ Some(Head(At(h).buffer)).payload = Head(At(h).buffer)
        /\ w.answer.tag = "True" /\ <<w>>[1] = w /\ DOMAIN <<w>> = {1}
    BY <2>3 DEF Some, Plain
  <2>5. Told("True") /\ Told("Some") /\ ~Told("None") /\ transition'.answer.payload = Head(At(h).buffer)
    BY <2>3, <2>4, ToldWhat
  <2> QED  BY <1>1, <1>5, <2>5, RecvRefilledKept
<1>6. CASE RecvHandoff(h)
  <2>1. PICK w : transition' = Ready(Some(Head(At(h).wait).payload), <<w>>) /\ w.answer = Plain("True")
    <3>1. PICK w : /\ w = [continuation |-> Head(At(h).wait).continuation, answer |-> Plain("True")]
                   /\ transition' = Ready(Some(Head(At(h).wait).payload), <<w>>)
      BY <1>6, Zenon DEF RecvHandoff
    <3> QED  BY <3>1
  <2>2. /\ Some(Head(At(h).wait).payload).tag = "Some"
        /\ Some(Head(At(h).wait).payload).payload = Head(At(h).wait).payload
        /\ w.answer.tag = "True" /\ <<w>>[1] = w /\ DOMAIN <<w>> = {1}
    BY <2>1 DEF Some, Plain
  <2>3. Told("True") /\ Told("Some") /\ ~Told("None") /\ transition'.answer.payload = Head(At(h).wait).payload
    BY <2>1, <2>2, ToldWhat
  <2> QED  BY <1>1, <1>6, <2>3, RecvHandoffKept
<1>7. CASE RecvEmpty(h, c)
  <2>1. Live(h) /\ At(h).buffer = <<>>
    BY <1>7 DEF RecvEmpty
  <2>2. ~At(h).closed
    BY <2>1, LiveOrder DEF ChannelCoherent
  <2>3. transition' = Parked
    BY <1>7, <2>2 DEF RecvEmpty
  <2>4. ~Told("True") /\ ~Told("Some") /\ ~Told("None")
    BY <2>3, ToldWhat
  <2> QED  BY <1>1, <1>7, <2>2, <2>4, RecvParkedKept
<1> QED  BY <1>2, <1>3, <1>4, <1>5, <1>6, <1>7 DEF OrderedRecv, Recv

\* The first close of a channel: nothing more is accepted, and receivers that
\* wait have received everything.
LEMMA CloseKept ==
    ASSUME OrderInv, NEW h \in handles, OrderedClose(h)
    PROVE  OrderKept
<1>1. UNCHANGED <<offered, accepted, received>> /\ ended' = IF Told("None") THEN ended \cup {h} ELSE ended
  BY DEF OrderedClose
<1>2. CASE CloseIgnored(h)
  <2>1. transition' = Ready(Plain("Unit"), <<>>) /\ UNCHANGED <<table, handles>>
    BY <1>2 DEF CloseIgnored
  <2>2. ~Told("None")
    BY <2>1, ToldWhat DEF Plain
  <2> QED  BY <1>1, <2>1, <2>2, IdleKept
<1>3. CASE CloseOpen(h)
  <2>1. /\ Sendable(h) /\ Live(h) /\ ~At(h).closed /\ handles' = handles
        /\ StoreOrRelease(h.index, [At(h) EXCEPT !.closed = TRUE, !.wait = <<>>])
    BY <1>3 DEF CloseOpen, Sendable
  <2>2. PICK ch \in Channel : ch = At(h)
    BY <2>1, LiveOrder
  <2>3. /\ TableInv /\ h \in Handle /\ ChannelCoherent(ch) /\ received[h] \in Seq(Payload)
        /\ accepted[h] = received[h] \o ch.buffer /\ IsPrefix(accepted[h], offered[h])
    BY <2>1, <2>2, LiveOrder
  <2>4. PICK new \in Channel : new = [ch EXCEPT !.closed = TRUE, !.wait = <<>>]
    BY <2>3, ShutChannel
  <2>5. new.closed /\ new.buffer = ch.buffer /\ new # NoChannel
    BY <2>4, NoChannelAssumption DEF Channel
  <2>6. PICK x : x = IF new.buffer = <<>> THEN NoChannel ELSE new
    OBVIOUS
  <2>7. \A g \in handles : At(g)' = IF g = h THEN x ELSE At(g)
    <3>1. StoreOrRelease(h.index, new)
      BY <2>1, <2>2, <2>4
    <3>2. \A g \in handles : At(g)' = IF g # h THEN At(g)
                                      ELSE IF new.closed /\ new.buffer = <<>> THEN NoChannel ELSE new
      BY <2>1, <2>3, <3>1, StoreOrReleaseAt
    <3> QED  BY <2>5, <2>6, <3>2
  <2>8. ch.buffer = <<>> => accepted[h] = received[h]
    BY <2>3
  <2>9. OrderedRow(x, offered[h], accepted[h], received[h])
    <3>1. CASE new.buffer = <<>>
      BY <2>3, <2>5, <2>6, <2>8, <3>1 DEF OrderedRow
    <3>2. CASE new.buffer # <<>>
      BY <2>3, <2>5, <2>6, <3>2 DEF OrderedRow
    <3> QED  BY <3>1, <3>2
  <2>10. At(h)' = x /\ ~Sendable(h)'
    BY <2>5, <2>6, <2>7 DEF Sendable, Live
  <2>11. HistoryOK'
    BY <1>1, <2>1 DEF OrderInv, HistoryOK
  <2>12. InOrder'
    <3>1. handles \subseteq Handle
      BY OrderParts
    <3>2. OrderedRow(At(h)', offered'[h], accepted'[h], received'[h])
      BY <1>1, <2>9, <2>10
    <3> QED  BY <1>1, <2>1, <2>7, <2>11, <3>1, <3>2, OneHandleOrder DEF OrderInv
  <2>13. Opens' = Opens \ {h} /\ h \in Opens
    BY <2>1, <2>7, <2>10, OpensSame DEF Opens
  <2>14. Told("None") => accepted[h] = received[h]
    <3>1. SUFFICES ASSUME Told("None") PROVE accepted[h] = received[h]
      OBVIOUS
    <3>2. transition' = Ready(Plain("Unit"), [k \in 1..Len(ch.wait) |-> Dismissal(ch.wait[k])])
      BY <1>3, <2>2 DEF CloseOpen
    <3>3. PICK k \in 1..Len(ch.wait) : Dismissal(ch.wait[k]).answer.tag = "None"
      <4>1. PICK w : w = [k \in 1..Len(ch.wait) |-> Dismissal(ch.wait[k])]
        OBVIOUS
      <4>2. \E k \in DOMAIN w : w[k].answer.tag = "None"
        <5>1. transition' = Ready(Plain("Unit"), w) /\ Plain("Unit").tag # "None"
          BY <3>2, <4>1 DEF Plain
        <5> QED  BY <3>1, <5>1, ToldWhat
      <4> QED  BY <4>1, <4>2
    <3>4. ch.wait[k].kind # "Sender" /\ ch.wait[k] \in Waiter /\ k \in DOMAIN ch.wait
      BY <3>3, ChannelParts, ElementOfSeq DEF Dismissal, Plain
    <3>5. ch.wait[k].kind = "Receiver"
      BY <3>4 DEF Waiter
    <3> QED  BY <2>3, <2>8, <3>4, <3>5 DEF ChannelCoherent
  <2>15. Contract!Shut(h)
    BY <1>1, <2>1, <2>13, <2>14 DEF Contract!Shut, Contract!Drained, Opens
  <2> QED  BY <2>3, <2>11, <2>12, <2>15 DEF OrderKept, FifoStep, Contract!Next
<1> QED  BY <1>2, <1>3 DEF OrderedClose, Close

\* A channel is opened.
LEMMA OpenKept ==
    ASSUME OrderInv, OrderedOpen
    PROVE  OrderKept
<1>1. PICK room \in Rooms : OpenReused(room) \/ OpenNew(room)
  BY DEF OrderedOpen
<1>2. TableInv /\ InOrder /\ HistoryOK /\ handles \subseteq Handle /\ UNCHANGED history
  BY DEF OrderInv, Inv, TableInv, OrderedOpen
<1>3. PICK h \in Handle :
          /\ h \notin handles
          /\ handles' = handles \cup {h}
          /\ At(h)' = NewChannel(room)
          /\ \A g \in handles : At(g)' = At(g)
  BY <1>1, <1>2, OpenAt
<1>4. /\ NewChannel(room) # NoChannel /\ NewChannel(room).buffer = <<>> /\ ~NewChannel(room).closed
      /\ NewChannel(room).wait = <<>>
  <2>1. room \in Nat /\ <<>> \in Seq(Payload) /\ <<>> \in Seq(Waiter)
    BY ChannelAssumption
  <2>2. NewChannel(room) \in Channel
    BY <2>1 DEF NewChannel, Channel
  <2> QED  BY <2>2, NoChannelAssumption DEF NewChannel
<1>5. offered[h] = <<>> /\ accepted[h] = <<>> /\ received[h] = <<>>
  BY <1>2, <1>3 DEF HistoryOK
<1>6. UNCHANGED <<offered, accepted, received, ended>>
  BY <1>2 DEF history
<1>7. HistoryOK'
  BY <1>2, <1>3, <1>6 DEF HistoryOK
<1>8. OrderedRow(NewChannel(room), <<>>, <<>>, <<>>)
  <2>1. ParkedPayloads(NewChannel(room)) = <<>> /\ <<>> \o <<>> = <<>> /\ IsPrefix(<<>>, <<>>)
    BY <1>4 DEF ParkedPayloads, FrontIs, IsPrefix
  <2> QED  BY <1>4, <2>1 DEF OrderedRow
<1>9. InOrder'
  <2>1. ASSUME NEW g \in handles' PROVE OrderedRow(At(g)', offered'[g], accepted'[g], received'[g])
    <3>1. CASE g = h
      BY <1>3, <1>5, <1>6, <1>8, <3>1
    <3>2. CASE g \in handles
      BY <1>2, <1>3, <1>6, <3>2, InOrderEach
    <3> QED  BY <1>3, <3>1, <3>2
  <2> QED  BY <2>1 DEF InOrder, OrderedRow, Live
<1>10. Opens' = Opens \cup {h}
  BY <1>3, <1>4 DEF Opens, Sendable, Live
<1>11. Contract!Open(h)
  BY <1>3, <1>6, <1>10 DEF Contract!Open, Opens
<1> QED  BY <1>7, <1>9, <1>11 DEF OrderKept, FifoStep, Contract!Next

-----------------------------------------------------------------------------
(***************************************************************************)
(* The theorems.                                                           *)
(***************************************************************************)

\* The table starts empty, as Fifo does.
LEMMA OrderedStart == OrderedInit => OrderInv /\ Contract!Init
<1>1. SUFFICES ASSUME OrderedInit PROVE OrderInv /\ Contract!Init
  OBVIOUS
<1>2. Init /\ handles = {}
  BY <1>1 DEF OrderedInit, Init
<1>3. Inv
  BY <1>2, InitInv
<1>4. HistoryOK /\ InOrder
  BY <1>1, <1>2 DEF OrderedInit, HistoryOK, InOrder
<1> QED  BY <1>1, <1>2, <1>3, <1>4 DEF OrderInv, OrderedInit, Contract!Init

\* A step with history is a step of the table.
LEMMA OrderedIsNext == OrderedNext => Next
  BY DEF OrderedNext, OrderedOpen, OrderedSend, OrderedRecv, OrderedClose, Next

\* Every step, stuttering included, keeps the invariant and is a step of Fifo.
LEMMA OrderedStep == OrderInv /\ [OrderedNext]_orderVars => OrderInv' /\ FifoStep
<1>1. SUFFICES ASSUME OrderInv, [OrderedNext]_orderVars PROVE OrderInv' /\ FifoStep
  OBVIOUS
<1>2. Inv'
  <2>1. [Next]_channelVars
    BY <1>1, OrderedIsNext DEF orderVars
  <2> QED  BY <1>1, <2>1, NextInv DEF OrderInv
<1>3. OrderKept
  <2>1. CASE OrderedNext
    BY <1>1, <2>1, OpenKept, SendKept, RecvKept, CloseKept DEF OrderedNext
  <2>2. CASE UNCHANGED orderVars
    <3>1. UNCHANGED <<table, handles, offered, accepted, received, ended>>
      BY <2>2 DEF orderVars, channelVars, history, table
    <3> QED  BY <1>1, <3>1, IdleKept
  <2> QED  BY <1>1, <2>1, <2>2
<1> QED  BY <1>2, <1>3 DEF OrderInv, OrderKept

\* The inductive invariant: the table's own, the types of the histories, and
\* the order they are in.
THEOREM OrderInvariance == OrderedSpec => []OrderInv
<1>1. OrderedInit => OrderInv
  BY OrderedStart
<1>2. OrderInv /\ [OrderedNext]_orderVars => OrderInv'
  BY OrderedStep
<1> QED  BY <1>1, <1>2, PTL DEF OrderedSpec

\* Nothing is lost, repeated or overtaken between send and recv, for any number
\* of tasks, payloads, rooms, rows and generations.
THEOREM Order == OrderedSpec => []InOrder
<1>1. OrderInv => InOrder
  BY DEF OrderInv
<1> QED  BY <1>1, OrderInvariance, PTL

\* channels.rs, with its parking, handoff, refilling, closing and row reuse,
\* implements Fifo: every step is a step of Fifo or leaves its variables alone.
THEOREM Refinement == OrderedSpec => ImplementsFifo
<1>1. OrderedInit => Contract!Init
  BY OrderedStart
<1>2. OrderInv /\ [OrderedNext]_orderVars => [Contract!Next]_(Contract!fifoVars)
  BY OrderedStep DEF FifoStep
<1> QED  BY <1>1, <1>2, OrderInvariance, PTL DEF OrderedSpec, ImplementsFifo, Contract!Spec

====
