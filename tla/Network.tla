------------------------------ MODULE Network ------------------------------
(***************************************************************************)
(* Sockets of a running program (runtime/network.rs, host_network.rs, the  *)
(* readiness poller and executable/network_io.rs).                         *)
(*                                                                         *)
(* A resource is taken out of the table of handles while a request works   *)
(* on it, travels inside the parked request and is put back with the       *)
(* answer.  The operating system and the peers are external: they fill and *)
(* empty the buffers of every descriptor between any two calls.            *)
(*                                                                         *)
(* Payloads are abstracted to lengths, except that the bytes a program     *)
(* writes to one descriptor are numbered 1, 2, 3... so that a lost, a      *)
(* repeated or a reordered byte shows on the wire.                         *)
(***************************************************************************)
EXTENDS Integers, Sequences, FiniteSets, SequencesExt, FiniteSetsExt, Positions

CONSTANTS
    Tasks, Nobody,
    HandleLimit,    \* ARENA_LIMIT
    RetainedLimit,  \* RETAINED_BYTES
    TransferLimit,  \* TRANSFER_BYTES
    Sizes,          \* sizes of what is sent and asked for
    Buffer,         \* bytes the host keeps for a peer that does not read
    MaxRequests,    \* bound: requests of the program
    MaxEvents       \* bound: things the peers do

ASSUME NetworkAssumption ==
    /\ IsFiniteSet(Tasks) /\ Nobody \notin Tasks
    /\ HandleLimit \in Nat /\ RetainedLimit \in Nat /\ TransferLimit \in Nat
    /\ Sizes \subseteq Nat /\ Buffer \in Nat

VARIABLES
    net,        \* network::State
    order,      \* the scheduler's next wait identity
    ready,      \* runnable tasks
    running,    \* the task in run_task, or Nobody
    active,     \* the request in advance_network, if any
    batch,      \* ready orders that resume_network has not reached
    host,       \* descriptors, as the operating system sees them
    answers,    \* the last answer to each task
    requests, events, outcome

vars == <<net, order, ready, running, active, batch, host, answers, requests, events, outcome>>

NoHandle == 0
Empty == [x \in {} |-> x]
Without(f, x) == [y \in DOMAIN f \ {x} |-> f[y]]
With(f, x, v) == [y \in DOMAIN f \cup {x} |-> IF y = x THEN v ELSE f[y]]

Request(res, handle, task, op, size) ==
    [res |-> res, handle |-> handle, task |-> task, op |-> op, size |-> size, offset |-> 0, base |-> 0]
State == [resources |-> Empty, pending |-> Empty, next |-> 1, retained |-> 0, fault |-> ""]
Bytes(request) == IF request.op \in {"Connect", "Accept"} THEN 0 ELSE request.size
Interest(request) == IF request.op \in {"Connect", "Send", "SendTo"} THEN "Write" ELSE "Read"
BytesOf(parked) == Cardinality(UNION {{o} \X (1..Bytes(parked[o])) : o \in DOMAIN parked})
Held(n) == Cardinality(DOMAIN n.resources) + Cardinality(DOMAIN n.pending)
Faulty(n, why) == [n EXCEPT !.fault = why]

(* The operations on the table.  A fault ends the run: `limit' is a budget *)
(* of the runtime, `internal' would be a mistake of the runtime.           *)
Restore(n, handle, res) ==
    IF n.fault # "" THEN n
    ELSE IF Held(n) >= HandleLimit THEN Faulty(n, "limit")
    ELSE IF handle \in DOMAIN n.resources THEN Faulty(n, "internal")
    ELSE [n EXCEPT !.resources = With(@, handle, res)]
Insert(n, res) == Restore([n EXCEPT !.next = @ + 1], n.next, res)
Park(n, request) ==
    IF Held(n) >= HandleLimit THEN Faulty(n, "limit")
    ELSE IF n.retained + Bytes(request) > RetainedLimit THEN Faulty(n, "limit")
    ELSE IF order \in DOMAIN n.pending THEN Faulty(n, "internal")
    ELSE [n EXCEPT !.pending = With(@, order, request), !.retained = @ + Bytes(request)]
TakePending(n, o) ==
    IF o \notin DOMAIN n.pending THEN Faulty(n, "internal")
    ELSE [n EXCEPT !.pending = Without(@, o), !.retained = @ - Bytes(n.pending[o])]
-----------------------------------------------------------------------------
(* The operating system: a descriptor and what a call on it may answer.    *)
Descriptor(kind, phase) ==
    [kind |-> kind, phase |-> phase, in |-> 0, eof |-> FALSE, out |-> 0,
     issued |-> 0, wire |-> <<>>, open |-> TRUE]
Readable(s) == s.in > 0 \/ s.eof \/ s.phase \in {"dead", "refused"}
Writable(s) == s.phase # "connecting" /\ (s.out < Buffer \/ s.phase \in {"dead", "refused"})
Closed(s) == [s EXCEPT !.open = FALSE]
Close(h, d) == [h EXCEPT ![d] = Closed(@)]

Step(h, result, count) == [host |-> h, result |-> result, count |-> count]
Broken(d) == host[d].phase \in {"dead", "refused"}
FinishConnect(d) == {Step(host, IF Broken(d) THEN "err" ELSE "ok", 0)}
AcceptStep(d) ==
    IF host[d].in = 0 THEN {Step(host, "wait", 0)}
    ELSE {Step(Append([host EXCEPT ![d].in = @ - 1], Descriptor("stream", "up")), "ok", 0),
          Step([host EXCEPT ![d].in = @ - 1], "err", 0)}
RecvStep(d, max) ==
    IF Broken(d) THEN {Step(host, "err", 0)}
    ELSE IF max = 0 \/ (host[d].in = 0 /\ host[d].eof) THEN {Step(host, "ok", 0)}
    ELSE IF host[d].in = 0 THEN {Step(host, "wait", 0)}
    ELSE {Step([host EXCEPT ![d].in = @ - k], "ok", k) : k \in 1..Min({host[d].in, max})}
Written(d, base, k) == [host EXCEPT ![d].out = @ + k, ![d].wire = @ \o [i \in 1..k |-> base + i]]
SendStep(d, base, left) ==
    IF Broken(d) THEN {Step(host, "err", 0)}
    ELSE IF host[d].out >= Buffer THEN {Step(host, "wait", 0)}
    ELSE {Step(Written(d, base, k), "some", k) : k \in 1..Min({Buffer - host[d].out, left})}
(* A datagram goes out whole, to a written address that may not parse.     *)
SendToStep(d, size) ==
    {Step(host, "err", 0)} \cup
    (IF Broken(d) THEN {}
     ELSE IF host[d].out >= Buffer THEN {Step(host, "wait", 0)}
     ELSE {Step([host EXCEPT ![d].out = @ + 1], "ok", size)})
-----------------------------------------------------------------------------
Init ==
    /\ net = State /\ order = 1
    /\ \E first \in SetToSeqs(Tasks) : ready = first
    /\ running = Nobody /\ active = <<>> /\ batch = <<>> /\ host = <<>>
    /\ answers = [t \in Tasks |-> "none"]
    /\ requests = 0 /\ events = 0 /\ outcome = "running"

(* Every exit of the driver drops the tables, and with them the sockets.   *)
Ends(how) ==
    /\ outcome' = how /\ net' = State
    /\ ready' = <<>> /\ running' = Nobody /\ active' = <<>> /\ batch' = <<>>
    /\ host' = [d \in DOMAIN host |-> Closed(host[d])]
    /\ UNCHANGED <<order, answers, events>>

Dispatch ==
    /\ outcome = "running" /\ running = Nobody /\ active = <<>> /\ batch = <<>> /\ ready # <<>>
    /\ running' = Head(ready) /\ ready' = Tail(ready)
    /\ UNCHANGED <<net, order, active, batch, host, answers, requests, events, outcome>>

(* run_task goes on with the answer; a parked request ends the turn.       *)
Asks == running # Nobody /\ active = <<>> /\ requests < MaxRequests /\ requests' = requests + 1
Answered(n, h, answer) ==
    IF n.fault # "" THEN Ends(n.fault)
    ELSE /\ net' = n /\ host' = h /\ answers' = [answers EXCEPT ![running] = answer]
         /\ UNCHANGED <<order, ready, running, active, batch, events, outcome>>
ParkNetwork(n, request, h) ==
    LET parked == Park(n, request)
    IN  IF parked.fault # "" THEN Ends(parked.fault)
        ELSE /\ net' = parked /\ host' = h /\ order' = order + 1
             /\ running' = Nobody /\ active' = <<>>
             /\ UNCHANGED <<ready, batch, answers, events, outcome>>
Advances(n, request, h) ==
    /\ net' = n /\ active' = <<request>> /\ host' = h
    /\ UNCHANGED <<order, ready, running, batch, answers, events, outcome>>

(* network_request: listening and binding, and connecting.                 *)
Opened(kind, phase) == Append(host, Descriptor(kind, phase))
Fresh == Len(host) + 1
OpenResource ==
    /\ Asks
    /\ \/ Answered(net, host, "fail")
       \/ \E kind \in {"listener", "datagram"} : Answered(Insert(net, Fresh), Opened(kind, "up"), "done")
TcpConnect ==
    /\ Asks
    /\ \/ Answered(net, host, "fail")
       \/ Answered(Insert(net, Fresh), Opened("stream", "up"), "done")
       \/ ParkNetwork(net, Request(Fresh, NoHandle, running, "Connect", 0), Opened("stream", "connecting"))

(* A request takes the resource of a handle.  A program may come with a    *)
(* handle that is closed or busy.                                          *)
Handles == 1..(net.next - 1)
Taken(h) == [net EXCEPT !.resources = Without(@, h)]
StaleHandle ==
    /\ Asks
    /\ \E h \in Handles : h \notin DOMAIN net.resources
    /\ Ends("misuse")
OnResource(h) == Asks /\ h \in DOMAIN net.resources
KindOf(h) == host[net.resources[h]].kind
TcpAccept(h) ==
    /\ OnResource(h) /\ KindOf(h) = "listener"
    /\ ParkNetwork(Taken(h), Request(net.resources[h], h, running, "Accept", 0), host)
TcpRecv(h, max) ==
    /\ OnResource(h) /\ KindOf(h) # "listener"
    /\ IF max > TransferLimit THEN Ends("limit")
       ELSE ParkNetwork(Taken(h), Request(net.resources[h], h, running, "Recv", max), host)
TcpSend(h, size) ==
    /\ OnResource(h) /\ KindOf(h) = "stream"
    /\ LET d == net.resources[h]
           request == [Request(d, h, running, "Send", size) EXCEPT !.base = host[d].issued]
       IN  Advances(Taken(h), request, [host EXCEPT ![d].issued = @ + size])
UdpSendTo(h, size) ==
    /\ OnResource(h) /\ KindOf(h) = "datagram"
    /\ Advances(Taken(h), Request(net.resources[h], h, running, "SendTo", size), host)
UdpPoll(h, max) ==
    /\ OnResource(h) /\ KindOf(h) = "datagram"
    /\ IF max > TransferLimit THEN Ends("limit")
       ELSE \E step \in RecvStep(net.resources[h], max) :
                Answered(Restore(Taken(h), h, net.resources[h]), step.host, step.result)
CloseHandle(h) ==
    /\ OnResource(h)
    /\ Answered(Taken(h), Close(host, net.resources[h]), "done")
TaskEnds ==
    /\ running # Nobody /\ active = <<>>
    /\ running' = Nobody
    /\ UNCHANGED <<net, order, ready, active, batch, host, answers, requests, events, outcome>>

(* A task may spawn a successor and complete, and so may the successor, for *)
(* ever: the tasks keep one another runnable.  The successor goes on under  *)
(* the name of its parent; the budget of tasks belongs to the scheduler.    *)
SpawnsSuccessor ==
    /\ running # Nobody /\ active = <<>>
    /\ UNCHANGED requests
    /\ \/ Ends("limit")
       \/ /\ ready' = Append(ready, running) /\ running' = Nobody
          /\ UNCHANGED <<net, order, active, batch, host, answers, events, outcome>>
-----------------------------------------------------------------------------
(* advance_network: one call of the host, and what follows from it.        *)
Steps(r) ==
    CASE r.op = "Connect" -> FinishConnect(r.res)
      [] r.op = "Accept" -> AcceptStep(r.res)
      [] r.op = "Recv" -> RecvStep(r.res, r.size)
      [] r.op = "SendTo" -> SendToStep(r.res, r.size)
      [] r.op = "Send" -> IF r.offset = r.size THEN {Step(host, "ok", 0)}
                          ELSE SendStep(r.res, r.base + r.offset, r.size - r.offset)

(* The table after an answer.  A connection that failed is dropped; every  *)
(* other resource goes back under its handle, after what was accepted.     *)
Settled(r, step) ==
    CASE r.op = "Connect" -> IF step.result = "ok" THEN Insert(net, r.res) ELSE net
      [] r.op = "Accept" -> Restore(IF step.result = "ok" THEN Insert(net, Len(step.host)) ELSE net, r.handle, r.res)
      [] OTHER -> Restore(net, r.handle, r.res)

(* A mistake: the socket of a connection that failed is kept.              *)
HostKept(r, step) == step.host
HostAfter(r, step) == IF r.op = "Connect" /\ step.result = "err" THEN Close(step.host, r.res) ELSE step.host

(* The answer continues the running task, or makes a waiting one ready.    *)
AnswerTo(r, step) ==
    LET n == Settled(r, step)
    IN  IF n.fault # "" THEN Ends(n.fault)
        ELSE /\ net' = n /\ host' = HostAfter(r, step) /\ active' = <<>>
             /\ answers' = [answers EXCEPT ![r.task] = step.result]
             /\ ready' = IF running = Nobody THEN Append(ready, r.task) ELSE ready
             /\ UNCHANGED <<order, running, batch, events, outcome>>

(* A mistake: a request that waits again starts from its first byte.       *)
SentNothing(r, k) == r
Sent(r, k) == [r EXCEPT !.offset = @ + k]

Advance ==
    /\ active # <<>>
    /\ UNCHANGED requests
    /\ LET r == active[1] IN
       \E step \in Steps(r) :
          CASE step.result = "wait" -> ParkNetwork(net, r, step.host)
            [] step.result = "some" -> Advances(net, Sent(r, step.count), step.host)
            [] OTHER -> AnswerTo(r, step)

(* wait_for_task: without a ready task the poller is asked, and what was   *)
(* ready then is resumed in the order of registration.  An interrupted     *)
(* poll reports nothing.                                                   *)
ReadyOrder(o) ==
    LET r == net.pending[o] IN IF Interest(r) = "Read" THEN Readable(host[r.res]) ELSE Writable(host[r.res])

(* A mistake: nobody polls for writing.                                    *)
ReadyReads == {o \in DOMAIN net.pending : ReadyOrder(o) /\ Interest(net.pending[o]) = "Read"}
ReadyOrders == {o \in DOMAIN net.pending : ReadyOrder(o)}
Idle == outcome = "running" /\ running = Nobody /\ active = <<>> /\ batch = <<>> /\ ready = <<>>
Poll ==
    /\ Idle /\ ReadyOrders # {}
    /\ batch' = Ascending(ReadyOrders)
    /\ UNCHANGED <<net, order, ready, running, active, host, answers, requests, events, outcome>>

ResumeNetwork ==
    /\ outcome = "running" /\ batch # <<>> /\ active = <<>>
    /\ UNCHANGED requests
    /\ LET n == TakePending(net, Head(batch))
       IN  IF n.fault # "" THEN Ends(n.fault)
           ELSE /\ net' = n /\ active' = <<net.pending[Head(batch)]>> /\ batch' = Tail(batch)
                /\ UNCHANGED <<order, ready, running, host, answers, events, outcome>>

Finished == Idle /\ net.pending = Empty /\ UNCHANGED requests /\ Ends("done")
-----------------------------------------------------------------------------
(* The peers.                                                              *)
Peer(d, change) ==
    /\ outcome = "running" /\ events < MaxEvents /\ host[d].open
    /\ events' = events + 1
    /\ host' = [host EXCEPT ![d] = change]
    /\ UNCHANGED <<net, order, ready, running, active, batch, answers, requests, outcome>>
PeerWrites(d) == host[d].phase = "up" /\ ~host[d].eof /\ Peer(d, [host[d] EXCEPT !.in = @ + 1])
PeerReads(d) == host[d].out > 0 /\ Peer(d, [host[d] EXCEPT !.out = 0])
PeerShuts(d) == host[d].kind = "stream" /\ host[d].phase = "up" /\ ~host[d].eof /\ Peer(d, [host[d] EXCEPT !.eof = TRUE])
PeerResets(d) == host[d].kind = "stream" /\ host[d].phase = "up" /\ Peer(d, [host[d] EXCEPT !.phase = "dead"])
PeerLeaves(d) == host[d].kind = "listener" /\ host[d].in > 0 /\ Peer(d, [host[d] EXCEPT !.in = @ - 1])
PeerConnects(d) ==
    /\ host[d].phase = "connecting"
    /\ \E phase \in {"up", "refused"} : Peer(d, [host[d] EXCEPT !.phase = phase])
Peers ==
    \E d \in DOMAIN host :
        PeerWrites(d) \/ PeerReads(d) \/ PeerShuts(d) \/ PeerResets(d) \/ PeerLeaves(d) \/ PeerConnects(d)

Requests ==
    \/ OpenResource \/ TcpConnect \/ StaleHandle
    \/ \E h \in Handles : TcpAccept(h) \/ CloseHandle(h)
    \/ \E h \in Handles, size \in Sizes : TcpRecv(h, size) \/ TcpSend(h, size) \/ UdpSendTo(h, size) \/ UdpPoll(h, size)
Turn == Requests \/ TaskEnds \/ SpawnsSuccessor
Driver == Dispatch \/ Advance \/ Poll \/ ResumeNetwork \/ Finished
Next == Turn \/ Driver \/ Peers

(* The driver never stops while it can take a step of its own; the running *)
(* task and the peers owe nothing.                                         *)
Spec == Init /\ [][Next]_vars /\ WF_vars(Driver)
-----------------------------------------------------------------------------
Waiting == {net.pending[o] : o \in DOMAIN net.pending} \cup Range(active)

(* Every open descriptor has one owner, the table, a parked request or the *)
(* request at work, so none leaks and none is closed under a request; the  *)
(* retained bytes are those of the parked requests; no handle is returned  *)
(* twice and no order that was polled is missing when it is resumed.       *)
DescriptorsOwned ==
    /\ outcome # "internal"
    /\ LET owners(d) == Cardinality({h \in DOMAIN net.resources : net.resources[h] = d})
                          + Cardinality({o \in DOMAIN net.pending : net.pending[o].res = d})
                          + Cardinality({k \in DOMAIN active : active[k].res = d})
       IN  \A d \in DOMAIN host : owners(d) = IF host[d].open THEN 1 ELSE 0
    /\ net.retained = BytesOf(net.pending)
    /\ Held(net) <= HandleLimit

(* A stream carries the bytes of its sends once each and in order, across  *)
(* partial sends, waits and the peer's reads; when a send is answered with *)
(* success all of its bytes are out.                                       *)
StreamExact ==
    \A d \in DOMAIN host :
        /\ host[d].wire = [i \in 1..Len(host[d].wire) |-> i]
        /\ Len(host[d].wire) < host[d].issued =>
             \/ ~host[d].open \/ host[d].phase = "dead"
             \/ \E r \in Waiting : r.res = d /\ r.op = "Send" /\ r.offset < r.size

(* A request whose descriptor stays ready is not left waiting, if the      *)
(* driver keeps coming to poll until the run ends.  wait_for_task polls    *)
(* only when no task is ready: a task that goes on, or tasks that keep one *)
(* another runnable, postpone the request for ever, and nothing is         *)
(* promised then.                                                          *)
ReadyServed ==
    []<>(Idle \/ outcome # "running") =>
        \A t \in Tasks :
            (\E o \in DOMAIN net.pending : net.pending[o].task = t /\ ReadyOrder(o))
                ~> (\/ outcome # "running"
                    \/ \A o \in DOMAIN net.pending : net.pending[o].task = t => ~ReadyOrder(o))
=============================================================================
