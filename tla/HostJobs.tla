------------------------------ MODULE HostJobs ------------------------------
(***************************************************************************)
(* The host worker pool of the native runtime, src/runtime/host_jobs.rs,   *)
(* with the file handles that travel through it (file_handles.rs,          *)
(* executable/file_io.rs) and the wake byte that lets a VM sleep in the    *)
(* descriptor poller while workers run (readiness.rs).  The pool and its   *)
(* budget belong to the process; every VM has a portal of its own, which   *)
(* it drops, cancelling its jobs, when its program ends.  VM threads and   *)
(* worker threads interleave at every lock and every atomic operation.     *)
(***************************************************************************)
EXTENDS Integers, Sequences, FiniteSets, FiniteSetsExt, Positions

CONSTANTS
    VM,           \* evaluations that share the process
    Worker,       \* WORKERS threads
    ArenaLimit,   \* ARENA_LIMIT: jobs, pending jobs and file handles
    ByteLimit,    \* RETAINED_BYTES
    Sizes,        \* bytes a job retains
    Networked,    \* VMs with parked descriptor operations
    NoFile,       \* no handle: the job opens a file
    NoJob,
    MaxJobs,      \* bound on the jobs the VMs ask for together
    MaxShared     \* bound on them while more than one VM has a part in the pool

ASSUME HostAssumption ==
    /\ IsFiniteSet(VM) /\ IsFiniteSet(Worker)
    /\ ArenaLimit \in Nat \ {0} /\ ByteLimit \in Nat /\ Sizes \subseteq Nat
    /\ MaxJobs \in Nat /\ MaxShared \in Nat
    /\ Networked \subseteq VM
    /\ NoFile \notin Nat

VARIABLES
    queue,      \* jobs no worker has taken
    workers,    \* worker threads started
    busy,       \* workers that hold a job
    at,         \* where each worker is
    job,        \* the job it holds
    usedJobs,   \* Budget::jobs
    usedBytes,  \* Budget::bytes
    dropping,   \* leases that have returned their bytes and not yet their slot
    vpc,        \* where each VM is
    request,    \* the job it is submitting
    opened,     \* whether it has a portal
    cancelled,  \* the portal's flag
    pending,    \* its pending jobs
    replies,    \* finished jobs in its completion channel, ready included
    nextJob,    \* next job identity
    files,      \* handles of the files it owns
    nextFile,   \* next file identity
    installed,  \* the notifier has a wake sender
    wake,       \* the wake socket is readable
    fault       \* the internal error that stopped it, if any

poolVars == <<queue, workers, busy, at, job>>
budgetVars == <<usedJobs, usedBytes, dropping>>
portalVars == <<opened, cancelled, pending, replies, nextJob>>
fileVars == <<files, nextFile>>
wakeVars == <<installed, wake>>
vars == <<poolVars, budgetVars, vpc, request, portalVars, fileVars, wakeVars, fault>>

Job == [vm : VM, id : Nat, handle : Nat \cup {NoFile}, bytes : Sizes]
Pending == [id : Nat, handle : Nat \cup {NoFile}]
Reply == [id : Nat, bytes : Sizes, kind : {"file", "failed", "panicked"}]

ASSUME NoJobAssumption == NoJob \notin Job

\* The bytes of the jobs at some positions of a queue: one element for each.
Units(s, S) == UNION {{k} \X (1 .. s[k].bytes) : k \in S}

Init ==
    /\ queue = <<>> /\ workers = 0 /\ busy = 0
    /\ at = [w \in Worker |-> "none"]
    /\ job = [w \in Worker |-> NoJob]
    /\ usedJobs = 0 /\ usedBytes = 0 /\ dropping = 0
    /\ vpc = [v \in VM |-> "run"]
    /\ request = [v \in VM |-> NoJob]
    /\ opened = [v \in VM |-> FALSE]
    /\ cancelled = [v \in VM |-> FALSE]
    /\ pending = [v \in VM |-> {}]
    /\ replies = [v \in VM |-> <<>>]
    /\ nextJob = [v \in VM |-> 0]
    /\ files = [v \in VM |-> {}]
    /\ nextFile = [v \in VM |-> 0]
    /\ installed = [v \in VM |-> FALSE]
    /\ wake = [v \in VM |-> FALSE]
    /\ fault = [v \in VM |-> "none"]

GoTo(v, where) == vpc' = [vpc EXCEPT ![v] = where]
Step(w, where) == at' = [at EXCEPT ![w] = where]

\* Lease::drop returns the bytes first, the slot in a second atomic step.
DropBytes(bytes, count) ==
    /\ usedBytes' = usedBytes - bytes
    /\ dropping' = dropping + count
    /\ UNCHANGED usedJobs

DropSlot ==
    /\ dropping > 0
    /\ dropping' = dropping - 1
    /\ usedJobs' = usedJobs - 1
    /\ UNCHANGED <<poolVars, usedBytes, vpc, request, portalVars, fileVars, wakeVars, fault>>

-----------------------------------------------------------------------------
(***************************************************************************)
(* file_request and State::submit.  A read or a write takes the file out   *)
(* of the table first; a job that opens a file has no handle.              *)
(***************************************************************************)
\* Mutant: a file in use stays in the table.
TakenKept(v, handle) == files[v]

Taken(v, handle) == files[v] \ {handle}

\* The jobs the VMs have asked for together.
Asked == MapThenSumSet(LAMBDA u : nextJob[u], VM)

\* Every other VM ended and never asked for a job.
Alone(v) == \A u \in VM \ {v} : vpc[u] = "gone" /\ nextJob[u] = 0

Ask(v) ==
    /\ vpc[v] = "run"
    /\ Asked < (IF Alone(v) THEN MaxJobs ELSE MaxShared)
    /\ \E bytes \in Sizes, handle \in (0..(nextFile[v] - 1)) \cup {NoFile} :
          IF handle # NoFile /\ handle \notin files[v]
          THEN /\ GoTo(v, "stop")
               /\ UNCHANGED <<files, request, nextJob>>
          ELSE /\ files' = [files EXCEPT ![v] = Taken(v, handle)]
               /\ IF Cardinality(pending[v]) >= ArenaLimit
                  THEN GoTo(v, "stop") /\ UNCHANGED <<request, nextJob>>
                  ELSE /\ request' = [request EXCEPT ![v] =
                              [vm |-> v, id |-> nextJob[v], handle |-> handle, bytes |-> bytes]]
                       /\ nextJob' = [nextJob EXCEPT ![v] = @ + 1]
                       /\ GoTo(v, "reserve")
    /\ UNCHANGED <<poolVars, budgetVars, opened, cancelled, pending, replies, nextFile,
                   wakeVars, fault>>

CloseFile(v) ==
    /\ vpc[v] = "run"
    /\ \E handle \in 0..(nextFile[v] - 1) :
          /\ files' = [files EXCEPT ![v] = Taken(v, handle)]
          /\ GoTo(v, IF handle \in files[v] THEN "run" ELSE "stop")
    /\ UNCHANGED <<poolVars, budgetVars, request, portalVars, nextFile, wakeVars, fault>>

\* Budget::reserve: a slot, then the bytes; the slot goes back if they fail.
ReserveSlot(v) ==
    /\ vpc[v] = "reserve"
    /\ IF usedJobs < ArenaLimit
       THEN usedJobs' = usedJobs + 1 /\ GoTo(v, "bytes") /\ UNCHANGED request
       ELSE /\ GoTo(v, "stop")
            /\ request' = [request EXCEPT ![v] = NoJob]
            /\ UNCHANGED usedJobs
    /\ UNCHANGED <<poolVars, usedBytes, dropping, portalVars, fileVars, wakeVars, fault>>

ReserveBytes(v) ==
    /\ vpc[v] = "bytes"
    /\ IF usedBytes + request[v].bytes <= ByteLimit
       THEN usedBytes' = usedBytes + request[v].bytes /\ GoTo(v, "submit") /\ UNCHANGED request
       ELSE /\ GoTo(v, "rollback")
            /\ request' = [request EXCEPT ![v] = NoJob]
            /\ UNCHANGED usedBytes
    /\ UNCHANGED <<poolVars, usedJobs, dropping, portalVars, fileVars, wakeVars, fault>>

\* Mutant: the slot of a failed reservation is kept.
RollbackForgotten(v) ==
    /\ vpc[v] = "rollback"
    /\ GoTo(v, "stop")
    /\ UNCHANGED <<poolVars, budgetVars, request, portalVars, fileVars, wakeVars, fault>>

Rollback(v) ==
    /\ vpc[v] = "rollback"
    /\ usedJobs' = usedJobs - 1
    /\ GoTo(v, "stop")
    /\ UNCHANGED <<poolVars, usedBytes, dropping, request, portalVars, fileVars, wakeVars, fault>>

\* Pool::submit, under the queue's lock: start a worker when every started one
\* has a job of its own to do, then enqueue and notify one sleeping worker.
NeedsWorker == workers < Cardinality(Worker) /\ Len(queue) + busy >= workers

SubmitFails(v) ==
    /\ vpc[v] = "submit"
    /\ NeedsWorker
    /\ DropBytes(request[v].bytes, 1)
    /\ opened' = [opened EXCEPT ![v] = TRUE]
    /\ request' = [request EXCEPT ![v] = NoJob]
    /\ GoTo(v, "stop")
    /\ UNCHANGED <<poolVars, cancelled, pending, replies, nextJob, fileVars, wakeVars, fault>>

Notified(positions) ==
    LET asleep == {w \in Worker : positions[w] = "waiting"}
    IN  IF asleep = {} THEN {positions}
        ELSE {[positions EXCEPT ![w] = "check"] : w \in asleep}

Submit(v) ==
    /\ vpc[v] = "submit"
    /\ IF NeedsWorker
       THEN /\ workers' = workers + 1
            /\ \E w \in {u \in Worker : at[u] = "none"} :
                  at' \in Notified([at EXCEPT ![w] = "check"])
       ELSE /\ workers' = workers
            /\ at' \in Notified(at)
    /\ queue' = Append(queue, request[v])
    /\ opened' = [opened EXCEPT ![v] = TRUE]
    /\ pending' = [pending EXCEPT ![v] = @ \cup {[id |-> request[v].id, handle |-> request[v].handle]}]
    /\ request' = [request EXCEPT ![v] = NoJob]
    /\ GoTo(v, "run")
    /\ UNCHANGED <<busy, job, budgetVars, cancelled, replies, nextJob, fileVars, wakeVars, fault>>

-----------------------------------------------------------------------------
(***************************************************************************)
(* Pool::run, one thread.  The notifier outlives the portal; a cancelled   *)
(* job's lease and file go when the worker's loop body ends.               *)
(***************************************************************************)
workerUnchanged == <<workers, vpc, request, opened, cancelled, pending, nextJob,
                     fileVars, installed, fault>>

Take(w) ==
    /\ at[w] = "check"
    /\ IF queue = <<>>
       THEN Step(w, "waiting") /\ UNCHANGED <<queue, busy, job>>
       ELSE /\ job' = [job EXCEPT ![w] = Head(queue)]
            /\ queue' = Tail(queue)
            /\ busy' = busy + 1
            /\ Step(w, "taken")
    /\ UNCHANGED <<workerUnchanged, budgetVars, replies, wake>>

\* The condition variable may wake a worker for no reason.
Spurious(w) ==
    /\ at[w] = "waiting"
    /\ Step(w, "check")
    /\ UNCHANGED <<workerUnchanged, queue, busy, job, budgetVars, replies, wake>>

Start(w) ==
    /\ at[w] = "taken"
    /\ Step(w, IF cancelled[job[w].vm] THEN "finish" ELSE "running")
    /\ UNCHANGED <<workerUnchanged, queue, busy, job, budgetVars, replies, wake>>

Return(w) ==
    /\ at[w] = "running"
    /\ Step(w, "ran")
    /\ UNCHANGED <<workerUnchanged, queue, busy, job, budgetVars, replies, wake>>

Check(w) ==
    /\ at[w] = "ran"
    /\ Step(w, IF cancelled[job[w].vm] THEN "finish" ELSE "send")
    /\ UNCHANGED <<workerUnchanged, queue, busy, job, budgetVars, replies, wake>>

\* A read or a write always gives its file back; an open may have none to give,
\* and a panic loses it.
Outcomes(handle) == {"file", "panicked"} \cup (IF handle = NoFile THEN {"failed"} ELSE {})

\* Sending to a dropped receiver drops the answer, its file and its lease.
SendReply(w) ==
    /\ at[w] = "send"
    /\ LET v == job[w].vm
       IN  IF vpc[v] = "gone"
           THEN /\ DropBytes(job[w].bytes, 1)
                /\ job' = [job EXCEPT ![w] = NoJob]
                /\ Step(w, "finish")
                /\ UNCHANGED <<replies, wake>>
           ELSE /\ \E kind \in Outcomes(job[w].handle) :
                      replies' = [replies EXCEPT ![v] =
                         Append(@, [id |-> job[w].id, bytes |-> job[w].bytes, kind |-> kind])]
                /\ Step(w, "notify")
                /\ UNCHANGED <<job, budgetVars, wake>>
    /\ UNCHANGED <<workerUnchanged, queue, busy>>

\* Notifier::notify, after the answer went.
Notify(w) ==
    /\ at[w] = "notify"
    /\ wake' = [wake EXCEPT ![job[w].vm] = @ \/ installed[job[w].vm]]
    /\ job' = [job EXCEPT ![w] = NoJob]
    /\ Step(w, "finish")
    /\ UNCHANGED <<workerUnchanged, queue, busy, budgetVars, replies>>

\* Mutant: a worker sleeps after its job without a look at the queue.
FinishJobSleeps(w) ==
    /\ at[w] = "finish"
    /\ busy' = busy - 1
    /\ Step(w, IF job[w] = NoJob THEN "waiting" ELSE "discard")
    /\ UNCHANGED <<workerUnchanged, queue, job, budgetVars, replies, wake>>

FinishJob(w) ==
    /\ at[w] = "finish"
    /\ busy' = busy - 1
    /\ Step(w, IF job[w] = NoJob THEN "check" ELSE "discard")
    /\ UNCHANGED <<workerUnchanged, queue, job, budgetVars, replies, wake>>

\* Mutant: a cancelled job's lease is never dropped.
DiscardLeaking(w) ==
    /\ at[w] = "discard"
    /\ job' = [job EXCEPT ![w] = NoJob]
    /\ Step(w, "check")
    /\ UNCHANGED <<workerUnchanged, budgetVars, queue, busy, replies, wake>>

Discard(w) ==
    /\ at[w] = "discard"
    /\ DropBytes(job[w].bytes, 1)
    /\ job' = [job EXCEPT ![w] = NoJob]
    /\ Step(w, "check")
    /\ UNCHANGED <<workerUnchanged, queue, busy, replies, wake>>

-----------------------------------------------------------------------------
(***************************************************************************)
(* The VM's side of wait_for_task with descriptors pending: install the    *)
(* wake sender, drain the wake socket, collect finished jobs, and sleep in *)
(* the poller if none was found.  A turn of drive_tasks only collects.     *)
(***************************************************************************)
\* Mutant: finished jobs are collected before the wake socket is drained.
AfterStageSwapped(stage) ==
    CASE stage = "install" -> "collect"
      [] stage = "collect" -> "drain"
      [] stage = "drain" -> "block"

AfterStage(stage) ==
    CASE stage = "install" -> "drain"
      [] stage = "drain" -> "collect"
      [] stage = "collect" -> "block"

vmUnchanged == <<poolVars, request, opened, cancelled, nextJob>>

EnterWait(v) ==
    /\ vpc[v] = "run"
    /\ v \in Networked
    /\ pending[v] # {}
    /\ GoTo(v, "install")
    /\ UNCHANGED <<vmUnchanged, budgetVars, pending, replies, fileVars, wakeVars, fault>>

EnterTurn(v) ==
    /\ vpc[v] = "run"
    /\ pending[v] # {}
    /\ GoTo(v, "collected")
    /\ UNCHANGED <<vmUnchanged, budgetVars, pending, replies, fileVars, wakeVars, fault>>

Install(v) ==
    /\ vpc[v] = "install"
    /\ installed' = [installed EXCEPT ![v] = opened[v]]
    /\ GoTo(v, AfterStage("install"))
    /\ UNCHANGED <<vmUnchanged, budgetVars, pending, replies, fileVars, wake, fault>>

Drain(v) ==
    /\ vpc[v] = "drain"
    /\ wake' = [wake EXCEPT ![v] = FALSE]
    /\ GoTo(v, AfterStage("drain"))
    /\ UNCHANGED <<vmUnchanged, budgetVars, pending, replies, fileVars, installed, fault>>

\* file_handles: a file that comes back goes to its handle, a new one gets the
\* next handle.
Restore(v, handle) ==
    IF Cardinality(files[v]) >= ArenaLimit
    THEN GoTo(v, "stop") /\ UNCHANGED <<files, fault>>
    ELSE IF handle \in files[v]
    THEN /\ GoTo(v, "stop")
         /\ fault' = [fault EXCEPT ![v] = "returned twice"]
         /\ UNCHANGED files
    ELSE /\ files' = [files EXCEPT ![v] = @ \cup {handle}]
         /\ GoTo(v, "collected")
         /\ UNCHANGED fault

Deliver(v, mine, kind) ==
    \/ /\ mine = {}
       /\ GoTo(v, "stop")
       /\ fault' = [fault EXCEPT ![v] = "unexpected completion"]
       /\ UNCHANGED fileVars
    \/ \E p \in mine :
          CASE kind = "panicked" -> GoTo(v, "stop") /\ UNCHANGED <<fileVars, fault>>
            [] kind = "failed" -> GoTo(v, "collected") /\ UNCHANGED <<fileVars, fault>>
            [] kind = "file" ->
                 IF p.handle = NoFile
                 THEN /\ nextFile' = [nextFile EXCEPT ![v] = @ + 1]
                      /\ Restore(v, nextFile[v])
                 ELSE Restore(v, p.handle) /\ UNCHANGED nextFile

\* State::completed and the packing of its reply, which drops the lease.
Collect(v) ==
    /\ vpc[v] \in {"collect", "collected"}
    /\ replies[v] # <<>>
    /\ LET reply == Head(replies[v])
           mine == {p \in pending[v] : p.id = reply.id}
       IN  /\ replies' = [replies EXCEPT ![v] = Tail(@)]
           /\ pending' = [pending EXCEPT ![v] = @ \ mine]
           /\ DropBytes(reply.bytes, 1)
           /\ Deliver(v, mine, reply.kind)
    /\ UNCHANGED <<vmUnchanged, wakeVars>>

\* Nothing left to collect: go back to the tasks that can run, or go on waiting
\* when neither a job nor a timer nor a descriptor has made one runnable.
CollectNone(v) ==
    /\ replies[v] = <<>>
    /\ \/ vpc[v] \in {"collect", "collected"} /\ GoTo(v, "run")
       \/ vpc[v] = "collect" /\ GoTo(v, AfterStage("collect"))
    /\ UNCHANGED <<vmUnchanged, budgetVars, pending, replies, fileVars, wakeVars, fault>>

\* The poller returns: the wake socket is readable, or 100 ms have passed.
PollReturns(v) ==
    /\ vpc[v] = "block"
    /\ GoTo(v, "install")
    /\ UNCHANGED <<vmUnchanged, budgetVars, pending, replies, fileVars, wakeVars, fault>>

-----------------------------------------------------------------------------
(***************************************************************************)
(* The end of a run: State::drop raises the flag, removes the VM's queued  *)
(* jobs from the pool, then drops the portal's receiver with the replies.  *)
(***************************************************************************)
Exit(v) ==
    /\ vpc[v] \in {"run", "install", "collect", "collected", "block"}
    /\ GoTo(v, "stop")
    /\ UNCHANGED <<vmUnchanged, budgetVars, pending, replies, fileVars, wakeVars, fault>>

RaiseFlag(v) ==
    /\ vpc[v] = "stop"
    /\ cancelled' = [cancelled EXCEPT ![v] = opened[v]]
    /\ GoTo(v, IF opened[v] THEN "cancel" ELSE "receiver")
    /\ UNCHANGED <<poolVars, request, opened, nextJob, budgetVars, pending, replies,
                   fileVars, wakeVars, fault>>

\* Pool::cancel tells the jobs of this portal from those of the others.
Owned(v, queued) == queued.vm = v

CancelQueue(v) ==
    /\ vpc[v] = "cancel"
    /\ LET removed == {k \in DOMAIN queue : Owned(v, queue[k])}
       IN  /\ queue' = Subsequence(queue, DOMAIN queue \ removed)
           /\ DropBytes(Cardinality(Units(queue, removed)), Cardinality(removed))
    /\ GoTo(v, "receiver")
    /\ UNCHANGED <<workers, busy, at, job, request, portalVars, fileVars, wakeVars, fault>>

DropReceiver(v) ==
    /\ vpc[v] = "receiver"
    /\ replies' = [replies EXCEPT ![v] = <<>>]
    /\ DropBytes(Cardinality(Units(replies[v], DOMAIN replies[v])), Len(replies[v]))
    /\ pending' = [pending EXCEPT ![v] = {}]
    /\ files' = [files EXCEPT ![v] = {}]
    /\ GoTo(v, "gone")
    /\ UNCHANGED <<vmUnchanged, nextFile, wakeVars, fault>>

Quiet ==
    /\ \A v \in VM : vpc[v] = "gone"
    /\ \A w \in Worker : at[w] \in {"none", "waiting"}
    /\ dropping = 0
    /\ UNCHANGED vars

-----------------------------------------------------------------------------
VMStep(v) ==
    \/ Ask(v)
    \/ CloseFile(v)
    \/ ReserveSlot(v)
    \/ ReserveBytes(v)
    \/ Rollback(v)
    \/ SubmitFails(v)
    \/ Submit(v)
    \/ EnterWait(v)
    \/ EnterTurn(v)
    \/ Install(v)
    \/ Drain(v)
    \/ Collect(v)
    \/ CollectNone(v)
    \/ PollReturns(v)
    \/ Exit(v)
    \/ RaiseFlag(v)
    \/ CancelQueue(v)
    \/ DropReceiver(v)

\* What a worker does by itself; how long a job runs is up to the host.
WorkerMoves(w) ==
    \/ Take(w)
    \/ Start(w)
    \/ Check(w)
    \/ SendReply(w)
    \/ Notify(w)
    \/ FinishJob(w)
    \/ Discard(w)

WorkerStep(w) == WorkerMoves(w) \/ Return(w) \/ Spurious(w)

Next ==
    \/ \E v \in VM : VMStep(v)
    \/ \E w \in Worker : WorkerStep(w)
    \/ DropSlot
    \/ Quiet

Fairness == WF_vars(DropSlot) /\ \A w \in Worker : WF_vars(WorkerMoves(w))

Spec == Init /\ [][Next]_vars
FairSpec == Spec /\ Fairness

-----------------------------------------------------------------------------
(***************************************************************************)
(* Properties.                                                             *)
(***************************************************************************)
Holding == {w \in Worker : job[w] # NoJob /\ at[w] # "notify"}
Submitting == {v \in VM : vpc[v] = "submit"}
Running(v) == vpc[v] \notin {"stop", "cancel", "receiver", "gone"}

\* Every variable of the pool, the portals and the budget keeps its type; a
\* worker holds a job exactly between taking and dropping it.
HostTypeOK ==
    /\ queue \in Seq(Job)
    /\ at \in [Worker -> {"none", "check", "waiting", "taken", "running", "ran",
                          "send", "notify", "finish", "discard"}]
    /\ job \in [Worker -> Job \cup {NoJob}]
    /\ \A w \in Worker : at[w] \in {"taken", "running", "ran", "send", "notify", "discard"}
          => job[w] # NoJob
    /\ \A v \in VM : vpc[v] \in {"bytes", "submit"} => request[v] # NoJob
    /\ \A v \in VM : pending[v] \subseteq Pending /\ replies[v] \in Seq(Reply)

\* The leases in the process: of jobs that are queued, held by a worker, answered
\* and not yet collected, or about to be submitted.
LeaseOf(j) == [vm |-> j.vm, id |-> j.id, bytes |-> j.bytes]
ReplyLease(v, r) == [vm |-> v, id |-> r.id, bytes |-> r.bytes]
QueueLeases == {LeaseOf(queue[k]) : k \in DOMAIN queue}
HeldLeases == {LeaseOf(job[w]) : w \in Holding}
ReplyLeases == UNION {{ReplyLease(v, replies[v][k]) : k \in DOMAIN replies[v]} : v \in VM}
InFlight == QueueLeases \cup HeldLeases \cup ReplyLeases
Leases == InFlight \cup {LeaseOf(request[v]) : v \in Submitting}

SameJob(i, j) == i.vm = j.vm /\ i.id = j.id

\* No job is in two places: not twice in the queue, with two workers or answered
\* twice, nor in two of these.
OnePlaceEach ==
    /\ \A j, k \in DOMAIN queue : SameJob(queue[j], queue[k]) => j = k
    /\ \A u, w \in Holding : SameJob(job[u], job[w]) => u = w
    /\ \A v \in VM : \A j, k \in DOMAIN replies[v] : replies[v][j].id = replies[v][k].id => j = k
    /\ \A k \in DOMAIN queue, w \in Holding : ~SameJob(queue[k], job[w])
    /\ \A v \in VM : \A j \in DOMAIN queue, k \in DOMAIN replies[v] :
          queue[j].vm = v => queue[j].id # replies[v][k].id
    /\ \A v \in VM : \A w \in Holding, k \in DOMAIN replies[v] :
          job[w].vm = v => job[w].id # replies[v][k].id

\* The budget's two atomics always equal what the leases in the process hold,
\* give or take the slots of reservations and drops half done, and never exceed
\* ARENA_LIMIT and RETAINED_BYTES: whatever fails, panics or is cancelled, and
\* wherever a job is when its VM ends, its lease is returned once.
Bytes(S) == Cardinality(UNION {{l} \X (1 .. l.bytes) : l \in S})

BudgetExact ==
    /\ OnePlaceEach
    /\ usedJobs = Cardinality(Leases)
          + Cardinality({v \in VM : vpc[v] \in {"bytes", "rollback"}}) + dropping
    /\ usedBytes = Bytes(Leases)
    /\ usedJobs <= ArenaLimit
    /\ usedBytes <= ByteLimit

\* Each pending entry of a running VM stands for exactly one job, queued, held by
\* a worker or answered, so every task it parked is resumed once; one VM's
\* cancellation takes no other VM's jobs.
PendingExact ==
    \A v \in VM : Running(v) =>
        /\ {p.id : p \in pending[v]} = {l.id : l \in {m \in InFlight : m.vm = v}}
        /\ \A p, q \in pending[v] : p.id = q.id => p = q

\* A file is in the table or travels with one pending job, never both: no two
\* operations hold the same host file and restore never meets its handle.
\* "unexpected native host completion" and "native file handle was returned
\* twice" never happen.
OneOwner ==
    \A v \in VM :
        /\ fault[v] = "none"
        /\ Running(v) =>
              /\ \A p \in pending[v] : p.handle \notin files[v]
              /\ \A p, q \in pending[v] : p.handle = q.handle /\ p.handle # NoFile => p = q

\* notify_one is enough: while jobs are queued, as many workers as there are
\* jobs, or all of them, are awake.
NoJobOverslept ==
    LET awake == {w \in Worker : at[w] \notin {"none", "waiting"}}
    IN  Cardinality(awake) >= Len(queue) \/ Cardinality(awake) = Cardinality(Worker)

\* The pool's counters are what they count, a queued job never waits behind a
\* job in progress while another worker could have been started for it, and the
\* pending tables and the notifications agree with the queue.
PoolExact ==
    /\ HostTypeOK
    /\ workers = Cardinality({w \in Worker : at[w] # "none"})
    /\ busy = Cardinality({w \in Worker :
                  at[w] \in {"taken", "running", "ran", "send", "notify", "finish"}})
    /\ Len(queue) + busy <= workers \/ workers = Cardinality(Worker)
    /\ PendingExact
    /\ NoJobOverslept

\* The shared accounts of the process agree with what is in flight, whatever was
\* rolled back, cancelled or dropped: the budget and the pool.
AccountsExact == BudgetExact /\ PoolExact

\* A VM never sleeps in the descriptor poller on an answer it has not seen: the
\* wake socket is readable or the worker is about to make it so.
NoLostWake ==
    \A v \in VM : vpc[v] = "block" /\ replies[v] # <<>> =>
        wake[v] \/ \E w \in Worker : at[w] = "notify" /\ job[w].vm = v

\* When every VM is gone and no job runs for ever, the process-wide budget comes
\* back in full.
BudgetReturns ==
    (\A w \in Worker : []<>(at[w] # "running")) =>
        ((\A v \in VM : vpc[v] = "gone") ~> (usedJobs = 0 /\ usedBytes = 0))

\* The queued jobs of a VM are taken or cancelled if no job runs for ever, also
\* those that nobody was notified of because every worker had a job already, and
\* however often workers were notified for nothing.
Queued(v) == \E k \in DOMAIN queue : queue[k].vm = v

QueuedJobTaken ==
    (\A w \in Worker : []<>(at[w] # "running")) =>
        \A v \in VM : Queued(v) ~> ~Queued(v)

=============================================================================
