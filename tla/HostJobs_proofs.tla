-------------------------- MODULE HostJobs_proofs --------------------------
(***************************************************************************)
(* The host worker pool keeps its accounts, never loses a wake and never   *)
(* hands one file to two operations, for any number of VMs, workers, jobs  *)
(* and bytes.                                                              *)
(***************************************************************************)
EXTENDS HostJobs, Positions_proofs, SequenceTheorems

Submission == {"reserve", "bytes", "submit"}
Waiting == {"install", "drain", "collect", "block"}
Idle == {"none", "check", "waiting"}
Occupied == {"taken", "running", "ran", "send", "notify", "finish"}
Places == {"none", "check", "waiting", "taken", "running", "ran", "send", "notify",
           "finish", "discard"}
Stages == {"run", "rollback", "stop", "collected", "cancel", "receiver", "gone"}
             \cup Submission \cup Waiting

-----------------------------------------------------------------------------
(***************************************************************************)
(* The inductive invariant, in groups: each is preserved by every step     *)
(* with the help of the groups before it.                                  *)
(***************************************************************************)
Types ==
    /\ HostTypeOK
    /\ vpc \in [VM -> Stages]
    /\ request \in [VM -> Job \cup {NoJob}]
    /\ \A v \in VM : vpc[v] \in Submission => request[v] # NoJob /\ request[v].vm = v
    /\ \A w \in Worker : at[w] \in Idle => job[w] = NoJob
    /\ pending \in [VM -> SUBSET Pending] /\ replies \in [VM -> Seq(Reply)]
    /\ nextJob \in [VM -> Nat] /\ nextFile \in [VM -> Nat]
    /\ files \in [VM -> SUBSET Nat]
    /\ workers \in Int /\ busy \in Int
    /\ usedJobs \in Int /\ usedBytes \in Int /\ dropping \in Nat

Flags ==
    /\ opened \in [VM -> BOOLEAN] /\ cancelled \in [VM -> BOOLEAN]
    /\ installed \in [VM -> BOOLEAN] /\ wake \in [VM -> BOOLEAN]

\* A VM in the wait has a portal, and from its first drain on its wake sender is
\* installed.
WaitReady ==
    \A v \in VM :
        /\ pending[v] # {} \/ vpc[v] \in Waiting => opened[v]
        /\ vpc[v] \in Waiting \ {"install"} => installed[v]

\* A portal's flag is raised by the end of its VM, and a worker that gives up its
\* job has seen the flag.
FlagHonest ==
    /\ \A v \in VM : cancelled[v] => vpc[v] \in {"cancel", "receiver", "gone"}
    /\ \A w \in Worker : at[w] \in {"finish", "discard"} /\ job[w] # NoJob
          => cancelled[job[w].vm]

\* The identities a VM has given to jobs that were submitted.
Given == [v \in VM |-> IF vpc[v] \in Submission THEN nextJob[v] - 1 ELSE nextJob[v]]

Fresh ==
    /\ \A v \in VM : vpc[v] \in Submission => request[v].id = nextJob[v] - 1
    /\ \A k \in DOMAIN queue : queue[k].id < Given[queue[k].vm]
    /\ \A w \in Holding : job[w].id < Given[job[w].vm]
    /\ \A v \in VM : \A k \in DOMAIN replies[v] : replies[v][k].id < Given[v]

\* Of a VM that owns fs, has given out the handles below next, has the jobs in pd
\* pending and, while asking, submits one on handle h: the files of jobs are out
\* of the table, and every job has its own.
Loose(fs, next) == ({NoFile} \cup 0 .. (next - 1)) \ fs

Tidy(fs, next, pd, asking, h) ==
    /\ fs \subseteq 0 .. (next - 1)
    /\ \A p \in pd : p.handle \in Loose(fs, next)
    /\ \A p, q \in pd : p.handle = q.handle /\ p.handle # NoFile => p = q
    /\ asking => /\ h \in Loose(fs, next)
                 /\ \A p \in pd : p.handle = h => h = NoFile

HandlesOut ==
    \A v \in VM :
        /\ fault[v] = "none"
        /\ Tidy(files[v], nextFile[v], pending[v], vpc[v] \in Submission, request[v].handle)

\* The fields of a job and of a reply.
LEMMA JobFields ==
    ASSUME NEW j \in Job
    PROVE  /\ j.vm \in VM /\ j.id \in Nat /\ j.handle \in Nat \cup {NoFile} /\ j.bytes \in Nat
           /\ j # NoJob
<1>1. Sizes \subseteq Nat
  BY HostAssumption
<1>2. j.vm \in VM /\ j.id \in Nat /\ j.handle \in Nat \cup {NoFile} /\ j.bytes \in Sizes
  BY DEF Job
<1> QED
  BY <1>1, <1>2, NoJobAssumption

LEMMA ReplyFields ==
    ASSUME NEW r \in Reply
    PROVE  r.id \in Nat /\ r.bytes \in Nat /\ r.kind \in {"file", "failed", "panicked"}
<1>1. Sizes \subseteq Nat
  BY HostAssumption
<1>2. r.id \in Nat /\ r.bytes \in Sizes /\ r.kind \in {"file", "failed", "panicked"}
  BY DEF Reply
<1> QED
  BY <1>1, <1>2

\* Ask starts a submission, or stops the VM; a file it names leaves the table.
AskDone(v, handle, new) ==
    /\ handle \in (0..(nextFile[v] - 1)) \cup {NoFile}
    /\ new \in Job \ {NoJob} /\ new.vm = v /\ new.id = nextJob[v] /\ new.handle = handle
    /\ files' = files \/ files' = [files EXCEPT ![v] = files[v] \ {handle}]
    /\ \/ nextJob' = nextJob /\ request' = request /\ vpc' = [vpc EXCEPT ![v] = "stop"]
       \/ /\ nextJob' = [nextJob EXCEPT ![v] = @ + 1]
          /\ request' = [request EXCEPT ![v] = new]
          /\ vpc' = [vpc EXCEPT ![v] = "reserve"]
          /\ files' = [files EXCEPT ![v] = files[v] \ {handle}]
          /\ handle = NoFile \/ handle \in files[v]

LEMMA AskEffect ==
    ASSUME Types, NEW v \in VM, Ask(v)
    PROVE  \E handle, new : AskDone(v, handle, new)
<1>1. PICK bytes \in Sizes, handle \in (0..(nextFile[v] - 1)) \cup {NoFile} :
          IF handle # NoFile /\ handle \notin files[v]
          THEN GoTo(v, "stop") /\ UNCHANGED <<files, request, nextJob>>
          ELSE /\ files' = [files EXCEPT ![v] = Taken(v, handle)]
               /\ IF Cardinality(pending[v]) >= ArenaLimit
                  THEN GoTo(v, "stop") /\ UNCHANGED <<request, nextJob>>
                  ELSE /\ request' = [request EXCEPT ![v] =
                            [vm |-> v, id |-> nextJob[v], handle |-> handle, bytes |-> bytes]]
                       /\ nextJob' = [nextJob EXCEPT ![v] = @ + 1]
                       /\ GoTo(v, "reserve")
  BY DEF Ask
<1>2. PICK new : new = [vm |-> v, id |-> nextJob[v], handle |-> handle, bytes |-> bytes]
  OBVIOUS
<1>3. new \in Job
  BY <1>2 DEF Types, Job
<1>4. new # NoJob
  BY <1>3, JobFields
<1>5. new.vm = v /\ new.id = nextJob[v] /\ new.handle = handle
  BY <1>2
<1>6. /\ files' = files \/ files' = [files EXCEPT ![v] = files[v] \ {handle}]
      /\ \/ nextJob' = nextJob /\ request' = request /\ vpc' = [vpc EXCEPT ![v] = "stop"]
         \/ /\ nextJob' = [nextJob EXCEPT ![v] = @ + 1]
            /\ request' = [request EXCEPT ![v] = new]
            /\ vpc' = [vpc EXCEPT ![v] = "reserve"]
            /\ files' = [files EXCEPT ![v] = files[v] \ {handle}]
            /\ handle = NoFile \/ handle \in files[v]
  BY <1>1, <1>2 DEF Taken, GoTo
<1>7. AskDone(v, handle, new)
  BY <1>3, <1>4, <1>5, <1>6 DEF AskDone
<1> QED
  BY <1>7

\* Submit moves idle workers only, and to the queue's check.
LEMMA SubmitWakes ==
    ASSUME NEW v \in VM, Submit(v), at \in [Worker -> Places]
    PROVE  /\ at' \in [Worker -> Places]
           /\ \A w \in Worker : at'[w] = at[w] \/ (at[w] \in Idle /\ at'[w] = "check")
<1>1. ASSUME NEW f \in [Worker -> Places], NEW g, g \in Notified(f)
      PROVE  /\ g \in [Worker -> Places]
             /\ \A w \in Worker : g[w] = f[w] \/ (f[w] = "waiting" /\ g[w] = "check")
  BY <1>1 DEF Notified, Places
<1>2. CASE NeedsWorker
  <2>1. PICK w \in {u \in Worker : at[u] = "none"} : at' \in Notified([at EXCEPT ![w] = "check"])
    BY <1>2 DEF Submit
  <2>2. PICK f : f = [at EXCEPT ![w] = "check"]
    OBVIOUS
  <2>3. f \in [Worker -> Places] /\ at' \in Notified(f)
    BY <2>1, <2>2 DEF Places
  <2>4. /\ at' \in [Worker -> Places]
        /\ \A u \in Worker : at'[u] = f[u] \/ (f[u] = "waiting" /\ at'[u] = "check")
    BY <1>1, <2>3
  <2> QED
    BY <2>2, <2>4 DEF Idle
<1>3. CASE ~NeedsWorker
  BY <1>1, <1>3 DEF Submit, Idle
<1> QED
  BY <1>2, <1>3

LEMMA RestoreTypes ==
    ASSUME Types, NEW v \in VM, NEW handle \in Nat, Restore(v, handle)
    PROVE  /\ files' \in [VM -> SUBSET Nat]
           /\ \E where \in {"stop", "collected"} : vpc' = [vpc EXCEPT ![v] = where]
<1>1. files \in [VM -> SUBSET Nat]
  BY DEF Types
<1>2. files' \in [VM -> SUBSET Nat]
  BY <1>1 DEF Restore
<1>3. \E where \in {"stop", "collected"} : vpc' = [vpc EXCEPT ![v] = where]
  BY DEF Restore, GoTo
<1> QED
  BY <1>2, <1>3

\* A delivered reply leaves the VM running, or stops it.
LEMMA DeliverTypes ==
    ASSUME Types, NEW v \in VM, NEW mine \in SUBSET Pending, NEW kind, Deliver(v, mine, kind),
           kind \in {"file", "failed", "panicked"}
    PROVE  /\ vpc' \in [VM -> Stages] /\ files' \in [VM -> SUBSET Nat] /\ nextFile' \in [VM -> Nat]
           /\ \E where \in {"stop", "collected"} : vpc' = [vpc EXCEPT ![v] = where]
<1> USE DEF Types, Stages, GoTo
<1>1. ASSUME NEW handle \in Nat, Restore(v, handle)
      PROVE  /\ files' \in [VM -> SUBSET Nat]
             /\ \E where \in {"stop", "collected"} : vpc' = [vpc EXCEPT ![v] = where]
  BY <1>1, RestoreTypes
<1>2. ASSUME NEW where \in {"stop", "collected"}, vpc' = [vpc EXCEPT ![v] = where]
      PROVE  vpc' \in [VM -> Stages]
  BY <1>2
<1>3. CASE mine = {}
  BY <1>2, <1>3 DEF Deliver, fileVars
<1>4. ASSUME NEW p \in mine,
             CASE kind = "panicked" -> GoTo(v, "stop") /\ UNCHANGED <<fileVars, fault>>
               [] kind = "failed" -> GoTo(v, "collected") /\ UNCHANGED <<fileVars, fault>>
               [] kind = "file" ->
                    IF p.handle = NoFile
                    THEN /\ nextFile' = [nextFile EXCEPT ![v] = @ + 1]
                         /\ Restore(v, nextFile[v])
                    ELSE Restore(v, p.handle) /\ UNCHANGED nextFile
      PROVE  /\ files' \in [VM -> SUBSET Nat] /\ nextFile' \in [VM -> Nat]
             /\ \E where \in {"stop", "collected"} : vpc' = [vpc EXCEPT ![v] = where]
  <2>1. CASE kind = "panicked"
    BY <1>4, <2>1 DEF fileVars
  <2>2. CASE kind = "failed"
    BY <1>4, <2>2 DEF fileVars
  <2>3. CASE kind = "file" /\ p.handle = NoFile
    <3>1. nextFile' = [nextFile EXCEPT ![v] = @ + 1] /\ Restore(v, nextFile[v])
      BY <1>4, <2>3
    <3>2. nextFile[v] \in Nat /\ nextFile' \in [VM -> Nat]
      BY <3>1
    <3> QED
      BY <1>1, <3>1, <3>2
  <2>4. CASE kind = "file" /\ p.handle # NoFile
    BY <1>1, <1>4, <2>4 DEF Pending
  <2> QED
    BY <2>1, <2>2, <2>3, <2>4
<1> QED
  BY <1>2, <1>3, <1>4, Zenon DEF Deliver

\* The bytes of the jobs in part of a sequence are finitely many.
LEMMA FiniteUnits ==
    ASSUME NEW s, NEW S, IsFiniteSet(S), \A k \in S : s[k].bytes \in Nat
    PROVE  IsFiniteSet(Units(s, S)) /\ Cardinality(Units(s, S)) \in Nat
<1> DEFINE F == {{k} \X (1 .. s[k].bytes) : k \in S}
           f == [k \in S |-> {k} \X (1 .. s[k].bytes)]
<1>1. f \in Surjection(S, F)
  BY DEF Surjection
<1>2. IsFiniteSet(F)
  BY <1>1, FS_Surjection
<1>3. ASSUME NEW k \in S PROVE IsFiniteSet({k} \X (1 .. s[k].bytes))
  <2>1. IsFiniteSet(1 .. s[k].bytes)
    BY FS_Interval
  <2>2. IsFiniteSet({k})
    BY FS_Singleton
  <2> QED
    BY <2>1, <2>2, FS_Product
<1>4. \A T \in F : IsFiniteSet(T)
  BY <1>3
<1>5. IsFiniteSet(UNION F)
  BY <1>2, <1>4, FS_UNION
<1> QED
  BY <1>5, FS_CardinalityType DEF Units

LEMMA QueueUnits ==
    ASSUME queue \in Seq(Job), NEW S \in SUBSET DOMAIN queue
    PROVE  IsFiniteSet(S) /\ Cardinality(S) \in Nat /\ Cardinality(Units(queue, S)) \in Nat
<1>1. IsFiniteSet(DOMAIN queue)
  BY FS_Interval
<1>2. IsFiniteSet(S) /\ Cardinality(S) \in Nat
  BY <1>1, FS_Subset, FS_CardinalityType
<1>3. \A k \in S : queue[k].bytes \in Nat
  BY JobFields
<1> QED
  BY <1>2, <1>3, FiniteUnits

LEMMA ReplyUnits ==
    ASSUME NEW s \in Seq(Reply)
    PROVE  Cardinality(Units(s, DOMAIN s)) \in Nat
<1>1. IsFiniteSet(DOMAIN s)
  BY FS_Interval
<1>2. \A k \in DOMAIN s : s[k].bytes \in Nat
  BY ReplyFields
<1> QED
  BY <1>1, <1>2, FiniteUnits


LEMMA TypesStep ==
    ASSUME Types, [Next]_vars
    PROVE  Types'
<1> USE DEF Types, HostTypeOK
<1>1. CASE UNCHANGED vars
  BY <1>1, Zenon DEF vars, poolVars, budgetVars, portalVars, fileVars
<1>2. ASSUME NEW v \in VM, VMStep(v) PROVE Types'
  <2>1. CASE Ask(v)
    <3>0. PICK handle, new : AskDone(v, handle, new)
      BY <2>1, AskEffect
    <3>1. /\ new \in Job \ {NoJob} /\ new.vm = v
          /\ files' = files \/ files' = [files EXCEPT ![v] = files[v] \ {handle}]
          /\ \/ nextJob' = nextJob /\ request' = request /\ vpc' = [vpc EXCEPT ![v] = "stop"]
             \/ /\ nextJob' = [nextJob EXCEPT ![v] = nextJob[v] + 1]
                /\ request' = [request EXCEPT ![v] = new]
                /\ vpc' = [vpc EXCEPT ![v] = "reserve"]
      BY <3>0 DEF AskDone
    <3>2. /\ UNCHANGED <<queue, at, job, workers, busy, usedJobs, usedBytes, dropping>>
          /\ UNCHANGED <<pending, replies, nextFile>>
      BY <2>1 DEF Ask, poolVars, budgetVars
    <3>7. files[v] \ {handle} \in SUBSET Nat /\ nextJob[v] + 1 \in Nat
      OBVIOUS
    <3>6. files' = files \/ files' = [files EXCEPT ![v] = files[v] \ {handle}]
      BY <3>1
    <3>8. files' \in [VM -> SUBSET Nat]
      BY <3>6, <3>7
    <3>9. nextJob' = nextJob \/ nextJob' = [nextJob EXCEPT ![v] = nextJob[v] + 1]
      BY <3>1
    <3>10. nextJob \in [VM -> Nat]
      OBVIOUS
    <3>11. nextJob' \in [VM -> Nat]
      BY <3>7, <3>9, <3>10
    <3>4. files' \in [VM -> SUBSET Nat] /\ nextJob' \in [VM -> Nat]
      BY <3>8, <3>11
    <3>5. /\ vpc' \in [VM -> Stages] /\ request' \in [VM -> Job \cup {NoJob}]
          /\ \A u \in VM : vpc'[u] \in Submission => request'[u] # NoJob /\ request'[u].vm = u
      <4>2. CASE request' = request /\ vpc' = [vpc EXCEPT ![v] = "stop"]
        BY <4>2 DEF Submission, Waiting, Stages
      <4>3. CASE request' = [request EXCEPT ![v] = new] /\ vpc' = [vpc EXCEPT ![v] = "reserve"]
        BY <3>1, <4>3 DEF Submission, Waiting, Stages
      <4> QED
        BY <3>1, <4>2, <4>3
    <3> QED
      BY <3>2, <3>4, <3>5, Zenon DEF Submission
  <2>2. CASE CloseFile(v)
    BY <2>2 DEF CloseFile, Taken, GoTo, poolVars, budgetVars, portalVars, wakeVars,
      Submission, Waiting, Stages
  <2>3. CASE ReserveSlot(v)
    <3>1. CASE usedJobs < ArenaLimit
      <4>1. usedJobs' \in Int /\ vpc' = [vpc EXCEPT ![v] = "bytes"] /\ request' = request
        BY <2>3, <3>1 DEF ReserveSlot, GoTo
      <4>2. request[v] # NoJob /\ request[v].vm = v
        BY <2>3 DEF ReserveSlot, Submission
      <4> QED
        BY <2>3, <4>1, <4>2 DEF ReserveSlot, GoTo, poolVars, portalVars, fileVars, Submission, Waiting, Stages
    <3>2. CASE ~(usedJobs < ArenaLimit)
      BY ZenonT(60), <2>3, <3>2 DEF ReserveSlot, GoTo, poolVars, portalVars, fileVars, Submission, Waiting, Stages
    <3> QED
      BY <3>1, <3>2
  <2>4. CASE ReserveBytes(v)
    <3>1. request[v] \in Job
      BY <2>4 DEF ReserveBytes, Submission
    <3>4. request[v].bytes \in Nat
      BY <3>1, JobFields
    <3>2. CASE usedBytes + request[v].bytes <= ByteLimit
      <4>1. usedBytes' \in Int /\ vpc' = [vpc EXCEPT ![v] = "submit"] /\ request' = request
        BY <2>4, <3>2, <3>4 DEF ReserveBytes, GoTo
      <4>2. request[v] # NoJob /\ request[v].vm = v
        BY <2>4 DEF ReserveBytes, Submission
      <4> QED
        BY <2>4, <4>1, <4>2 DEF ReserveBytes, GoTo, poolVars, portalVars, fileVars, Submission, Waiting, Stages
    <3>3. CASE ~(usedBytes + request[v].bytes <= ByteLimit)
      BY ZenonT(60), <2>4, <3>3 DEF ReserveBytes, GoTo, poolVars, portalVars, fileVars, Submission, Waiting, Stages
    <3> QED
      BY <3>2, <3>3
  <2>5. CASE Rollback(v)
    BY <2>5 DEF Rollback, GoTo, poolVars, portalVars, fileVars, wakeVars, Submission,
      Waiting, Stages
  <2>6. CASE SubmitFails(v)
    <3>1. request[v].bytes \in Nat
      BY <2>6, JobFields DEF SubmitFails, Submission
    <3> QED
      BY <2>6, <3>1 DEF SubmitFails, DropBytes, GoTo, poolVars, fileVars, Submission, Waiting, Stages
  <2>7. CASE Submit(v)
    <3>1. request[v] \in Job
      BY <2>7 DEF Submit
    <3>2. queue' \in Seq(Job)
      BY <2>7, <3>1 DEF Submit
    <3>3. [id |-> request[v].id, handle |-> request[v].handle] \in Pending
      BY <3>1 DEF Job, Pending
    <3>4. pending' \in [VM -> SUBSET Pending]
      BY <2>7, <3>3 DEF Submit
    <3>5. /\ at' \in [Worker -> Places]
          /\ \A w \in Worker : at'[w] = at[w] \/ (at[w] \in Idle /\ at'[w] = "check")
      BY <2>7, SubmitWakes DEF Places
    <3>6. workers' \in Int
      BY <2>7 DEF Submit
    <3>7. /\ vpc' = [vpc EXCEPT ![v] = "run"] /\ request' = [request EXCEPT ![v] = NoJob]
          /\ UNCHANGED <<busy, job, usedJobs, usedBytes, dropping, replies, nextJob, files, nextFile>>
      BY <2>7 DEF Submit, GoTo, budgetVars, fileVars
    <3> QED
      BY <3>2, <3>4, <3>5, <3>6, <3>7 DEF Submission, Waiting, Stages, Idle, Places
  <2>8. CASE EnterWait(v)
    BY <2>8 DEF EnterWait, GoTo, vmUnchanged, poolVars, budgetVars, fileVars,
      wakeVars, Submission, Waiting, Stages
  <2>9. CASE EnterTurn(v)
    BY <2>9 DEF EnterTurn, GoTo, vmUnchanged, poolVars, budgetVars, fileVars,
      wakeVars, Submission, Waiting, Stages
  <2>10. CASE Install(v)
    BY <2>10 DEF Install, GoTo, AfterStage, vmUnchanged, poolVars, budgetVars,
      fileVars, Submission, Waiting, Stages
  <2>11. CASE Drain(v)
    BY <2>11 DEF Drain, GoTo, AfterStage, vmUnchanged, poolVars, budgetVars, fileVars,
      Submission, Waiting, Stages
  <2>12. CASE Collect(v)
    <3>1. PICK reply, mine :
              /\ reply = Head(replies[v]) /\ mine = {p \in pending[v] : p.id = reply.id}
              /\ replies' = [replies EXCEPT ![v] = Tail(@)]
              /\ pending' = [pending EXCEPT ![v] = @ \ mine]
              /\ DropBytes(reply.bytes, 1)
              /\ Deliver(v, mine, reply.kind)
      BY <2>12, Zenon DEF Collect
    <3>2. /\ replies[v] # <<>> /\ replies[v] \in Seq(Reply)
          /\ UNCHANGED <<queue, at, job, workers, busy, request, nextJob>>
      BY <2>12 DEF Collect, vmUnchanged, poolVars
    <3>7. reply \in Reply
      BY <3>1, <3>2
    <3>3. reply.bytes \in Nat /\ reply.kind \in {"file", "failed", "panicked"}
      BY <3>7, ReplyFields
    <3>4. replies' \in [VM -> Seq(Reply)] /\ pending' \in [VM -> SUBSET Pending]
      BY <3>1, <3>2
    <3>5. usedJobs' \in Int /\ usedBytes' \in Int /\ dropping' \in Nat
      BY <3>1, <3>3 DEF DropBytes
    <3>6. /\ vpc' \in [VM -> Stages] /\ files' \in [VM -> SUBSET Nat] /\ nextFile' \in [VM -> Nat]
          /\ \A u \in VM : vpc'[u] \in Submission => vpc[u] \in Submission
      <4>1. mine \in SUBSET Pending
        BY <3>1
      <4>2. /\ vpc' \in [VM -> Stages] /\ files' \in [VM -> SUBSET Nat] /\ nextFile' \in [VM -> Nat]
            /\ \E where \in {"stop", "collected"} : vpc' = [vpc EXCEPT ![v] = where]
        BY <3>1, <3>3, <4>1, DeliverTypes
      <4> QED
        BY <4>2 DEF Submission
    <3> QED
      BY <3>2, <3>4, <3>5, <3>6, Zenon DEF Submission
  <2>13. CASE CollectNone(v)
    BY ZenonT(60), <2>13 DEF CollectNone, GoTo, AfterStage, vmUnchanged, poolVars, budgetVars,
      fileVars, wakeVars, Submission, Waiting, Stages
  <2>14. CASE PollReturns(v)
    BY <2>14 DEF PollReturns, GoTo, vmUnchanged, poolVars, budgetVars, fileVars,
      wakeVars, Submission, Waiting, Stages
  <2>15. CASE Exit(v)
    BY <2>15 DEF Exit, GoTo, vmUnchanged, poolVars, budgetVars, fileVars, wakeVars,
      Submission, Waiting, Stages
  <2>16. CASE RaiseFlag(v)
    BY <2>16 DEF RaiseFlag, GoTo, poolVars, budgetVars, fileVars, wakeVars,
      Submission, Waiting, Stages
  <2>17. CASE CancelQueue(v)
    <3>1. PICK removed :
              /\ removed = {k \in DOMAIN queue : Owned(v, queue[k])}
              /\ queue' = Subsequence(queue, DOMAIN queue \ removed)
              /\ DropBytes(Cardinality(Units(queue, removed)), Cardinality(removed))
      BY <2>17, Zenon DEF CancelQueue
    <3>2. queue' \in Seq(Job)
      BY <3>1, SubsequenceRight
    <3>3. Cardinality(removed) \in Nat /\ Cardinality(Units(queue, removed)) \in Nat
      BY <3>1, QueueUnits, DOMAIN queue = 1 .. Len(queue), FS_Interval, FS_Subset, FS_CardinalityType
    <3>4. usedJobs' \in Int /\ usedBytes' \in Int /\ dropping' \in Nat
      BY <3>1, <3>3 DEF DropBytes
    <3> QED
      BY <2>17, <3>2, <3>4 DEF CancelQueue, GoTo, portalVars, fileVars, Submission, Waiting, Stages
  <2>18. CASE DropReceiver(v)
    <3>1. Cardinality(Units(replies[v], DOMAIN replies[v])) \in Nat
      BY ReplyUnits
    <3> QED
      BY <2>18, <3>1 DEF DropReceiver, DropBytes, GoTo, vmUnchanged, poolVars, Submission, Waiting, Stages
  <2> QED
    BY <1>2, <2>1, <2>2, <2>3, <2>4, <2>5, <2>6, <2>7, <2>8, <2>9, <2>10, <2>11,
      <2>12, <2>13, <2>14, <2>15, <2>16, <2>17, <2>18 DEF VMStep
<1>3. ASSUME NEW w \in Worker, WorkerStep(w) PROVE Types'
  <2>1. CASE Take(w)
    <3>1. CASE queue = <<>>
      BY <2>1, <3>1 DEF Take, Step, workerUnchanged, budgetVars, fileVars, Idle
    <3>2. CASE queue # <<>>
      <4>1. Head(queue) \in Job /\ Tail(queue) \in Seq(Job)
        BY <3>2
      <4>2. Head(queue) # NoJob
        BY <4>1, NoJobAssumption
      <4> QED
        <5>1. /\ job' = [job EXCEPT ![w] = Head(queue)] /\ queue' = Tail(queue)
              /\ busy' = busy + 1 /\ at' = [at EXCEPT ![w] = "taken"]
          BY <2>1, <3>2 DEF Take, Step
        <5>2. job' \in [Worker -> Job \cup {NoJob}] /\ queue' \in Seq(Job) /\ busy' \in Int
          BY <4>1, <5>1
        <5> QED
          BY <2>1, <4>2, <5>1, <5>2 DEF Take, workerUnchanged, budgetVars, fileVars, Idle
    <3> QED
      BY <3>1, <3>2
  <2>2. CASE Start(w)
    BY <2>2 DEF Start, Step, workerUnchanged, budgetVars, fileVars, Idle
  <2>3. CASE Check(w)
    BY <2>3 DEF Check, Step, workerUnchanged, budgetVars, fileVars, Idle
  <2>4. CASE SendReply(w)
    <3>4. job[w] \in Job
      BY <2>4 DEF SendReply
    <3>1. job[w].vm \in VM /\ job[w].bytes \in Nat
      BY <3>4, JobFields
    <3>2. CASE vpc[job[w].vm] = "gone"
      <4>1. /\ usedBytes' \in Int /\ dropping' \in Nat /\ usedJobs' = usedJobs
            /\ job' = [job EXCEPT ![w] = NoJob] /\ at' = [at EXCEPT ![w] = "finish"]
            /\ replies' = replies
        BY <2>4, <3>1, <3>2 DEF SendReply, DropBytes, Step
      <4> QED
        BY <2>4, <4>1 DEF SendReply, workerUnchanged, fileVars, Idle
    <3>3. CASE vpc[job[w].vm] # "gone"
      <4>1. PICK kind \in Outcomes(job[w].handle) :
                replies' = [replies EXCEPT ![job[w].vm] =
                   Append(@, [id |-> job[w].id, bytes |-> job[w].bytes, kind |-> kind])]
        BY <2>4, <3>3 DEF SendReply
      <4>2. [id |-> job[w].id, bytes |-> job[w].bytes, kind |-> kind] \in Reply
        BY <3>4 DEF Outcomes, Job, Reply
      <4>3. replies' \in [VM -> Seq(Reply)]
        BY <3>1, <4>1, <4>2
      <4> QED
        BY <2>4, <3>3, <4>3 DEF SendReply, Step, workerUnchanged, budgetVars, fileVars, Idle
    <3> QED
      BY <3>2, <3>3
  <2>5. CASE Notify(w)
    BY <2>5 DEF Notify, Step, workerUnchanged, budgetVars, fileVars, Idle
  <2>6. CASE FinishJob(w)
    BY <2>6 DEF FinishJob, Step, workerUnchanged, budgetVars, fileVars, Idle
  <2>7. CASE Discard(w)
    <3>1. job[w].bytes \in Nat
      BY <2>7, JobFields DEF Discard
    <3> QED
      BY <2>7, <3>1 DEF Discard, DropBytes, Step, workerUnchanged, fileVars, Idle
  <2>8. CASE Return(w)
    BY <2>8 DEF Return, Step, workerUnchanged, budgetVars, fileVars, Idle
  <2>9. CASE Spurious(w)
    BY <2>9 DEF Spurious, Step, workerUnchanged, budgetVars, fileVars, Idle
  <2> QED
    BY <1>3, <2>1, <2>2, <2>3, <2>4, <2>5, <2>6, <2>7, <2>8, <2>9 DEF WorkerStep, WorkerMoves
<1>4. CASE DropSlot
    BY <1>4 DEF DropSlot, poolVars, portalVars, fileVars, wakeVars
<1> QED
  BY <1>1, <1>2, <1>3, <1>4 DEF Next, Quiet

\* What collecting one reply does: the reply and its pending entry go, and the VM
\* stays in the collection or stops.
LEMMA CollectEffect ==
    ASSUME Types, NEW v \in VM, Collect(v)
    PROVE  \E reply, mine, where :
              /\ replies[v] # <<>> /\ reply = Head(replies[v]) /\ reply \in Reply
              /\ mine = {p \in pending[v] : p.id = reply.id}
              /\ replies' = [replies EXCEPT ![v] = Tail(@)]
              /\ pending' = [pending EXCEPT ![v] = @ \ mine]
              /\ DropBytes(reply.bytes, 1)
              /\ Deliver(v, mine, reply.kind)
              /\ where \in {"stop", "collected"} /\ vpc' = [vpc EXCEPT ![v] = where]
<1>1. PICK reply, mine :
          /\ reply = Head(replies[v]) /\ mine = {p \in pending[v] : p.id = reply.id}
          /\ replies' = [replies EXCEPT ![v] = Tail(@)]
          /\ pending' = [pending EXCEPT ![v] = @ \ mine]
          /\ DropBytes(reply.bytes, 1)
          /\ Deliver(v, mine, reply.kind)
  BY Zenon DEF Collect
<1>2. replies[v] # <<>> /\ replies[v] \in Seq(Reply) /\ pending[v] \in SUBSET Pending
  BY DEF Collect, Types
<1>3. reply \in Reply /\ mine \in SUBSET Pending
  BY <1>1, <1>2
<1>4. reply.kind \in {"file", "failed", "panicked"}
  BY <1>3, ReplyFields
<1>5. \E where \in {"stop", "collected"} : vpc' = [vpc EXCEPT ![v] = where]
  BY <1>1, <1>3, <1>4, DeliverTypes
<1> QED
  BY <1>1, <1>2, <1>3, <1>5, Zenon


LEMMA FlagsStep ==
    ASSUME Types, Flags, [Next]_vars
    PROVE  Flags'
<1> USE DEF Flags
<1>1. CASE UNCHANGED vars
  BY <1>1, Zenon DEF vars, poolVars, budgetVars, portalVars, fileVars, wakeVars
<1>2. ASSUME NEW v \in VM, VMStep(v) PROVE Flags'
  <2>1. CASE Ask(v)
    BY <2>1 DEF Ask, Taken, GoTo, poolVars, budgetVars, wakeVars
  <2>2. CASE CloseFile(v)
    BY <2>2 DEF CloseFile, Taken, GoTo, poolVars, budgetVars, portalVars, wakeVars
  <2>3. CASE ReserveSlot(v)
    BY <2>3 DEF ReserveSlot, GoTo, poolVars, portalVars, fileVars, wakeVars
  <2>4. CASE ReserveBytes(v)
    BY <2>4 DEF ReserveBytes, GoTo, poolVars, portalVars, fileVars, wakeVars
  <2>5. CASE Rollback(v)
    BY <2>5 DEF Rollback, GoTo, poolVars, portalVars, fileVars, wakeVars
  <2>6. CASE SubmitFails(v)
    BY <2>6 DEF SubmitFails, DropBytes, GoTo, poolVars, fileVars, wakeVars
  <2>7. CASE Submit(v)
    <3>1. opened' = [opened EXCEPT ![v] = TRUE] /\ UNCHANGED <<cancelled, installed, wake>>
      BY <2>7 DEF Submit, wakeVars
    <3> QED
      BY <3>1, Zenon
  <2>8. CASE EnterWait(v)
    BY <2>8 DEF EnterWait, GoTo, vmUnchanged, poolVars, budgetVars, fileVars, wakeVars
  <2>9. CASE EnterTurn(v)
    BY <2>9 DEF EnterTurn, GoTo, vmUnchanged, poolVars, budgetVars, fileVars, wakeVars
  <2>10. CASE Install(v)
    BY <2>10 DEF Install, GoTo, AfterStage, vmUnchanged, poolVars, budgetVars,
      fileVars
  <2>11. CASE Drain(v)
    BY <2>11 DEF Drain, GoTo, AfterStage, vmUnchanged, poolVars, budgetVars, fileVars
  <2>12. CASE Collect(v)
    BY <2>12, Zenon DEF Collect, vmUnchanged, wakeVars
  <2>13. CASE CollectNone(v)
    BY <2>13 DEF CollectNone, GoTo, AfterStage, vmUnchanged, poolVars, budgetVars,
      fileVars, wakeVars
  <2>14. CASE PollReturns(v)
    BY <2>14 DEF PollReturns, GoTo, vmUnchanged, poolVars, budgetVars, fileVars,
      wakeVars
  <2>15. CASE Exit(v)
    BY <2>15 DEF Exit, GoTo, vmUnchanged, poolVars, budgetVars, fileVars, wakeVars
  <2>16. CASE RaiseFlag(v)
    BY <2>16 DEF RaiseFlag, GoTo, poolVars, budgetVars, fileVars, wakeVars
  <2>17. CASE CancelQueue(v)
    BY <2>17 DEF CancelQueue, DropBytes, GoTo, portalVars, fileVars, wakeVars
  <2>18. CASE DropReceiver(v)
    BY <2>18 DEF DropReceiver, DropBytes, GoTo, vmUnchanged, poolVars, wakeVars
  <2> QED
    BY <1>2, <2>1, <2>2, <2>3, <2>4, <2>5, <2>6, <2>7, <2>8, <2>9, <2>10, <2>11,
      <2>12, <2>13, <2>14, <2>15, <2>16, <2>17, <2>18 DEF VMStep
<1>3. ASSUME NEW w \in Worker, WorkerStep(w) PROVE Flags'
  <2>1. CASE Take(w)
    BY <2>1 DEF Take, Step, workerUnchanged, budgetVars, fileVars
  <2>2. CASE Start(w)
    BY <2>2 DEF Start, Step, workerUnchanged, budgetVars, fileVars
  <2>3. CASE Check(w)
    BY <2>3 DEF Check, Step, workerUnchanged, budgetVars, fileVars
  <2>4. CASE SendReply(w)
    BY <2>4 DEF SendReply, DropBytes, Step, workerUnchanged, budgetVars, fileVars
  <2>5. CASE Notify(w)
    BY <2>5 DEF Notify, Step, workerUnchanged, budgetVars, fileVars
  <2>6. CASE FinishJob(w)
    BY <2>6 DEF FinishJob, Step, workerUnchanged, budgetVars, fileVars
  <2>7. CASE Discard(w)
    BY <2>7 DEF Discard, DropBytes, Step, workerUnchanged, fileVars
  <2>8. CASE Return(w)
    BY <2>8 DEF Return, Step, workerUnchanged, budgetVars, fileVars
  <2>9. CASE Spurious(w)
    BY <2>9 DEF Spurious, Step, workerUnchanged, budgetVars, fileVars
  <2> QED
    BY <1>3, <2>1, <2>2, <2>3, <2>4, <2>5, <2>6, <2>7, <2>8, <2>9 DEF WorkerStep, WorkerMoves
<1>4. CASE DropSlot
  BY <1>4 DEF DropSlot, poolVars, portalVars, fileVars, wakeVars
<1> QED
  BY <1>1, <1>2, <1>3, <1>4 DEF Next, Quiet


LEMMA WaitReadyStep ==
    ASSUME Types, Flags, WaitReady, [Next]_vars
    PROVE  WaitReady'
<1> USE DEF WaitReady
<1>1. CASE UNCHANGED vars
  BY <1>1, Zenon DEF vars, poolVars, budgetVars, portalVars, fileVars, wakeVars
<1>2. ASSUME NEW v \in VM, VMStep(v) PROVE WaitReady'
  <2>1. CASE Ask(v)
    BY <2>1 DEF Ask, Taken, GoTo, poolVars, budgetVars, wakeVars, Types, Flags,
      Waiting
  <2>2. CASE CloseFile(v)
    BY <2>2 DEF CloseFile, Taken, GoTo, poolVars, budgetVars, portalVars, wakeVars,
      Types, Flags, Waiting
  <2>3. CASE ReserveSlot(v)
    BY <2>3 DEF ReserveSlot, GoTo, poolVars, portalVars, fileVars, wakeVars, Types,
      Flags, Waiting
  <2>4. CASE ReserveBytes(v)
    BY <2>4 DEF ReserveBytes, GoTo, poolVars, portalVars, fileVars, wakeVars, Types,
      Flags, Waiting
  <2>5. CASE Rollback(v)
    BY <2>5 DEF Rollback, GoTo, poolVars, portalVars, fileVars, wakeVars, Types,
      Flags, Waiting
  <2>6. CASE SubmitFails(v)
    BY <2>6 DEF SubmitFails, DropBytes, GoTo, poolVars, fileVars, wakeVars, Types,
      Flags, Waiting
  <2>7. CASE Submit(v)
    BY <2>7 DEF Submit, GoTo, budgetVars, fileVars, wakeVars, Types, Flags, Waiting
  <2>8. CASE EnterWait(v)
    BY <2>8 DEF EnterWait, GoTo, vmUnchanged, poolVars, budgetVars, fileVars,
      wakeVars, Types, Flags, Waiting
  <2>9. CASE EnterTurn(v)
    BY <2>9 DEF EnterTurn, GoTo, vmUnchanged, poolVars, budgetVars, fileVars,
      wakeVars, Types, Flags, Waiting
  <2>10. CASE Install(v)
    BY <2>10 DEF Install, GoTo, AfterStage, vmUnchanged, poolVars, budgetVars,
      fileVars, Types, Flags, Waiting
  <2>11. CASE Drain(v)
    BY <2>11 DEF Drain, GoTo, AfterStage, vmUnchanged, poolVars, budgetVars, fileVars,
      Types, Flags, Waiting
  <2>12. CASE Collect(v)
    <3>1. PICK mine, where :
              /\ where \in {"stop", "collected"} /\ vpc' = [vpc EXCEPT ![v] = where]
              /\ pending' = [pending EXCEPT ![v] = @ \ mine]
      BY <2>12, CollectEffect
    <3>2. UNCHANGED <<opened, installed>>
      BY <2>12 DEF Collect, vmUnchanged, wakeVars
    <3> QED
      BY <3>1, <3>2 DEF Types, Waiting
  <2>13. CASE CollectNone(v)
    BY <2>13 DEF CollectNone, GoTo, AfterStage, vmUnchanged, poolVars, budgetVars,
      fileVars, wakeVars, Types, Flags, Waiting
  <2>14. CASE PollReturns(v)
    BY <2>14 DEF PollReturns, GoTo, vmUnchanged, poolVars, budgetVars, fileVars,
      wakeVars, Types, Flags, Waiting
  <2>15. CASE Exit(v)
    BY <2>15 DEF Exit, GoTo, vmUnchanged, poolVars, budgetVars, fileVars, wakeVars,
      Types, Flags, Waiting
  <2>16. CASE RaiseFlag(v)
    BY <2>16 DEF RaiseFlag, GoTo, poolVars, budgetVars, fileVars, wakeVars, Types,
      Flags, Waiting
  <2>17. CASE CancelQueue(v)
    BY <2>17 DEF CancelQueue, DropBytes, GoTo, portalVars, fileVars, wakeVars, Types,
      Flags, Waiting
  <2>18. CASE DropReceiver(v)
    BY <2>18 DEF DropReceiver, DropBytes, GoTo, vmUnchanged, poolVars, wakeVars,
      Types, Flags, Waiting
  <2> QED
    BY <1>2, <2>1, <2>2, <2>3, <2>4, <2>5, <2>6, <2>7, <2>8, <2>9, <2>10, <2>11,
      <2>12, <2>13, <2>14, <2>15, <2>16, <2>17, <2>18 DEF VMStep
<1>3. ASSUME NEW w \in Worker, WorkerStep(w) PROVE WaitReady'
  <2>1. CASE Take(w)
    BY <2>1 DEF Take, Step, workerUnchanged, budgetVars, fileVars, Types, Flags,
      Waiting
  <2>2. CASE Start(w)
    BY <2>2 DEF Start, Step, workerUnchanged, budgetVars, fileVars, Types, Flags,
      Waiting
  <2>3. CASE Check(w)
    BY <2>3 DEF Check, Step, workerUnchanged, budgetVars, fileVars, Types, Flags,
      Waiting
  <2>4. CASE SendReply(w)
    BY <2>4 DEF SendReply, DropBytes, Step, workerUnchanged, budgetVars, fileVars,
      Types, Flags, Waiting
  <2>5. CASE Notify(w)
    BY <2>5 DEF Notify, Step, workerUnchanged, budgetVars, fileVars, Types, Flags,
      Waiting
  <2>6. CASE FinishJob(w)
    BY <2>6 DEF FinishJob, Step, workerUnchanged, budgetVars, fileVars, Types, Flags,
      Waiting
  <2>7. CASE Discard(w)
    BY <2>7 DEF Discard, DropBytes, Step, workerUnchanged, fileVars, Types, Flags,
      Waiting
  <2>8. CASE Return(w)
    BY <2>8 DEF Return, Step, workerUnchanged, budgetVars, fileVars, Types, Flags,
      Waiting
  <2>9. CASE Spurious(w)
    BY <2>9 DEF Spurious, Step, workerUnchanged, budgetVars, fileVars, Types, Flags,
      Waiting
  <2> QED
    BY <1>3, <2>1, <2>2, <2>3, <2>4, <2>5, <2>6, <2>7, <2>8, <2>9 DEF WorkerStep, WorkerMoves
<1>4. CASE DropSlot
  BY <1>4 DEF DropSlot, poolVars, portalVars, fileVars, wakeVars, Types, Flags,
      Waiting
<1> QED
  BY <1>1, <1>2, <1>3, <1>4 DEF Next, Quiet


LEMMA FlagHonestStep ==
    ASSUME Types, Flags, FlagHonest, [Next]_vars
    PROVE  FlagHonest'
<1> USE DEF FlagHonest
<1>1. CASE UNCHANGED vars
  BY <1>1, Zenon DEF vars, poolVars, budgetVars, portalVars, fileVars, wakeVars
<1>2. ASSUME NEW v \in VM, VMStep(v) PROVE FlagHonest'
  <2>1. CASE Ask(v)
    <3>1. PICK where \in {"stop", "reserve"} : vpc' = [vpc EXCEPT ![v] = where]
      BY <2>1 DEF Ask, GoTo, Taken
    <3>2. UNCHANGED <<at, job, cancelled>> /\ vpc[v] = "run"
      BY <2>1 DEF Ask, poolVars
    <3> QED
      BY <3>1, <3>2 DEF Types
  <2>2. CASE CloseFile(v)
    BY <2>2 DEF CloseFile, Taken, GoTo, poolVars, budgetVars, portalVars, wakeVars,
      Types, Flags, HostTypeOK
  <2>3. CASE ReserveSlot(v)
    <3>1. PICK where \in {"bytes", "stop"} : vpc' = [vpc EXCEPT ![v] = where]
      BY <2>3 DEF ReserveSlot, GoTo
    <3>2. UNCHANGED <<at, job, cancelled>> /\ vpc[v] = "reserve"
      BY <2>3 DEF ReserveSlot, poolVars, portalVars
    <3> QED
      BY <3>1, <3>2 DEF Types
  <2>4. CASE ReserveBytes(v)
    <3>1. PICK where \in {"submit", "rollback"} : vpc' = [vpc EXCEPT ![v] = where]
      BY <2>4 DEF ReserveBytes, GoTo
    <3>2. UNCHANGED <<at, job, cancelled>> /\ vpc[v] = "bytes"
      BY <2>4 DEF ReserveBytes, poolVars, portalVars
    <3> QED
      BY <3>1, <3>2 DEF Types
  <2>5. CASE Rollback(v)
    BY <2>5 DEF Rollback, GoTo, poolVars, portalVars, fileVars, wakeVars, Types,
      Flags, HostTypeOK
  <2>6. CASE SubmitFails(v)
    BY <2>6 DEF SubmitFails, DropBytes, GoTo, poolVars, fileVars, wakeVars, Types,
      Flags, HostTypeOK
  <2>7. CASE Submit(v)
    <3>1. \A w \in Worker : at'[w] = at[w] \/ (at[w] \in Idle /\ at'[w] = "check")
      BY <2>7, SubmitWakes DEF Types, HostTypeOK, Places
    <3>2. UNCHANGED <<job, cancelled>> /\ vpc' = [vpc EXCEPT ![v] = "run"] /\ vpc[v] = "submit"
      BY <2>7 DEF Submit, GoTo
    <3> QED
      BY <3>1, <3>2 DEF Types
  <2>8. CASE EnterWait(v)
    BY <2>8 DEF EnterWait, GoTo, vmUnchanged, poolVars, budgetVars, fileVars,
      wakeVars, Types, Flags, HostTypeOK
  <2>9. CASE EnterTurn(v)
    BY <2>9 DEF EnterTurn, GoTo, vmUnchanged, poolVars, budgetVars, fileVars,
      wakeVars, Types, Flags, HostTypeOK
  <2>10. CASE Install(v)
    BY <2>10 DEF Install, GoTo, AfterStage, vmUnchanged, poolVars, budgetVars,
      fileVars, Types, Flags, HostTypeOK
  <2>11. CASE Drain(v)
    BY <2>11 DEF Drain, GoTo, AfterStage, vmUnchanged, poolVars, budgetVars, fileVars,
      Types, Flags, HostTypeOK
  <2>12. CASE Collect(v)
    <3>1. PICK where \in {"stop", "collected"} : vpc' = [vpc EXCEPT ![v] = where]
      BY <2>12, CollectEffect
    <3>2. UNCHANGED <<at, job, cancelled>> /\ vpc[v] \in {"collect", "collected"}
      BY <2>12 DEF Collect, vmUnchanged, poolVars
    <3> QED
      BY <3>1, <3>2 DEF Types
  <2>13. CASE CollectNone(v)
    BY <2>13 DEF CollectNone, GoTo, AfterStage, vmUnchanged, poolVars, budgetVars,
      fileVars, wakeVars, Types, Flags, HostTypeOK
  <2>14. CASE PollReturns(v)
    BY <2>14 DEF PollReturns, GoTo, vmUnchanged, poolVars, budgetVars, fileVars,
      wakeVars, Types, Flags, HostTypeOK
  <2>15. CASE Exit(v)
    BY <2>15 DEF Exit, GoTo, vmUnchanged, poolVars, budgetVars, fileVars, wakeVars,
      Types, Flags, HostTypeOK
  <2>16. CASE RaiseFlag(v)
    <3>1. PICK where \in {"cancel", "receiver"} : vpc' = [vpc EXCEPT ![v] = where]
      BY <2>16 DEF RaiseFlag, GoTo
    <3>2. UNCHANGED <<at, job>> /\ vpc[v] = "stop" /\ cancelled' = [cancelled EXCEPT ![v] = opened[v]]
      BY <2>16 DEF RaiseFlag, poolVars
    <3>3. ASSUME NEW u \in VM, cancelled'[u] PROVE vpc'[u] \in {"cancel", "receiver", "gone"}
      BY <3>1, <3>2, <3>3 DEF Types, Flags
    <3>4. ASSUME NEW w \in Worker, at[w] \in {"finish", "discard"}, job[w] # NoJob
          PROVE  cancelled'[job[w].vm]
      <4>1. job[w] \in Job
        BY <3>4 DEF Types, HostTypeOK
      <4>2. job[w].vm \in VM /\ cancelled[job[w].vm]
        BY <3>4, <4>1, JobFields
      <4>3. CASE job[w].vm # v
        BY <3>2, <4>2, <4>3 DEF Flags
      <4>4. CASE job[w].vm = v
        BY <3>2, <4>2, <4>4
      <4> QED
        BY <4>3, <4>4
    <3> QED
      BY <3>2, <3>3, <3>4
  <2>17. CASE CancelQueue(v)
    BY <2>17 DEF CancelQueue, DropBytes, GoTo, portalVars, fileVars, wakeVars, Types,
      Flags, HostTypeOK
  <2>18. CASE DropReceiver(v)
    BY <2>18 DEF DropReceiver, DropBytes, GoTo, vmUnchanged, poolVars, wakeVars,
      Types, Flags, HostTypeOK
  <2> QED
    BY <1>2, <2>1, <2>2, <2>3, <2>4, <2>5, <2>6, <2>7, <2>8, <2>9, <2>10, <2>11,
      <2>12, <2>13, <2>14, <2>15, <2>16, <2>17, <2>18 DEF VMStep
<1>3. ASSUME NEW w \in Worker, WorkerStep(w) PROVE FlagHonest'
  <2>1. CASE Take(w)
    BY ZenonT(60), <2>1 DEF Take, Step, workerUnchanged, budgetVars, fileVars, Types, Flags,
      HostTypeOK
  <2>2. CASE Start(w)
    BY <2>2 DEF Start, Step, workerUnchanged, budgetVars, fileVars, Types, Flags,
      HostTypeOK
  <2>3. CASE Check(w)
    BY <2>3 DEF Check, Step, workerUnchanged, budgetVars, fileVars, Types, Flags,
      HostTypeOK
  <2>4. CASE SendReply(w)
    BY ZenonT(60), <2>4 DEF SendReply, DropBytes, Step, workerUnchanged, budgetVars, fileVars,
      Types, Flags, HostTypeOK
  <2>5. CASE Notify(w)
    BY <2>5 DEF Notify, Step, workerUnchanged, budgetVars, fileVars, Types, Flags,
      HostTypeOK
  <2>6. CASE FinishJob(w)
    BY <2>6 DEF FinishJob, Step, workerUnchanged, budgetVars, fileVars, Types, Flags,
      HostTypeOK
  <2>7. CASE Discard(w)
    BY <2>7 DEF Discard, DropBytes, Step, workerUnchanged, fileVars, Types, Flags,
      HostTypeOK
  <2>8. CASE Return(w)
    BY <2>8 DEF Return, Step, workerUnchanged, budgetVars, fileVars, Types, Flags,
      HostTypeOK
  <2>9. CASE Spurious(w)
    BY <2>9 DEF Spurious, Step, workerUnchanged, budgetVars, fileVars, Types, Flags,
      HostTypeOK
  <2> QED
    BY <1>3, <2>1, <2>2, <2>3, <2>4, <2>5, <2>6, <2>7, <2>8, <2>9 DEF WorkerStep, WorkerMoves
<1>4. CASE DropSlot
  BY <1>4 DEF DropSlot, poolVars, portalVars, fileVars, wakeVars, Types, Flags,
      HostTypeOK
<1> QED
  BY <1>1, <1>2, <1>3, <1>4 DEF Next, Quiet


LEMMA WakeStep ==
    ASSUME Types, Flags, WaitReady, NoLostWake, [Next]_vars
    PROVE  NoLostWake'
<1> USE DEF NoLostWake
<1>1. CASE UNCHANGED vars
  BY <1>1, Zenon DEF vars, poolVars, budgetVars, portalVars, fileVars, wakeVars
<1>2. ASSUME NEW v \in VM, VMStep(v) PROVE NoLostWake'
  <2>1. CASE Ask(v)
    <3>1. PICK where \in {"stop", "reserve"} : vpc' = [vpc EXCEPT ![v] = where]
      BY <2>1 DEF Ask, GoTo, Taken
    <3>2. UNCHANGED <<at, job, replies, wake>> /\ vpc[v] = "run"
      BY <2>1 DEF Ask, poolVars, wakeVars
    <3> QED
      BY <3>1, <3>2 DEF Types
  <2>2. CASE CloseFile(v)
    BY <2>2 DEF CloseFile, Taken, GoTo, poolVars, budgetVars, portalVars, wakeVars,
      Types, Flags, WaitReady, Waiting, HostTypeOK
  <2>3. CASE ReserveSlot(v)
    <3>1. PICK where \in {"bytes", "stop"} : vpc' = [vpc EXCEPT ![v] = where]
      BY <2>3 DEF ReserveSlot, GoTo
    <3>2. UNCHANGED <<at, job, replies, wake>> /\ vpc[v] = "reserve"
      BY <2>3 DEF ReserveSlot, poolVars, portalVars, wakeVars
    <3> QED
      BY <3>1, <3>2 DEF Types
  <2>4. CASE ReserveBytes(v)
    <3>1. PICK where \in {"submit", "rollback"} : vpc' = [vpc EXCEPT ![v] = where]
      BY <2>4 DEF ReserveBytes, GoTo
    <3>2. UNCHANGED <<at, job, replies, wake>> /\ vpc[v] = "bytes"
      BY <2>4 DEF ReserveBytes, poolVars, portalVars, wakeVars
    <3> QED
      BY <3>1, <3>2 DEF Types
  <2>5. CASE Rollback(v)
    BY <2>5 DEF Rollback, GoTo, poolVars, portalVars, fileVars, wakeVars, Types,
      Flags, WaitReady, Waiting, HostTypeOK
  <2>6. CASE SubmitFails(v)
    BY <2>6 DEF SubmitFails, DropBytes, GoTo, poolVars, fileVars, wakeVars, Types,
      Flags, WaitReady, Waiting, HostTypeOK
  <2>7. CASE Submit(v)
    <3>1. \A w \in Worker : at'[w] = at[w] \/ (at[w] \in Idle /\ at'[w] = "check")
      BY <2>7, SubmitWakes DEF Types, HostTypeOK, Places
    <3>2. UNCHANGED <<job, replies, wake>> /\ vpc' = [vpc EXCEPT ![v] = "run"] /\ vpc[v] = "submit"
      BY <2>7 DEF Submit, GoTo, wakeVars
    <3>3. ASSUME NEW u \in VM, vpc'[u] = "block", replies'[u] # <<>>
          PROVE  wake'[u] \/ \E w \in Worker : at'[w] = "notify" /\ job'[w].vm = u
      <4>1. vpc[u] = "block" /\ replies[u] # <<>>
        BY <3>2, <3>3 DEF Types
      <4>2. CASE wake[u]
        BY <3>2, <4>2
      <4>3. ASSUME NEW w \in Worker, at[w] = "notify", job[w].vm = u
            PROVE  at'[w] = "notify" /\ job'[w].vm = u
        BY <3>1, <3>2, <4>3 DEF Idle
      <4> QED
        BY <4>1, <4>2, <4>3
    <3> QED
      BY <3>3
  <2>8. CASE EnterWait(v)
    BY <2>8 DEF EnterWait, GoTo, vmUnchanged, poolVars, budgetVars, fileVars,
      wakeVars, Types, Flags, WaitReady, Waiting, HostTypeOK
  <2>9. CASE EnterTurn(v)
    BY <2>9 DEF EnterTurn, GoTo, vmUnchanged, poolVars, budgetVars, fileVars,
      wakeVars, Types, Flags, WaitReady, Waiting, HostTypeOK
  <2>10. CASE Install(v)
    BY <2>10 DEF Install, GoTo, AfterStage, vmUnchanged, poolVars, budgetVars,
      fileVars, Types, Flags, WaitReady, Waiting, HostTypeOK
  <2>11. CASE Drain(v)
    BY <2>11 DEF Drain, GoTo, AfterStage, vmUnchanged, poolVars, budgetVars, fileVars,
      Types, Flags, WaitReady, Waiting, HostTypeOK
  <2>12. CASE Collect(v)
    <3>1. PICK where \in {"stop", "collected"} :
              /\ vpc' = [vpc EXCEPT ![v] = where] /\ replies' = [replies EXCEPT ![v] = Tail(@)]
      BY <2>12, CollectEffect
    <3>2. UNCHANGED <<at, job, wake>>
      BY <2>12 DEF Collect, vmUnchanged, poolVars, wakeVars
    <3> QED
      BY <3>1, <3>2 DEF Types
  <2>13. CASE CollectNone(v)
    <3>1. PICK where \in {"run", "block"} : vpc' = [vpc EXCEPT ![v] = where]
      BY <2>13 DEF CollectNone, GoTo, AfterStage
    <3>2. UNCHANGED <<at, job, replies, wake>> /\ replies[v] = <<>>
      BY <2>13 DEF CollectNone, vmUnchanged, poolVars, wakeVars
    <3> QED
      BY <3>1, <3>2 DEF Types
  <2>14. CASE PollReturns(v)
    BY <2>14 DEF PollReturns, GoTo, vmUnchanged, poolVars, budgetVars, fileVars,
      wakeVars, Types, Flags, WaitReady, Waiting, HostTypeOK
  <2>15. CASE Exit(v)
    BY <2>15 DEF Exit, GoTo, vmUnchanged, poolVars, budgetVars, fileVars, wakeVars,
      Types, Flags, WaitReady, Waiting, HostTypeOK
  <2>16. CASE RaiseFlag(v)
    BY <2>16 DEF RaiseFlag, GoTo, poolVars, budgetVars, fileVars, wakeVars, Types,
      Flags, WaitReady, Waiting, HostTypeOK
  <2>17. CASE CancelQueue(v)
    BY <2>17 DEF CancelQueue, DropBytes, GoTo, portalVars, fileVars, wakeVars, Types,
      Flags, WaitReady, Waiting, HostTypeOK
  <2>18. CASE DropReceiver(v)
    BY <2>18 DEF DropReceiver, DropBytes, GoTo, vmUnchanged, poolVars, wakeVars,
      Types, Flags, WaitReady, Waiting, HostTypeOK
  <2> QED
    BY <1>2, <2>1, <2>2, <2>3, <2>4, <2>5, <2>6, <2>7, <2>8, <2>9, <2>10, <2>11,
      <2>12, <2>13, <2>14, <2>15, <2>16, <2>17, <2>18 DEF VMStep
<1>3. ASSUME NEW w \in Worker, WorkerStep(w) PROVE NoLostWake'
  <2>1. CASE Take(w)
    <3>1. \A u \in Worker : at[u] = "notify" => at'[u] = "notify" /\ job'[u] = job[u]
      BY <2>1 DEF Take, Step, Types, HostTypeOK
    <3>2. UNCHANGED <<vpc, replies, wake>>
      BY <2>1 DEF Take, workerUnchanged
    <3> QED
      BY <3>1, <3>2
  <2>2. CASE Start(w)
    BY <2>2 DEF Start, Step, workerUnchanged, budgetVars, fileVars, Types, Flags,
      WaitReady, Waiting, HostTypeOK
  <2>3. CASE Check(w)
    BY <2>3 DEF Check, Step, workerUnchanged, budgetVars, fileVars, Types, Flags,
      WaitReady, Waiting, HostTypeOK
  <2>4. CASE SendReply(w)
    <3>1. at[w] = "send" /\ UNCHANGED <<vpc, wake>>
      BY <2>4 DEF SendReply, workerUnchanged
    <3>2. \A u \in Worker : at[u] = "notify" => at'[u] = "notify" /\ job'[u] = job[u]
      BY <2>4, <3>1 DEF SendReply, Step, Types, HostTypeOK
    <3>3. CASE vpc[job[w].vm] = "gone"
      BY <2>4, <3>1, <3>2, <3>3 DEF SendReply
    <3>4. CASE vpc[job[w].vm] # "gone"
      <4>1. at'[w] = "notify" /\ job'[w] = job[w]
        BY <2>4, <3>4 DEF SendReply, Step, Types, HostTypeOK
      <4>2. \A u \in VM : u # job[w].vm => replies'[u] = replies[u]
        BY <2>4, <3>4 DEF SendReply, Types
      <4> QED
        BY <3>1, <3>2, <4>1, <4>2
    <3> QED
      BY <3>3, <3>4
  <2>5. CASE Notify(w)
    BY <2>5 DEF Notify, Step, workerUnchanged, budgetVars, fileVars, Types, Flags,
      WaitReady, Waiting, HostTypeOK
  <2>6. CASE FinishJob(w)
    BY <2>6 DEF FinishJob, Step, workerUnchanged, budgetVars, fileVars, Types, Flags,
      WaitReady, Waiting, HostTypeOK
  <2>7. CASE Discard(w)
    BY <2>7 DEF Discard, DropBytes, Step, workerUnchanged, fileVars, Types, Flags,
      WaitReady, Waiting, HostTypeOK
  <2>8. CASE Return(w)
    BY <2>8 DEF Return, Step, workerUnchanged, budgetVars, fileVars, Types, Flags,
      WaitReady, Waiting, HostTypeOK
  <2>9. CASE Spurious(w)
    BY <2>9 DEF Spurious, Step, workerUnchanged, budgetVars, fileVars, Types, Flags,
      WaitReady, Waiting, HostTypeOK
  <2> QED
    BY <1>3, <2>1, <2>2, <2>3, <2>4, <2>5, <2>6, <2>7, <2>8, <2>9 DEF WorkerStep, WorkerMoves
<1>4. CASE DropSlot
  BY <1>4 DEF DropSlot, poolVars, portalVars, fileVars, wakeVars, Types, Flags,
      WaitReady, Waiting, HostTypeOK
<1> QED
  BY <1>1, <1>2, <1>3, <1>4 DEF Next, Quiet

-----------------------------------------------------------------------------
(***************************************************************************)
(* Most steps leave the jobs in flight alone; the others move one job, or  *)
(* take those of one VM away.                                              *)
(***************************************************************************)
Kept ==
    /\ queue' = queue /\ replies' = replies
    /\ Holding' = Holding /\ \A u \in Holding : job'[u] = job[u]

LEMMA VMKept ==
    ASSUME Types, NEW v \in VM, VMStep(v), ~Submit(v), ~Collect(v), ~CancelQueue(v), ~DropReceiver(v)
    PROVE  Kept
<1>1. CASE Ask(v)
  BY <1>1 DEF Ask, poolVars, Kept, Holding
<1>2. CASE CloseFile(v)
  BY <1>2 DEF CloseFile, poolVars, portalVars, Kept, Holding
<1>3. CASE ReserveSlot(v)
  BY <1>3 DEF ReserveSlot, poolVars, portalVars, Kept, Holding
<1>4. CASE ReserveBytes(v)
  BY <1>4 DEF ReserveBytes, poolVars, portalVars, Kept, Holding
<1>5. CASE Rollback(v)
  BY <1>5 DEF Rollback, poolVars, portalVars, Kept, Holding
<1>6. CASE SubmitFails(v)
  BY <1>6 DEF SubmitFails, poolVars, Kept, Holding
<1>7. CASE EnterWait(v)
  BY <1>7 DEF EnterWait, vmUnchanged, poolVars, Kept, Holding
<1>8. CASE EnterTurn(v)
  BY <1>8 DEF EnterTurn, vmUnchanged, poolVars, Kept, Holding
<1>9. CASE Install(v)
  BY <1>9 DEF Install, vmUnchanged, poolVars, Kept, Holding
<1>10. CASE Drain(v)
  BY <1>10 DEF Drain, vmUnchanged, poolVars, Kept, Holding
<1>11. CASE CollectNone(v)
  BY <1>11 DEF CollectNone, vmUnchanged, poolVars, Kept, Holding
<1>12. CASE PollReturns(v)
  BY <1>12 DEF PollReturns, vmUnchanged, poolVars, Kept, Holding
<1>13. CASE Exit(v)
  BY <1>13 DEF Exit, vmUnchanged, poolVars, Kept, Holding
<1>14. CASE RaiseFlag(v)
  BY <1>14 DEF RaiseFlag, poolVars, Kept, Holding
<1> QED
  BY <1>1, <1>2, <1>3, <1>4, <1>5, <1>6, <1>7, <1>8, <1>9, <1>10, <1>11, <1>12, <1>13,
      <1>14 DEF VMStep


LEMMA WorkerKept ==
    ASSUME Types, NEW w \in Worker, WorkerStep(w), ~(Take(w) /\ queue # <<>>), ~SendReply(w), ~Discard(w)
    PROVE  Kept
<1> USE DEF Kept, Holding, Step, workerUnchanged, Types, HostTypeOK
<1>1. CASE Take(w)
  BY <1>1 DEF Take, Idle
<1>2. CASE Start(w)
  BY <1>2 DEF Start
<1>3. CASE Check(w)
  BY <1>3 DEF Check
<1>4. CASE Notify(w)
  BY <1>4 DEF Notify
<1>5. CASE FinishJob(w)
  BY <1>5 DEF FinishJob
<1>6. CASE Return(w)
  BY <1>6 DEF Return
<1>7. CASE Spurious(w)
  BY <1>7 DEF Spurious
<1> QED
  BY <1>1, <1>2, <1>3, <1>4, <1>5, <1>6, <1>7 DEF WorkerStep, WorkerMoves

\* What the moves of one job do to the queue, the workers and the replies.
LEMMA SubmitMove ==
    ASSUME Types, NEW v \in VM, Submit(v)
    PROVE  /\ replies' = replies /\ Holding' = Holding /\ \A u \in Holding : job'[u] = job[u]
           /\ request[v] \in Job /\ request[v].vm = v
           /\ queue' = Append(queue, request[v])
           /\ DOMAIN queue' = DOMAIN queue \cup {Len(queue) + 1}
           /\ Len(queue) + 1 \notin DOMAIN queue
           /\ \A k \in DOMAIN queue : queue'[k] = queue[k]
           /\ queue'[Len(queue) + 1] = request[v]
<1>1. \A w \in Worker : at'[w] = at[w] \/ (at[w] \in Idle /\ at'[w] = "check")
  BY SubmitWakes DEF Types, HostTypeOK, Places
<1>2. job' = job /\ replies' = replies /\ queue' = Append(queue, request[v]) /\ vpc[v] = "submit"
  BY DEF Submit
<1>3. Holding' = Holding
  BY <1>1, <1>2 DEF Holding, Idle, Types
<1>4. request[v] \in Job /\ request[v].vm = v /\ queue \in Seq(Job)
  BY <1>2 DEF Types, HostTypeOK, Submission
<1> QED
  BY <1>2, <1>3, <1>4

LEMMA TakeMove ==
    ASSUME Types, NEW w \in Worker, Take(w), queue # <<>>
    PROVE  /\ replies' = replies /\ Holding' = Holding \cup {w} /\ w \notin Holding
           /\ \A u \in Holding : job'[u] = job[u]
           /\ job'[w] = queue[1] /\ 1 \in DOMAIN queue
           /\ queue' = Tail(queue)
           /\ DOMAIN queue' = 1 .. Len(queue) - 1
           /\ \A k \in DOMAIN queue' : k + 1 \in DOMAIN queue /\ queue'[k] = queue[k + 1]
           /\ \A k \in DOMAIN queue : k # 1 => k - 1 \in DOMAIN queue' /\ queue'[k - 1] = queue[k]
<1>1. /\ at[w] = "check" /\ job' = [job EXCEPT ![w] = Head(queue)] /\ queue' = Tail(queue)
      /\ at' = [at EXCEPT ![w] = "taken"] /\ replies' = replies
  BY DEF Take, Step
<1>2. queue \in Seq(Job) /\ job[w] = NoJob
  BY <1>1 DEF Types, HostTypeOK, Idle
<1>3. Head(queue) \in Job
  BY <1>2
<1>4. Head(queue) # NoJob
  BY <1>3, JobFields
<1>5. Holding' = Holding \cup {w} /\ w \notin Holding /\ \A u \in Holding : job'[u] = job[u]
  BY <1>1, <1>2, <1>4 DEF Holding, Types, HostTypeOK
<1>6. job'[w] = queue[1] /\ 1 \in DOMAIN queue
  BY <1>1, <1>2 DEF Types, HostTypeOK
<1>7. /\ DOMAIN queue' = 1 .. Len(queue) - 1
      /\ \A k \in DOMAIN queue' : k + 1 \in DOMAIN queue /\ queue'[k] = queue[k + 1]
  BY <1>1, <1>2
<1>8. \A k \in DOMAIN queue : k # 1 => k - 1 \in DOMAIN queue' /\ queue'[k - 1] = queue[k]
  BY <1>2, <1>7
<1> QED
  BY <1>1, <1>5, <1>6, <1>7, <1>8

LEMMA AnswerMove ==
    ASSUME Types, NEW w \in Worker, SendReply(w), vpc[job[w].vm] # "gone"
    PROVE  /\ queue' = queue /\ Holding' = Holding \ {w} /\ w \in Holding
           /\ \A u \in Holding : job'[u] = job[u]
           /\ job[w] \in Job /\ job[w].vm \in VM
           /\ \A u \in VM : u # job[w].vm => replies'[u] = replies[u]
           /\ LET s == replies[job[w].vm]
                  t == replies'[job[w].vm]
              IN  /\ DOMAIN t = DOMAIN s \cup {Len(s) + 1} /\ Len(s) + 1 \notin DOMAIN s
                  /\ \A k \in DOMAIN s : t[k] = s[k]
                  /\ t[Len(s) + 1].id = job[w].id /\ t[Len(s) + 1].bytes = job[w].bytes
<1>1. /\ at[w] = "send" /\ at' = [at EXCEPT ![w] = "notify"] /\ queue' = queue /\ job' = job
      /\ job[w] \in Job
  BY DEF SendReply, Step, Types, HostTypeOK
<1>2. PICK kind \in Outcomes(job[w].handle) :
          replies' = [replies EXCEPT ![job[w].vm] =
             Append(@, [id |-> job[w].id, bytes |-> job[w].bytes, kind |-> kind])]
  BY DEF SendReply
<1>3. PICK r \in Reply : r = [id |-> job[w].id, bytes |-> job[w].bytes, kind |-> kind]
  BY <1>1 DEF Outcomes, Job, Reply
<1>4. job[w].vm \in VM /\ job[w] # NoJob
  BY <1>1, JobFields
<1>5. Holding' = Holding \ {w} /\ w \in Holding
  BY <1>1, <1>4 DEF Holding, Types, HostTypeOK
<1>6. r.id = job[w].id /\ r.bytes = job[w].bytes
  BY <1>3
<1>7. replies' = [replies EXCEPT ![job[w].vm] = Append(@, r)]
  BY <1>2, <1>3
<1>8. replies \in [VM -> Seq(Reply)]
  BY DEF Types
<1> HIDE <1>2, <1>3
<1> QED
  BY SMTT(30), <1>1, <1>4, <1>5, <1>6, <1>7, <1>8

LEMMA LostMove ==
    ASSUME Types, NEW w \in Worker,
           (SendReply(w) /\ vpc[job[w].vm] = "gone") \/ Discard(w)
    PROVE  /\ queue' = queue /\ replies' = replies /\ Holding' = Holding \ {w} /\ w \in Holding
           /\ \A u \in Holding \ {w} : job'[u] = job[u]
           /\ job[w] \in Job /\ job[w].vm \in VM
           /\ at[w] = "discard" \/ vpc[job[w].vm] = "gone"
<1>1. /\ at[w] \in {"send", "discard"} /\ queue' = queue /\ replies' = replies
      /\ job' = [job EXCEPT ![w] = NoJob]
      /\ \E where \in {"finish", "check"} : at' = [at EXCEPT ![w] = where]
      /\ at[w] = "discard" \/ vpc[job[w].vm] = "gone"
  BY DEF SendReply, Discard, Step
<1>2. job[w] \in Job
  BY <1>1 DEF Types, HostTypeOK
<1>3. job[w].vm \in VM /\ job[w] # NoJob
  BY <1>2, JobFields
<1> QED
  BY <1>1, <1>2, <1>3 DEF Holding, Types, HostTypeOK

LEMMA CollectMove ==
    ASSUME Types, NEW v \in VM, Collect(v)
    PROVE  /\ queue' = queue /\ Holding' = Holding /\ \A u \in Holding : job'[u] = job[u]
           /\ \A u \in VM : u # v => replies'[u] = replies[u]
           /\ LET s == replies[v]
                  t == replies'[v]
              IN  /\ 1 \in DOMAIN s /\ s[1] \in Reply
                  /\ \A k \in DOMAIN t : k + 1 \in DOMAIN s /\ t[k] = s[k + 1]
                  /\ \A k \in DOMAIN s : k # 1 => k - 1 \in DOMAIN t /\ t[k - 1] = s[k]
<1>1. PICK reply : /\ replies[v] # <<>> /\ reply = Head(replies[v]) /\ reply \in Reply
                   /\ replies' = [replies EXCEPT ![v] = Tail(@)]
  BY CollectEffect
<1>2. replies \in [VM -> Seq(Reply)]
  BY DEF Types
<1>3. queue' = queue /\ Holding' = Holding /\ \A u \in Holding : job'[u] = job[u]
  BY DEF Collect, vmUnchanged, poolVars, Holding
<1>4. replies'[v] = Tail(replies[v]) /\ \A u \in VM : u # v => replies'[u] = replies[u]
  BY <1>1, <1>2
<1>5. 1 \in DOMAIN replies[v] /\ replies[v][1] \in Reply
  BY <1>1, <1>2
<1>6. /\ DOMAIN Tail(replies[v]) = 1 .. Len(replies[v]) - 1
      /\ \A k \in 1 .. Len(replies[v]) - 1 : Tail(replies[v])[k] = replies[v][k + 1]
  BY <1>1, <1>2
<1>7. \A k \in DOMAIN replies'[v] : k + 1 \in DOMAIN replies[v] /\ replies'[v][k] = replies[v][k + 1]
  BY <1>2, <1>4, <1>6
<1>8. \A k \in DOMAIN replies[v] : k # 1 =>
          k - 1 \in DOMAIN replies'[v] /\ replies'[v][k - 1] = replies[v][k]
  BY <1>2, <1>4, <1>6
<1> QED
  BY <1>3, <1>4, <1>5, <1>7, <1>8

\* The positions of the queue a cancellation keeps.
Others(v) == {k \in DOMAIN queue : queue[k].vm # v}

LEMMA CancelMove ==
    ASSUME Types, NEW v \in VM, CancelQueue(v)
    PROVE  /\ replies' = replies /\ Holding' = Holding /\ \A u \in Holding : job'[u] = job[u]
           /\ Len(queue') = Cardinality(Others(v)) /\ Len(queue') <= Len(queue)
           /\ \E g \in [DOMAIN queue' -> Others(v)] :
                 /\ \A i, j \in DOMAIN queue' : g[i] = g[j] => i = j
                 /\ \A k \in Others(v) : \E i \in DOMAIN queue' : g[i] = k
                 /\ \A i \in DOMAIN queue' : queue'[i] = queue[g[i]]
<1>1. queue' = Subsequence(queue, Others(v))
  <2>1. PICK removed :
            /\ removed = {k \in DOMAIN queue : Owned(v, queue[k])}
            /\ queue' = Subsequence(queue, DOMAIN queue \ removed)
    BY Zenon DEF CancelQueue
  <2>2. DOMAIN queue \ removed = Others(v)
    BY <2>1 DEF Owned, Others
  <2> QED
    BY <2>1, <2>2
<1>2. queue \in Seq(Job) /\ Others(v) \in SUBSET DOMAIN queue
  BY DEF Types, HostTypeOK, Others
<1> DEFINE n == Cardinality(Others(v))
           g == Ascending(Others(v))
<1>3. /\ n \in Nat /\ Len(queue') = n /\ DOMAIN queue' = 1 .. n
      /\ g \in [1 .. n -> Others(v)] /\ Increasing(g)
      /\ \A x \in Others(v) : \E i \in 1 .. n : g[i] = x
      /\ \A i \in 1 .. n : queue'[i] = queue[g[i]]
  BY <1>1, <1>2, SubsequenceRight
<1>4. n <= Len(queue)
  <2>1. PICK m \in Nat : m = Len(queue) /\ DOMAIN queue = 1 .. m
    BY <1>2
  <2>2. IsFiniteSet(1 .. m) /\ Cardinality(1 .. m) = m
    BY FS_Interval
  <2> QED
    BY <1>2, <2>1, <2>2, FS_Subset
<1>5. \A i, j \in 1 .. n : g[i] = g[j] => i = j
  <2> SUFFICES ASSUME NEW i \in 1 .. n, NEW j \in 1 .. n, i < j PROVE g[i] # g[j]
    BY <1>3
  <2>1. g[i] < g[j] /\ g[i] \in Others(v)
    BY <1>3 DEF Increasing
  <2>2. g[i] \in Int
    BY <1>2, <2>1
  <2> QED
    BY <2>1, <2>2
<1>6. replies' = replies /\ Holding' = Holding /\ \A u \in Holding : job'[u] = job[u]
  BY DEF CancelQueue, portalVars, Holding
<1> HIDE DEF n, g
<1> QED
  BY <1>3, <1>4, <1>5, <1>6 DEF n

LEMMA DropMove ==
    ASSUME Types, NEW v \in VM, DropReceiver(v)
    PROVE  /\ queue' = queue /\ Holding' = Holding /\ \A u \in Holding : job'[u] = job[u]
           /\ \A u \in VM : u # v => replies'[u] = replies[u]
           /\ replies'[v] = <<>>
  BY DEF DropReceiver, vmUnchanged, poolVars, Holding, Types

LEMMA Moves ==
    ASSUME Types, [Next]_vars
    PROVE  \/ Kept
           \/ \E v \in VM : Submit(v) \/ Collect(v) \/ CancelQueue(v) \/ DropReceiver(v)
           \/ \E w \in Worker : (Take(w) /\ queue # <<>>) \/ SendReply(w) \/ Discard(w)
<1>1. CASE UNCHANGED vars
  BY <1>1 DEF vars, poolVars, portalVars, Kept, Holding
<1>2. CASE DropSlot
  BY <1>2 DEF DropSlot, poolVars, portalVars, Kept, Holding
<1> QED
  BY <1>1, <1>2, VMKept, WorkerKept DEF Next, Quiet


LEMMA FlightFields ==
    ASSUME Types
    PROVE  /\ \A k \in DOMAIN queue : /\ queue[k] \in Job /\ queue[k].vm \in VM
                                      /\ queue[k].id \in Nat /\ queue[k].bytes \in Nat
           /\ \A w \in Holding : /\ job[w] \in Job /\ job[w].vm \in VM
                                 /\ job[w].id \in Nat /\ job[w].bytes \in Nat
           /\ \A v \in VM : \A k \in DOMAIN replies[v] :
                 replies[v][k] \in Reply /\ replies[v][k].id \in Nat /\ replies[v][k].bytes \in Nat
<1>1. \A k \in DOMAIN queue : queue[k] \in Job
  BY DEF Types, HostTypeOK
<1>2. \A w \in Holding : job[w] \in Job
  BY DEF Types, HostTypeOK, Holding
<1>3. \A v \in VM : \A k \in DOMAIN replies[v] : replies[v][k] \in Reply
  BY DEF Types
<1> QED
  BY <1>1, <1>2, <1>3, JobFields, ReplyFields


\* The identities given out never shrink, and a job being submitted has the newest.
Numbered ==
    /\ \A v \in VM : Given[v] \in Int /\ Given'[v] \in Int /\ Given[v] <= Given'[v]
    /\ \A v \in VM : vpc'[v] \in Submission => request'[v].id = nextJob'[v] - 1

LEMMA NumberedStep ==
    ASSUME Types, Fresh, [Next]_vars
    PROVE  Numbered
<1> USE DEF Numbered, Given, Submission, Types, Fresh
<1>1. CASE UNCHANGED vars
  BY <1>1 DEF vars, portalVars
<1>2. ASSUME NEW v \in VM, VMStep(v) PROVE Numbered
  <2>1. CASE Ask(v)
    <3>0. PICK handle, new : AskDone(v, handle, new)
      BY <2>1, AskEffect
    <3>1. /\ new.id = nextJob[v]
          /\ \/ nextJob' = nextJob /\ request' = request /\ vpc' = [vpc EXCEPT ![v] = "stop"]
             \/ /\ nextJob' = [nextJob EXCEPT ![v] = nextJob[v] + 1]
                /\ request' = [request EXCEPT ![v] = new]
                /\ vpc' = [vpc EXCEPT ![v] = "reserve"]
      BY <3>0 DEF AskDone
    <3> HIDE <3>0
    <3>2. vpc[v] = "run"
      BY <2>1 DEF Ask
    <3>3. CASE nextJob' = nextJob /\ request' = request /\ vpc' = [vpc EXCEPT ![v] = "stop"]
      BY <3>2, <3>3
    <3>4. CASE /\ nextJob' = [nextJob EXCEPT ![v] = nextJob[v] + 1]
               /\ request' = [request EXCEPT ![v] = new]
               /\ vpc' = [vpc EXCEPT ![v] = "reserve"]
      <4>1. nextJob'[v] = nextJob[v] + 1 /\ request'[v] = new /\ vpc'[v] = "reserve"
        BY <3>4
      <4>2. \A u \in VM : u # v =>
                nextJob'[u] = nextJob[u] /\ request'[u] = request[u] /\ vpc'[u] = vpc[u]
        BY <3>4
      <4>3. ASSUME NEW u \in VM
            PROVE  /\ Given[u] \in Int /\ Given'[u] \in Int /\ Given[u] <= Given'[u]
                   /\ vpc'[u] \in Submission => request'[u].id = nextJob'[u] - 1
        <5>1. CASE u = v
          <6>1. nextJob[v] \in Int /\ new.id = nextJob[v]
            BY <3>1
          <6>2. Given[v] = nextJob[v]
            BY <3>2
          <6>3. Given'[v] = nextJob'[v] - 1
            BY <4>1
          <6> QED
            BY <4>1, <5>1, <6>1, <6>2, <6>3
        <5>2. CASE u # v
          BY <4>2, <5>2
        <5> QED
          BY <5>1, <5>2
      <4> QED
        BY <4>3
    <3> QED
      BY <3>1, <3>3, <3>4
  <2>2. CASE CloseFile(v)
    BY <2>2 DEF CloseFile, Taken, GoTo, poolVars, budgetVars, portalVars, wakeVars
  <2>3. CASE ReserveSlot(v)
    <3>1. PICK where \in {"bytes", "stop"} :
              /\ vpc' = [vpc EXCEPT ![v] = where] /\ nextJob' = nextJob
              /\ where = "bytes" => request' = request
              /\ \A u \in VM : u # v => request'[u] = request[u]
      BY <2>3 DEF ReserveSlot, GoTo, portalVars
    <3>2. vpc[v] = "reserve"
      BY <2>3 DEF ReserveSlot
    <3> QED
      BY SMTT(30), <3>1, <3>2
  <2>4. CASE ReserveBytes(v)
    <3>1. PICK where \in {"submit", "rollback"} :
              /\ vpc' = [vpc EXCEPT ![v] = where] /\ nextJob' = nextJob
              /\ where = "submit" => request' = request
              /\ \A u \in VM : u # v => request'[u] = request[u]
      BY <2>4 DEF ReserveBytes, GoTo, portalVars
    <3>2. vpc[v] = "bytes"
      BY <2>4 DEF ReserveBytes
    <3> QED
      BY <3>1, <3>2
  <2>5. CASE Rollback(v)
    BY <2>5 DEF Rollback, GoTo, poolVars, portalVars, fileVars, wakeVars
  <2>6. CASE SubmitFails(v)
    BY <2>6 DEF SubmitFails, DropBytes, GoTo, poolVars, fileVars, wakeVars
  <2>7. CASE Submit(v)
    BY <2>7 DEF Submit, GoTo, budgetVars, fileVars, wakeVars
  <2>8. CASE EnterWait(v)
    BY <2>8 DEF EnterWait, GoTo, vmUnchanged, poolVars, budgetVars, fileVars, wakeVars
  <2>9. CASE EnterTurn(v)
    BY <2>9 DEF EnterTurn, GoTo, vmUnchanged, poolVars, budgetVars, fileVars, wakeVars
  <2>10. CASE Install(v)
    BY <2>10 DEF Install, GoTo, AfterStage, vmUnchanged, poolVars, budgetVars,
      fileVars
  <2>11. CASE Drain(v)
    BY <2>11 DEF Drain, GoTo, AfterStage, vmUnchanged, poolVars, budgetVars, fileVars
  <2>12. CASE Collect(v)
    <3>1. PICK where \in {"stop", "collected"} : vpc' = [vpc EXCEPT ![v] = where]
      BY <2>12, CollectEffect
    <3>2. UNCHANGED <<request, nextJob>> /\ vpc[v] \in {"collect", "collected"}
      BY <2>12 DEF Collect, vmUnchanged
    <3> QED
      BY <3>1, <3>2
  <2>13. CASE CollectNone(v)
    BY SMTT(30), <2>13 DEF CollectNone, GoTo, AfterStage, vmUnchanged, poolVars, budgetVars,
      fileVars, wakeVars
  <2>14. CASE PollReturns(v)
    BY <2>14 DEF PollReturns, GoTo, vmUnchanged, poolVars, budgetVars, fileVars,
      wakeVars
  <2>15. CASE Exit(v)
    BY <2>15 DEF Exit, GoTo, vmUnchanged, poolVars, budgetVars, fileVars, wakeVars
  <2>16. CASE RaiseFlag(v)
    BY <2>16 DEF RaiseFlag, GoTo, poolVars, budgetVars, fileVars, wakeVars
  <2>17. CASE CancelQueue(v)
    BY <2>17 DEF CancelQueue, DropBytes, GoTo, portalVars, fileVars, wakeVars
  <2>18. CASE DropReceiver(v)
    BY <2>18 DEF DropReceiver, DropBytes, GoTo, vmUnchanged, poolVars, wakeVars
  <2> QED
    BY <1>2, <2>1, <2>2, <2>3, <2>4, <2>5, <2>6, <2>7, <2>8, <2>9, <2>10, <2>11,
      <2>12, <2>13, <2>14, <2>15, <2>16, <2>17, <2>18 DEF VMStep
<1>3. ASSUME NEW w \in Worker, WorkerStep(w) PROVE Numbered
  <2>1. CASE Take(w)
    BY <2>1 DEF Take, Step, workerUnchanged, budgetVars, fileVars
  <2>2. CASE Start(w)
    BY <2>2 DEF Start, Step, workerUnchanged, budgetVars, fileVars
  <2>3. CASE Check(w)
    BY <2>3 DEF Check, Step, workerUnchanged, budgetVars, fileVars
  <2>4. CASE SendReply(w)
    BY <2>4 DEF SendReply, DropBytes, Step, workerUnchanged, budgetVars, fileVars
  <2>5. CASE Notify(w)
    BY <2>5 DEF Notify, Step, workerUnchanged, budgetVars, fileVars
  <2>6. CASE FinishJob(w)
    BY <2>6 DEF FinishJob, Step, workerUnchanged, budgetVars, fileVars
  <2>7. CASE Discard(w)
    BY <2>7 DEF Discard, DropBytes, Step, workerUnchanged, fileVars
  <2>8. CASE Return(w)
    BY <2>8 DEF Return, Step, workerUnchanged, budgetVars, fileVars
  <2>9. CASE Spurious(w)
    BY <2>9 DEF Spurious, Step, workerUnchanged, budgetVars, fileVars
  <2> QED
    BY <1>3, <2>1, <2>2, <2>3, <2>4, <2>5, <2>6, <2>7, <2>8, <2>9 DEF WorkerStep, WorkerMoves
<1>4. CASE DropSlot
  BY <1>4 DEF DropSlot, poolVars, portalVars, fileVars, wakeVars
<1> QED
  BY <1>1, <1>2, <1>3, <1>4 DEF Next, Quiet


LEMMA FreshStep ==
    ASSUME Types, Fresh, [Next]_vars
    PROVE  Fresh'
<1>1. Numbered
  BY NumberedStep
<1>2. \A v \in VM : Given[v] \in Int /\ Given'[v] \in Int /\ Given[v] <= Given'[v]
  BY <1>1 DEF Numbered
<1>3. \A v \in VM : vpc'[v] \in Submission => request'[v].id = nextJob'[v] - 1
  BY <1>1 DEF Numbered
<1>4. /\ \A k \in DOMAIN queue : queue[k].vm \in VM /\ queue[k].id \in Int
      /\ \A w \in Holding : job[w].vm \in VM /\ job[w].id \in Int
      /\ \A v \in VM : \A k \in DOMAIN replies[v] : replies[v][k].id \in Int
  BY FlightFields
<1>5. /\ \A k \in DOMAIN queue : queue[k].id < Given'[queue[k].vm]
      /\ \A w \in Holding : job[w].id < Given'[job[w].vm]
      /\ \A v \in VM : \A k \in DOMAIN replies[v] : replies[v][k].id < Given'[v]
  <2>1. ASSUME NEW v \in VM, NEW i \in Int, i < Given[v] PROVE i < Given'[v]
    BY <1>2, <2>1
  <2> QED
    BY <1>4, <2>1 DEF Fresh
<1> DEFINE Goal == /\ \A k \in DOMAIN queue' : queue'[k].id < Given'[queue'[k].vm]
                   /\ \A w \in Holding' : job'[w].id < Given'[job'[w].vm]
                   /\ \A v \in VM : \A k \in DOMAIN replies'[v] : replies'[v][k].id < Given'[v]
<1> SUFFICES Goal
  BY <1>3 DEF Fresh
<1>6. CASE Kept
  BY <1>5, <1>6 DEF Kept
<1>7. ASSUME NEW v \in VM, Submit(v) PROVE Goal
  <2>1. request[v].id < Given'[v] /\ request[v].vm = v
    <3>1. /\ vpc[v] = "submit" /\ vpc' = [vpc EXCEPT ![v] = "run"] /\ nextJob' = nextJob
      BY <1>7 DEF Submit, GoTo
    <3> QED
      BY <3>1 DEF Given, Fresh, Submission, Types
  <2> QED
    BY <1>5, <1>7, <2>1, SubmitMove
<1>8. ASSUME NEW w \in Worker, Take(w), queue # <<>> PROVE Goal
  BY <1>5, <1>8, TakeMove
<1>9. ASSUME NEW w \in Worker, SendReply(w), vpc[job[w].vm] # "gone" PROVE Goal
  <2>1. /\ queue' = queue /\ Holding' \subseteq Holding /\ w \in Holding
        /\ \A u \in Holding : job'[u] = job[u]
    BY <1>9, AnswerMove
  <2>2. ASSUME NEW v \in VM, NEW k \in DOMAIN replies'[v]
        PROVE  \/ k \in DOMAIN replies[v] /\ replies'[v][k] = replies[v][k]
               \/ v = job[w].vm /\ replies'[v][k].id = job[w].id
    <3>1. CASE v # job[w].vm
      BY <1>9, <3>1, AnswerMove
    <3>2. CASE v = job[w].vm
      <4>1. /\ DOMAIN replies'[v] = DOMAIN replies[v] \cup {Len(replies[v]) + 1}
            /\ \A i \in DOMAIN replies[v] : replies'[v][i] = replies[v][i]
            /\ replies'[v][Len(replies[v]) + 1].id = job[w].id
        BY <1>9, <3>2, AnswerMove
      <4> QED
        BY <3>2, <4>1
    <3> QED
      BY <3>1, <3>2
  <2>3. ASSUME NEW v \in VM, NEW k \in DOMAIN replies'[v] PROVE replies'[v][k].id < Given'[v]
    BY <1>5, <2>1, <2>2
  <2> QED
    BY <1>5, <2>1, <2>3
<1>10. ASSUME NEW w \in Worker, (SendReply(w) /\ vpc[job[w].vm] = "gone") \/ Discard(w) PROVE Goal
  BY <1>5, <1>10, LostMove
<1>11. ASSUME NEW v \in VM, Collect(v) PROVE Goal
  BY <1>5, <1>11, CollectMove
<1>12. ASSUME NEW v \in VM, CancelQueue(v) PROVE Goal
  <2>1. \A i \in DOMAIN queue' : \E k \in DOMAIN queue : queue'[i] = queue[k]
    BY <1>12, CancelMove DEF Others
  <2> QED
    BY <1>5, <1>12, <2>1, CancelMove
<1>13. ASSUME NEW v \in VM, DropReceiver(v) PROVE Goal
  BY <1>5, <1>13, DropMove
<1> QED
  BY <1>6, <1>7, <1>8, <1>9, <1>10, <1>11, <1>12, <1>13, Moves

\* A job that is being submitted is nowhere else yet.
LEMMA SubmittedNew ==
    ASSUME Types, Fresh, NEW v \in VM, vpc[v] \in Submission
    PROVE  /\ \A k \in DOMAIN queue : queue[k].vm = v => queue[k].id # request[v].id
           /\ \A w \in Holding : job[w].vm = v => job[w].id # request[v].id
           /\ \A k \in DOMAIN replies[v] : replies[v][k].id # request[v].id
<1>1. Given[v] = request[v].id /\ Given[v] \in Int
  BY DEF Given, Fresh, Types
<1>2. /\ \A k \in DOMAIN queue : queue[k].id \in Int
      /\ \A w \in Holding : job[w].id \in Int
      /\ \A k \in DOMAIN replies[v] : replies[v][k].id \in Int
  BY FlightFields
<1>3. \A i \in Int : i < Given[v] => i # request[v].id
  BY <1>1
<1>4. /\ \A k \in DOMAIN queue : queue[k].id < Given[queue[k].vm]
      /\ \A w \in Holding : job[w].id < Given[job[w].vm]
      /\ \A k \in DOMAIN replies[v] : replies[v][k].id < Given[v]
  BY DEF Fresh
<1> QED
  BY <1>2, <1>3, <1>4

LEMMA OnePlaceStep ==
    ASSUME Types, Fresh, OnePlaceEach, [Next]_vars
    PROVE  OnePlaceEach'
<1> USE DEF OnePlaceEach, SameJob
<1>1. CASE Kept
  BY <1>1 DEF Kept
<1>2. ASSUME NEW v \in VM, Submit(v) PROVE OnePlaceEach'
  <2>1. vpc[v] \in Submission
    BY <1>2 DEF Submit, Submission
  <2> HIDE DEF OnePlaceEach
  <2>2. /\ \A k \in DOMAIN queue : queue[k].vm = v => queue[k].id # request[v].id
        /\ \A w \in Holding : job[w].vm = v => job[w].id # request[v].id
        /\ \A k \in DOMAIN replies[v] : replies[v][k].id # request[v].id
    BY <2>1, SubmittedNew
  <2>3. PICK last : last = Len(queue) + 1
    OBVIOUS
  <2>4. /\ replies' = replies /\ Holding' = Holding /\ \A u \in Holding : job'[u] = job[u]
        /\ request[v].vm = v
        /\ DOMAIN queue' = DOMAIN queue \cup {last}
        /\ \A k \in DOMAIN queue : queue'[k] = queue[k]
        /\ queue'[last] = request[v]
    BY <1>2, <2>3, SubmitMove
  <2> USE DEF OnePlaceEach
  <2>5. \A j, k \in DOMAIN queue' : SameJob(queue'[j], queue'[k]) => j = k
    BY <2>2, <2>4
  <2>6. \A k \in DOMAIN queue', w \in Holding' : ~SameJob(queue'[k], job'[w])
    BY <2>2, <2>4
  <2>7. \A u \in VM : \A j \in DOMAIN queue', k \in DOMAIN replies'[u] :
            queue'[j].vm = u => queue'[j].id # replies'[u][k].id
    BY <2>2, <2>4
  <2> QED
    BY <2>4, <2>5, <2>6, <2>7
<1>3. ASSUME NEW w \in Worker, Take(w), queue # <<>> PROVE OnePlaceEach'
  <2>1. /\ replies' = replies /\ Holding' = Holding \cup {w} /\ w \notin Holding
        /\ \A u \in Holding : job'[u] = job[u]
        /\ job'[w] = queue[1] /\ 1 \in DOMAIN queue
        /\ \A k \in DOMAIN queue' : k + 1 \in DOMAIN queue /\ queue'[k] = queue[k + 1]
    BY <1>3, TakeMove
  <2>2. \A k \in DOMAIN queue' : k \in Int /\ k + 1 # 1
    BY <1>3, TakeMove DEF Types, HostTypeOK
  <2>3. \A j, k \in DOMAIN queue' : SameJob(queue'[j], queue'[k]) => j = k
    <3> SUFFICES ASSUME NEW j \in DOMAIN queue', NEW k \in DOMAIN queue',
                        SameJob(queue'[j], queue'[k])
                 PROVE  j = k
      OBVIOUS
    <3>1. j + 1 = k + 1
      BY <2>1
    <3> QED
      BY <2>2, <3>1
  <2>4. \A u, x \in Holding' : SameJob(job'[u], job'[x]) => u = x
    BY <2>1
  <2>5. \A k \in DOMAIN queue', x \in Holding' : ~SameJob(queue'[k], job'[x])
    <3> SUFFICES ASSUME NEW k \in DOMAIN queue', NEW x \in Holding'
                 PROVE  ~SameJob(queue'[k], job'[x])
      OBVIOUS
    <3>1. k + 1 \in DOMAIN queue /\ k + 1 # 1 /\ queue'[k] = queue[k + 1]
      BY <2>1, <2>2
    <3>2. CASE x = w
      BY <2>1, <3>1, <3>2
    <3>3. CASE x # w
      BY <2>1, <3>1, <3>3
    <3> QED
      BY <3>2, <3>3
  <2>6. \A u \in VM : \A j \in DOMAIN queue', k \in DOMAIN replies'[u] :
            queue'[j].vm = u => queue'[j].id # replies'[u][k].id
    BY <2>1
  <2>7. \A u \in VM : \A x \in Holding', k \in DOMAIN replies'[u] :
            job'[x].vm = u => job'[x].id # replies'[u][k].id
    BY <2>1
  <2> QED
    BY <2>1, <2>3, <2>4, <2>5, <2>6, <2>7
<1>4. ASSUME NEW w \in Worker, SendReply(w), vpc[job[w].vm] # "gone" PROVE OnePlaceEach'
  <2>1. /\ queue' = queue /\ Holding' = Holding \ {w} /\ w \in Holding
        /\ \A u \in Holding : job'[u] = job[u]
        /\ \A u \in VM : u # job[w].vm => replies'[u] = replies[u]
    BY <1>4, AnswerMove
  <2>2. PICK last : last = Len(replies[job[w].vm]) + 1
    OBVIOUS
  <2>3. /\ DOMAIN replies'[job[w].vm] = DOMAIN replies[job[w].vm] \cup {last}
        /\ \A k \in DOMAIN replies[job[w].vm] : replies'[job[w].vm][k] = replies[job[w].vm][k]
        /\ replies'[job[w].vm][last].id = job[w].id
    BY <1>4, <2>2, AnswerMove
  <2>4. \A u \in VM : \A k : k \in DOMAIN replies'[u] =>
            \/ k \in DOMAIN replies[u] /\ replies'[u][k] = replies[u][k]
            \/ u = job[w].vm /\ k = last /\ replies'[u][k].id = job[w].id
    BY <2>1, <2>3
  <2>5. \A u \in VM : \A j, k \in DOMAIN replies'[u] : replies'[u][j].id = replies'[u][k].id => j = k
    BY <2>1, <2>4
  <2>6. \A u \in VM : \A j \in DOMAIN queue', k \in DOMAIN replies'[u] :
            queue'[j].vm = u => queue'[j].id # replies'[u][k].id
    BY <2>1, <2>4
  <2>7. \A u \in VM : \A x \in Holding', k \in DOMAIN replies'[u] :
            job'[x].vm = u => job'[x].id # replies'[u][k].id
    BY <2>1, <2>4
  <2> QED
    BY <2>1, <2>5, <2>6, <2>7
<1>5. ASSUME NEW w \in Worker, (SendReply(w) /\ vpc[job[w].vm] = "gone") \/ Discard(w)
      PROVE  OnePlaceEach'
  BY <1>5, LostMove
<1>6. ASSUME NEW v \in VM, Collect(v) PROVE OnePlaceEach'
  <2>1. /\ queue' = queue /\ Holding' = Holding /\ \A u \in Holding : job'[u] = job[u]
        /\ \A u \in VM : u # v => replies'[u] = replies[u]
        /\ \A k \in DOMAIN replies'[v] : k + 1 \in DOMAIN replies[v] /\ replies'[v][k] = replies[v][k + 1]
    BY <1>6, CollectMove
  <2>2. \A u \in VM : \A k : k \in DOMAIN replies'[u] =>
            \E j \in DOMAIN replies[u] : replies'[u][k] = replies[u][j] /\ (j = k \/ u = v)
    BY <2>1
  <2>3. \A j, k \in DOMAIN replies'[v] : replies'[v][j].id = replies'[v][k].id => j = k
    <3> SUFFICES ASSUME NEW j \in DOMAIN replies'[v], NEW k \in DOMAIN replies'[v],
                        replies'[v][j].id = replies'[v][k].id
                 PROVE  j = k
      OBVIOUS
    <3>1. j + 1 = k + 1
      BY <2>1
    <3>2. j \in Int /\ k \in Int
      BY TypesStep DEF Types
    <3> QED
      BY <3>1, <3>2
  <2>4. \A u \in VM : \A j, k \in DOMAIN replies'[u] : replies'[u][j].id = replies'[u][k].id => j = k
    BY <2>1, <2>3
  <2>5. \A u \in VM : \A j \in DOMAIN queue', k \in DOMAIN replies'[u] :
            queue'[j].vm = u => queue'[j].id # replies'[u][k].id
    BY <2>1, <2>2
  <2>6. \A u \in VM : \A x \in Holding', k \in DOMAIN replies'[u] :
            job'[x].vm = u => job'[x].id # replies'[u][k].id
    BY <2>1, <2>2
  <2> QED
    BY <2>1, <2>4, <2>5, <2>6
<1>7. ASSUME NEW v \in VM, CancelQueue(v) PROVE OnePlaceEach'
  <2>1. PICK g \in [DOMAIN queue' -> Others(v)] :
            /\ \A i, j \in DOMAIN queue' : g[i] = g[j] => i = j
            /\ \A i \in DOMAIN queue' : queue'[i] = queue[g[i]]
    BY <1>7, CancelMove
  <2>2. \A i \in DOMAIN queue' : g[i] \in DOMAIN queue
    BY <2>1 DEF Others
  <2>3. replies' = replies /\ Holding' = Holding /\ \A u \in Holding : job'[u] = job[u]
    BY <1>7, CancelMove
  <2> QED
    BY <2>1, <2>2, <2>3
<1>8. ASSUME NEW v \in VM, DropReceiver(v) PROVE OnePlaceEach'
  <2>1. /\ queue' = queue /\ Holding' = Holding /\ \A u \in Holding : job'[u] = job[u]
        /\ \A u \in VM : u # v => replies'[u] = replies[u]
        /\ DOMAIN replies'[v] = {}
    BY <1>8, DropMove
  <2> QED
    BY <2>1
<1> QED
  BY <1>1, <1>2, <1>3, <1>4, <1>5, <1>6, <1>7, <1>8, Moves

\* A VM that has stopped does not start again, and its pending jobs change by
\* Submit, Collect and DropReceiver only.
PendingKept ==
    /\ \A u \in VM : Running(u)' => Running(u)
    /\ \/ pending' = pending
       \/ \E v \in VM : Submit(v) \/ Collect(v) \/ DropReceiver(v)

LEMMA PendingKeptStep ==
    ASSUME Types, [Next]_vars
    PROVE  PendingKept
<1> USE DEF PendingKept, Running, Types
<1>1. CASE UNCHANGED vars
  BY <1>1 DEF vars, portalVars
<1>2. ASSUME NEW v \in VM, VMStep(v) PROVE PendingKept
  <2>1. CASE Ask(v)
    <3>1. PICK where \in {"stop", "reserve"} : vpc' = [vpc EXCEPT ![v] = where]
      BY <2>1 DEF Ask, GoTo, Taken
    <3>2. pending' = pending /\ Running(v)
      BY <2>1 DEF Ask, portalVars
    <3> QED
      BY <3>1, <3>2
  <2>2. CASE CloseFile(v)
    <3>1. PICK where \in {"run", "stop"} : vpc' = [vpc EXCEPT ![v] = where]
      BY <2>2 DEF CloseFile, GoTo
    <3>2. pending' = pending /\ Running(v)
      BY <2>2 DEF CloseFile, portalVars
    <3> QED
      BY <3>1, <3>2
  <2>3. CASE ReserveSlot(v)
    <3>1. PICK where \in {"bytes", "stop"} : vpc' = [vpc EXCEPT ![v] = where]
      BY <2>3 DEF ReserveSlot, GoTo
    <3>2. pending' = pending /\ Running(v)
      BY <2>3 DEF ReserveSlot, portalVars
    <3> QED
      BY <3>1, <3>2
  <2>4. CASE ReserveBytes(v)
    <3>1. PICK where \in {"submit", "rollback"} : vpc' = [vpc EXCEPT ![v] = where]
      BY <2>4 DEF ReserveBytes, GoTo
    <3>2. pending' = pending /\ Running(v)
      BY <2>4 DEF ReserveBytes, portalVars
    <3> QED
      BY <3>1, <3>2
  <2>5. CASE Rollback(v)
    BY <2>5 DEF Rollback, GoTo, poolVars, portalVars, fileVars, wakeVars
  <2>6. CASE SubmitFails(v)
    BY <2>6 DEF SubmitFails, DropBytes, GoTo, poolVars, fileVars, wakeVars
  <2>7. CASE Submit(v)
    BY <2>7 DEF Submit, GoTo, budgetVars, fileVars, wakeVars
  <2>8. CASE EnterWait(v)
    BY <2>8 DEF EnterWait, GoTo, vmUnchanged, poolVars, budgetVars, fileVars, wakeVars
  <2>9. CASE EnterTurn(v)
    BY <2>9 DEF EnterTurn, GoTo, vmUnchanged, poolVars, budgetVars, fileVars, wakeVars
  <2>10. CASE Install(v)
    BY <2>10 DEF Install, GoTo, AfterStage, vmUnchanged, poolVars, budgetVars,
      fileVars
  <2>11. CASE Drain(v)
    BY <2>11 DEF Drain, GoTo, AfterStage, vmUnchanged, poolVars, budgetVars, fileVars
  <2>12. CASE Collect(v)
    <3>1. PICK where \in {"stop", "collected"} : vpc' = [vpc EXCEPT ![v] = where]
      BY <2>12, CollectEffect
    <3>2. Running(v)
      BY <2>12 DEF Collect
    <3> QED
      BY <2>12, <3>1, <3>2
  <2>13. CASE CollectNone(v)
    BY <2>13 DEF CollectNone, GoTo, AfterStage, vmUnchanged, poolVars, budgetVars,
      fileVars, wakeVars
  <2>14. CASE PollReturns(v)
    BY <2>14 DEF PollReturns, GoTo, vmUnchanged, poolVars, budgetVars, fileVars,
      wakeVars
  <2>15. CASE Exit(v)
    BY <2>15 DEF Exit, GoTo, vmUnchanged, poolVars, budgetVars, fileVars, wakeVars
  <2>16. CASE RaiseFlag(v)
    <3>1. PICK where \in {"cancel", "receiver"} : vpc' = [vpc EXCEPT ![v] = where]
      BY <2>16 DEF RaiseFlag, GoTo
    <3>2. pending' = pending
      BY <2>16 DEF RaiseFlag
    <3> QED
      BY <3>1, <3>2
  <2>17. CASE CancelQueue(v)
    BY <2>17 DEF CancelQueue, DropBytes, GoTo, portalVars, fileVars, wakeVars
  <2>18. CASE DropReceiver(v)
    BY <2>18 DEF DropReceiver, DropBytes, GoTo, vmUnchanged, poolVars, wakeVars
  <2> QED
    BY <1>2, <2>1, <2>2, <2>3, <2>4, <2>5, <2>6, <2>7, <2>8, <2>9, <2>10, <2>11,
      <2>12, <2>13, <2>14, <2>15, <2>16, <2>17, <2>18 DEF VMStep
<1>3. ASSUME NEW w \in Worker, WorkerStep(w) PROVE PendingKept
  <2>1. CASE Take(w)
    BY <2>1 DEF Take, Step, workerUnchanged, budgetVars, fileVars
  <2>2. CASE Start(w)
    BY <2>2 DEF Start, Step, workerUnchanged, budgetVars, fileVars
  <2>3. CASE Check(w)
    BY <2>3 DEF Check, Step, workerUnchanged, budgetVars, fileVars
  <2>4. CASE SendReply(w)
    BY <2>4 DEF SendReply, DropBytes, Step, workerUnchanged, budgetVars, fileVars
  <2>5. CASE Notify(w)
    BY <2>5 DEF Notify, Step, workerUnchanged, budgetVars, fileVars
  <2>6. CASE FinishJob(w)
    BY <2>6 DEF FinishJob, Step, workerUnchanged, budgetVars, fileVars
  <2>7. CASE Discard(w)
    BY <2>7 DEF Discard, DropBytes, Step, workerUnchanged, fileVars
  <2>8. CASE Return(w)
    BY <2>8 DEF Return, Step, workerUnchanged, budgetVars, fileVars
  <2>9. CASE Spurious(w)
    BY <2>9 DEF Spurious, Step, workerUnchanged, budgetVars, fileVars
  <2> QED
    BY <1>3, <2>1, <2>2, <2>3, <2>4, <2>5, <2>6, <2>7, <2>8, <2>9 DEF WorkerStep, WorkerMoves
<1>4. CASE DropSlot
  BY <1>4 DEF DropSlot, poolVars, portalVars, fileVars, wakeVars
<1> QED
  BY <1>1, <1>2, <1>3, <1>4 DEF Next, Quiet


\* A job of v with identity i is queued, held or answered.
Flying(v, i) ==
    \/ \E k \in DOMAIN queue : queue[k].vm = v /\ queue[k].id = i
    \/ \E w \in Holding : job[w].vm = v /\ job[w].id = i
    \/ \E k \in DOMAIN replies[v] : replies[v][k].id = i

PendingFlies ==
    \A v \in VM : Running(v) =>
        /\ \A i : (\E p \in pending[v] : p.id = i) <=> Flying(v, i)
        /\ \A p, q \in pending[v] : p.id = q.id => p = q

LEMMA PendingFliesExact ==
    ASSUME PendingFlies PROVE PendingExact
<1> SUFFICES ASSUME NEW v \in VM, Running(v)
             PROVE  {p.id : p \in pending[v]} = {l.id : l \in {m \in InFlight : m.vm = v}}
  BY DEF PendingFlies, PendingExact
<1>1. ASSUME NEW i PROVE Flying(v, i) <=> \E l \in InFlight : l.vm = v /\ l.id = i
  <2>1. ASSUME NEW k \in DOMAIN queue
        PROVE  LeaseOf(queue[k]) \in InFlight /\ LeaseOf(queue[k]).vm = queue[k].vm
               /\ LeaseOf(queue[k]).id = queue[k].id
    BY DEF InFlight, QueueLeases, LeaseOf
  <2>2. ASSUME NEW w \in Holding
        PROVE  LeaseOf(job[w]) \in InFlight /\ LeaseOf(job[w]).vm = job[w].vm
               /\ LeaseOf(job[w]).id = job[w].id
    BY DEF InFlight, HeldLeases, LeaseOf
  <2>3. ASSUME NEW u \in VM, NEW k \in DOMAIN replies[u]
        PROVE  ReplyLease(u, replies[u][k]) \in InFlight /\ ReplyLease(u, replies[u][k]).vm = u
               /\ ReplyLease(u, replies[u][k]).id = replies[u][k].id
    BY DEF InFlight, ReplyLeases, ReplyLease
  <2>4. ASSUME NEW l \in InFlight
        PROVE  \/ \E k \in DOMAIN queue : l = LeaseOf(queue[k])
               \/ \E w \in Holding : l = LeaseOf(job[w])
               \/ \E u \in VM : \E k \in DOMAIN replies[u] : l = ReplyLease(u, replies[u][k])
    BY DEF InFlight, QueueLeases, HeldLeases, ReplyLeases
  <2> QED
    BY <2>1, <2>2, <2>3, <2>4 DEF Flying
<1>2. \A i : (\E p \in pending[v] : p.id = i) <=> Flying(v, i)
  BY DEF PendingFlies
<1> QED
  BY <1>1, <1>2

LEMMA PendingStep ==
    ASSUME Types, FlagHonest, Fresh, OnePlaceEach, PendingFlies, [Next]_vars
    PROVE  PendingFlies'
<1>1. \A u \in VM : Running(u)' => Running(u)
  BY PendingKeptStep DEF PendingKept
<1>2. pending' = pending \/ \E v \in VM : Submit(v) \/ Collect(v) \/ DropReceiver(v)
  BY PendingKeptStep DEF PendingKept
<1>3. ASSUME NEW u \in VM, Running(u), pending'[u] = pending[u], \A i : Flying(u, i)' <=> Flying(u, i)
      PROVE  /\ \A i : (\E p \in pending'[u] : p.id = i) <=> Flying(u, i)'
             /\ \A p, q \in pending'[u] : p.id = q.id => p = q
  BY <1>3 DEF PendingFlies
<1> DEFINE Good(u) == Running(u)' => 
                         /\ \A i : (\E p \in pending'[u] : p.id = i) <=> Flying(u, i)'
                         /\ \A p, q \in pending'[u] : p.id = q.id => p = q
<1> HIDE DEF Good
<1>4. ASSUME NEW u \in VM, pending'[u] = pending[u], \A i : Flying(u, i)' <=> Flying(u, i)
      PROVE  Good(u)
  BY <1>1, <1>3, <1>4 DEF Good
<1> SUFFICES ASSUME NEW u \in VM PROVE Good(u)
  BY DEF PendingFlies, Good
<1>5. CASE Kept /\ pending' = pending
  <2>1. \A i : Flying(u, i)' <=> Flying(u, i)
    BY <1>5 DEF Flying, Kept
  <2> QED
    BY <1>4, <1>5, <2>1
<1>6. ASSUME NEW v \in VM, Submit(v) PROVE Good(u)
  <2>1. PICK last : last = Len(queue) + 1
    OBVIOUS
  <2>2. /\ replies' = replies /\ Holding' = Holding /\ \A x \in Holding : job'[x] = job[x]
        /\ request[v].vm = v
        /\ DOMAIN queue' = DOMAIN queue \cup {last}
        /\ \A k \in DOMAIN queue : queue'[k] = queue[k]
        /\ queue'[last] = request[v] /\ last \notin DOMAIN queue
    BY <1>6, <2>1, SubmitMove
  <2>3. \A i : Flying(u, i)' <=> Flying(u, i) \/ (u = v /\ i = request[v].id)
    BY <2>2 DEF Flying
  <2>4. /\ pending' = [pending EXCEPT ![v] = @ \cup {[id |-> request[v].id, handle |-> request[v].handle]}]
        /\ vpc[v] = "submit" /\ pending \in [VM -> SUBSET Pending]
    BY <1>6 DEF Submit, Types
  <2>5. CASE u # v
    BY <1>4, <2>3, <2>4, <2>5
  <2>6. CASE u = v
    <3>1. PICK new : new = [id |-> request[v].id, handle |-> request[v].handle]
      OBVIOUS
    <3>2. pending'[v] = pending[v] \cup {new} /\ new.id = request[v].id
      BY <2>4, <3>1
    <3>3. ~Flying(v, request[v].id)
      BY <2>4, SubmittedNew DEF Flying, Submission
    <3>4. /\ \A i : (\E p \in pending[v] : p.id = i) <=> Flying(v, i)
          /\ \A p, q \in pending[v] : p.id = q.id => p = q
      BY <2>4 DEF PendingFlies, Running
    <3>5. \A i : (\E p \in pending'[v] : p.id = i) <=> Flying(v, i)'
      BY <2>3, <2>6, <3>2, <3>4
    <3>6. \A p, q \in pending'[v] : p.id = q.id => p = q
      BY <3>2, <3>3, <3>4
    <3> QED
      BY <2>6, <3>5, <3>6 DEF Good
  <2> QED
    BY <2>5, <2>6
<1>7. ASSUME NEW w \in Worker, Take(w), queue # <<>>, pending' = pending PROVE Good(u)
  <2>1. \A i : Flying(u, i)' <=> Flying(u, i)
    <3>1. /\ replies' = replies /\ Holding' = Holding \cup {w} /\ w \notin Holding
          /\ \A x \in Holding : job'[x] = job[x]
          /\ job'[w] = queue[1] /\ 1 \in DOMAIN queue
          /\ \A k \in DOMAIN queue' : k + 1 \in DOMAIN queue /\ queue'[k] = queue[k + 1]
          /\ \A k \in DOMAIN queue : k # 1 => k - 1 \in DOMAIN queue' /\ queue'[k - 1] = queue[k]
      BY <1>7, TakeMove
    <3>2. ASSUME NEW i, Flying(u, i)' PROVE Flying(u, i)
      BY <3>1, <3>2 DEF Flying
    <3>3. ASSUME NEW i, Flying(u, i) PROVE Flying(u, i)'
      BY <3>1, <3>3 DEF Flying
    <3> QED
      BY <3>2, <3>3
  <2> QED
    BY <1>4, <1>7, <2>1
<1>8. ASSUME NEW w \in Worker, SendReply(w), vpc[job[w].vm] # "gone", pending' = pending PROVE Good(u)
  <2>1. /\ queue' = queue /\ Holding' = Holding \ {w} /\ w \in Holding
        /\ \A x \in Holding : job'[x] = job[x]
        /\ \A x \in VM : x # job[w].vm => replies'[x] = replies[x]
    BY <1>8, AnswerMove
  <2>2. CASE u # job[w].vm
    <3>1. \A i : Flying(u, i)' <=> Flying(u, i)
      BY <2>1, <2>2 DEF Flying
    <3> QED
      BY <1>4, <1>8, <3>1
  <2>3. CASE u = job[w].vm
    <3>1. PICK last : last = Len(replies[u]) + 1
      OBVIOUS
    <3>2. /\ DOMAIN replies'[u] = DOMAIN replies[u] \cup {last}
          /\ \A k \in DOMAIN replies[u] : replies'[u][k] = replies[u][k]
          /\ replies'[u][last].id = job[w].id
      BY <1>8, <2>3, <3>1, AnswerMove
    <3>3. \A i : Flying(u, i)' <=> Flying(u, i)
      BY <2>1, <2>3, <3>2 DEF Flying
    <3> QED
      BY <1>4, <1>8, <3>3
  <2> QED
    BY <2>2, <2>3
<1>9. ASSUME NEW w \in Worker, (SendReply(w) /\ vpc[job[w].vm] = "gone") \/ Discard(w), pending' = pending
      PROVE  Good(u)
  <2>1. /\ queue' = queue /\ replies' = replies /\ Holding' = Holding \ {w} /\ w \in Holding
        /\ \A x \in Holding \ {w} : job'[x] = job[x]
        /\ at[w] = "discard" \/ vpc[job[w].vm] = "gone"
        /\ job[w].vm \in VM
    BY <1>9, LostMove
  <2>2. ~Running(job[w].vm)
    BY <2>1 DEF FlagHonest, Running, Holding
  <2>3. CASE u # job[w].vm
    <3>1. \A i : Flying(u, i)' <=> Flying(u, i)
      BY <2>1, <2>3 DEF Flying
    <3> QED
      BY <1>4, <1>9, <3>1
  <2>4. CASE u = job[w].vm
    BY <1>1, <2>2, <2>4 DEF Good
  <2> QED
    BY <2>3, <2>4
<1>10. ASSUME NEW v \in VM, Collect(v) PROVE Good(u)
  <2>1. PICK reply, mine, where :
            /\ replies[v] # <<>> /\ reply = Head(replies[v]) /\ reply \in Reply
            /\ mine = {p \in pending[v] : p.id = reply.id}
            /\ replies' = [replies EXCEPT ![v] = Tail(@)]
            /\ pending' = [pending EXCEPT ![v] = @ \ mine]
            /\ DropBytes(reply.bytes, 1)
            /\ Deliver(v, mine, reply.kind)
            /\ where \in {"stop", "collected"} /\ vpc' = [vpc EXCEPT ![v] = where]
    BY <1>10, CollectEffect
  <2>2. /\ queue' = queue /\ Holding' = Holding /\ \A x \in Holding : job'[x] = job[x]
        /\ \A x \in VM : x # v => replies'[x] = replies[x]
        /\ 1 \in DOMAIN replies[v]
        /\ \A k \in DOMAIN replies'[v] : k + 1 \in DOMAIN replies[v] /\ replies'[v][k] = replies[v][k + 1]
        /\ \A k \in DOMAIN replies[v] : k # 1 =>
              k - 1 \in DOMAIN replies'[v] /\ replies'[v][k - 1] = replies[v][k]
    BY <1>10, CollectMove
  <2>3. reply = replies[v][1]
    BY <2>1 DEF Types
  <2>4. pending'[v] = pending[v] \ mine /\ \A x \in VM : x # v => pending'[x] = pending[x]
    BY <2>1 DEF Types
  <2>5. CASE u # v
    <3>1. \A i : Flying(u, i)' <=> Flying(u, i)
      BY <2>2, <2>5 DEF Flying
    <3> QED
      BY <1>4, <2>4, <2>5, <3>1
  <2>6. CASE u = v
    <3>1. ASSUME NEW i, Flying(v, i)' PROVE Flying(v, i) /\ i # reply.id
      <4>0. replies'[v] \in Seq(Reply)
        BY TypesStep DEF Types
      <4>1. \A k \in DOMAIN replies'[v] : k + 1 # 1
        BY <4>0
      <4> QED
        BY <2>2, <2>3, <3>1, <4>1 DEF Flying, OnePlaceEach
    <3>2. ASSUME NEW i, Flying(v, i), i # reply.id PROVE Flying(v, i)'
      BY <2>2, <2>3, <3>2 DEF Flying
    <3>3. /\ \A i : (\E p \in pending[v] : p.id = i) <=> Flying(v, i)
          /\ \A p, q \in pending[v] : p.id = q.id => p = q
      BY <1>10 DEF PendingFlies, Running, Collect
    <3>4. \A i : (\E p \in pending'[v] : p.id = i) <=> Flying(v, i)'
      <4>1. \A p : p \in pending'[v] <=> p \in pending[v] /\ p.id # reply.id
        BY <2>1, <2>4
      <4> QED
        BY <3>1, <3>2, <3>3, <4>1
    <3>5. \A p, q \in pending'[v] : p.id = q.id => p = q
      BY <2>4, <3>3
    <3> QED
      BY <2>6, <3>4, <3>5 DEF Good
  <2> QED
    BY <2>5, <2>6
<1>11. ASSUME NEW v \in VM, CancelQueue(v), pending' = pending PROVE Good(u)
  <2>1. PICK g \in [DOMAIN queue' -> Others(v)] :
            /\ \A k \in Others(v) : \E i \in DOMAIN queue' : g[i] = k
            /\ \A i \in DOMAIN queue' : queue'[i] = queue[g[i]]
    BY <1>11, CancelMove
  <2>2. replies' = replies /\ Holding' = Holding /\ \A x \in Holding : job'[x] = job[x]
    BY <1>11, CancelMove
  <2>3. CASE u # v
    <3>1. ASSUME NEW i, Flying(u, i)' PROVE Flying(u, i)
      BY <2>1, <2>2, <3>1 DEF Flying, Others
    <3>2. ASSUME NEW i, Flying(u, i) PROVE Flying(u, i)'
      <4>1. CASE \E k \in DOMAIN queue : queue[k].vm = u /\ queue[k].id = i
        <5>1. PICK k \in DOMAIN queue : queue[k].vm = u /\ queue[k].id = i
          BY <4>1
        <5>2. k \in Others(v)
          BY <2>3, <5>1 DEF Others
        <5>3. PICK j \in DOMAIN queue' : queue'[j] = queue[k]
          BY <2>1, <5>2
        <5> QED
          BY <5>1, <5>3 DEF Flying
      <4>2. CASE ~\E k \in DOMAIN queue : queue[k].vm = u /\ queue[k].id = i
        BY <2>2, <3>2, <4>2 DEF Flying
      <4> QED
        BY <4>1, <4>2
    <3>3. \A i : Flying(u, i)' <=> Flying(u, i)
      BY <3>1, <3>2
    <3> QED
      BY <1>4, <1>11, <3>3
  <2>4. CASE u = v
    BY <1>1, <1>11, <2>4 DEF Good, CancelQueue, Running
  <2> QED
    BY <2>3, <2>4
<1>12. ASSUME NEW v \in VM, DropReceiver(v) PROVE Good(u)
  <2>1. CASE u # v
    <3>1. \A i : Flying(u, i)' <=> Flying(u, i)
      BY <1>12, <2>1, DropMove DEF Flying
    <3>2. pending'[u] = pending[u]
      BY <1>12, <2>1 DEF DropReceiver, Types
    <3> QED
      BY <1>4, <3>1, <3>2
  <2>2. CASE u = v
    BY <1>1, <1>12, <2>2 DEF Good, DropReceiver, Running
  <2> QED
    BY <2>1, <2>2
<1>13. ASSUME pending' # pending PROVE Good(u)
  BY <1>2, <1>6, <1>10, <1>12, <1>13
<1> QED
  BY <1>5, <1>6, <1>7, <1>8, <1>9, <1>10, <1>11, <1>12, <1>13, Moves

LEMMA TidyLess ==
    ASSUME NEW fs, NEW next, NEW pd, NEW asking, NEW h, Tidy(fs, next, pd, asking, h),
           NEW gs \in SUBSET fs, NEW qd \in SUBSET pd, NEW k
    PROVE  Tidy(gs, next, qd, FALSE, k)
  BY DEF Tidy, Loose

LEMMA TidyAsk ==
    ASSUME NEW fs, NEW next \in Nat, NEW pd, NEW asking, NEW k, Tidy(fs, next, pd, asking, k),
           NEW h, h = NoFile \/ h \in fs
    PROVE  Tidy(fs \ {h}, next, pd, TRUE, h)
<1>1. NoFile \notin 0 .. (next - 1)
  BY HostAssumption
<1> QED
  BY <1>1 DEF Tidy, Loose

LEMMA TidySubmit ==
    ASSUME NEW fs, NEW next, NEW pd, NEW p, Tidy(fs, next, pd, TRUE, p.handle), NEW k
    PROVE  Tidy(fs, next, pd \cup {p}, FALSE, k)
  BY DEF Tidy, Loose

LEMMA TidyReturn ==
    ASSUME NEW fs, NEW next \in Nat, NEW pd, NEW asking, NEW h, Tidy(fs, next, pd, asking, h),
           NEW p \in pd, p.handle # NoFile, NEW k
    PROVE  p.handle \notin fs /\ Tidy(fs \cup {p.handle}, next, pd \ {p}, FALSE, k)
<1>1. NoFile \notin 0 .. (next - 1)
  BY HostAssumption
<1> QED
  BY <1>1 DEF Tidy, Loose

LEMMA TidyNew ==
    ASSUME NEW fs, NEW next \in Nat, NEW pd, NEW asking, NEW h, Tidy(fs, next, pd, asking, h),
           NEW qd \in SUBSET pd, NEW k
    PROVE  /\ next \notin fs /\ Tidy(fs, next + 1, qd, FALSE, k)
           /\ Tidy(fs \cup {next}, next + 1, qd, FALSE, k)
<1>1. 0 .. (next + 1 - 1) = 0 .. (next - 1) \cup {next} /\ next \notin 0 .. (next - 1)
  OBVIOUS
<1>2. NoFile # next
  BY HostAssumption
<1> QED
  BY <1>1, <1>2 DEF Tidy, Loose

\* A step that leaves a VM's files, pending jobs and request alone.
LEMMA HandlesKept ==
    ASSUME HandlesOut, UNCHANGED <<fault, files, nextFile, pending>>,
           \A u \in VM : vpc'[u] \in Submission => vpc[u] \in Submission /\ request'[u] = request[u]
    PROVE  HandlesOut'
<1> SUFFICES ASSUME NEW u \in VM
             PROVE  Tidy(files[u], nextFile[u], pending[u], vpc'[u] \in Submission, request'[u].handle)
  BY DEF HandlesOut
<1>1. Tidy(files[u], nextFile[u], pending[u], vpc[u] \in Submission, request[u].handle)
  BY DEF HandlesOut
<1> QED
  BY <1>1 DEF Tidy

\* A step of one VM leaves the files of the others alone.
LEMMA HandlesLocal ==
    ASSUME HandlesOut, NEW v \in VM, fault' = fault,
           \A u \in VM : u # v => /\ files'[u] = files[u] /\ nextFile'[u] = nextFile[u]
                                  /\ pending'[u] = pending[u] /\ vpc'[u] = vpc[u]
                                  /\ request'[u] = request[u],
           Tidy(files'[v], nextFile'[v], pending'[v], vpc'[v] \in Submission, request'[v].handle)
    PROVE  HandlesOut'
<1> SUFFICES ASSUME NEW u \in VM
             PROVE  Tidy(files'[u], nextFile'[u], pending'[u], vpc'[u] \in Submission, request'[u].handle)
  BY DEF HandlesOut
<1>1. Tidy(files[u], nextFile[u], pending[u], vpc[u] \in Submission, request[u].handle)
  BY DEF HandlesOut
<1>2. CASE u = v
  BY <1>2
<1>3. CASE u # v
  BY <1>1, <1>3
<1> QED
  BY <1>2, <1>3

\* Every answer finds its pending job, and its file a free handle.
LEMMA CollectTidy ==
    ASSUME Types, PendingFlies, HandlesOut, NEW v \in VM, Collect(v)
    PROVE  HandlesOut'
<1>1. PICK reply, mine, where :
          /\ replies[v] # <<>> /\ reply = Head(replies[v]) /\ reply \in Reply
          /\ mine = {p \in pending[v] : p.id = reply.id}
          /\ replies' = [replies EXCEPT ![v] = Tail(@)]
          /\ pending' = [pending EXCEPT ![v] = @ \ mine]
          /\ DropBytes(reply.bytes, 1)
          /\ Deliver(v, mine, reply.kind)
          /\ where \in {"stop", "collected"} /\ vpc' = [vpc EXCEPT ![v] = where]
  BY CollectEffect
<1>2. Running(v) /\ request' = request
  BY DEF Collect, Running, vmUnchanged
<1>3. PICK p \in pending[v] : mine = {p}
  <2>1. reply = replies[v][1] /\ 1 \in DOMAIN replies[v]
    BY <1>1, CollectMove DEF Types
  <2>2. Flying(v, reply.id)
    BY <2>1 DEF Flying
  <2>3. PICK p \in pending[v] : p.id = reply.id
    BY <1>2, <2>2 DEF PendingFlies
  <2>4. \A q \in pending[v] : q.id = reply.id => q = p
    BY <1>2, <2>3 DEF PendingFlies
  <2> QED
    BY <1>1, <2>3, <2>4
<1>4. Tidy(files[v], nextFile[v], pending[v], vpc[v] \in Submission, request[v].handle)
  BY DEF HandlesOut
<1>5. nextFile[v] \in Nat /\ p \in Pending /\ files[v] \in SUBSET Nat
  BY DEF Types
<1>6. /\ \A u \in VM : u # v => pending'[u] = pending[u] /\ vpc'[u] = vpc[u]
      /\ pending'[v] = pending[v] \ {p} /\ vpc'[v] \notin Submission
  BY <1>1, <1>3 DEF Types, Submission
<1>7. ASSUME fault' = fault,
             \A u \in VM : u # v => files'[u] = files[u] /\ nextFile'[u] = nextFile[u],
             Tidy(files'[v], nextFile'[v], pending[v] \ {p}, FALSE, request'[v].handle)
      PROVE  HandlesOut'
  <2>1. Tidy(files'[v], nextFile'[v], pending'[v], vpc'[v] \in Submission, request'[v].handle)
    BY <1>6, <1>7 DEF Tidy
  <2> QED
    BY <1>2, <1>6, <1>7, <2>1, HandlesLocal
<1>8. ASSUME NEW handle \in Nat, Restore(v, handle), handle \notin files[v]
      PROVE  /\ fault' = fault
             /\ \/ files' = files
                \/ files' = [files EXCEPT ![v] = files[v] \cup {handle}]
  BY <1>8 DEF Restore
<1>9. reply.kind \in {"file", "failed", "panicked"}
  BY <1>1, ReplyFields
<1>10. CASE reply.kind \in {"failed", "panicked"}
  <2>1. UNCHANGED <<fault, files, nextFile>>
    BY <1>1, <1>3, <1>10 DEF Deliver, fileVars
  <2>2. pending[v] \ {p} \in SUBSET pending[v]
    OBVIOUS
  <2>3. Tidy(files[v], nextFile[v], pending[v] \ {p}, FALSE, request'[v].handle)
    BY <1>4, <2>2, TidyLess
  <2> QED
    BY <1>7, <2>1, <2>3
<1>11. CASE reply.kind = "file" /\ p.handle = NoFile
  <2>1. nextFile' = [nextFile EXCEPT ![v] = @ + 1] /\ Restore(v, nextFile[v])
    BY <1>1, <1>3, <1>11 DEF Deliver
  <2>2. pending[v] \ {p} \in SUBSET pending[v]
    OBVIOUS
  <2>3. /\ nextFile[v] \notin files[v]
        /\ Tidy(files[v], nextFile[v] + 1, pending[v] \ {p}, FALSE, request'[v].handle)
        /\ Tidy(files[v] \cup {nextFile[v]}, nextFile[v] + 1, pending[v] \ {p}, FALSE, request'[v].handle)
    <3>1. PICK fs, next, pd, asking, h :
              /\ fs = files[v] /\ next = nextFile[v] /\ pd = pending[v]
              /\ asking = (vpc[v] \in Submission) /\ h = request[v].handle
      OBVIOUS
    <3>2. PICK qd, k : qd = pending[v] \ {p} /\ k = request'[v].handle
      OBVIOUS
    <3>3. next \in Nat /\ qd \in SUBSET pd /\ Tidy(fs, next, pd, asking, h)
      BY <1>4, <1>5, <3>1, <3>2
    <3>4. /\ next \notin fs /\ Tidy(fs, next + 1, qd, FALSE, k)
          /\ Tidy(fs \cup {next}, next + 1, qd, FALSE, k)
      BY <3>3, TidyNew
    <3> QED
      BY <3>1, <3>2, <3>4
  <2>4. /\ fault' = fault
        /\ files' = files \/ files' = [files EXCEPT ![v] = files[v] \cup {nextFile[v]}]
    BY <1>5, <1>8, <2>1, <2>3
  <2>5. /\ nextFile'[v] = nextFile[v] + 1 /\ \A u \in VM : u # v => nextFile'[u] = nextFile[u]
        /\ files'[v] \in {files[v], files[v] \cup {nextFile[v]}}
        /\ \A u \in VM : u # v => files'[u] = files[u]
    BY <2>1, <2>4 DEF Types
  <2>6. Tidy(files'[v], nextFile'[v], pending[v] \ {p}, FALSE, request'[v].handle)
    BY <2>3, <2>5
  <2> QED
    BY <1>7, <2>4, <2>5, <2>6
<1>12. CASE reply.kind = "file" /\ p.handle # NoFile
  <2>1. nextFile' = nextFile /\ Restore(v, p.handle)
    BY <1>1, <1>3, <1>12 DEF Deliver
  <2>2. p.handle \in Nat
    BY <1>5, <1>12 DEF Pending
  <2>3. /\ p.handle \notin files[v]
        /\ Tidy(files[v] \cup {p.handle}, nextFile[v], pending[v] \ {p}, FALSE, request'[v].handle)
    BY <1>4, <1>5, <1>12, TidyReturn
  <2>4. pending[v] \ {p} \in SUBSET pending[v]
    OBVIOUS
  <2>5. Tidy(files[v], nextFile[v], pending[v] \ {p}, FALSE, request'[v].handle)
    BY <1>4, <2>4, TidyLess
  <2>6. fault' = fault /\ (files' = files \/ files' = [files EXCEPT ![v] = files[v] \cup {p.handle}])
    BY <1>8, <2>1, <2>2, <2>3
  <2>7. /\ files'[v] \in {files[v], files[v] \cup {p.handle}}
        /\ \A u \in VM : u # v => files'[u] = files[u]
    BY <2>6 DEF Types
  <2>8. Tidy(files'[v], nextFile'[v], pending[v] \ {p}, FALSE, request'[v].handle)
    BY <2>1, <2>3, <2>5, <2>7
  <2> QED
    BY <1>7, <2>1, <2>6, <2>7, <2>8
<1> QED
  BY <1>9, <1>10, <1>11, <1>12

LEMMA HandlesStep ==
    ASSUME Types, PendingFlies, HandlesOut, [Next]_vars
    PROVE  HandlesOut'
<1>1. CASE UNCHANGED vars
  BY <1>1, HandlesKept DEF vars, portalVars, fileVars
<1>2. ASSUME NEW v \in VM, VMStep(v) PROVE HandlesOut'
  <2>1. CASE Ask(v)
    <3>a. Tidy(files[v], nextFile[v], pending[v], vpc[v] \in Submission, request[v].handle)
      BY DEF HandlesOut
    <3>b. nextFile[v] \in Nat
      BY DEF Types
    <3>0. PICK handle, new : AskDone(v, handle, new)
      BY <2>1, AskEffect
    <3>1. /\ new.handle = handle
          /\ files' = files \/ files' = [files EXCEPT ![v] = files[v] \ {handle}]
          /\ \/ request' = request /\ vpc' = [vpc EXCEPT ![v] = "stop"]
             \/ /\ request' = [request EXCEPT ![v] = new] /\ vpc' = [vpc EXCEPT ![v] = "reserve"]
                /\ files' = [files EXCEPT ![v] = files[v] \ {handle}]
                /\ handle = NoFile \/ handle \in files[v]
      BY <3>0 DEF AskDone
    <3>2. UNCHANGED <<fault, nextFile, pending>>
      BY <2>1 DEF Ask
    <3>3. \A u \in VM : u # v => files'[u] = files[u] /\ vpc'[u] = vpc[u] /\ request'[u] = request[u]
      BY <3>1 DEF Types
    <3>4. Tidy(files'[v], nextFile'[v], pending'[v], vpc'[v] \in Submission, request'[v].handle)
      <4>1. CASE vpc' = [vpc EXCEPT ![v] = "stop"]
        <5>1. files'[v] \in SUBSET files[v]
          BY <3>1 DEF Types
        <5>2. Tidy(files'[v], nextFile[v], pending[v], FALSE, request'[v].handle)
          BY <3>a, <5>1, TidyLess
        <5>3. vpc'[v] \notin Submission
          BY <4>1 DEF Types, Submission
        <5> QED
          BY <3>2, <5>2, <5>3 DEF Tidy
      <4>2. CASE vpc' # [vpc EXCEPT ![v] = "stop"]
        <5>1. /\ request'[v] = new /\ vpc'[v] = "reserve" /\ files'[v] = files[v] \ {handle}
              /\ handle = NoFile \/ handle \in files[v]
          BY <3>1, <4>2 DEF Types
        <5>2. Tidy(files[v] \ {handle}, nextFile[v], pending[v], TRUE, handle)
          BY <3>a, <3>b, <5>1, TidyAsk
        <5> QED
          BY <3>1, <3>2, <5>1, <5>2 DEF Tidy
      <4> QED
        BY <4>1, <4>2
    <3> QED
      BY <3>2, <3>3, <3>4, HandlesLocal
  <2>2. CASE CloseFile(v)
    <3>a. Tidy(files[v], nextFile[v], pending[v], vpc[v] \in Submission, request[v].handle)
      BY DEF HandlesOut
    <3>b. nextFile[v] \in Nat
      BY DEF Types
    <3>c. PICK handle \in 0 .. (nextFile[v] - 1) :
              /\ files' = [files EXCEPT ![v] = Taken(v, handle)]
              /\ GoTo(v, IF handle \in files[v] THEN "run" ELSE "stop")
      BY <2>2 DEF CloseFile
    <3>1. PICK where \in {"run", "stop"} :
              files' = [files EXCEPT ![v] = files[v] \ {handle}] /\ vpc' = [vpc EXCEPT ![v] = where]
      BY <3>c DEF Taken, GoTo
    <3>2. UNCHANGED <<fault, nextFile, pending, request>>
      BY <2>2 DEF CloseFile, portalVars
    <3>3. \A u \in VM : u # v => files'[u] = files[u] /\ vpc'[u] = vpc[u]
      BY <3>1 DEF Types
    <3>4. files'[v] \in SUBSET files[v] /\ vpc'[v] \notin Submission
      BY <3>1 DEF Types, Submission
    <3>5. Tidy(files'[v], nextFile[v], pending[v], FALSE, request'[v].handle)
      BY <3>a, <3>4, TidyLess
    <3>6. Tidy(files'[v], nextFile'[v], pending'[v], vpc'[v] \in Submission, request'[v].handle)
      BY <3>2, <3>4, <3>5 DEF Tidy
    <3> QED
      BY <3>2, <3>3, <3>6, HandlesLocal
  <2>3. CASE ReserveSlot(v)
    <3>1. UNCHANGED <<fault, files, nextFile, pending>>
      BY <2>3 DEF ReserveSlot, portalVars, fileVars
    <3>2. PICK where \in {"bytes", "stop"} :
              /\ vpc' = [vpc EXCEPT ![v] = where]
              /\ where = "bytes" => request' = request
              /\ \A u \in VM : u # v => request'[u] = request[u]
      BY <2>3 DEF ReserveSlot, GoTo, Types
    <3>3. vpc[v] \in Submission
      BY <2>3 DEF ReserveSlot, Submission
    <3>4. \A u \in VM : vpc'[u] \in Submission => vpc[u] \in Submission /\ request'[u] = request[u]
      BY <3>2, <3>3 DEF Submission, Types
    <3> QED
      BY <3>1, <3>4, HandlesKept
  <2>4. CASE ReserveBytes(v)
    <3>1. UNCHANGED <<fault, files, nextFile, pending>>
      BY <2>4 DEF ReserveBytes, portalVars, fileVars
    <3>2. PICK where \in {"submit", "rollback"} :
              /\ vpc' = [vpc EXCEPT ![v] = where]
              /\ where = "submit" => request' = request
              /\ \A u \in VM : u # v => request'[u] = request[u]
      BY <2>4 DEF ReserveBytes, GoTo, Types
    <3>3. vpc[v] \in Submission
      BY <2>4 DEF ReserveBytes, Submission
    <3>4. \A u \in VM : vpc'[u] \in Submission => vpc[u] \in Submission /\ request'[u] = request[u]
      BY <3>2, <3>3 DEF Submission, Types
    <3> QED
      BY <3>1, <3>4, HandlesKept
  <2>5. CASE Rollback(v)
    <3>1. UNCHANGED <<fault, files, nextFile, pending>>
      BY <2>5 DEF Rollback, GoTo, poolVars, portalVars, fileVars, wakeVars
    <3>2. \A u \in VM : vpc'[u] \in Submission => vpc[u] \in Submission /\ request'[u] = request[u]
      BY <2>5 DEF Rollback, GoTo, poolVars, portalVars, fileVars, wakeVars, Submission, Types
    <3> QED
      BY <3>1, <3>2, HandlesKept
  <2>6. CASE SubmitFails(v)
    <3>1. UNCHANGED <<fault, files, nextFile, pending>>
      BY <2>6 DEF SubmitFails, DropBytes, GoTo, poolVars, fileVars, wakeVars
    <3>2. \A u \in VM : vpc'[u] \in Submission => vpc[u] \in Submission /\ request'[u] = request[u]
      BY <2>6 DEF SubmitFails, DropBytes, GoTo, poolVars, fileVars, wakeVars, Submission, Types
    <3> QED
      BY <3>1, <3>2, HandlesKept
  <2>7. CASE Submit(v)
    <3>a. Tidy(files[v], nextFile[v], pending[v], vpc[v] \in Submission, request[v].handle)
      BY DEF HandlesOut
    <3>b. nextFile[v] \in Nat
      BY DEF Types
    <3>1. /\ UNCHANGED <<fault, files, nextFile>> /\ vpc' = [vpc EXCEPT ![v] = "run"]
          /\ request' = [request EXCEPT ![v] = NoJob] /\ vpc[v] = "submit"
          /\ pending' = [pending EXCEPT ![v] = @ \cup {[id |-> request[v].id, handle |-> request[v].handle]}]
      BY <2>7 DEF Submit, GoTo, fileVars
    <3>2. PICK new : new = [id |-> request[v].id, handle |-> request[v].handle]
      OBVIOUS
    <3>3. /\ pending'[v] = pending[v] \cup {new} /\ new.handle = request[v].handle
          /\ \A u \in VM : u # v => pending'[u] = pending[u]
      BY <3>1, <3>2 DEF Types
    <3>4. \A u \in VM : u # v => vpc'[u] = vpc[u] /\ request'[u] = request[u]
      BY <3>1 DEF Types
    <3>5. vpc'[v] \notin Submission /\ vpc[v] \in Submission
      BY <3>1 DEF Types, Submission
    <3>6. Tidy(files[v], nextFile[v], pending[v], TRUE, new.handle)
      BY <3>a, <3>3, <3>5 DEF Tidy
    <3>7. Tidy(files[v], nextFile[v], pending[v] \cup {new}, FALSE, request'[v].handle)
      BY <3>6, TidySubmit
    <3>8. Tidy(files'[v], nextFile'[v], pending'[v], vpc'[v] \in Submission, request'[v].handle)
      BY <3>1, <3>3, <3>5, <3>7 DEF Tidy
    <3> QED
      BY <3>1, <3>3, <3>4, <3>8, HandlesLocal
  <2>8. CASE EnterWait(v)
    <3>1. UNCHANGED <<fault, files, nextFile, pending>>
      BY <2>8 DEF EnterWait, GoTo, vmUnchanged, poolVars, budgetVars, fileVars, wakeVars
    <3>2. \A u \in VM : vpc'[u] \in Submission => vpc[u] \in Submission /\ request'[u] = request[u]
      BY <2>8 DEF EnterWait, GoTo, vmUnchanged, poolVars, budgetVars, fileVars, wakeVars, Submission, Types
    <3> QED
      BY <3>1, <3>2, HandlesKept
  <2>9. CASE EnterTurn(v)
    <3>1. UNCHANGED <<fault, files, nextFile, pending>>
      BY <2>9 DEF EnterTurn, GoTo, vmUnchanged, poolVars, budgetVars, fileVars, wakeVars
    <3>2. \A u \in VM : vpc'[u] \in Submission => vpc[u] \in Submission /\ request'[u] = request[u]
      BY <2>9 DEF EnterTurn, GoTo, vmUnchanged, poolVars, budgetVars, fileVars, wakeVars, Submission, Types
    <3> QED
      BY <3>1, <3>2, HandlesKept
  <2>10. CASE Install(v)
    <3>1. UNCHANGED <<fault, files, nextFile, pending>>
      BY <2>10 DEF Install, GoTo, AfterStage, vmUnchanged, poolVars, budgetVars, fileVars
    <3>2. \A u \in VM : vpc'[u] \in Submission => vpc[u] \in Submission /\ request'[u] = request[u]
      BY <2>10 DEF Install, GoTo, AfterStage, vmUnchanged, poolVars, budgetVars, fileVars, Submission, Types
    <3> QED
      BY <3>1, <3>2, HandlesKept
  <2>11. CASE Drain(v)
    <3>1. UNCHANGED <<fault, files, nextFile, pending>>
      BY <2>11 DEF Drain, GoTo, AfterStage, vmUnchanged, poolVars, budgetVars, fileVars
    <3>2. \A u \in VM : vpc'[u] \in Submission => vpc[u] \in Submission /\ request'[u] = request[u]
      BY <2>11 DEF Drain, GoTo, AfterStage, vmUnchanged, poolVars, budgetVars, fileVars, Submission, Types
    <3> QED
      BY <3>1, <3>2, HandlesKept
  <2>12. CASE Collect(v)
    BY <2>12, CollectTidy
  <2>13. CASE CollectNone(v)
    <3>1. UNCHANGED <<fault, files, nextFile, pending>>
      BY <2>13 DEF CollectNone, GoTo, AfterStage, vmUnchanged, poolVars, budgetVars, fileVars, wakeVars
    <3>2. \A u \in VM : vpc'[u] \in Submission => vpc[u] \in Submission /\ request'[u] = request[u]
      BY <2>13 DEF CollectNone, GoTo, AfterStage, vmUnchanged, poolVars, budgetVars, fileVars, wakeVars, Submission, Types
    <3> QED
      BY <3>1, <3>2, HandlesKept
  <2>14. CASE PollReturns(v)
    <3>1. UNCHANGED <<fault, files, nextFile, pending>>
      BY <2>14 DEF PollReturns, GoTo, vmUnchanged, poolVars, budgetVars, fileVars, wakeVars
    <3>2. \A u \in VM : vpc'[u] \in Submission => vpc[u] \in Submission /\ request'[u] = request[u]
      BY <2>14 DEF PollReturns, GoTo, vmUnchanged, poolVars, budgetVars, fileVars, wakeVars, Submission, Types
    <3> QED
      BY <3>1, <3>2, HandlesKept
  <2>15. CASE Exit(v)
    <3>1. UNCHANGED <<fault, files, nextFile, pending>>
      BY <2>15 DEF Exit, GoTo, vmUnchanged, poolVars, budgetVars, fileVars, wakeVars
    <3>2. \A u \in VM : vpc'[u] \in Submission => vpc[u] \in Submission /\ request'[u] = request[u]
      BY <2>15 DEF Exit, GoTo, vmUnchanged, poolVars, budgetVars, fileVars, wakeVars, Submission, Types
    <3> QED
      BY <3>1, <3>2, HandlesKept
  <2>16. CASE RaiseFlag(v)
    <3>1. UNCHANGED <<fault, files, nextFile, pending>>
      BY <2>16 DEF RaiseFlag, GoTo, poolVars, budgetVars, fileVars, wakeVars
    <3>2. \A u \in VM : vpc'[u] \in Submission => vpc[u] \in Submission /\ request'[u] = request[u]
      BY <2>16 DEF RaiseFlag, GoTo, poolVars, budgetVars, fileVars, wakeVars, Submission, Types
    <3> QED
      BY <3>1, <3>2, HandlesKept
  <2>17. CASE CancelQueue(v)
    <3>1. UNCHANGED <<fault, files, nextFile, pending>>
      BY <2>17 DEF CancelQueue, DropBytes, GoTo, portalVars, fileVars, wakeVars
    <3>2. \A u \in VM : vpc'[u] \in Submission => vpc[u] \in Submission /\ request'[u] = request[u]
      BY <2>17 DEF CancelQueue, DropBytes, GoTo, portalVars, fileVars, wakeVars, Submission, Types
    <3> QED
      BY <3>1, <3>2, HandlesKept
  <2>18. CASE DropReceiver(v)
    <3>a. Tidy(files[v], nextFile[v], pending[v], vpc[v] \in Submission, request[v].handle)
      BY DEF HandlesOut
    <3>b. nextFile[v] \in Nat
      BY DEF Types
    <3>1. /\ UNCHANGED <<fault, nextFile, request>> /\ vpc' = [vpc EXCEPT ![v] = "gone"]
          /\ pending' = [pending EXCEPT ![v] = {}] /\ files' = [files EXCEPT ![v] = {}]
      BY <2>18 DEF DropReceiver, GoTo, vmUnchanged
    <3>2. \A u \in VM : u # v => files'[u] = files[u] /\ pending'[u] = pending[u] /\ vpc'[u] = vpc[u]
      BY <3>1 DEF Types
    <3>3. files'[v] = {} /\ pending'[v] = {} /\ vpc'[v] \notin Submission
      BY <3>1 DEF Types, Submission
    <3>4. Tidy(files'[v], nextFile'[v], pending'[v], vpc'[v] \in Submission, request'[v].handle)
      BY <3>3 DEF Tidy
    <3> QED
      BY <3>1, <3>2, <3>4, HandlesLocal
  <2> QED
    BY <1>2, <2>1, <2>2, <2>3, <2>4, <2>5, <2>6, <2>7, <2>8, <2>9, <2>10, <2>11,
      <2>12, <2>13, <2>14, <2>15, <2>16, <2>17, <2>18 DEF VMStep
<1>3. ASSUME NEW w \in Worker, WorkerStep(w) PROVE HandlesOut'
  <2>1. CASE Take(w)
    BY <2>1, HandlesKept DEF Take, workerUnchanged, fileVars
  <2>2. CASE Start(w)
    BY <2>2, HandlesKept DEF Start, workerUnchanged, fileVars
  <2>3. CASE Check(w)
    BY <2>3, HandlesKept DEF Check, workerUnchanged, fileVars
  <2>4. CASE SendReply(w)
    BY <2>4, HandlesKept DEF SendReply, workerUnchanged, fileVars
  <2>5. CASE Notify(w)
    BY <2>5, HandlesKept DEF Notify, workerUnchanged, fileVars
  <2>6. CASE FinishJob(w)
    BY <2>6, HandlesKept DEF FinishJob, workerUnchanged, fileVars
  <2>7. CASE Discard(w)
    BY <2>7, HandlesKept DEF Discard, workerUnchanged, fileVars
  <2>8. CASE Return(w)
    BY <2>8, HandlesKept DEF Return, workerUnchanged, fileVars
  <2>9. CASE Spurious(w)
    BY <2>9, HandlesKept DEF Spurious, workerUnchanged, fileVars
  <2> QED
    BY <1>3, <2>1, <2>2, <2>3, <2>4, <2>5, <2>6, <2>7, <2>8, <2>9 DEF WorkerStep, WorkerMoves
<1>4. CASE DropSlot
  BY <1>4, HandlesKept DEF DropSlot, portalVars, fileVars
<1> QED
  BY <1>1, <1>2, <1>3, <1>4 DEF Next, Quiet

LEMMA HandlesOwned ==
    ASSUME HandlesOut PROVE OneOwner
<1> SUFFICES ASSUME NEW v \in VM
             PROVE  /\ fault[v] = "none"
                    /\ \A p \in pending[v] : p.handle \notin files[v]
                    /\ \A p, q \in pending[v] : p.handle = q.handle /\ p.handle # NoFile => p = q
  BY DEF OneOwner
<1>1. fault[v] = "none" /\ Tidy(files[v], nextFile[v], pending[v], vpc[v] \in Submission, request[v].handle)
  BY DEF HandlesOut
<1> QED
  BY <1>1 DEF Tidy, Loose

-----------------------------------------------------------------------------
(***************************************************************************)
(* The pool's counters count its workers.                                  *)
(***************************************************************************)
Count(f, P) == Cardinality({w \in Worker : f[w] \in P})
Started == Places \ {"none"}
Awake == Places \ {"none", "waiting"}

Counted ==
    /\ workers = Count(at, Started)
    /\ busy = Count(at, Occupied)
    /\ Len(queue) + busy <= workers \/ workers = Cardinality(Worker)
    /\ Count(at, Awake) >= Len(queue) \/ Count(at, Awake) = Cardinality(Worker)

LEMMA CountBounds ==
    ASSUME NEW f, NEW P
    PROVE  /\ IsFiniteSet({w \in Worker : f[w] \in P})
           /\ Count(f, P) \in Nat /\ Cardinality(Worker) \in Nat
           /\ Count(f, P) <= Cardinality(Worker)
<1>1. IsFiniteSet(Worker)
  BY HostAssumption
<1>2. {w \in Worker : f[w] \in P} \in SUBSET Worker
  OBVIOUS
<1> QED
  BY <1>1, <1>2, FS_Subset, FS_CardinalityType DEF Count

LEMMA CountMonotone ==
    ASSUME NEW f, NEW P, NEW Q, \A w \in Worker : f[w] \in P => f[w] \in Q
    PROVE  Count(f, P) <= Count(f, Q)
<1>1. {w \in Worker : f[w] \in P} \in SUBSET {w \in Worker : f[w] \in Q}
  OBVIOUS
<1> QED
  BY <1>1, CountBounds, FS_Subset DEF Count

\* g differs from f at most where w is.
Swapped(f, g, w) == \A u \in Worker : u # w => g[u] = f[u]

\* One worker moves: the count changes by what the worker was and is.
LEMMA Recount ==
    ASSUME NEW f, NEW g, NEW w \in Worker, Swapped(f, g, w), NEW P
    PROVE  /\ f[w] \in P /\ g[w] \in P => Count(g, P) = Count(f, P)
           /\ f[w] \notin P /\ g[w] \notin P => Count(g, P) = Count(f, P)
           /\ f[w] \in P /\ g[w] \notin P => Count(g, P) = Count(f, P) - 1
           /\ f[w] \notin P /\ g[w] \in P => Count(g, P) = Count(f, P) + 1
<1> DEFINE F == {u \in Worker : f[u] \in P}
           G == {u \in Worker : g[u] \in P}
<1>1. IsFiniteSet(F) /\ IsFiniteSet(G) /\ Cardinality(F) \in Nat
  BY CountBounds DEF Count
<1>2. CASE (f[w] \in P) = (g[w] \in P)
  <2>1. F = G
    BY <1>2 DEF Swapped
  <2> QED
    BY <2>1, <1>2 DEF Count
<1>3. CASE f[w] \in P /\ g[w] \notin P
  <2>1. G = F \ {w} /\ w \in F
    BY <1>3 DEF Swapped
  <2> HIDE DEF F, G
  <2>2. Cardinality(G) = Cardinality(F) - 1
    BY <1>1, <2>1, FS_RemoveElement
  <2> QED
    BY <1>3, <2>2 DEF Count, F, G
<1>4. CASE f[w] \notin P /\ g[w] \in P
  <2>1. G = F \cup {w} /\ w \notin F
    BY <1>4 DEF Swapped
  <2> HIDE DEF F, G
  <2>2. Cardinality(G) = Cardinality(F) + 1
    BY <1>1, <2>1, FS_AddElement
  <2> QED
    BY <1>4, <2>2 DEF Count, F, G
<1> QED
  BY <1>2, <1>3, <1>4

\* A worker moves between two places, at both of which it is started.
LEMMA WorkerMoved ==
    ASSUME NEW f, NEW g, NEW w \in Worker, Swapped(f, g, w),
           f[w] \in Started, g[w] \in Started
    PROVE  /\ Count(g, Started) = Count(f, Started)
           /\ f[w] # "waiting" /\ g[w] # "waiting" => Count(g, Awake) = Count(f, Awake)
           /\ f[w] = "waiting" /\ g[w] # "waiting" => Count(g, Awake) = Count(f, Awake) + 1
           /\ f[w] \in Occupied /\ g[w] \in Occupied => Count(g, Occupied) = Count(f, Occupied)
           /\ f[w] \notin Occupied /\ g[w] \notin Occupied => Count(g, Occupied) = Count(f, Occupied)
           /\ f[w] \in Occupied /\ g[w] \notin Occupied => Count(g, Occupied) = Count(f, Occupied) - 1
           /\ f[w] \notin Occupied /\ g[w] \in Occupied => Count(g, Occupied) = Count(f, Occupied) + 1
<1>1. /\ f[w] \in Awake <=> f[w] # "waiting"
      /\ g[w] \in Awake <=> g[w] # "waiting"
  BY DEF Started, Awake
<1>2. Count(g, Started) = Count(f, Started)
  BY Recount
<1>3. /\ f[w] # "waiting" /\ g[w] # "waiting" => Count(g, Awake) = Count(f, Awake)
      /\ f[w] = "waiting" /\ g[w] # "waiting" => Count(g, Awake) = Count(f, Awake) + 1
  BY <1>1, Recount
<1> QED
  BY <1>2, <1>3, Recount

\* The move of a worker, seen at the worker.
LEMMA Stepped ==
    ASSUME Types, NEW w \in Worker, NEW where, at' = [at EXCEPT ![w] = where]
    PROVE  at'[w] = where /\ Swapped(at, at', w)
  BY DEF Types, HostTypeOK, Swapped

\* The counts as Submit leaves them.
LEMMA SubmitCounts ==
    ASSUME Types, Counted, NEW v \in VM, Submit(v)
    PROVE  Counted'
<1> DEFINE N == Cardinality(Worker)
<1>1. /\ at \in [Worker -> Places] /\ queue \in Seq(Job) /\ Len(queue) \in Nat
      /\ busy' = busy /\ Len(queue') = Len(queue) + 1
  BY SubmitMove DEF Types, HostTypeOK, Places, Submit
<1>2. ASSUME NEW f, NEW P
      PROVE  Count(f, P) \in Nat /\ N \in Nat /\ Count(f, P) <= N
  BY CountBounds
<1>3. ASSUME NEW f \in [Worker -> Places], NEW g \in Notified(f)
      PROVE  /\ Count(g, Started) = Count(f, Started)
             /\ Count(g, Occupied) = Count(f, Occupied)
             /\ \/ Count(g, Awake) = Count(f, Awake) + 1
                \/ Count(g, Awake) = Count(f, Awake) /\ Count(f, Awake) = Count(f, Started)
  <2>1. CASE {w \in Worker : f[w] = "waiting"} = {}
    <3>1. g = f
      BY <1>3, <2>1 DEF Notified
    <3>2. {w \in Worker : f[w] \in Awake} = {w \in Worker : f[w] \in Started}
      BY <2>1 DEF Awake, Started
    <3> QED
      BY <3>1, <3>2 DEF Count
  <2>2. CASE {w \in Worker : f[w] = "waiting"} # {}
    <3>1. PICK w \in Worker : f[w] = "waiting" /\ g = [f EXCEPT ![w] = "check"]
      BY <1>3, <2>2 DEF Notified
    <3>2. f[w] = "waiting" /\ g[w] = "check" /\ Swapped(f, g, w)
      BY <3>1 DEF Swapped
    <3>3. /\ "waiting" \in Started /\ "check" \in Started
          /\ "waiting" \notin Occupied /\ "check" \notin Occupied
          /\ "waiting" \notin Awake /\ "check" \in Awake
      BY DEF Started, Occupied, Awake, Places
    <3>4. Count(g, Started) = Count(f, Started)
      BY <3>2, <3>3, Recount
    <3>5. Count(g, Occupied) = Count(f, Occupied)
      BY <3>2, <3>3, Recount
    <3>6. Count(g, Awake) = Count(f, Awake) + 1
      BY <3>2, <3>3, Recount
    <3> QED
      BY <3>4, <3>5, <3>6
  <2> QED
    BY <2>1, <2>2
<1>4. CASE NeedsWorker
  <2>1. PICK w \in {u \in Worker : at[u] = "none"} : at' \in Notified([at EXCEPT ![w] = "check"])
    BY <1>4 DEF Submit
  <2>2. workers' = workers + 1 /\ workers < N
    BY <1>4 DEF Submit, NeedsWorker
  <2>3. PICK f : f = [at EXCEPT ![w] = "check"]
    OBVIOUS
  <2>4. f \in [Worker -> Places] /\ f[w] = "check" /\ Swapped(at, f, w)
    BY <1>1, <2>3 DEF Places, Swapped
  <2>5. /\ "none" \notin Started /\ "check" \in Started
        /\ "none" \notin Occupied /\ "check" \notin Occupied
        /\ "none" \notin Awake /\ "check" \in Awake
    BY DEF Started, Occupied, Awake, Places
  <2>6. Count(f, Started) = Count(at, Started) + 1
    BY <2>1, <2>4, <2>5, Recount
  <2>7. Count(f, Occupied) = Count(at, Occupied)
    BY <2>1, <2>4, <2>5, Recount
  <2>8. Count(f, Awake) = Count(at, Awake) + 1
    BY <2>1, <2>4, <2>5, Recount
  <2>9. /\ Count(at', Started) = Count(f, Started)
        /\ Count(at', Occupied) = Count(f, Occupied)
        /\ Count(at', Awake) >= Count(f, Awake)
    <3>1. at' \in Notified(f)
      BY <2>1, <2>3
    <3> HIDE <2>3
    <3>2. Count(f, Awake) \in Nat /\ Count(at', Awake) \in Nat
      BY <1>2
    <3> QED
      BY <1>3, <2>4, <3>1, <3>2
  <2>10. Count(at, Awake) \in Nat /\ N \in Nat /\ Count(at', Awake) \in Nat /\ Count(at', Awake) <= N
    BY <1>2
  <2>11. Count(at, Started) \in Nat /\ Count(at, Occupied) \in Nat
    BY <1>2
  <2> QED
    BY <1>1, <2>2, <2>6, <2>7, <2>8, <2>9, <2>10, <2>11 DEF Counted
<1>5. CASE ~NeedsWorker
  <2>1. at' \in Notified(at) /\ workers' = workers
    BY <1>5 DEF Submit
  <2>2. /\ Count(at', Started) = Count(at, Started)
        /\ Count(at', Occupied) = Count(at, Occupied)
        /\ \/ Count(at', Awake) = Count(at, Awake) + 1
           \/ Count(at', Awake) = Count(at, Awake) /\ Count(at, Awake) = Count(at, Started)
    BY <1>1, <1>3, <2>1
  <2>3. /\ Count(at, Awake) \in Nat /\ N \in Nat /\ Count(at', Awake) \in Nat /\ Count(at', Awake) <= N
        /\ Count(at, Started) \in Nat /\ Count(at, Occupied) \in Nat /\ Count(at, Started) <= N
    BY <1>2
  <2>4. ~(workers < N) \/ ~(Len(queue) + busy >= workers)
    BY <1>5 DEF NeedsWorker
  <2> QED
    BY <1>1, <2>1, <2>2, <2>3, <2>4 DEF Counted
<1> QED
  BY <1>4, <1>5


LEMMA PoolKept ==
    ASSUME Counted, UNCHANGED <<queue, workers, busy, at>>
    PROVE  Counted'
  BY DEF Counted

LEMMA WorkerSame ==
    ASSUME Counted, NEW w \in Worker, at[w] \in Occupied, at'[w] \in Occupied, Swapped(at, at', w),
           UNCHANGED <<queue, workers, busy>>
    PROVE  Counted'
<1>1. at[w] \in Started /\ at'[w] \in Started /\ at[w] # "waiting" /\ at'[w] # "waiting"
  BY DEF Places, Started, Occupied
<1>2. /\ Count(at', Started) = Count(at, Started) /\ Count(at', Awake) = Count(at, Awake)
      /\ Count(at', Occupied) = Count(at, Occupied)
  BY <1>1, WorkerMoved
<1> QED
  BY <1>2 DEF Counted

LEMMA CountedStep ==
    ASSUME Types, Counted, [Next]_vars
    PROVE  Counted'
<1>1. CASE UNCHANGED vars
  BY <1>1, PoolKept DEF vars, poolVars
<1>2. ASSUME NEW v \in VM, VMStep(v) PROVE Counted'
  <2>1. CASE Ask(v)
    BY <2>1, PoolKept DEF Ask, poolVars
  <2>2. CASE CloseFile(v)
    BY <2>2, PoolKept DEF CloseFile, poolVars
  <2>3. CASE ReserveSlot(v)
    BY <2>3, PoolKept DEF ReserveSlot, poolVars
  <2>4. CASE ReserveBytes(v)
    BY <2>4, PoolKept DEF ReserveBytes, poolVars
  <2>5. CASE Rollback(v)
    BY <2>5, PoolKept DEF Rollback, poolVars
  <2>6. CASE SubmitFails(v)
    BY <2>6, PoolKept DEF SubmitFails, poolVars
  <2>7. CASE Submit(v)
    BY <2>7, SubmitCounts
  <2>8. CASE EnterWait(v)
    BY <2>8, PoolKept DEF EnterWait, vmUnchanged, poolVars
  <2>9. CASE EnterTurn(v)
    BY <2>9, PoolKept DEF EnterTurn, vmUnchanged, poolVars
  <2>10. CASE Install(v)
    BY <2>10, PoolKept DEF Install, vmUnchanged, poolVars
  <2>11. CASE Drain(v)
    BY <2>11, PoolKept DEF Drain, vmUnchanged, poolVars
  <2>12. CASE Collect(v)
    BY <2>12, PoolKept DEF Collect, vmUnchanged, poolVars
  <2>13. CASE CollectNone(v)
    BY <2>13, PoolKept DEF CollectNone, vmUnchanged, poolVars
  <2>14. CASE PollReturns(v)
    BY <2>14, PoolKept DEF PollReturns, vmUnchanged, poolVars
  <2>15. CASE Exit(v)
    BY <2>15, PoolKept DEF Exit, vmUnchanged, poolVars
  <2>16. CASE RaiseFlag(v)
    BY <2>16, PoolKept DEF RaiseFlag, poolVars
  <2>17. CASE CancelQueue(v)
    <3>0. queue' \in Seq(Job)
      BY TypesStep DEF Types, HostTypeOK
    <3>3. UNCHANGED <<at, workers, busy>>
      BY <2>17 DEF CancelQueue
    <3>4. Len(queue') <= Len(queue)
      BY <2>17, CancelMove
    <3>1. UNCHANGED <<at, workers, busy>> /\ Len(queue') <= Len(queue) /\ Len(queue') \in Nat
      BY <3>0, <3>3, <3>4
    <3>2. Count(at, Occupied) \in Nat /\ Count(at, Awake) \in Nat /\ Count(at, Started) \in Nat
      BY CountBounds
    <3> QED
      BY <3>1, <3>2, Len(queue) \in Nat DEF Counted, Types, HostTypeOK
  <2>18. CASE DropReceiver(v)
    BY <2>18, PoolKept DEF DropReceiver, vmUnchanged, poolVars
  <2> QED
    BY <1>2, <2>1, <2>2, <2>3, <2>4, <2>5, <2>6, <2>7, <2>8, <2>9, <2>10, <2>11,
      <2>12, <2>13, <2>14, <2>15, <2>16, <2>17, <2>18 DEF VMStep
<1>3. ASSUME NEW w \in Worker, WorkerStep(w) PROVE Counted'
  <2>1. CASE Take(w)
    <3>1. at[w] = "check" /\ workers' = workers
      BY <2>1 DEF Take, workerUnchanged
    <3>2. CASE queue = <<>>
      <4>1. at' = [at EXCEPT ![w] = "waiting"] /\ UNCHANGED <<queue, busy>>
        BY <2>1, <3>2 DEF Take, Step
      <4>2. Count(at', Started) = Count(at, Started) /\ Count(at', Occupied) = Count(at, Occupied)
        <5>1. at[w] = "check" /\ at'[w] = "waiting" /\ Swapped(at, at', w)
          BY <3>1, <4>1, Stepped
        <5> QED
          BY <5>1, WorkerMoved DEF Places, Started, Occupied
      <4>3. Count(at', Awake) \in Nat /\ Len(queue) = 0
        BY <3>2, CountBounds
      <4> QED
        BY <3>1, <4>1, <4>2, <4>3 DEF Counted
    <3>3. CASE queue # <<>>
      <4>1. at' = [at EXCEPT ![w] = "taken"] /\ queue' = Tail(queue) /\ busy' = busy + 1
        BY <2>1, <3>3 DEF Take, Step
      <4>2. /\ Count(at', Started) = Count(at, Started) /\ Count(at', Awake) = Count(at, Awake)
            /\ Count(at', Occupied) = Count(at, Occupied) + 1
        <5>1. at[w] = "check" /\ at'[w] = "taken" /\ Swapped(at, at', w)
          BY <3>1, <4>1, Stepped
        <5> QED
          BY <5>1, WorkerMoved DEF Places, Started, Occupied
      <4>3. Len(queue') = Len(queue) - 1 /\ Len(queue) \in Nat
        BY <3>3, <4>1 DEF Types, HostTypeOK
      <4>4. Count(at, Occupied) \in Nat /\ Count(at, Awake) \in Nat /\ Count(at, Started) \in Nat
        BY CountBounds
      <4> QED
        BY SMTT(30), <3>1, <4>1, <4>2, <4>3, <4>4 DEF Counted
    <3> QED
      BY <3>2, <3>3
  <2>2. CASE Start(w)
    <3>1. PICK where \in {"finish", "running"} : at' = [at EXCEPT ![w] = where]
      BY <2>2 DEF Start, Step
    <3>2. at[w] = "taken" /\ UNCHANGED <<queue, workers, busy>>
      BY <2>2 DEF Start, workerUnchanged
    <3>3. at[w] \in Occupied /\ at'[w] \in Occupied /\ Swapped(at, at', w)
      BY <3>1, <3>2, Stepped DEF Occupied
    <3> QED
      BY <3>2, <3>3, WorkerSame
  <2>3. CASE Check(w)
    <3>1. PICK where \in {"finish", "send"} : at' = [at EXCEPT ![w] = where]
      BY <2>3 DEF Check, Step
    <3>2. at[w] = "ran" /\ UNCHANGED <<queue, workers, busy>>
      BY <2>3 DEF Check, workerUnchanged
    <3>3. at[w] \in Occupied /\ at'[w] \in Occupied /\ Swapped(at, at', w)
      BY <3>1, <3>2, Stepped DEF Occupied
    <3> QED
      BY <3>2, <3>3, WorkerSame
  <2>4. CASE SendReply(w)
    <3>1. PICK where \in {"finish", "notify"} : at' = [at EXCEPT ![w] = where]
      BY <2>4 DEF SendReply, Step
    <3>2. at[w] = "send" /\ UNCHANGED <<queue, workers, busy>>
      BY <2>4 DEF SendReply, workerUnchanged
    <3>3. at[w] \in Occupied /\ at'[w] \in Occupied /\ Swapped(at, at', w)
      BY <3>1, <3>2, Stepped DEF Occupied
    <3> QED
      BY <3>2, <3>3, WorkerSame
  <2>5. CASE Notify(w)
    <3>1. PICK where \in {"finish"} : at' = [at EXCEPT ![w] = where]
      BY <2>5 DEF Notify, Step
    <3>2. at[w] = "notify" /\ UNCHANGED <<queue, workers, busy>>
      BY <2>5 DEF Notify, workerUnchanged
    <3>3. at[w] \in Occupied /\ at'[w] \in Occupied /\ Swapped(at, at', w)
      BY <3>1, <3>2, Stepped DEF Occupied
    <3> QED
      BY <3>2, <3>3, WorkerSame
  <2>6. CASE FinishJob(w)
    <3>1. PICK where \in {"check", "discard"} : at' = [at EXCEPT ![w] = where]
      BY <2>6 DEF FinishJob, Step
    <3>2. at[w] = "finish" /\ UNCHANGED <<queue, workers>> /\ busy' = busy - 1
      BY <2>6 DEF FinishJob, workerUnchanged
    <3>3. /\ Count(at', Started) = Count(at, Started) /\ Count(at', Awake) = Count(at, Awake)
          /\ Count(at', Occupied) = Count(at, Occupied) - 1
      <4>1. at[w] = "finish" /\ at'[w] \in {"check", "discard"} /\ Swapped(at, at', w)
        BY <3>1, <3>2, Stepped
      <4> QED
        BY <4>1, WorkerMoved DEF Places, Started, Occupied
    <3>4. Count(at, Occupied) \in Nat /\ Count(at, Started) \in Nat
      BY CountBounds
    <3> QED
      BY <3>2, <3>3, <3>4, Len(queue) \in Nat DEF Counted, Types, HostTypeOK
  <2>7. CASE Discard(w)
    <3>1. at[w] = "discard" /\ at' = [at EXCEPT ![w] = "check"] /\ UNCHANGED <<queue, workers, busy>>
      BY <2>7 DEF Discard, Step, workerUnchanged
    <3>2. /\ Count(at', Started) = Count(at, Started) /\ Count(at', Awake) = Count(at, Awake)
          /\ Count(at', Occupied) = Count(at, Occupied)
      <4>1. at[w] = "discard" /\ at'[w] = "check" /\ Swapped(at, at', w)
        BY <3>1, Stepped
      <4> QED
        BY <4>1, WorkerMoved DEF Places, Started, Occupied
    <3> QED
      BY <3>1, <3>2 DEF Counted
  <2>8. CASE Return(w)
    <3>1. PICK where \in {"ran"} : at' = [at EXCEPT ![w] = where]
      BY <2>8 DEF Return, Step
    <3>2. at[w] = "running" /\ UNCHANGED <<queue, workers, busy>>
      BY <2>8 DEF Return, workerUnchanged
    <3>3. at[w] \in Occupied /\ at'[w] \in Occupied /\ Swapped(at, at', w)
      BY <3>1, <3>2, Stepped DEF Occupied
    <3> QED
      BY <3>2, <3>3, WorkerSame
  <2>9. CASE Spurious(w)
    <3>1. at[w] = "waiting" /\ at' = [at EXCEPT ![w] = "check"] /\ UNCHANGED <<queue, workers, busy>>
      BY <2>9 DEF Spurious, Step, workerUnchanged
    <3>2. /\ Count(at', Started) = Count(at, Started) /\ Count(at', Awake) = Count(at, Awake) + 1
          /\ Count(at', Occupied) = Count(at, Occupied)
      <4>1. at[w] = "waiting" /\ at'[w] = "check" /\ Swapped(at, at', w)
        BY <3>1, Stepped
      <4> QED
        BY <4>1, WorkerMoved DEF Places, Started, Occupied
    <3>3. Count(at', Awake) <= Cardinality(Worker) /\ Count(at, Awake) \in Nat /\ Cardinality(Worker) \in Nat
      BY CountBounds
    <3> QED
      BY <3>1, <3>2, <3>3, Len(queue) \in Nat DEF Counted, Types, HostTypeOK
  <2> QED
    BY <1>3, <2>1, <2>2, <2>3, <2>4, <2>5, <2>6, <2>7, <2>8, <2>9 DEF WorkerStep, WorkerMoves
<1>4. CASE DropSlot
  BY <1>4, PoolKept DEF DropSlot, poolVars
<1> QED
  BY <1>1, <1>2, <1>3, <1>4 DEF Next, Quiet


LEMMA CountedExact ==
    ASSUME Types, Counted
    PROVE  /\ workers = Cardinality({w \in Worker : at[w] # "none"})
           /\ busy = Cardinality({w \in Worker :
                         at[w] \in {"taken", "running", "ran", "send", "notify", "finish"}})
           /\ Len(queue) + busy <= workers \/ workers = Cardinality(Worker)
           /\ NoJobOverslept
<1>1. \A w \in Worker : at[w] \in Places
  BY DEF Types, HostTypeOK, Places
<1>2. {w \in Worker : at[w] # "none"} = {w \in Worker : at[w] \in Started}
  BY <1>1 DEF Started
<1>3. {w \in Worker : at[w] \notin {"none", "waiting"}} = {w \in Worker : at[w] \in Awake}
  BY <1>1 DEF Awake
<1> QED
  BY <1>2, <1>3 DEF Counted, Count, Occupied, NoJobOverslept

-----------------------------------------------------------------------------
(***************************************************************************)
(* Bytes adds up over leases.                                              *)
(***************************************************************************)
Spread(S) == UNION {{l} \X (1 .. l.bytes) : l \in S}
Sized(S) == IsFiniteSet(S) /\ \A l \in S : l.bytes \in Nat

LEMMA FiniteBlock ==
    ASSUME NEW x, NEW n \in Nat
    PROVE  IsFiniteSet({x} \X (1 .. n)) /\ Cardinality({x} \X (1 .. n)) = n
<1>1. IsFiniteSet(1 .. n) /\ Cardinality(1 .. n) = n
  BY FS_Interval
<1>2. IsFiniteSet({x}) /\ Cardinality({x}) = 1
  BY FS_Singleton
<1>3. /\ IsFiniteSet({x} \X (1 .. n))
      /\ Cardinality({x} \X (1 .. n)) = Cardinality({x}) * Cardinality(1 .. n)
  BY <1>1, <1>2, FS_Product
<1> QED
  BY <1>1, <1>2, <1>3

LEMMA SpreadFinite ==
    ASSUME NEW S, Sized(S)
    PROVE  IsFiniteSet(Spread(S)) /\ Bytes(S) = Cardinality(Spread(S)) /\ Bytes(S) \in Nat
<1> DEFINE F == {{l} \X (1 .. l.bytes) : l \in S}
           f == [l \in S |-> {l} \X (1 .. l.bytes)]
<1>1. f \in Surjection(S, F)
  BY DEF Surjection
<1>2. IsFiniteSet(F)
  BY <1>1, FS_Surjection DEF Sized
<1>a. ASSUME NEW l \in S PROVE IsFiniteSet({l} \X (1 .. l.bytes))
  BY FiniteBlock DEF Sized
<1>3. \A T \in F : IsFiniteSet(T)
  BY <1>a
<1>4. IsFiniteSet(UNION F)
  BY <1>2, <1>3, FS_UNION
<1> QED
  BY <1>4, FS_CardinalityType DEF Spread, Bytes

LEMMA BytesAdd ==
    ASSUME NEW S, Sized(S), NEW x, x \notin S, x.bytes \in Nat
    PROVE  /\ Sized(S \cup {x})
           /\ Bytes(S \cup {x}) = Bytes(S) + x.bytes
           /\ Cardinality(S \cup {x}) = Cardinality(S) + 1
<1> DEFINE A == {x} \X (1 .. x.bytes)
<1>1. Sized(S \cup {x}) /\ Cardinality(S \cup {x}) = Cardinality(S) + 1
  BY FS_AddElement DEF Sized
<1>2. IsFiniteSet(A) /\ Cardinality(A) = x.bytes
  BY FiniteBlock
<1>3. IsFiniteSet(Spread(S)) /\ Bytes(S) = Cardinality(Spread(S)) /\ Bytes(S) \in Nat
  BY SpreadFinite
<1>4. Bytes(S \cup {x}) = Cardinality(Spread(S \cup {x}))
  BY <1>1, SpreadFinite
<1>5. Spread(S \cup {x}) = Spread(S) \cup A
  BY DEF Spread
<1>6. Spread(S) \cap A = {}
  BY DEF Spread
<1> HIDE DEF A
<1>7. Cardinality(Spread(S) \cup A) = Cardinality(Spread(S)) + Cardinality(A) - Cardinality(Spread(S) \cap A)
  BY <1>2, <1>3, FS_Union
<1>8. Cardinality(Spread(S) \cap A) = 0
  BY <1>6, FS_EmptySet
<1>9. Bytes(S \cup {x}) = Bytes(S) + x.bytes - 0
  BY <1>2, <1>3, <1>4, <1>5, <1>7, <1>8
<1>10. Bytes(S) + x.bytes - 0 = Bytes(S) + x.bytes
  BY <1>3
<1> QED
  BY <1>1, <1>9, <1>10

LEMMA BytesMinus ==
    ASSUME NEW S, Sized(S), NEW D \in SUBSET S
    PROVE  /\ Sized(S \ D) /\ Sized(D)
           /\ Bytes(S \ D) = Bytes(S) - Bytes(D)
           /\ Cardinality(S \ D) = Cardinality(S) - Cardinality(D)
           /\ Cardinality(S) \in Nat /\ Cardinality(D) \in Nat
           /\ Bytes(S) \in Nat /\ Bytes(D) \in Nat
<1>1. IsFiniteSet(S) /\ IsFiniteSet(D) /\ S \cap D = D
  BY FS_Subset DEF Sized
<1>2. IsFiniteSet(S \ D) /\ Cardinality(S \ D) = Cardinality(S) - Cardinality(D)
  BY <1>1, FS_Difference
<1>3. Sized(S \ D) /\ Sized(D)
  BY <1>1, <1>2 DEF Sized
<1>4. /\ IsFiniteSet(Spread(S)) /\ Bytes(S) = Cardinality(Spread(S)) /\ Bytes(S) \in Nat
  BY SpreadFinite
<1>5. /\ Bytes(D) = Cardinality(Spread(D)) /\ Bytes(D) \in Nat
      /\ Bytes(S \ D) = Cardinality(Spread(S \ D))
  BY <1>3, SpreadFinite
<1>6. Spread(S \ D) = Spread(S) \ Spread(D) /\ Spread(S) \cap Spread(D) = Spread(D)
  BY DEF Spread
<1>7. Cardinality(Spread(S) \ Spread(D)) = Cardinality(Spread(S)) - Cardinality(Spread(D))
  BY ZenonT(60), <1>4, <1>6, FS_Difference
<1>8. Cardinality(S) \in Nat /\ Cardinality(D) \in Nat
  BY <1>1, FS_CardinalityType
<1> QED
  BY <1>2, <1>3, <1>4, <1>5, <1>6, <1>7, <1>8

\* Taking one lease away.
LEMMA BytesRemove ==
    ASSUME NEW S, Sized(S), NEW x \in S
    PROVE  /\ Bytes(S \ {x}) = Bytes(S) - x.bytes
           /\ Cardinality(S \ {x}) = Cardinality(S) - 1
           /\ Cardinality(S) \in Nat /\ Bytes(S) \in Nat
<1>1. {x} \in SUBSET S /\ x.bytes \in Nat
  BY DEF Sized
<1>2. /\ Bytes(S \ {x}) = Bytes(S) - Bytes({x})
      /\ Cardinality(S \ {x}) = Cardinality(S) - Cardinality({x})
      /\ Cardinality(S) \in Nat /\ Bytes(S) \in Nat
  BY <1>1, BytesMinus
<1>3. Cardinality({x}) = 1
  BY FS_Singleton
<1>4. Bytes({x}) = x.bytes
  <2>1. UNION {{l} \X (1 .. l.bytes) : l \in {x}} = {x} \X (1 .. x.bytes)
    OBVIOUS
  <2> QED
    BY <1>1, <2>1, FiniteBlock DEF Bytes
<1> QED
  BY <1>2, <1>3, <1>4

\* The units of the jobs at some positions are the bytes of their leases, when no
\* two of these positions have the same lease.
Faithful(s, K, L, D) ==
    /\ IsFiniteSet(K) /\ L \in [K -> D]
    /\ \A k \in K : s[k].bytes \in Nat /\ L[k].bytes = s[k].bytes
    /\ \A j, k \in K : L[j] = L[k] => j = k
    /\ \A d \in D : \E k \in K : L[k] = d

LEMMA UnitsAreBytes ==
    ASSUME NEW s, NEW K, NEW L, NEW D, Faithful(s, K, L, D)
    PROVE  Cardinality(D) = Cardinality(K) /\ Bytes(D) = Cardinality(Units(s, K))
<1>0. /\ IsFiniteSet(K) /\ L \in [K -> D]
      /\ \A k \in K : s[k].bytes \in Nat /\ L[k].bytes = s[k].bytes
      /\ \A j, k \in K : L[j] = L[k] => j = k
      /\ \A d \in D : \E k \in K : L[k] = d
  BY DEF Faithful
<1>1. L \in Bijection(K, D)
  BY <1>0 DEF Bijection, Injection, Surjection, IsInjective
<1>2. ExistsBijection(K, D)
  BY <1>1 DEF ExistsBijection
<1>3. IsFiniteSet(D) /\ Cardinality(D) = Cardinality(K)
  BY <1>0, <1>2, FS_Bijection
<1>4. Sized(D)
  BY <1>0, <1>3 DEF Sized
<1>5. Bytes(D) = Cardinality(Spread(D))
  BY <1>4, SpreadFinite
<1>6. IsFiniteSet(Units(s, K))
  BY <1>0, FiniteUnits
<1> DEFINE U == Units(s, K)
           V == Spread(D)
           h == [u \in U |-> <<L[u[1]], u[2]>>]
<1>7. \A u : u \in U <=> \E k \in K : \E i \in 1 .. s[k].bytes : u = <<k, i>>
  BY <1>0 DEF Units
<1>8. \A x : x \in V <=> \E k \in K : \E i \in 1 .. s[k].bytes : x = <<L[k], i>>
  BY <1>0 DEF Spread
<1> HIDE DEF U, V
<1>9. h \in [U -> V]
  BY <1>0, <1>7, <1>8
<1>10. \A a, b \in U : h[a] = h[b] => a = b
  BY <1>0, <1>7
<1>11. \A x \in V : \E u \in U : h[u] = x
  <2> SUFFICES ASSUME NEW x \in V PROVE \E u \in U : h[u] = x
    OBVIOUS
  <2>0. PICK k \in K : \E i \in 1 .. s[k].bytes : x = <<L[k], i>>
    BY <1>8
  <2>1. PICK i \in 1 .. s[k].bytes : x = <<L[k], i>>
    BY <2>0
  <2>2. <<k, i>> \in U
    BY <1>7
  <2>3. h[<<k, i>>] = x
    BY <2>1, <2>2
  <2> QED
    BY <2>2, <2>3
<1>12. h \in Bijection(U, V)
  <2> HIDE DEF h
  <2> QED
    BY <1>9, <1>10, <1>11 DEF Bijection, Injection, Surjection, IsInjective
<1>13. Cardinality(V) = Cardinality(U)
  <2>1. ExistsBijection(U, V)
    BY <1>12 DEF ExistsBijection
  <2> QED
    BY <1>6, <2>1, FS_Bijection DEF U
<1> QED
  BY <1>3, <1>5, <1>13 DEF U, V

-----------------------------------------------------------------------------
(***************************************************************************)
(* The budget counts the leases.                                           *)
(***************************************************************************)
HalfDone == {v \in VM : vpc[v] \in {"bytes", "rollback"}}

Budgeted ==
    /\ usedJobs = Cardinality(Leases) + Cardinality(HalfDone) + dropping
    /\ usedBytes = Bytes(Leases)
    /\ usedJobs <= ArenaLimit
    /\ usedBytes <= ByteLimit

\* A step that neither reserves nor returns anything and moves no lease.
Settled ==
    /\ Kept
    /\ UNCHANGED <<usedJobs, usedBytes, dropping>>
    /\ HalfDone' = HalfDone /\ Submitting' = Submitting
    /\ \A v \in Submitting : request'[v] = request[v]

LEMMA VMSettled ==
    ASSUME Types, NEW v \in VM, VMStep(v),
           ~Submit(v), ~Collect(v), ~CancelQueue(v), ~DropReceiver(v),
           ~ReserveSlot(v), ~ReserveBytes(v), ~Rollback(v), ~SubmitFails(v)
    PROVE  Settled
<1>1. Kept
  BY VMKept
<1> SUFFICES /\ UNCHANGED <<usedJobs, usedBytes, dropping>>
             /\ HalfDone' = HalfDone /\ Submitting' = Submitting
             /\ \A u \in Submitting : request'[u] = request[u]
  BY <1>1 DEF Settled
<1>2. CASE Ask(v)
  <2>0. PICK handle, new : AskDone(v, handle, new)
    BY <1>2, AskEffect
  <2>1. \E where \in {"stop", "reserve"} : vpc' = [vpc EXCEPT ![v] = where]
    BY <2>0 DEF AskDone
  <2>2. request' = request \/ request' = [request EXCEPT ![v] = new]
    BY <2>0 DEF AskDone
  <2>3. UNCHANGED <<usedJobs, usedBytes, dropping>> /\ vpc[v] = "run"
    BY <1>2 DEF Ask, budgetVars
  <2>4. HalfDone' = HalfDone /\ Submitting' = Submitting
    BY <2>1, <2>3 DEF HalfDone, Submitting, Types
  <2>5. \A u \in Submitting : u # v /\ request'[u] = request[u]
    BY <2>2, <2>3 DEF Submitting, Types
  <2> QED
    BY <2>3, <2>4, <2>5
<1>3. CASE CloseFile(v)
  BY <1>3 DEF CloseFile, Taken, GoTo, poolVars, budgetVars, portalVars, wakeVars,
      HalfDone, Submitting, Types
<1>4. CASE EnterWait(v)
  BY <1>4 DEF EnterWait, GoTo, vmUnchanged, poolVars, budgetVars, fileVars, wakeVars,
      HalfDone, Submitting, Types
<1>5. CASE EnterTurn(v)
  BY <1>5 DEF EnterTurn, GoTo, vmUnchanged, poolVars, budgetVars, fileVars, wakeVars,
      HalfDone, Submitting, Types
<1>6. CASE Install(v)
  BY <1>6 DEF Install, GoTo, AfterStage, vmUnchanged, poolVars, budgetVars, fileVars,
      HalfDone, Submitting, Types
<1>7. CASE Drain(v)
  BY <1>7 DEF Drain, GoTo, AfterStage, vmUnchanged, poolVars, budgetVars, fileVars,
      HalfDone, Submitting, Types
<1>8. CASE CollectNone(v)
  BY <1>8 DEF CollectNone, GoTo, AfterStage, vmUnchanged, poolVars, budgetVars,
      fileVars, wakeVars, HalfDone, Submitting, Types
<1>9. CASE PollReturns(v)
  BY <1>9 DEF PollReturns, GoTo, vmUnchanged, poolVars, budgetVars, fileVars,
      wakeVars, HalfDone, Submitting, Types
<1>10. CASE Exit(v)
  BY <1>10 DEF Exit, GoTo, vmUnchanged, poolVars, budgetVars, fileVars, wakeVars,
      HalfDone, Submitting, Types
<1>11. CASE RaiseFlag(v)
  BY <1>11 DEF RaiseFlag, GoTo, poolVars, budgetVars, fileVars, wakeVars, HalfDone,
      Submitting, Types
<1> QED
  BY <1>2, <1>3, <1>4, <1>5, <1>6, <1>7, <1>8, <1>9, <1>10, <1>11 DEF VMStep


LEMMA WorkerSettled ==
    ASSUME Types, NEW w \in Worker, WorkerStep(w), ~(Take(w) /\ queue # <<>>), ~SendReply(w), ~Discard(w)
    PROVE  Settled
<1>1. Kept
  BY WorkerKept
<1>2. UNCHANGED <<usedJobs, usedBytes, dropping, vpc, request>>
  BY DEF WorkerStep, WorkerMoves, Take, Start, Check, Notify, FinishJob, Return, Spurious,
         workerUnchanged, budgetVars
<1> QED
  BY <1>1, <1>2 DEF Settled, HalfDone, Submitting

LEMMA BudgetMoves ==
    ASSUME Types, [Next]_vars
    PROVE  \/ Settled
           \/ DropSlot
           \/ \E v \in VM : \/ Submit(v) \/ Collect(v) \/ CancelQueue(v) \/ DropReceiver(v)
                            \/ ReserveSlot(v) \/ ReserveBytes(v) \/ Rollback(v) \/ SubmitFails(v)
           \/ \E w \in Worker : (Take(w) /\ queue # <<>>) \/ SendReply(w) \/ Discard(w)
<1>1. CASE UNCHANGED vars
  BY <1>1 DEF vars, poolVars, portalVars, budgetVars, Kept, Holding, Settled, HalfDone, Submitting
<1> QED
  BY <1>1, VMSettled, WorkerSettled DEF Next, Quiet

\* What it is to be a lease in the process.
LEMMA LeasesAre ==
    ASSUME NEW l
    PROVE  l \in Leases <=>
              \/ \E k \in DOMAIN queue : l = LeaseOf(queue[k])
              \/ \E w \in Holding : l = LeaseOf(job[w])
              \/ \E v \in VM : \E k \in DOMAIN replies[v] : l = ReplyLease(v, replies[v][k])
              \/ \E v \in Submitting : l = LeaseOf(request[v])
  BY DEF Leases, InFlight, QueueLeases, HeldLeases, ReplyLeases

LEMMA LeasesAreNext ==
    ASSUME NEW l
    PROVE  l \in Leases' <=>
              \/ \E k \in DOMAIN queue' : l = LeaseOf(queue'[k])
              \/ \E w \in Holding' : l = LeaseOf(job'[w])
              \/ \E v \in VM : \E k \in DOMAIN replies'[v] : l = ReplyLease(v, replies'[v][k])
              \/ \E v \in Submitting' : l = LeaseOf(request'[v])
  BY DEF Leases, InFlight, QueueLeases, HeldLeases, ReplyLeases, LeaseOf, ReplyLease

LEMMA LeaseFields ==
    ASSUME NEW j, NEW v, NEW r
    PROVE  /\ LeaseOf(j).vm = j.vm /\ LeaseOf(j).id = j.id /\ LeaseOf(j).bytes = j.bytes
           /\ ReplyLease(v, r).vm = v /\ ReplyLease(v, r).id = r.id
           /\ ReplyLease(v, r).bytes = r.bytes
  BY DEF LeaseOf, ReplyLease

LEMMA SameLease ==
    ASSUME NEW j, NEW v, NEW r, j.vm = v, j.id = r.id, j.bytes = r.bytes
    PROVE  LeaseOf(j) = ReplyLease(v, r)
  BY DEF LeaseOf, ReplyLease

LEMMA SubmittingRequests ==
    ASSUME Types, NEW v \in Submitting
    PROVE  /\ v \in VM /\ vpc[v] \in Submission /\ request[v] \in Job /\ request[v].vm = v
           /\ request[v].bytes \in Nat
<1>1. v \in VM /\ vpc[v] \in Submission /\ request[v] \in Job /\ request[v].vm = v
  BY DEF Submitting, Submission, Types
<1> QED
  BY <1>1, JobFields

LEMMA LeasesSized ==
    ASSUME Types
    PROVE  Sized(Leases)
<1>1. \A l \in Leases : l.bytes \in Nat
  BY LeasesAre, LeaseFields, FlightFields, SubmittingRequests
<1>2. IsFiniteSet(VM) /\ IsFiniteSet(Worker)
  BY HostAssumption
<1>3. IsFiniteSet(QueueLeases)
  <2> DEFINE f == [k \in DOMAIN queue |-> LeaseOf(queue[k])]
  <2>1. IsFiniteSet(DOMAIN queue)
    BY FS_Interval DEF Types, HostTypeOK
  <2>2. f \in Surjection(DOMAIN queue, QueueLeases)
    BY DEF Surjection, QueueLeases
  <2> QED
    BY <2>1, <2>2, FS_Surjection
<1>4. IsFiniteSet(HeldLeases)
  <2> DEFINE f == [w \in Holding |-> LeaseOf(job[w])]
  <2>0. Holding \in SUBSET Worker
    BY DEF Holding
  <2>1. IsFiniteSet(Holding)
    BY <1>2, <2>0, FS_Subset
  <2>2. f \in Surjection(Holding, HeldLeases)
    BY DEF Surjection, HeldLeases
  <2> QED
    BY <2>1, <2>2, FS_Surjection
<1>5. IsFiniteSet(ReplyLeases)
  <2> DEFINE R(v) == {ReplyLease(v, replies[v][k]) : k \in DOMAIN replies[v]}
             F == {R(v) : v \in VM}
             f == [v \in VM |-> R(v)]
  <2>1. ASSUME NEW v \in VM PROVE IsFiniteSet(R(v))
    <3> DEFINE g == [k \in DOMAIN replies[v] |-> ReplyLease(v, replies[v][k])]
    <3>1. IsFiniteSet(DOMAIN replies[v])
      BY FS_Interval DEF Types
    <3>2. g \in Surjection(DOMAIN replies[v], R(v))
      BY DEF Surjection
    <3> QED
      BY <3>1, <3>2, FS_Surjection
  <2>2. f \in Surjection(VM, F)
    BY DEF Surjection
  <2>3. IsFiniteSet(F)
    BY <1>2, <2>2, FS_Surjection
  <2>4. \A T \in F : IsFiniteSet(T)
    BY <2>1
  <2> QED
    BY <2>3, <2>4, FS_UNION DEF ReplyLeases
<1>6. IsFiniteSet({LeaseOf(request[v]) : v \in Submitting})
  <2> DEFINE f == [v \in Submitting |-> LeaseOf(request[v])]
  <2>0. Submitting \in SUBSET VM
    BY DEF Submitting
  <2>1. IsFiniteSet(Submitting)
    BY <1>2, <2>0, FS_Subset
  <2>2. f \in Surjection(Submitting, {LeaseOf(request[v]) : v \in Submitting})
    BY DEF Surjection
  <2> QED
    BY <2>1, <2>2, FS_Surjection
<1>7. IsFiniteSet(Leases)
  BY <1>3, <1>4, <1>5, <1>6, FS_Union DEF Leases, InFlight
<1> QED
  BY <1>1, <1>7 DEF Sized

\* Leases as the steps move them.
LEMMA LeasesKept ==
    ASSUME Kept, Submitting' = Submitting, \A v \in Submitting : request'[v] = request[v]
    PROVE  Leases' = Leases
  BY LeasesAre, LeasesAreNext DEF Kept

\* The lease of a job being submitted is no other job's.
LEMMA LeaseFresh ==
    ASSUME Types, Fresh, NEW v \in VM, vpc[v] \in Submission
    PROVE  /\ \A k \in DOMAIN queue : LeaseOf(queue[k]) # LeaseOf(request[v])
           /\ \A w \in Holding : LeaseOf(job[w]) # LeaseOf(request[v])
           /\ \A u \in VM : \A k \in DOMAIN replies[u] : ReplyLease(u, replies[u][k]) # LeaseOf(request[v])
           /\ \A u \in Submitting : u # v => LeaseOf(request[u]) # LeaseOf(request[v])
<1>1. request[v].vm = v
  BY DEF Types
<1>2. /\ \A k \in DOMAIN queue : queue[k].vm = v => queue[k].id # request[v].id
      /\ \A w \in Holding : job[w].vm = v => job[w].id # request[v].id
      /\ \A k \in DOMAIN replies[v] : replies[v][k].id # request[v].id
  BY SubmittedNew
<1>3. \A u \in Submitting : request[u].vm = u
  BY SubmittingRequests
<1> QED
  BY <1>1, <1>2, <1>3, LeaseFields

LEMMA ReserveLeases ==
    ASSUME Types, Fresh, NEW v \in VM, vpc[v] = "bytes", Kept, request' = request,
           Submitting' = Submitting \cup {v}
    PROVE  Leases' = Leases \cup {LeaseOf(request[v])} /\ LeaseOf(request[v]) \notin Leases
<1>1. vpc[v] \in Submission /\ v \notin Submitting
  BY DEF Submission, Submitting
<1>2. LeaseOf(request[v]) \notin Leases
  BY <1>1, LeaseFresh, LeasesAre
<1>3. ASSUME NEW l PROVE l \in Leases' <=> l \in Leases \/ l = LeaseOf(request[v])
  BY LeasesAre, LeasesAreNext DEF Kept
<1> QED
  BY <1>2, <1>3

LEMMA SubmitFailsLeases ==
    ASSUME Types, Fresh, NEW v \in VM, vpc[v] = "submit", Kept,
           \A u \in VM : u # v => request'[u] = request[u],
           Submitting' = Submitting \ {v}
    PROVE  Leases' = Leases \ {LeaseOf(request[v])} /\ LeaseOf(request[v]) \in Leases
<1>1. vpc[v] \in Submission /\ v \in Submitting /\ Submitting \subseteq VM
  BY DEF Submission, Submitting
<1>2. LeaseOf(request[v]) \in Leases
  BY <1>1, LeasesAre
<1>3. ASSUME NEW l \in Leases' PROVE l \in Leases /\ l # LeaseOf(request[v])
  BY <1>1, LeaseFresh, LeasesAre, LeasesAreNext DEF Kept
<1>4. ASSUME NEW l \in Leases, l # LeaseOf(request[v]) PROVE l \in Leases'
  BY <1>1, <1>4, LeasesAre, LeasesAreNext DEF Kept
<1> QED
  BY <1>2, <1>3, <1>4

LEMMA SubmitLeases ==
    ASSUME Types, NEW v \in VM, Submit(v)
    PROVE  Leases' = Leases /\ HalfDone' = HalfDone
<1>1. /\ vpc[v] = "submit" /\ vpc' = [vpc EXCEPT ![v] = "run"]
      /\ request' = [request EXCEPT ![v] = NoJob]
  BY DEF Submit, GoTo
<1>2. /\ Submitting' = Submitting \ {v} /\ v \in Submitting /\ Submitting \subseteq VM
      /\ HalfDone' = HalfDone
  BY <1>1 DEF Submitting, HalfDone, Types
<1>3. \A u \in VM : u # v => request'[u] = request[u]
  BY <1>1 DEF Types
<1>4. PICK last : last = Len(queue) + 1
  OBVIOUS
<1>5. /\ replies' = replies /\ Holding' = Holding /\ \A u \in Holding : job'[u] = job[u]
      /\ DOMAIN queue' = DOMAIN queue \cup {last}
      /\ \A k \in DOMAIN queue : queue'[k] = queue[k]
      /\ queue'[last] = request[v]
  BY <1>4, SubmitMove
<1>6. ASSUME NEW l \in Leases' PROVE l \in Leases
  BY <1>2, <1>3, <1>5, LeasesAre, LeasesAreNext
<1>7. ASSUME NEW l \in Leases PROVE l \in Leases'
  BY <1>2, <1>3, <1>5, LeasesAre, LeasesAreNext
<1> QED
  BY <1>2, <1>6, <1>7

LEMMA TakeLeases ==
    ASSUME Types, NEW w \in Worker, Take(w), queue # <<>>
    PROVE  Leases' = Leases
<1>1. /\ replies' = replies /\ Holding' = Holding \cup {w} /\ w \notin Holding
      /\ \A u \in Holding : job'[u] = job[u]
      /\ job'[w] = queue[1] /\ 1 \in DOMAIN queue
      /\ \A k \in DOMAIN queue' : k + 1 \in DOMAIN queue /\ queue'[k] = queue[k + 1]
      /\ \A k \in DOMAIN queue : k # 1 => k - 1 \in DOMAIN queue' /\ queue'[k - 1] = queue[k]
  BY TakeMove
<1>2. Submitting' = Submitting /\ request' = request
  BY DEF Take, workerUnchanged, Submitting
<1>3. ASSUME NEW l \in Leases' PROVE l \in Leases
  BY <1>1, <1>2, LeasesAre, LeasesAreNext
<1>4. ASSUME NEW l \in Leases PROVE l \in Leases'
  BY <1>1, <1>2, LeasesAre, LeasesAreNext
<1> QED
  BY <1>3, <1>4

LEMMA AnswerLeases ==
    ASSUME Types, NEW w \in Worker, SendReply(w), vpc[job[w].vm] # "gone"
    PROVE  Leases' = Leases
<1>1. /\ queue' = queue /\ Holding' = Holding \ {w} /\ w \in Holding
      /\ \A u \in Holding : job'[u] = job[u]
      /\ job[w].vm \in VM
      /\ \A u \in VM : u # job[w].vm => replies'[u] = replies[u]
  BY AnswerMove
<1>2. PICK last, home : last = Len(replies[job[w].vm]) + 1 /\ home = job[w].vm
  OBVIOUS
<1>3. /\ DOMAIN replies'[home] = DOMAIN replies[home] \cup {last}
      /\ \A k \in DOMAIN replies[home] : replies'[home][k] = replies[home][k]
      /\ replies'[home][last].id = job[w].id /\ replies'[home][last].bytes = job[w].bytes
  BY <1>2, AnswerMove
<1>4. LeaseOf(job[w]) = ReplyLease(home, replies'[home][last])
  BY <1>2, <1>3, SameLease
<1>5. Submitting' = Submitting /\ request' = request
  BY DEF SendReply, workerUnchanged, Submitting
<1>6. ASSUME NEW u \in VM, NEW k \in DOMAIN replies'[u]
      PROVE  \/ k \in DOMAIN replies[u] /\ replies'[u][k] = replies[u][k]
             \/ ReplyLease(u, replies'[u][k]) = LeaseOf(job[w])
  <2>1. CASE u = home
    BY <1>3, <1>4, <2>1
  <2>2. CASE u # home
    BY <1>1, <1>2, <2>2
  <2> QED
    BY <2>1, <2>2
<1>7. ASSUME NEW u \in VM, NEW k \in DOMAIN replies[u]
      PROVE  k \in DOMAIN replies'[u] /\ replies'[u][k] = replies[u][k]
  <2>1. CASE u = home
    BY <1>3, <2>1
  <2>2. CASE u # home
    BY <1>1, <1>2, <2>2
  <2> QED
    BY <2>1, <2>2
<1>8. home \in VM /\ last \in DOMAIN replies'[home]
  BY <1>1, <1>2, <1>3
<1>9. ASSUME NEW l \in Leases' PROVE l \in Leases
  BY <1>1, <1>5, <1>6, LeasesAre, LeasesAreNext
<1>10. ASSUME NEW l \in Leases PROVE l \in Leases'
  BY <1>1, <1>4, <1>5, <1>7, <1>8, LeasesAre, LeasesAreNext
<1> QED
  BY <1>9, <1>10

LEMMA LostLeases ==
    ASSUME Types, Fresh, OnePlaceEach, NEW w \in Worker,
           (SendReply(w) /\ vpc[job[w].vm] = "gone") \/ Discard(w)
    PROVE  Leases' = Leases \ {LeaseOf(job[w])} /\ LeaseOf(job[w]) \in Leases
<1>1. /\ queue' = queue /\ replies' = replies /\ Holding' = Holding \ {w} /\ w \in Holding
      /\ \A u \in Holding \ {w} : job'[u] = job[u]
  BY LostMove
<1>2. Submitting' = Submitting /\ request' = request
  BY DEF SendReply, Discard, workerUnchanged, Submitting
<1>3. /\ \A k \in DOMAIN queue : LeaseOf(queue[k]) # LeaseOf(job[w])
      /\ \A u \in Holding : u # w => LeaseOf(job[u]) # LeaseOf(job[w])
      /\ \A u \in VM : \A k \in DOMAIN replies[u] : ReplyLease(u, replies[u][k]) # LeaseOf(job[w])
  BY <1>1, LeaseFields DEF OnePlaceEach, SameJob
<1>4. \A u \in Submitting : LeaseOf(request[u]) # LeaseOf(job[w])
  BY <1>1, LeaseFresh, SubmittingRequests
<1>5. ASSUME NEW l \in Leases' PROVE l \in Leases /\ l # LeaseOf(job[w])
  BY <1>1, <1>2, <1>3, <1>4, LeasesAre, LeasesAreNext
<1>6. ASSUME NEW l \in Leases, l # LeaseOf(job[w]) PROVE l \in Leases'
  BY <1>1, <1>2, <1>6, LeasesAre, LeasesAreNext
<1> QED
  BY <1>1, <1>5, <1>6, LeasesAre

\* The reply leases of one VM are no other job's.
LEMMA ReplyLeaseOwn ==
    ASSUME Types, Fresh, OnePlaceEach, NEW v \in VM, NEW j \in DOMAIN replies[v]
    PROVE  /\ \A k \in DOMAIN queue : LeaseOf(queue[k]) # ReplyLease(v, replies[v][j])
           /\ \A w \in Holding : LeaseOf(job[w]) # ReplyLease(v, replies[v][j])
           /\ \A u \in VM : \A k \in DOMAIN replies[u] :
                 ReplyLease(u, replies[u][k]) = ReplyLease(v, replies[v][j]) => u = v /\ k = j
           /\ \A u \in Submitting : LeaseOf(request[u]) # ReplyLease(v, replies[v][j])
<1>1. /\ \A k \in DOMAIN queue : LeaseOf(queue[k]) # ReplyLease(v, replies[v][j])
      /\ \A w \in Holding : LeaseOf(job[w]) # ReplyLease(v, replies[v][j])
  BY LeaseFields DEF OnePlaceEach
<1>2. \A u \in VM : \A k \in DOMAIN replies[u] :
          ReplyLease(u, replies[u][k]) = ReplyLease(v, replies[v][j]) => u = v /\ k = j
  BY LeaseFields DEF OnePlaceEach
<1>3. \A u \in Submitting : LeaseOf(request[u]) # ReplyLease(v, replies[v][j])
  BY LeaseFresh, SubmittingRequests
<1> QED
  BY <1>1, <1>2, <1>3

LEMMA CollectLeases ==
    ASSUME Types, Fresh, OnePlaceEach, NEW v \in VM, Collect(v)
    PROVE  /\ Leases' = Leases \ {ReplyLease(v, replies[v][1])}
           /\ ReplyLease(v, replies[v][1]) \in Leases
           /\ HalfDone' = HalfDone
<1>1. /\ queue' = queue /\ Holding' = Holding /\ \A u \in Holding : job'[u] = job[u]
      /\ \A u \in VM : u # v => replies'[u] = replies[u]
      /\ 1 \in DOMAIN replies[v]
      /\ \A k \in DOMAIN replies'[v] : k + 1 \in DOMAIN replies[v] /\ replies'[v][k] = replies[v][k + 1]
      /\ \A k \in DOMAIN replies[v] : k # 1 =>
            k - 1 \in DOMAIN replies'[v] /\ replies'[v][k - 1] = replies[v][k]
  BY CollectMove
<1>2. PICK where \in {"stop", "collected"} : vpc' = [vpc EXCEPT ![v] = where]
  BY CollectEffect
<1>3. vpc[v] \in {"collect", "collected"} /\ request' = request
  BY DEF Collect, vmUnchanged
<1>4. Submitting' = Submitting /\ HalfDone' = HalfDone
  BY <1>2, <1>3 DEF Submitting, HalfDone, Types
<1> DEFINE x == ReplyLease(v, replies[v][1])
<1>5. /\ \A k \in DOMAIN queue : LeaseOf(queue[k]) # x
      /\ \A w \in Holding : LeaseOf(job[w]) # x
      /\ \A u \in VM : \A k \in DOMAIN replies[u] : ReplyLease(u, replies[u][k]) = x => u = v /\ k = 1
      /\ \A u \in Submitting : LeaseOf(request[u]) # x
  BY <1>1, ReplyLeaseOwn
<1>6. x \in Leases
  BY <1>1, LeasesAre
<1> HIDE DEF x
<1>7. ASSUME NEW u \in VM, NEW k \in DOMAIN replies'[u]
      PROVE  \E j \in DOMAIN replies[u] : replies'[u][k] = replies[u][j] /\ (u = v => j # 1)
  <2>1. CASE u = v
    <3>0. PICK s \in Seq(Reply) : s = replies[v] /\ replies'[v] = Tail(s) /\ s # <<>>
      BY CollectEffect DEF Types
    <3>1. replies'[v] \in Seq(Reply)
      BY <3>0
    <3>2. k + 1 # 1
      BY <2>1, <3>1
    <3> QED
      BY <1>1, <2>1, <3>2
  <2>2. CASE u # v
    BY <1>1, <2>2
  <2> QED
    BY <2>1, <2>2
<1>8. ASSUME NEW u \in VM, NEW k \in DOMAIN replies[u], u = v => k # 1
      PROVE  \E j \in DOMAIN replies'[u] : replies'[u][j] = replies[u][k]
  BY <1>1, <1>8
<1>9. ASSUME NEW l \in Leases' PROVE l \in Leases /\ l # x
  BY <1>1, <1>3, <1>4, <1>5, <1>7, LeasesAre, LeasesAreNext
<1>10. ASSUME NEW l \in Leases, l # x PROVE l \in Leases'
  <2>1. CASE \E u \in VM : \E k \in DOMAIN replies[u] : l = ReplyLease(u, replies[u][k])
    <3>1. PICK u \in VM : \E k \in DOMAIN replies[u] : l = ReplyLease(u, replies[u][k])
      BY <2>1
    <3>2. PICK k \in DOMAIN replies[u] : l = ReplyLease(u, replies[u][k])
      BY <3>1
    <3>3. u = v => k # 1
      BY <1>10, <3>2 DEF x
    <3>4. PICK j \in DOMAIN replies'[u] : replies'[u][j] = replies[u][k]
      BY <1>8, <3>3
    <3> QED
      BY <3>2, <3>4, LeasesAreNext
  <2>2. CASE ~\E u \in VM : \E k \in DOMAIN replies[u] : l = ReplyLease(u, replies[u][k])
    BY <1>1, <1>3, <1>4, <2>2, LeasesAre, LeasesAreNext
  <2> QED
    BY <2>1, <2>2
<1> QED
  BY <1>4, <1>6, <1>9, <1>10 DEF x

LEMMA CancelLeases ==
    ASSUME Types, Fresh, OnePlaceEach, NEW v \in VM, CancelQueue(v), NEW K,
           K = {k \in DOMAIN queue : queue[k].vm = v}
    PROVE  /\ Leases' = Leases \ {LeaseOf(queue[k]) : k \in K}
           /\ {LeaseOf(queue[k]) : k \in K} \in SUBSET Leases
           /\ HalfDone' = HalfDone
<1>1. PICK g \in [DOMAIN queue' -> Others(v)] :
          /\ \A k \in Others(v) : \E i \in DOMAIN queue' : g[i] = k
          /\ \A i \in DOMAIN queue' : queue'[i] = queue[g[i]]
  BY CancelMove
<1>2. replies' = replies /\ Holding' = Holding /\ \A u \in Holding : job'[u] = job[u]
  BY CancelMove
<1>3. vpc[v] = "cancel" /\ vpc' = [vpc EXCEPT ![v] = "receiver"] /\ request' = request
  BY DEF CancelQueue, GoTo
<1>4. Submitting' = Submitting /\ HalfDone' = HalfDone
  BY <1>3 DEF Submitting, HalfDone, Types
<1> DEFINE D == {LeaseOf(queue[k]) : k \in K}
<1>5. \A k \in DOMAIN queue : k \in K <=> k \notin Others(v)
  BY DEF Others
<1>6. D \in SUBSET Leases
  BY LeasesAre
<1>7. \A k \in Others(v) : k \in DOMAIN queue /\ LeaseOf(queue[k]) \notin D
  BY LeaseFields DEF Others
<1>8. \A w \in Holding : LeaseOf(job[w]) \notin D
  BY LeaseFields DEF OnePlaceEach, SameJob
<1>9. \A u \in VM : \A k \in DOMAIN replies[u] : ReplyLease(u, replies[u][k]) \notin D
  BY ReplyLeaseOwn
<1>10. \A u \in Submitting : LeaseOf(request[u]) \notin D
  BY LeaseFresh, SubmittingRequests
<1> HIDE DEF D
<1>11. ASSUME NEW l \in Leases' PROVE l \in Leases /\ l \notin D
  <2>1. CASE \E i \in DOMAIN queue' : l = LeaseOf(queue'[i])
    <3>1. PICK i \in DOMAIN queue' : l = LeaseOf(queue'[i])
      BY <2>1
    <3>2. g[i] \in Others(v) /\ l = LeaseOf(queue[g[i]])
      BY <1>1, <3>1
    <3> QED
      BY <1>7, <3>2, LeasesAre
  <2>2. CASE ~\E i \in DOMAIN queue' : l = LeaseOf(queue'[i])
    BY <1>2, <1>3, <1>4, <1>8, <1>9, <1>10, <2>2, LeasesAre, LeasesAreNext
  <2> QED
    BY <2>1, <2>2
<1>12. ASSUME NEW l \in Leases, l \notin D PROVE l \in Leases'
  <2>1. CASE \E k \in DOMAIN queue : l = LeaseOf(queue[k])
    <3>1. PICK k \in DOMAIN queue : l = LeaseOf(queue[k])
      BY <2>1
    <3>2. k \in Others(v)
      BY <1>5, <1>12, <3>1 DEF D
    <3>3. PICK i \in DOMAIN queue' : queue'[i] = queue[k]
      BY <1>1, <3>2
    <3> QED
      BY <3>1, <3>3, LeasesAreNext
  <2>2. CASE ~\E k \in DOMAIN queue : l = LeaseOf(queue[k])
    BY <1>2, <1>3, <1>4, <2>2, LeasesAre, LeasesAreNext
  <2> QED
    BY <2>1, <2>2
<1> QED
  BY <1>4, <1>6, <1>11, <1>12 DEF D

LEMMA DropLeases ==
    ASSUME Types, Fresh, OnePlaceEach, NEW v \in VM, DropReceiver(v), NEW K, K = DOMAIN replies[v]
    PROVE  /\ Leases' = Leases \ {ReplyLease(v, replies[v][k]) : k \in K}
           /\ {ReplyLease(v, replies[v][k]) : k \in K} \in SUBSET Leases
           /\ HalfDone' = HalfDone
<1>1. /\ queue' = queue /\ Holding' = Holding /\ \A u \in Holding : job'[u] = job[u]
      /\ \A u \in VM : u # v => replies'[u] = replies[u]
      /\ DOMAIN replies'[v] = {}
  BY DropMove
<1>2. vpc[v] = "receiver" /\ vpc' = [vpc EXCEPT ![v] = "gone"] /\ request' = request
  BY DEF DropReceiver, GoTo, vmUnchanged
<1>3. Submitting' = Submitting /\ HalfDone' = HalfDone
  BY <1>2 DEF Submitting, HalfDone, Types
<1> DEFINE D == {ReplyLease(v, replies[v][k]) : k \in K}
<1>4. D \in SUBSET Leases
  BY LeasesAre
<1>5. /\ \A k \in DOMAIN queue : LeaseOf(queue[k]) \notin D
      /\ \A w \in Holding : LeaseOf(job[w]) \notin D
      /\ \A u \in VM : \A k \in DOMAIN replies[u] : u # v => ReplyLease(u, replies[u][k]) \notin D
      /\ \A u \in Submitting : LeaseOf(request[u]) \notin D
  BY ReplyLeaseOwn
<1>6. \A k \in DOMAIN replies[v] : ReplyLease(v, replies[v][k]) \in D
  OBVIOUS
<1> HIDE DEF D
<1>7. ASSUME NEW l \in Leases' PROVE l \in Leases /\ l \notin D
  <2>1. CASE \E u \in VM : \E k \in DOMAIN replies'[u] : l = ReplyLease(u, replies'[u][k])
    <3>1. PICK u \in VM : \E k \in DOMAIN replies'[u] : l = ReplyLease(u, replies'[u][k])
      BY <2>1
    <3>2. u # v
      BY <1>1, <3>1
    <3>3. PICK k \in DOMAIN replies[u] : l = ReplyLease(u, replies[u][k])
      BY <1>1, <3>1, <3>2
    <3> QED
      BY <1>5, <3>2, <3>3, LeasesAre
  <2>2. CASE ~\E u \in VM : \E k \in DOMAIN replies'[u] : l = ReplyLease(u, replies'[u][k])
    BY <1>1, <1>2, <1>3, <1>5, <2>2, LeasesAre, LeasesAreNext
  <2> QED
    BY <2>1, <2>2
<1>8. ASSUME NEW l \in Leases, l \notin D PROVE l \in Leases'
  <2>1. CASE \E u \in VM : \E k \in DOMAIN replies[u] : l = ReplyLease(u, replies[u][k])
    <3>1. PICK u \in VM : \E k \in DOMAIN replies[u] : l = ReplyLease(u, replies[u][k])
      BY <2>1
    <3>2. u # v
      BY <1>6, <1>8, <3>1
    <3>3. \E k \in DOMAIN replies'[u] : l = ReplyLease(u, replies'[u][k])
      BY <1>1, <3>1, <3>2
    <3> QED
      BY <3>3, LeasesAreNext
  <2>2. CASE ~\E u \in VM : \E k \in DOMAIN replies[u] : l = ReplyLease(u, replies[u][k])
    BY <1>1, <1>2, <1>3, <2>2, LeasesAre, LeasesAreNext
  <2> QED
    BY <2>1, <2>2
<1> QED
  BY <1>3, <1>4, <1>7, <1>8 DEF D

\* A step that leaves the half-done reservations alone and returns count leases
\* of so many bytes, or none.
LEMMA Returned ==
    ASSUME Types, Budgeted, HalfDone' = HalfDone,
           NEW D \in SUBSET Leases, Leases' = Leases \ D,
           DropBytes(Bytes(D), Cardinality(D))
    PROVE  Budgeted'
<1>1. Sized(Leases)
  BY LeasesSized
<1>2. /\ Bytes(Leases \ D) = Bytes(Leases) - Bytes(D)
      /\ Cardinality(Leases \ D) = Cardinality(Leases) - Cardinality(D)
      /\ Cardinality(Leases) \in Nat /\ Cardinality(D) \in Nat /\ Sized(D)
  BY <1>1, BytesMinus
<1>3. Bytes(D) \in Nat /\ Bytes(Leases) \in Nat
  BY <1>1, <1>2, SpreadFinite
<1>4. HalfDone \in SUBSET VM /\ IsFiniteSet(VM)
  BY HostAssumption DEF HalfDone
<1>5. Cardinality(HalfDone) \in Nat
  BY <1>4, FS_Subset, FS_CardinalityType
<1>6. /\ usedBytes' = usedBytes - Bytes(D) /\ dropping' = dropping + Cardinality(D)
      /\ usedJobs' = usedJobs /\ dropping \in Nat
  BY DEF DropBytes, Types
<1>7. /\ usedJobs = Cardinality(Leases) + Cardinality(HalfDone) + dropping
      /\ usedBytes = Bytes(Leases) /\ usedJobs <= ArenaLimit /\ usedBytes <= ByteLimit
  BY DEF Budgeted
<1>8. ByteLimit \in Nat
  BY HostAssumption
<1>9. /\ Cardinality(Leases') = Cardinality(Leases) - Cardinality(D)
      /\ Bytes(Leases') = Bytes(Leases) - Bytes(D)
      /\ Cardinality(HalfDone') = Cardinality(HalfDone)
  BY <1>2
<1>10. /\ usedJobs' = Cardinality(Leases') + Cardinality(HalfDone') + dropping'
       /\ usedBytes' = Bytes(Leases')
       /\ usedJobs' <= ArenaLimit /\ usedBytes' <= ByteLimit
  BY <1>2, <1>3, <1>5, <1>6, <1>7, <1>8, <1>9
<1> QED
  BY <1>10 DEF Budgeted, Bytes

LEMMA OneReturned ==
    ASSUME Types, Budgeted, HalfDone' = HalfDone,
           NEW l \in Leases, Leases' = Leases \ {l}, DropBytes(l.bytes, 1)
    PROVE  Budgeted'
<1>1. Sized(Leases)
  BY LeasesSized
<1>2. Cardinality({l}) = 1
  BY FS_Singleton
<1>3. /\ Bytes(Leases \ {l}) = Bytes(Leases) - l.bytes
      /\ Bytes(Leases \ {l}) = Bytes(Leases) - Bytes({l})
      /\ Bytes(Leases) \in Nat /\ Sized({l})
  BY <1>1, BytesRemove, BytesMinus
<1>4. Bytes({l}) \in Nat /\ l.bytes \in Nat
  BY <1>1, <1>3, SpreadFinite DEF Sized
<1>5. l.bytes = Bytes({l})
  BY <1>3, <1>4
<1> QED
  BY <1>2, <1>5, Returned

\* A step that moves leases and returns none.
LEMMA NoneReturned ==
    ASSUME Budgeted, HalfDone' = HalfDone, Leases' = Leases,
           UNCHANGED <<usedJobs, usedBytes, dropping>>
    PROVE  Budgeted'
  BY DEF Budgeted, Bytes

LEMMA HalfDoneCount ==
    ASSUME NEW v \in VM, v \notin HalfDone
    PROVE  /\ Cardinality(HalfDone \cup {v}) = Cardinality(HalfDone) + 1
           /\ Cardinality(HalfDone) \in Nat
<1>1. HalfDone \in SUBSET VM /\ IsFiniteSet(VM)
  BY HostAssumption DEF HalfDone
<1>2. IsFiniteSet(HalfDone)
  BY <1>1, FS_Subset
<1> QED
  BY <1>2, FS_AddElement, FS_CardinalityType

LEMMA HalfDoneLess ==
    ASSUME NEW v \in HalfDone
    PROVE  /\ Cardinality(HalfDone \ {v}) = Cardinality(HalfDone) - 1
           /\ Cardinality(HalfDone) \in Nat
<1>1. HalfDone \in SUBSET VM /\ IsFiniteSet(VM)
  BY HostAssumption DEF HalfDone
<1>2. IsFiniteSet(HalfDone)
  BY <1>1, FS_Subset
<1> QED
  BY <1>2, FS_RemoveElement, FS_CardinalityType

LEMMA Accounted ==
    ASSUME Types, Budgeted
    PROVE  /\ usedJobs = Cardinality(Leases) + Cardinality(HalfDone) + dropping
           /\ usedBytes = Bytes(Leases) /\ usedJobs <= ArenaLimit /\ usedBytes <= ByteLimit
           /\ Sized(Leases) /\ Cardinality(Leases) \in Nat /\ Bytes(Leases) \in Nat
           /\ dropping \in Nat /\ ArenaLimit \in Nat /\ ByteLimit \in Nat
<1>1. Sized(Leases)
  BY LeasesSized
<1>2. IsFiniteSet(Leases) /\ Bytes(Leases) \in Nat
  BY <1>1, SpreadFinite DEF Sized
<1> QED
  BY <1>1, <1>2, FS_CardinalityType, HostAssumption DEF Budgeted, Types

\* A slot is taken only below the limit; the bytes follow it or it goes back.
LEMMA ReserveSlotBudget ==
    ASSUME Types, Budgeted, NEW v \in VM, ReserveSlot(v)
    PROVE  Budgeted'
<1>1. /\ vpc[v] = "reserve" /\ Kept /\ usedBytes' = usedBytes /\ dropping' = dropping
      /\ vpc \in [VM -> Stages] /\ request \in [VM -> Job \cup {NoJob}]
  BY DEF ReserveSlot, Kept, poolVars, portalVars, Holding, Types
<1>2. v \notin HalfDone /\ v \notin Submitting
  BY <1>1 DEF HalfDone, Submitting
<1>3. CASE usedJobs < ArenaLimit
  <2>1. usedJobs' = usedJobs + 1 /\ vpc' = [vpc EXCEPT ![v] = "bytes"] /\ request' = request
    BY <1>3 DEF ReserveSlot, GoTo
  <2>2. HalfDone' = HalfDone \cup {v} /\ Submitting' = Submitting
    BY <1>1, <2>1 DEF HalfDone, Submitting
  <2>3. Leases' = Leases
    BY <1>1, <2>1, <2>2, LeasesKept
  <2>4. Cardinality(HalfDone') = Cardinality(HalfDone) + 1 /\ Cardinality(HalfDone) \in Nat
    BY <1>2, <2>2, HalfDoneCount
  <2>5. /\ usedJobs' = Cardinality(Leases') + Cardinality(HalfDone') + dropping'
        /\ usedJobs' <= ArenaLimit
    BY <1>1, <1>3, <2>1, <2>3, <2>4, Accounted
  <2>6. usedBytes' = Bytes(Leases') /\ usedBytes' <= ByteLimit
    BY <1>1, <2>3, Accounted
  <2> QED
    BY <2>5, <2>6 DEF Budgeted, Bytes
<1>4. CASE ~(usedJobs < ArenaLimit)
  <2>1. /\ usedJobs' = usedJobs /\ vpc' = [vpc EXCEPT ![v] = "stop"]
        /\ request' = [request EXCEPT ![v] = NoJob]
    BY <1>4 DEF ReserveSlot, GoTo
  <2>2. /\ HalfDone' = HalfDone /\ Submitting' = Submitting
        /\ \A u \in Submitting : request'[u] = request[u]
    BY <1>1, <2>1 DEF HalfDone, Submitting
  <2>3. Leases' = Leases
    BY <1>1, <2>2, LeasesKept
  <2> QED
    BY <1>1, <2>1, <2>2, <2>3, NoneReturned
<1> QED
  BY <1>3, <1>4

LEMMA ReserveBytesBudget ==
    ASSUME Types, Fresh, Budgeted, NEW v \in VM, ReserveBytes(v)
    PROVE  Budgeted'
<1>1. /\ vpc[v] = "bytes" /\ Kept /\ usedJobs' = usedJobs /\ dropping' = dropping
      /\ vpc \in [VM -> Stages] /\ request \in [VM -> Job \cup {NoJob}]
  BY DEF ReserveBytes, Kept, poolVars, portalVars, Holding, Types
<1>2. v \in HalfDone /\ v \notin Submitting /\ vpc[v] \in Submission
  BY <1>1 DEF HalfDone, Submitting, Submission
<1>3. request[v] \in Job
  BY <1>2 DEF Types
<1>4. request[v].bytes \in Nat
  BY <1>3, JobFields
<1>5. CASE usedBytes + request[v].bytes <= ByteLimit
  <2>1. /\ usedBytes' = usedBytes + request[v].bytes /\ vpc' = [vpc EXCEPT ![v] = "submit"]
        /\ request' = request
    BY <1>5 DEF ReserveBytes, GoTo
  <2>2. HalfDone' = HalfDone \ {v} /\ Submitting' = Submitting \cup {v}
    BY <1>1, <2>1 DEF HalfDone, Submitting
  <2>3. Leases' = Leases \cup {LeaseOf(request[v])} /\ LeaseOf(request[v]) \notin Leases
    BY <1>1, <2>1, <2>2, ReserveLeases
  <2>4. LeaseOf(request[v]).bytes = request[v].bytes
    BY LeaseFields
  <2>5. Sized(Leases)
    BY LeasesSized
  <2>6. PICK x : x = LeaseOf(request[v])
    OBVIOUS
  <2>7. x \notin Leases /\ x.bytes \in Nat /\ x.bytes = request[v].bytes /\ Leases' = Leases \cup {x}
    BY <1>4, <2>3, <2>4, <2>6
  <2>8. /\ Bytes(Leases \cup {x}) = Bytes(Leases) + x.bytes
        /\ Cardinality(Leases \cup {x}) = Cardinality(Leases) + 1
    BY <2>5, <2>7, BytesAdd
  <2>9. Cardinality(HalfDone \ {v}) = Cardinality(HalfDone) - 1 /\ Cardinality(HalfDone) \in Nat
    BY <1>2, HalfDoneLess
  <2>10. usedJobs' = Cardinality(Leases') + Cardinality(HalfDone') + dropping' /\ usedJobs' <= ArenaLimit
    <3>1. Cardinality(Leases') = Cardinality(Leases) + 1
      BY <2>7, <2>8
    <3>2. Cardinality(HalfDone') = Cardinality(HalfDone) - 1
      BY <2>2, <2>9
    <3> QED
      BY <1>1, <2>9, <3>1, <3>2, Accounted
  <2>11. usedBytes' = Bytes(Leases') /\ usedBytes' <= ByteLimit
    <3>1. Bytes(Leases') = Bytes(Leases) + request[v].bytes
      BY <2>7, <2>8
    <3> QED
      BY <1>5, <2>1, <3>1, Accounted
  <2> QED
    BY <2>10, <2>11 DEF Budgeted, Bytes
<1>6. CASE ~(usedBytes + request[v].bytes <= ByteLimit)
  <2>1. /\ usedBytes' = usedBytes /\ vpc' = [vpc EXCEPT ![v] = "rollback"]
        /\ request' = [request EXCEPT ![v] = NoJob]
    BY <1>6 DEF ReserveBytes, GoTo
  <2>2. /\ HalfDone' = HalfDone /\ Submitting' = Submitting
        /\ \A u \in Submitting : request'[u] = request[u]
    BY <1>1, <2>1 DEF HalfDone, Submitting
  <2>3. Leases' = Leases
    BY <1>1, <2>2, LeasesKept
  <2> QED
    BY <1>1, <2>1, <2>2, <2>3, NoneReturned
<1> QED
  BY <1>5, <1>6

LEMMA RollbackBudget ==
    ASSUME Types, Budgeted, NEW v \in VM, Rollback(v)
    PROVE  Budgeted'
<1>1. /\ vpc[v] = "rollback" /\ Kept /\ usedBytes' = usedBytes /\ dropping' = dropping
      /\ usedJobs' = usedJobs - 1 /\ vpc' = [vpc EXCEPT ![v] = "stop"] /\ request' = request
      /\ vpc \in [VM -> Stages]
  BY DEF Rollback, GoTo, Kept, poolVars, portalVars, Holding, Types
<1>2. HalfDone' = HalfDone \ {v} /\ v \in HalfDone /\ Submitting' = Submitting
  BY <1>1 DEF HalfDone, Submitting
<1>3. Leases' = Leases
  BY <1>1, <1>2, LeasesKept
<1>4. Cardinality(HalfDone') = Cardinality(HalfDone) - 1 /\ Cardinality(HalfDone) \in Nat
  BY <1>2, HalfDoneLess
<1>5. usedJobs' = Cardinality(Leases') + Cardinality(HalfDone') + dropping' /\ usedJobs' <= ArenaLimit
  BY <1>1, <1>3, <1>4, Accounted
<1>6. usedBytes' = Bytes(Leases') /\ usedBytes' <= ByteLimit
  BY <1>1, <1>3, Accounted
<1> QED
  BY <1>5, <1>6 DEF Budgeted, Bytes

LEMMA SubmitFailsBudget ==
    ASSUME Types, Fresh, Budgeted, NEW v \in VM, SubmitFails(v)
    PROVE  Budgeted'
<1>1. /\ vpc[v] = "submit" /\ Kept /\ DropBytes(request[v].bytes, 1)
      /\ vpc' = [vpc EXCEPT ![v] = "stop"] /\ request' = [request EXCEPT ![v] = NoJob]
      /\ vpc \in [VM -> Stages] /\ request \in [VM -> Job \cup {NoJob}]
  BY DEF SubmitFails, GoTo, Kept, poolVars, Holding, Types
<1>2. /\ HalfDone' = HalfDone /\ Submitting' = Submitting \ {v}
      /\ \A u \in VM : u # v => request'[u] = request[u]
  BY <1>1 DEF HalfDone, Submitting
<1>3. PICK l : l = LeaseOf(request[v])
  OBVIOUS
<1>4. Leases' = Leases \ {l} /\ l \in Leases
  BY <1>1, <1>2, <1>3, SubmitFailsLeases
<1>5. l.bytes = request[v].bytes
  BY <1>3, LeaseFields
<1> QED
  BY <1>1, <1>2, <1>4, <1>5, OneReturned

LEMMA LostBudget ==
    ASSUME Types, Fresh, OnePlaceEach, Budgeted, NEW w \in Worker,
           (SendReply(w) /\ vpc[job[w].vm] = "gone") \/ Discard(w)
    PROVE  Budgeted'
<1>1. DropBytes(job[w].bytes, 1) /\ HalfDone' = HalfDone
  BY DEF SendReply, Discard, workerUnchanged, HalfDone
<1>2. PICK l : l = LeaseOf(job[w])
  OBVIOUS
<1>3. Leases' = Leases \ {l} /\ l \in Leases
  BY <1>2, LostLeases
<1>4. l.bytes = job[w].bytes
  BY <1>2, LeaseFields
<1> QED
  BY <1>1, <1>3, <1>4, OneReturned

LEMMA CollectBudget ==
    ASSUME Types, Fresh, OnePlaceEach, Budgeted, NEW v \in VM, Collect(v)
    PROVE  Budgeted'
<1>1. PICK l : l = ReplyLease(v, replies[v][1])
  OBVIOUS
<1>2. Leases' = Leases \ {l} /\ l \in Leases /\ HalfDone' = HalfDone
  BY <1>1, CollectLeases
<1>3. PICK reply : reply = Head(replies[v]) /\ DropBytes(reply.bytes, 1)
  BY Zenon DEF Collect
<1>4. reply = replies[v][1]
  BY <1>3 DEF Types
<1>5. l.bytes = reply.bytes
  BY <1>1, <1>4, LeaseFields
<1> QED
  BY <1>2, <1>3, <1>5, OneReturned

LEMMA CancelBudget ==
    ASSUME Types, Fresh, OnePlaceEach, Budgeted, NEW v \in VM, CancelQueue(v)
    PROVE  Budgeted'
<1>1. PICK K : K = {k \in DOMAIN queue : queue[k].vm = v}
  OBVIOUS
<1>2. PICK removed :
          /\ removed = {k \in DOMAIN queue : Owned(v, queue[k])}
          /\ DropBytes(Cardinality(Units(queue, removed)), Cardinality(removed))
  BY Zenon DEF CancelQueue
<1>3. DropBytes(Cardinality(Units(queue, K)), Cardinality(K))
  <2>1. removed = K
    BY <1>1, <1>2 DEF Owned
  <2> QED
    BY <1>2, <2>1
<1>4. PICK L : L = [k \in K |-> LeaseOf(queue[k])]
  OBVIOUS
<1>5. PICK D : D = {LeaseOf(queue[k]) : k \in K}
  OBVIOUS
<1>6. Leases' = Leases \ D /\ D \in SUBSET Leases /\ HalfDone' = HalfDone
  BY <1>1, <1>5, CancelLeases
<1>7. IsFiniteSet(K)
  <2>1. PICK m \in Nat : DOMAIN queue = 1 .. m
    BY DEF Types, HostTypeOK
  <2>2. IsFiniteSet(1 .. m) /\ K \in SUBSET (1 .. m)
    BY <1>1, <2>1, FS_Interval
  <2> QED
    BY <2>2, FS_Subset
<1>8. \A k \in K : queue[k].bytes \in Nat /\ L[k].bytes = queue[k].bytes
  BY <1>1, <1>4, LeaseFields, FlightFields
<1>9. \A j, k \in K : L[j] = L[k] => j = k
  BY <1>1, <1>4, LeaseFields DEF OnePlaceEach, SameJob
<1>10. L \in [K -> D] /\ \A d \in D : \E k \in K : L[k] = d
  BY <1>4, <1>5
<1>11. Cardinality(D) = Cardinality(K) /\ Bytes(D) = Cardinality(Units(queue, K))
  <2>1. Faithful(queue, K, L, D)
    BY <1>7, <1>8, <1>9, <1>10 DEF Faithful
  <2> QED
    BY <2>1, UnitsAreBytes
<1>12. DropBytes(Bytes(D), Cardinality(D))
  BY <1>3, <1>11
<1> QED
  BY <1>6, <1>12, Returned

LEMMA DropBudget ==
    ASSUME Types, Fresh, OnePlaceEach, Budgeted, NEW v \in VM, DropReceiver(v)
    PROVE  Budgeted'
<1>1. PICK K, s : K = DOMAIN replies[v] /\ s = replies[v]
  OBVIOUS
<1>2. s \in Seq(Reply) /\ \A k \in K : s[k] \in Reply
  BY <1>1 DEF Types
<1>3. PICK m \in Nat : K = 1 .. m /\ m = Len(s)
  BY <1>1, <1>2
<1>4. IsFiniteSet(K) /\ Cardinality(K) = m
  <2>1. IsFiniteSet(1 .. m) /\ Cardinality(1 .. m) = m
    BY FS_Interval
  <2> QED
    BY <1>3, <2>1
<1>5. DropBytes(Cardinality(Units(s, K)), Cardinality(K))
  <2>1. DropBytes(Cardinality(Units(s, K)), Len(s))
    BY <1>1 DEF DropReceiver
  <2> QED
    BY <1>3, <1>4, <2>1
<1>6. PICK L : L = [k \in K |-> ReplyLease(v, s[k])]
  OBVIOUS
<1>7. PICK D : D = {ReplyLease(v, s[k]) : k \in K}
  OBVIOUS
<1>8. Leases' = Leases \ D /\ D \in SUBSET Leases /\ HalfDone' = HalfDone
  BY <1>1, <1>7, DropLeases
<1>9. \A k \in K : s[k].bytes \in Nat /\ L[k].bytes = s[k].bytes
  BY <1>2, <1>6, LeaseFields, ReplyFields
<1>10. \A j, k \in K : L[j] = L[k] => j = k
  BY <1>1, <1>6, LeaseFields DEF OnePlaceEach
<1>11. L \in [K -> D] /\ \A d \in D : \E k \in K : L[k] = d
  BY <1>6, <1>7
<1>12. Cardinality(D) = Cardinality(K) /\ Bytes(D) = Cardinality(Units(s, K))
  <2>1. Faithful(s, K, L, D)
    BY <1>4, <1>9, <1>10, <1>11 DEF Faithful
  <2> QED
    BY <2>1, UnitsAreBytes
<1>13. DropBytes(Bytes(D), Cardinality(D))
  BY <1>5, <1>12
<1> QED
  BY <1>8, <1>13, Returned

LEMMA BudgetStep ==
    ASSUME Types, Fresh, OnePlaceEach, Budgeted, [Next]_vars
    PROVE  Budgeted'
<1>1. CASE Settled
  BY <1>1, LeasesKept, NoneReturned DEF Settled
<1>2. CASE DropSlot
  <2>1. /\ Kept /\ vpc' = vpc /\ request' = request /\ usedBytes' = usedBytes
        /\ dropping' = dropping - 1 /\ usedJobs' = usedJobs - 1
    BY <1>2 DEF DropSlot, Kept, poolVars, portalVars, Holding
  <2>2. HalfDone' = HalfDone /\ Submitting' = Submitting
    BY <2>1 DEF HalfDone, Submitting
  <2>3. Leases' = Leases
    BY <2>1, <2>2, LeasesKept
  <2>4. HalfDone \in SUBSET VM /\ IsFiniteSet(VM)
    BY HostAssumption DEF HalfDone
  <2>5. Cardinality(HalfDone) \in Nat
    BY <2>4, FS_Subset, FS_CardinalityType
  <2>6. usedJobs' = Cardinality(Leases') + Cardinality(HalfDone') + dropping' /\ usedJobs' <= ArenaLimit
    BY <2>1, <2>2, <2>3, <2>5, Accounted
  <2>7. usedBytes' = Bytes(Leases') /\ usedBytes' <= ByteLimit
    BY <2>1, <2>3, Accounted
  <2> QED
    BY <2>6, <2>7 DEF Budgeted, Bytes
<1>3. ASSUME NEW v \in VM, Submit(v) PROVE Budgeted'
  BY <1>3, SubmitLeases, NoneReturned DEF Submit, budgetVars
<1>4. ASSUME NEW w \in Worker, Take(w), queue # <<>> PROVE Budgeted'
  BY <1>4, TakeLeases, NoneReturned DEF Take, workerUnchanged, budgetVars, HalfDone
<1>5. ASSUME NEW w \in Worker, SendReply(w) PROVE Budgeted'
  <2>1. CASE vpc[job[w].vm] = "gone"
    BY <1>5, <2>1, LostBudget
  <2>2. CASE vpc[job[w].vm] # "gone"
    <3>1. UNCHANGED <<usedJobs, usedBytes, dropping>> /\ HalfDone' = HalfDone
      BY <1>5, <2>2 DEF SendReply, workerUnchanged, budgetVars, HalfDone
    <3> QED
      BY <1>5, <2>2, <3>1, AnswerLeases, NoneReturned
  <2> QED
    BY <2>1, <2>2
<1> QED
  BY <1>1, <1>2, <1>3, <1>4, <1>5, BudgetMoves, ReserveSlotBudget, ReserveBytesBudget,
     RollbackBudget, SubmitFailsBudget, LostBudget, CollectBudget, CancelBudget, DropBudget

-----------------------------------------------------------------------------
(***************************************************************************)
(* The invariant and the theorems.                                         *)
(***************************************************************************)
HostInv ==
    /\ Types
    /\ Flags
    /\ WaitReady
    /\ FlagHonest
    /\ Fresh
    /\ OnePlaceEach
    /\ PendingFlies
    /\ HandlesOut
    /\ NoLostWake
    /\ Counted
    /\ Budgeted

LEMMA HostInvInit ==
    ASSUME Init PROVE HostInv
<1> USE DEF Init
<1>1. Types
  <2>1. HostTypeOK
    BY DEF HostTypeOK
  <2> QED
    BY <2>1 DEF Types, Stages, Idle, Submission
<1>2. Flags /\ WaitReady /\ FlagHonest
  BY DEF Flags, WaitReady, FlagHonest, Waiting
<1>3. Holding = {} /\ Submitting = {} /\ HalfDone = {}
  BY DEF Holding, Submitting, HalfDone
<1>4. Fresh /\ OnePlaceEach /\ NoLostWake
  BY <1>3 DEF Fresh, OnePlaceEach, NoLostWake, Submission
<1>5. PendingFlies
  BY <1>3 DEF PendingFlies, Flying
<1>6. HandlesOut
  BY DEF HandlesOut, Tidy, Submission
<1>7. Cardinality({}) = 0
  BY FS_EmptySet
<1>8. Counted
  <2>1. /\ {w \in Worker : at[w] \in Started} = {} /\ {w \in Worker : at[w] \in Occupied} = {}
        /\ {w \in Worker : at[w] \in Awake} = {}
    BY DEF Started, Occupied, Awake
  <2>2. Count(at, Started) = 0 /\ Count(at, Occupied) = 0 /\ Count(at, Awake) = 0
    BY <1>7, <2>1 DEF Count
  <2> QED
    BY <2>2 DEF Counted
<1>9. Budgeted
  <2>1. Leases = {}
    BY <1>3, LeasesAre
  <2>2. Bytes({}) = 0
    <3>1. UNION {{l} \X (1 .. l.bytes) : l \in {}} = {}
      OBVIOUS
    <3> QED
      BY <1>7, <3>1 DEF Bytes
  <2> QED
    BY <1>3, <1>7, <2>1, <2>2, HostAssumption DEF Budgeted
<1> QED
  BY <1>1, <1>2, <1>4, <1>5, <1>6, <1>8, <1>9 DEF HostInv

LEMMA HostInvStep ==
    ASSUME HostInv, [Next]_vars PROVE HostInv'
  BY TypesStep, FlagsStep, WaitReadyStep, FlagHonestStep, FreshStep, OnePlaceStep,
     PendingStep, HandlesStep, WakeStep, CountedStep, BudgetStep DEF HostInv

LEMMA HostInvAccounts ==
    ASSUME HostInv PROVE AccountsExact
<1>1. BudgetExact
  BY DEF HostInv, Budgeted, BudgetExact, HalfDone
<1>2. PoolExact
  BY CountedExact, PendingFliesExact DEF HostInv, Types, PoolExact
<1> QED
  BY <1>1, <1>2 DEF AccountsExact

\* The invariant holds in every reachable state, however VM threads and workers
\* interleave at the queue's lock, the budget's atomics and the wake socket.
THEOREM HostInvariance == Spec => []HostInv
<1>1. Init => HostInv
  BY HostInvInit
<1>2. HostInv /\ [Next]_vars => HostInv'
  BY HostInvStep
<1> QED
  BY <1>1, <1>2, PTL DEF Spec

\* The process-wide budget equals what the leases in it hold and never exceeds
\* ARENA_LIMIT and RETAINED_BYTES; the pool's counters, the pending tables of the
\* running VMs and the notifications agree with the queue.
THEOREM Accounts == Spec => []AccountsExact
<1>1. HostInv => AccountsExact
  BY HostInvAccounts
<1> QED
  BY <1>1, HostInvariance, PTL

\* A host file is in its VM's table or with one pending job, and neither
\* "unexpected native host completion" nor "native file handle was returned
\* twice" can happen.
THEOREM Owners == Spec => []OneOwner
<1>1. HostInv => OneOwner
  BY HandlesOwned DEF HostInv
<1> QED
  BY <1>1, HostInvariance, PTL

\* A VM that sleeps in the descriptor poller while it has an answer will be woken:
\* the wake byte is there or a worker is about to write it.
THEOREM Wakes == Spec => []NoLostWake
<1>1. HostInv => NoLostWake
  BY DEF HostInv
<1> QED
  BY <1>1, HostInvariance, PTL

=============================================================================
