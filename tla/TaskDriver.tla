----------------------------- MODULE TaskDriver -----------------------------
(***************************************************************************)
(* The IO driver of the native runtime, src/runtime/executable.rs: one     *)
(* thread that runs tasks from the ready queue until each parks, completes *)
(* or halts, and waits for timers, descriptors and worker threads when no  *)
(* task can run.  It composes the scheduler and the channel table.  Worker *)
(* jobs and descriptors appear as what the driver sees of them: jobs       *)
(* finish in any order, any parked descriptor may become ready.            *)
(***************************************************************************)
EXTENDS Channels, Scheduler, SequencesExt

CONSTANTS
    NoTask,
    CollectPeriod,  \* 64: driver turns between two collections of finished jobs
    Delays,         \* sleep durations the program asks for
    MaxClock,       \* bound on the clock
    MaxWaits,       \* bound on the waits registered
    MaxChannels     \* bound on the channels opened

ASSUME DriverAssumption ==
    /\ IsFiniteSet(Task) /\ Cardinality(Task) >= ArenaLimit
    /\ NoTask \notin Task
    /\ Continuation = Task
    /\ SchedulerLimit = ArenaLimit
    /\ CollectPeriod \in Nat \ {0}
    /\ Delays \subseteq Nat
    /\ MaxClock \in Nat /\ MaxWaits \in Nat /\ MaxChannels \in Nat

VARIABLES
    pc,        \* where the driver is: drive, run, wait, resume, stop, ended
    running,   \* the task being run
    turns,     \* turns of drive_tasks, modulo CollectPeriod
    jobs,      \* tasks with a job that has not been resumed
    done,      \* those of them whose reply has arrived, in order of arrival
    sockets,   \* tasks parked on a descriptor, with the order they registered
    polled,    \* orders of the ready descriptors still to be resumed
    clock,     \* the monotonic clock
    now,       \* the time read for this pass
    passed,    \* history: orders of the waits this pass has woken
    result,    \* how the run ended
    fault      \* the error that ended it, if any

hostVars == <<jobs, done, sockets>>
passVars == <<polled, now, passed>>
outcomeVars == <<result, fault>>
driverVars == <<pc, running, turns, hostVars, passVars, clock, outcomeVars>>
vars == <<channelVars, schedulerVars, driverVars>>

\* The scheduler errors that say it lost count of the tasks, and the others.
InternalErrors == {"wake count", "task count", "timer budget"}
Faults == InternalErrors \cup {"none", "task budget", "channel", "aborted"}

SocketTasks == {s.task : s \in sockets}
TimerTasks == {timers[k].action : k \in DOMAIN timers}
Alive == ToSet(ready) \cup TimerTasks \cup ParkedTasks \cup jobs \cup SocketTasks
            \cup ({running} \ {NoTask})

-----------------------------------------------------------------------------
DriverInit ==
    /\ Init
    /\ \E main \in Task : ready = <<main>>
    /\ timers = <<>>
    /\ live = 1
    /\ nextWait = 0
    /\ pc = "drive"
    /\ running = NoTask
    /\ turns = 0
    /\ jobs = {} /\ done = <<>> /\ sockets = {}
    /\ polled = <<>> /\ now = 0 /\ passed = <<>>
    /\ clock = 0
    /\ result = "none"
    /\ fault = "none"

Stop(how, why) ==
    /\ pc' = "stop"
    /\ result' = how
    /\ fault' = why

Goto(where) ==
    /\ pc' = where
    /\ UNCHANGED outcomeVars

Turn == turns' = (turns + 1) % CollectPeriod

\* Mutant: a reply is resumed but not consumed.
CollectJobsTwice ==
    /\ ready' = ready \o done
    /\ jobs' = jobs \ ToSet(done)
    /\ done' = done

\* resume_host_jobs: every reply that has arrived resumes its task.
CollectJobs ==
    /\ ready' = ready \o done
    /\ jobs' = jobs \ ToSet(done)
    /\ done' = <<>>

-----------------------------------------------------------------------------
(***************************************************************************)
(* drive_tasks.                                                            *)
(***************************************************************************)
\* Mutant: finished jobs are collected only when nothing can run.
CollectsIdle == ready = <<>> /\ jobs # {}

CollectsNow == turns = 0 /\ jobs # {}

\* A pass of wait_for_task is over; its locals are gone.
Dispatch ==
    /\ pc = "drive"
    /\ ready # <<>>
    /\ Turn
    /\ IF CollectsNow /\ ResumeFails(Len(done))
       THEN /\ Stop("failed", "wake count")
            /\ UNCHANGED <<schedulerVars, jobs, done, running>>
       ELSE LET queue == IF CollectsNow THEN ready \o done ELSE ready
            IN  /\ running' = Head(queue)
                /\ ready' = Tail(queue)
                /\ jobs' = IF CollectsNow THEN jobs \ ToSet(done) ELSE jobs
                /\ done' = IF CollectsNow THEN <<>> ELSE done
                /\ Goto("run")
                /\ UNCHANGED <<timers, live, nextWait>>
    /\ passed' = <<>>
    /\ now' = 0
    /\ UNCHANGED <<channelVars, sockets, polled, clock>>

Finish ==
    /\ pc = "drive"
    /\ ready = <<>>
    /\ live = 0
    /\ Turn
    /\ Stop("exit", "none")
    /\ UNCHANGED <<channelVars, schedulerVars, hostVars, passVars, clock, running>>

EnterWait ==
    /\ pc = "drive"
    /\ ready = <<>>
    /\ live # 0
    /\ Turn
    /\ Goto("wait")
    /\ UNCHANGED <<channelVars, schedulerVars, hostVars, passVars, clock, running>>

-----------------------------------------------------------------------------
(***************************************************************************)
(* wait_for_task: one pass collects finished jobs, then resumes the ready  *)
(* descriptors one by one, each after the overdue timers registered before *)
(* it, then the remaining overdue timers.                                  *)
(***************************************************************************)
Poll ==
    /\ pc = "wait"
    /\ IF ResumeFails(Len(done))
       THEN /\ Stop("failed", "wake count")
            /\ UNCHANGED <<ready, jobs, done, passVars>>
       ELSE /\ CollectJobs
            /\ \E descriptors \in SUBSET {s.order : s \in sockets} :
                  polled' = Ascending(descriptors)
            /\ now' = clock
            /\ passed' = <<>>
            /\ Goto("resume")
    /\ UNCHANGED <<channelVars, timers, live, nextWait, sockets, running, turns, clock>>

\* advance_network answers the task, or the descriptor was not ready after all
\* and the operation parks again behind every wait registered so far.
ResumeSocket ==
    /\ pc = "resume"
    /\ polled # <<>>
    /\ LET order == Head(polled)
           fired == Fired(now, order)
           socket == CHOOSE s \in sockets : s.order = order
       IN  /\ timers' = Kept(now, order)
           /\ \/ IF Len(ready) + Len(timers) >= live
                 THEN /\ Stop("failed", "wake count")
                      /\ ready' = ready \o Actions(fired)
                      /\ sockets' = sockets \ {socket}
                      /\ passed' = passed \o Orders(fired)
                      /\ UNCHANGED nextWait
                 ELSE /\ ready' = ready \o Actions(fired) \o <<socket.task>>
                      /\ sockets' = sockets \ {socket}
                      /\ passed' = passed \o Orders(fired) \o <<order>>
                      /\ UNCHANGED <<pc, outcomeVars, nextWait>>
              \/ /\ nextWait < MaxWaits
                 /\ ready' = ready \o Actions(fired)
                 /\ sockets' = (sockets \ {socket})
                                 \cup {[order |-> nextWait, task |-> socket.task]}
                 /\ nextWait' = nextWait + 1
                 /\ passed' = passed \o Orders(fired)
                 /\ UNCHANGED <<pc, outcomeVars>>
    /\ polled' = Tail(polled)
    /\ UNCHANGED <<channelVars, live, running, turns, jobs, done, now, clock>>

\* wake fires every overdue timer: its bound is above any registered order.
WakeBound == nextWait

\* Mutant: outstanding jobs are not counted as something to wait for.
NothingPendingJobs(kept) == sockets = {} /\ kept = <<>>

\* Mutant: only a finished run counts as having nothing to wait for.
NothingPendingLive(kept) == sockets = {} /\ jobs = {} /\ kept = <<>> /\ live = 0

\* With nothing left to wait for, every task waits on a channel.
NothingPending(kept) == sockets = {} /\ jobs = {} /\ kept = <<>>

FinishPass ==
    /\ pc = "resume"
    /\ polled = <<>>
    /\ LET fired == Fired(now, WakeBound)
           kept == Kept(now, WakeBound)
       IN  /\ ready' = ready \o Actions(fired)
           /\ timers' = kept
           /\ passed' = passed \o Orders(fired)
           /\ \/ ready' # <<>> /\ Goto("drive")
              \/ ready' = <<>> /\ ~NothingPending(kept) /\ Goto("wait")
              \/ ready' = <<>> /\ NothingPending(kept) /\ Stop("deadlock", "none")
    /\ UNCHANGED <<channelVars, live, nextWait, hostVars, polled, now, clock, running, turns>>

-----------------------------------------------------------------------------
(***************************************************************************)
(* run_task: the running task completes, halts, fails, or makes a request  *)
(* that either answers at once, and the task goes on, or parks it.         *)
(***************************************************************************)
Parks == running' = NoTask /\ Goto("drive")
Continues == running' = running /\ UNCHANGED <<pc, outcomeVars>>
Fails(why) == running' = running /\ Stop("failed", why)

runUnchanged == <<turns, passVars, clock>>

RunSpawn ==
    /\ pc = "run"
    /\ IF SpawnFails
       THEN Fails("task budget") /\ UNCHANGED schedulerVars
       ELSE \E task \in Task \ Alive : Spawn(task) /\ Continues
    /\ UNCHANGED <<channelVars, hostVars, runUnchanged>>

RunSleep ==
    /\ pc = "run"
    /\ nextWait < MaxWaits
    /\ \E d \in Delays :
          /\ clock + d <= MaxClock
          /\ IF SleepFails
             THEN Fails("timer budget") /\ UNCHANGED schedulerVars
             ELSE Sleep(clock + d, running) /\ Parks
    /\ UNCHANGED <<channelVars, hostVars, runUnchanged>>

RunOpen ==
    /\ pc = "run"
    /\ Cardinality(handles) < MaxChannels
    /\ \/ \E room \in Rooms : OpenReused(room) \/ OpenNew(room)
       \/ OpenFull
    /\ IF transition'.outcome = "failed" THEN Fails("channel") ELSE Continues
    /\ UNCHANGED <<schedulerVars, hostVars, runUnchanged>>

\* channel_request: the wakes of the transition are resumed in order, then the
\* caller goes on with the answer or stays parked where send or recv put it.
RunChannel ==
    /\ pc = "run"
    /\ \E h \in handles :
          \/ \E p \in Payload : Send(h, p, running)
          \/ Recv(h, running)
          \/ Close(h)
    /\ LET woken == [k \in DOMAIN transition'.wakes |-> transition'.wakes[k].continuation]
       IN  IF transition'.outcome = "failed"
           THEN Fails("channel") /\ UNCHANGED schedulerVars
           ELSE IF ResumeFails(Len(woken))
           THEN /\ Fails("wake count")
                /\ Resume(SubSeq(woken, 1, live - Len(ready) - Len(timers)))
           ELSE /\ Resume(woken)
                /\ IF transition'.outcome = "parked" THEN Parks ELSE Continues
    /\ UNCHANGED <<hostVars, runUnchanged>>

\* file_request hands the work to a worker thread.
RunSubmitJob ==
    /\ pc = "run"
    /\ jobs' = jobs \cup {running}
    /\ Parks
    /\ UNCHANGED <<channelVars, schedulerVars, done, sockets, runUnchanged>>

\* network_request parks the operation on its descriptor.
RunParkSocket ==
    /\ pc = "run"
    /\ nextWait < MaxWaits
    /\ sockets' = sockets \cup {[order |-> nextWait, task |-> running]}
    /\ nextWait' = nextWait + 1
    /\ Parks
    /\ UNCHANGED <<channelVars, ready, timers, live, jobs, done, runUnchanged>>

RunComplete ==
    /\ pc = "run"
    /\ IF live = 0
       THEN Fails("task count") /\ UNCHANGED schedulerVars
       ELSE Complete /\ Parks
    /\ UNCHANGED <<channelVars, hostVars, runUnchanged>>

RunHalt ==
    /\ pc = "run"
    /\ running' = running
    /\ Stop("halt", "none")
    /\ UNCHANGED <<channelVars, schedulerVars, hostVars, runUnchanged>>

\* Evaluation fails, the step budget runs out, or the host cancels.
Abort ==
    /\ pc \in {"drive", "run", "wait", "resume"}
    /\ Fails("aborted")
    /\ UNCHANGED <<channelVars, schedulerVars, hostVars, runUnchanged>>

-----------------------------------------------------------------------------
(***************************************************************************)
(* The world outside the driver's thread, and the end of the run.          *)
(***************************************************************************)
JobDone ==
    /\ pc \notin {"stop", "ended"}
    /\ \E task \in jobs \ ToSet(done) : done' = Append(done, task)
    /\ UNCHANGED <<channelVars, schedulerVars, jobs, sockets, pc, running, turns,
                   passVars, clock, outcomeVars>>

Tick ==
    /\ pc \notin {"stop", "ended"}
    /\ clock < MaxClock
    /\ clock' = clock + 1
    /\ UNCHANGED <<channelVars, schedulerVars, hostVars, pc, running, turns,
                   passVars, outcomeVars>>

\* drive_io_with_clock: every exit discards what is still pending.
Teardown ==
    /\ pc = "stop"
    /\ Goto("ended")
    /\ ready' = <<>> /\ timers' = <<>> /\ live' = 0 /\ nextWait' = 0
    /\ rows' = <<>> /\ free' = <<>> /\ payloads' = 0 /\ waiters' = 0
    /\ jobs' = {} /\ done' = <<>> /\ sockets' = {}
    /\ running' = NoTask
    /\ UNCHANGED <<handles, transition, runUnchanged>>

Ended == pc = "ended" /\ UNCHANGED vars

-----------------------------------------------------------------------------
Run ==
    \/ RunSpawn
    \/ RunSleep
    \/ RunOpen
    \/ RunChannel
    \/ RunSubmitJob
    \/ RunParkSocket
    \/ RunComplete
    \/ RunHalt

Drive == Dispatch \/ Finish \/ EnterWait

Wait == Poll \/ ResumeSocket \/ FinishPass

DriverNext == Run \/ Drive \/ Wait \/ Abort \/ JobDone \/ Tick \/ Teardown \/ Ended

\* The driver's thread keeps taking turns and the clock keeps advancing.  A
\* task may run without ever parking and a job may never finish.
DriverFairness == WF_vars(Drive \/ Wait) /\ WF_vars(Teardown) /\ WF_vars(Tick)

DriverSpec == DriverInit /\ [][DriverNext]_vars
FairDriverSpec == DriverSpec /\ DriverFairness

-----------------------------------------------------------------------------
(***************************************************************************)
(* Properties.                                                             *)
(***************************************************************************)

\* The driver's state keeps its types, and a task is running exactly while
\* run_task is.
DriverTypeOK ==
    /\ pc \in {"drive", "run", "wait", "resume", "stop", "ended"}
    /\ running \in Task \cup {NoTask}
    /\ pc = "run" => running # NoTask
    /\ pc \in {"drive", "wait", "resume", "ended"} => running = NoTask
    /\ ready \in Seq(Task) /\ timers \in Seq(Timer)
    /\ live \in 0..SchedulerLimit
    /\ done \in Seq(jobs) /\ jobs \subseteq Task
    /\ sockets \subseteq [order : Nat, task : Task]
    /\ fault \in Faults

\* Every live task is in exactly one place: running, ready, asleep, parked on a
\* channel, on a job or on a descriptor.  live, which only spawn and complete
\* touch, equals the number of places taken, so no resume runs a task twice and
\* none is forgotten.  (An error in the middle of a step may lose one: the run
\* is over then.)  The scheduler's internal errors never reach a user: no sequence
\* of wakes, completions and sleeps exceeds the live count.
OnePlace ==
    /\ DriverTypeOK
    /\ fault \notin InternalErrors
    /\ fault = "none" =>
        /\ Cardinality(Alive) = live
        /\ live = Len(ready) + Len(timers) + waiters + Cardinality(jobs)
                    + Cardinality(sockets) + (IF running = NoTask THEN 0 ELSE 1)

\* "deadlock: every computation waits on a channel" is printed only when that
\* is so: some task is live and each one is parked on a channel.
DeadlockHonest ==
    pc = "stop" /\ result = "deadlock" =>
        live > 0 /\ Alive = ParkedTasks /\ live = waiters

\* One pass of wait_for_task wakes timers and descriptors in the order in which
\* they were registered, whatever their deadlines and whatever is ready.
WakesInRegistrationOrder ==
    \A j, k \in DOMAIN passed : j < k => passed[j] < passed[k]

\* The driver calls the channel table the way Channels.tla assumes: only a task
\* that is not parked sends or receives.  What is proved of Channels holds here.
UsesChannels == [][pc = "stop" \/ Next]_channelVars

\* A finished job's task runs, even while other tasks stay runnable, as long as
\* no task keeps the driver for ever (drive_tasks collects every 64 turns).
FinishedJobRuns ==
    []<>(pc # "run") =>
        \A task \in Task : task \in ToSet(done) ~> (running = task \/ pc = "ended")

\* A sleeping task is woken if the driver keeps coming to wait: wait_for_task
\* never loops past an overdue timer.
SleepersWake ==
    []<>(pc = "wait") =>
        \A task \in Task : task \in TimerTasks ~> task \in ToSet(ready)

\* When every computation waits on a channel the run ends.
StuckEnds ==
    (live > 0 /\ running = NoTask /\ Alive = ParkedTasks) ~> pc = "ended"

\* Every wait of the driver leads on: to a woken sleeper, or to the end.
WaitsEnd == SleepersWake /\ StuckEnds

=============================================================================
