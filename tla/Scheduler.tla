----------------------------- MODULE Scheduler ------------------------------
(***************************************************************************)
(* The cooperative run queue of the native runtime, src/runtime/           *)
(* scheduler.rs.  An action waiting to run is represented by the task it   *)
(* continues.  Operations that can fail come with the condition under      *)
(* which they do.                                                          *)
(***************************************************************************)
EXTENDS Integers, Sequences, Positions

CONSTANTS Task, SchedulerLimit   \* SchedulerLimit is ARENA_LIMIT

VARIABLES
    ready,     \* tasks that can run, first to last
    timers,    \* sleeping tasks, in registration order
    live,      \* tasks spawned and not completed
    nextWait   \* next identity for a timer or a descriptor wait

schedulerVars == <<ready, timers, live, nextWait>>

SchedulerInit ==
    /\ ready = <<>>
    /\ timers = <<>>
    /\ live = 0
    /\ nextWait = 0

Timer == [order : Nat, deadline : Nat, action : Task]

-----------------------------------------------------------------------------
SpawnFails == live >= SchedulerLimit

Spawn(task) ==
    /\ live' = live + 1
    /\ ready' = Append(ready, task)
    /\ UNCHANGED <<timers, nextWait>>

\* The first of n consecutive resumes that would exceed the live tasks fails.
ResumeFails(n) == n > 0 /\ Len(ready) + Len(timers) + n > live

Resume(tasks) ==
    /\ ready' = ready \o tasks
    /\ UNCHANGED <<timers, live, nextWait>>

\* Mutant: a completed task stays counted.
CompleteUncounted == UNCHANGED <<ready, timers, live, nextWait>>

Complete ==
    /\ live' = live - 1
    /\ UNCHANGED <<ready, timers, nextWait>>

SleepFails == Len(timers) >= live \/ Len(ready) + Len(timers) >= SchedulerLimit

Sleep(deadline, task) ==
    /\ timers' = Append(timers, [order |-> nextWait, deadline |-> deadline, action |-> task])
    /\ nextWait' = nextWait + 1
    /\ UNCHANGED <<ready, live>>

-----------------------------------------------------------------------------
\* Timers that are overdue and registered before the given order move to the
\* ready queue in registration order; the others keep their places.
\* Mutant: any overdue timer is moved, whenever it was registered.
OverdueAny(timer, now, order) == timer.deadline <= now

Overdue(timer, now, order) == timer.deadline <= now /\ timer.order < order

Firing(now, order) == {k \in DOMAIN timers : Overdue(timers[k], now, order)}
Fired(now, order) == Subsequence(timers, Firing(now, order))
Kept(now, order) == Subsequence(timers, DOMAIN timers \ Firing(now, order))

Actions(fired) == [k \in DOMAIN fired |-> fired[k].action]
Orders(fired) == [k \in DOMAIN fired |-> fired[k].order]

=============================================================================
