# Verification of teamy-bend

TLA+ specifications, TLC models and TLAPS proofs for teamy-bend: the run time,
where several computations, threads or bounded tables meet, and the language,
from tokens to checked terms and generated code. Source paths below are relative
to the repository.

Run a model with `tlc -workers 2 -config X.cfg M`, the proofs with
`tlapm M_proofs.tla`. `PROJECT.json` lists the components, the runs, the
source lines every definition stands for, one mutant per property, the hazards
and the theorems.

## The system and its parts

teamy-bend is a Rust implementation of the Bend 2 proof language: a parser and a
surface language, a kernel that elaborates, checks and reduces terms, a native
evaluator with a cooperative IO driver, compilers to JavaScript, C and GPU
targets with their run-time templates, and a command line.

| Part | State | Operations | Interacts with |
|---|---|---|---|
| Evaluator (`src/runtime/mod.rs`, `demand.rs`) | thunk and environment arenas, globals, continuation frames | evaluate, force, allocate, materialize | the collector at safe points |
| Collector (`src/runtime/gc.rs`) | free lists, caller roots, allocation debt | visit_roots, mark, sweep, with_roots | every table that holds thunk ids |
| Scheduler (`src/runtime/scheduler.rs`) | ready queue, timers, live count, wait order | spawn, next, resume, complete, sleep, wake | every other IO part resumes tasks through it |
| Channels (`src/runtime/channels.rs`) | rows with generations, free stack, counters | open, send, recv, close | returns wakes the driver hands to the scheduler |
| IO driver (`src/runtime/executable.rs`, `executable/`) | the running task, turn counter | drive_tasks, wait_for_task, run_task | all of the above |
| Host jobs (`src/runtime/host_jobs.rs`) | process-wide pool and budget, one portal per evaluation | submit, completed, wait, cancel | worker threads, file handles, wake pair |
| Files (`file_handles.rs`, `executable/file_io.rs`) | owned files by handle | insert, take, restore | travel to workers and back |
| Network (`network.rs`, `host_network.rs`, `executable/network_io.rs`, `host_network/readiness.rs`) | sockets, parked operations, wake pair | park, poll, advance, resume | shares the wait order with timers |
| C task runtime (`src/compiler/executable_tasks.c`) | task graph, CPU pool | adopt, start, finish, submit, complete, shutdown | compiled programs, foreign callbacks |
| Data session (`src/cli/serve/serve_cli.rs`, `protocol.rs`) | last request number, reader thread, queue of one | read, scan, respond | the evaluator |
| C, JavaScript and GPU run times (`src/compiler/executable_*.{c,js,cu}`) | the same tables once more, in the target language | the same operations | compiled programs |
| Native numbers (`runtime/nat.rs`, `numeric.rs`, `packed.rs`, `numeric_text.rs`) | packed naturals, words, frames of pending operations | arithmetic, conversion, read and show | the evaluator; Base's bodies as fallback |
| Loader and parser (`src/syntax/parser.rs`) | book, aliases, files seen, templates and their instances | file, declarations, expression, specialize | the match compiler, the kernel |
| Match compiler (`src/syntax/surface.rs`) | a stack of matrices and pending fallbacks | flatten_driver | the parser calls it for every body |
| Kernel (`src/kernel/`) | declarations checked so far, next identity, budgets | whnf, compare, infer, check, validate, lower | every later part trusts it |
| JavaScript generator (`executable_javascript.rs`, `executable_core.js`) | code under construction; jumps and unfinished nodes at run time | expression, run, apply | the lowered program |
| C and GPU generators, CLI | text | emit | sequential transformations |

What makes each part correct:

- **Channels**: payloads are neither lost, repeated nor reordered; a handle never
  names another channel than its own; the aggregate budgets equal what the table
  holds; the internal errors are unreachable.
- **Scheduler and driver**: every live task is in exactly one place; wakes come
  in registration order; a deadlock is reported exactly when every task waits on
  a channel; what can be resumed is resumed.
- **Host jobs and files**: budgets come back whatever fails or is cancelled; every
  parked task is resumed by exactly one answer; no queued job and no wake is
  overslept; a file has one owner.
- **C task runtime**: a run is owned once, a join starts once, foreign code never
  races workers, every execution ends with the threads joined.
- **Evaluator and collector**: sharing, by-value construction and reuse of slots
  never change an answer; no reference outlives its slot.
- **Network**: a descriptor has one owner and is closed once; a stream carries the
  bytes in order, each once; a ready request is served.
- **Native numbers**: a native operation answers what Base's definition says, for
  every representation and down to the point where a lazy argument is demanded.
- **Parser and loader**: reading gives back what was written; instances of a
  template are shared exactly when their arguments are equal; a program is refused
  for what is wrong with it.
- **Match compiler**: the first matching row answers.
- **Kernel**: what it accepts is true (no proof of Empty, every answer has its
  type); reduction, evaluation and generated code agree.
- **Data session**: line *k* gets the answer the protocol promises for it, and the
  session ends when it should.

## What is hard here

Tasks park in five different places and must be resumed exactly once; handles
outlive what they name; worker threads, timers and sockets race for the same
queue; budgets bound everything and must never drift from what they count; a
cancelled evaluation leaves jobs behind in a pool that other evaluations use;
the collector runs in the middle of a computation whose references are spread
over frames, tables and host recursion. On the language side the hard part is
length, not concurrency: the wrong answer needs a particular nesting of binders,
quantities, patterns, levels or imports, and most of these transformations keep
an explicit stack whose order matters. `PROJECT.json` lists these hazards line
by line with the properties aimed at them.

## Modules

| Module | Models | Builds on |
|---|---|---|
| `Channels` | `channels.rs` | |
| `Fifo` | what channels promise, without rows, waiters and budgets | |
| `ChannelOrder` | the table with a history of what was offered, accepted, received; the refinement of `Fifo` | `Channels`, `Fifo` |
| `Positions` | the part of a sequence at some positions, as `retain` leaves it | |
| `*_proofs` | the TLAPS proofs about the module they are named after (those about `ChannelOrder` are in `Channels_proofs`) | that module |
| `Scheduler` | `scheduler.rs`, as operators on its state | `Positions` |
| `TaskDriver` | `executable.rs` and its request handlers | `Channels`, `Scheduler` |
| `HostJobs` | `host_jobs.rs`, `file_handles.rs`, `executable/file_io.rs`, the wake pair of `readiness.rs` | `Positions` |
| `CpuPool` | `executable_tasks.c` | `Positions` |
| `Evaluator` | `runtime/mod.rs`, `demand.rs`, `gc.rs` | |
| `Meaning` | a call-by-name reference evaluator (recursive, for TLC only) | |
| `Network` | `network.rs`, `host_network.rs`, the poller, `network_io.rs` | `Positions` |
| `NumericText`, `Numbers` | `numeric_text.rs`; `nat.rs`, `numeric.rs`, `packed.rs` | |
| `Syntax`, `Parser`, `Loader` | `parser.rs`: operations on whole terms, the grammar, the files | each on the one before |
| `Surface` | the match compiler of `surface.rs` | `Kernel` (terms) |
| `Kernel` | `term.rs`, `fresh.rs`, `reduce.rs` | |
| `KernelCheck` | `check.rs` | `Kernel` |
| `Elaborate` | `elaborate.rs` | `KernelCheck` |
| `CompileJs` | `executable_javascript.rs`, the core of `executable_core.js` | `Elaborate` |
| `CheckBook` | `check_book`, `check_executable` and the contracts of `kernel/executable.rs` | `CompileJs` |
| `Shapes` | `checked_optimizations` of `nat.rs` | `KernelCheck` |
| `JsonScan` | `check_json_depth` of `serve_cli.rs` | |
| `Serve` | the session and reader threads of `serve_cli.rs`, `protocol.rs` | |
| `MC*` | instances for TLC; `MCCore` joins `MCKernel`, `MCSurface` and `MCNumbers`, `MCServe` joins `Serve` and `JsonScan` | the module they are named after |

### Channels

State: `rows` (generation and channel), the stack `free`, the counters
`payloads` and `waiters`, and two observers, the `handles` given out and the
`transition` that the last call returned. `Open`, `Send`, `Recv` and `Close` are
the four methods; each early return, each budget and each internal error is a
case of its own. `StoreOrRelease` is the end of `recv` and `close`: a closed
channel without payloads is released, its row retired once its generation is
used up. The storage compaction of the wait queue has no observable effect and
is left out. `MaxGeneration` stands for `u32::MAX`; it is a parameter, so the
proofs cover the real value and TLC the retirement of a row.

### TaskDriver and Scheduler

One thread; `pc` is its place in `drive_tasks`, `run_task` and `wait_for_task`.
A running task takes any request the runtime offers: spawn, sleep, the four
channel operations, a job, a descriptor wait, completion, halt, an error. A step
that wakes several tasks applies the whole transition. Jobs finish in any order
and any parked descriptor may become ready or have to park again in the middle
of a pass. Console output and evaluation change no task state and appear as
running on or aborting.

Two facts about the design are visible in the model and are not defects it
claims: timers and descriptors are only looked at when no task is ready, so
tasks that keep each other runnable postpone them without bound (finished jobs
are collected every 64 turns, `CollectPeriod`); and a task that never parks
keeps the driver for itself, which is why `FinishedJobRuns` is conditional on
`[]<>(pc # "run")`, and `WaitsEnd` and `Network`'s `ReadyServed` on the driver
coming to wait.

### HostJobs

Evaluations (VMs) and workers interleave at every lock and atomic operation.
`Budget::reserve` takes its slot and its bytes in two steps and gives the slot
back in a third, so another evaluation may see a slot that is about to be
returned. `Pool::submit` decides under the lock whether to start a worker; the
start may fail. A worker takes a job, runs it, checks the cancellation flag,
sends the answer, *then* notifies. A VM that sleeps in the poller goes through
install, poll, drain, collect, block, in this order; the order is what
`NoLostWake` rests on, and the 100 ms limit of a host wait is not used to excuse
a lost wake. Ending a VM cancels its portal: queued jobs are removed, running
ones find the flag or a closed channel and drop their lease. A cancelled job's
lease is dropped after the worker stopped being busy (`discard`).

While a file travels with its job, other opens may fill the table, and
`restore` then fails with a budget error: the model allows it, and
`OneOwner` excludes only the internal errors.

### CpuPool

The coordinator runs `tb_task_execute`; workers run `tb_cpu_worker`. A task record
and the run that computes it are one node. What `tb_task_advance` does inside a
run is abstracted to the event it ends with: a value, a returned graph, a
foreign call that may enter the executor again, or an error. One condition
variable is shared by both sides; spurious wake-ups are actions. `ForeignAlone`
states the two comments at `executable_tasks.c:748-750`.

### Evaluator and Meaning

`force` is a machine with explicit frames (update, apply, match, constructor
chains); every transition between two points where the collector can run is one
step. Thunks and environments live in arenas with free lists; a collection marks
from the roots the code visits and sweeps. A reference that `gc.rs` misses would
later name a slot with another content, which `HeapSound` notices at once and
`Adequate` when the answer comes out wrong. `Abort` stands for the step budget
and cancellation, checked before every step; a failed invocation discards its
machine. Packed naturals and words, numeric intrinsics and foreign requests are
left out (`packed` keeps the sharing it switches on in `Machine::expression`).
The tables of the IO driver are roots of the collector too; they are not joined
with this heap.

### Serve and JsonScan

Two threads and a queue with room for one line. A line is a request with its
number and the outcome of its call, a malformed request, or bytes that cannot be
framed. `JsonScan` reads one byte class per step and is compared with a
definition of well-framed lines that mentions no automaton. `MCServe` runs both:
the scanner keeps no state between lines and shares none with the threads, so a
behaviour is a session or the scan of one line.

### Network

The table of handles, the parked requests with the socket inside, the budgets of
handles, retained and transferred bytes, and the operating system with its peers
(external), which fill, empty, shut, reset and leave between any two calls. The
bytes a program writes to a descriptor are numbered, so that a lost, repeated or
reordered one shows on the wire. `TaskDriver` has the order of wakes between
timers and descriptors; `Network` has what travels with them. A task may make
requests, return, spawn a successor and return (`SpawnsSuccessor`, which two tasks
may do for ever), or never give the driver back. The poller is asked only when no
task is ready, so a ready descriptor waits without bound behind such tasks:
`ReadyServed` is conditional on `[]<>(Idle \/ outcome # "running")`, the driver
coming to poll again and again until the run ends, and is false without it.

### Numbers and NumericText

A natural is packed, a run of successors over a lazy tail, or constructors; a word
may be packed in whole or from some bit on; any part may loop. The machine demands
`focus` and stacks the native operations that wait. Where an operation does not
know a representation it enters Base's body, which is modelled as well (external:
it is a Bend program), since it calls native operations again. `MaxNat` and `Width`
stand for 2^48 - 1 and 32, `Precision`, `EMin`, `EMax` for the format of F32.

### Parser, Syntax and Loader

`Parser` is the grammar as operators from a parser state to the next, one per
method; an error passes through them as `?` does. `Loader` is the state machine: a
step reads one import line or one declaration of the file on top of the stack. The
instance prints small programs with as few parentheses as the levels allow and
demands that reading gives them back, name by name and declaration by
declaration. Tokens are what the lexer returns; `>>` and `-1` are one token and
are split in place, as in the code.

### Surface

`flatten_driver` is a machine with its own stack, and is modelled as one: a current
body, matrix or value, and the saved frames. The meaning it is compared with
binds patterns and takes the first row, without matrices.

### Kernel, KernelCheck, Elaborate, CompileJs, CheckBook, Shapes

A term is one record; a binder is a number. `Whnf`, `Normalize` and `Compare` are
`reduce.rs`, `Infer` and `Check` with usage, descent and erased scrutinees are
`check.rs`. One nesting depth stands for the two budgets of the code; running out
of it rejects. `CheckBook` is the state machine: one declaration per step, in
proof or executable mode. An accepted book is then evaluated by the kernel, by
`Meaning` and, lowered and compiled to a tree of JavaScript, by the trampoline of
`executable_core.js`. `Shapes` decides whether the program gets native naturals.

## Runs

| Run | Bounds | Shows |
|---|---|---|
| `channels` | 3 rows of 2 generations, 3 tasks, rooms 0 and 2 | `TypeOK`, `Coherent`, `FreeListExact`, `CountersExact`, `NoInternalError`, `StaleForever` |
| `channel_order` | 2 channels (in two rows or one after the other in one), 4 offers of 2 payloads | `InOrder`, `ImplementsFifo` |
| `driver` | 3 tasks, 1 channel of room 0 or 1, 3 waits, clock 0..1 | `OnePlace`, `DeadlockHonest`, `WakesInRegistrationOrder`, `UsesChannels` |
| `driver_live` | 3 tasks, 1 channel, 1 wait | `FinishedJobRuns` while two tasks keep each other runnable; `WaitsEnd` (`SleepersWake`, `StuckEnds`) |
| `host` | 2 VMs, one of which polls, 2 workers, 2 jobs of 2 or 3 bytes, budgets for 2 jobs and 4 bytes | `AccountsExact` (`BudgetExact`, `PoolExact`), `OneOwner`, `NoLostWake` |
| `host_live` | 2 VMs, 2 workers; 2 jobs together, 3 for a VM that is alone, all within the budget | `BudgetReturns`, `QueuedJobTaken` with jobs of both VMs in the queue, and with a job behind two running ones |
| `cpu_pool` | 2 workers, 5 nodes, joins of 2 children, 3 graphs, nesting 2 | `GraphExact` (`OwnedOnce`, `JoinsExact`, `NoGraphFault`), `PoolCountExact`, `ForeignAlone`, `EndsDown` |
| `evaluator` | 13 programs and a family of 64, lazy and by value, with and without sharing, 6 settings of the limits | `HeapSound` (with `BlackHolesExact`), `Adequate`, `EvaluationEnds` |
| `serve` | every line of up to 6 byte classes, depth 2; 3 lines, numbers 0..2 (2 is `u64::MAX`) | `ScanRight`, `AnswersRight`, `SessionEnds` |
| `network` | 2 tasks, 2 handles, 3 requests, 3 events of the peers, transfers of 0, 2 and 3 bytes through a buffer of 1 | `DescriptorsOwned`, `StreamExact`, `ReadyServed` |
| `core` | about 650 books and 2,900 bodies; naturals up to 8 with two lazy layers, words of 3 bits, floats of 3 bits precision, some 5,000 texts | `Sound`, `EvaluateAgrees`, `CompiledAgrees`, `NativeAgrees`, `FirstMatch`, `NumbersRight` (`NatRight`, `WordRight`, `TextRight`) |
| `loader` | several thousand programs of one to three files, 6 instances, 4 nested ones | `LoadsRight` (`ReadsBack`, `RefusesRight`), `InstancesRight` |

Why the bounds are enough: every budget is reached and exceeded; three rows and
two generations let a row be reused, retired and bypassed while others live;
three tasks let a sender, a receiver and a third party race on a channel; two
workers and two jobs of two VMs let both VMs have a job in the queue, a
cancellation fall between any two steps of a worker, and a file be opened and
used again; two jobs of two bytes fit the budget and one of three does not go with
another, so reservations succeed beside one another and are rolled back; with three
jobs and two workers a job waits behind two running ones and is notified to nobody
(a worker that slept after its job without a look at the queue passes with two jobs
and fails with three); only a VM that is alone may ask for the third (`MaxShared`);
five nodes hold a join of two whose child returns a graph again; the evaluator's
small arenas force slots to be reused several times within one answer,
with a collection at nearly every safe point in the roomy setting. A send of three
bytes through a buffer of one parks twice. The books of `core` are families around
one rule each (a call that does not come down, a linear variable used twice or in
one arm only, an erased scrutinee, a captured binder, a refinement that is
forgotten, a contract that lies, a changed helper of Base): most are wrong in one
way, and the accepted ones are run. Symmetry is used for tasks and payloads, in
safety runs only.

Deadlock is checked in all runs but `network` and `core`, which stop when their
bounded requests, or the book, body or operation, are used up. Every final state
of the other systems has a stuttering action of its own (the process is over), so
a deadlock would be a state in which every thread waits.

`Judge`, `Holds`, `Keeps` and `Parse` are constant operators to which the
configurations give the definitions of the modules themselves (`Judgement`,
`Claim`, `FirstRow`, `Declaration`), wrapped: TLC's profile of an invariant or
action expands every call in it, and the checker and the grammar are too deeply
recursive to be expanded.

### Fairness

- `TaskDriver`: weak fairness of the driver's own steps, of teardown and of the
  clock. None for a running task or for a job: either may go on for ever.
- `HostJobs`: weak fairness of each worker's steps except the end of the job it
  runs (`Return`), and of the second half of dropping a lease (`DropSlot`). None
  for the evaluations. Properties that need jobs to end say so in their premise.
- `CpuPool`: weak fairness of the coordinator and of each worker. A run cannot
  go on for ever because `tb_tick` counts down a finite budget.
- `Evaluator`: the machine keeps stepping until it has ended, spelled
  `[]<>Ended \/ []<><<Step>>_machine`, which says the same as weak fairness
  because a step is enabled until the end, and spares TLC the `ENABLED`.
- `Network`: weak fairness of the driver's own steps only, the host's calls of a
  request at work among them. Neither the peers nor the running task owe a step: a
  task may keep the driver for itself, and tasks may keep one another runnable. A
  request whose descriptor stays ready is served if the driver keeps coming to poll.
- `Serve`: weak fairness of both threads; `recv_timeout` returns within 50 ms, so
  the session never blocks on the reader. The client is not assumed fair.

## Proofs

Every theorem holds for every value of the constants that the named assumptions
allow. The proofs use `ChannelAssumption` and `NoChannelAssumption` (positive
limits, rooms are naturals, None is no channel), `DriverAssumption` (tasks are
what waits on channels, the two budgets are one constant), `HostAssumption` and
`NoJobAssumption` (finitely many evaluations and workers), `CpuAssumption`
(finitely many workers, at least one node and one level of the executor),
`NetworkAssumption` (finitely many tasks, limits and sizes are naturals),
`ProgramAssumption` (the evaluator's programs were checked: terms have their parts,
a let as many values as binders, and no definition that is named is missing),
`LimitAssumption` (its limits are naturals, with room for one slot) and
`BoundsAssumption` of `Serve`; nothing else is assumed.

| Theorem | Module | States |
|---|---|---|
| `Invariance` | `Channels_proofs` | `Spec => []Inv`, the inductive invariant |
| `TypeCorrect`, `Coherence`, `FreeListExactness`, `CountersExactness`, `InternalErrorFreedom` | `Channels_proofs` | `TypeOK`, `Coherent`, `FreeListExact`, `CountersExact`, `NoInternalError` are invariants |
| `Staleness` | `Channels_proofs` | `Spec => StaleForever`, an action property |
| `OrderInvariance` | `Channels_proofs` | `OrderedSpec => []OrderInv`, the inductive invariant |
| `Order` | `Channels_proofs` | `OrderedSpec => []InOrder` |
| `Refinement` | `Channels_proofs` | `OrderedSpec => ImplementsFifo`: the table implements `Fifo` |
| `DriverInvariance` | `TaskDriver_proofs` | `DriverSpec => []DriverInv`, the inductive invariant |
| `Places`, `Deadlocks`, `WakeOrder` | `TaskDriver_proofs` | `OnePlace`, `DeadlockHonest`, `WakesInRegistrationOrder` are invariants |
| `TableUse` | `TaskDriver_proofs` | `DriverSpec => UsesChannels`, an action property |
| `ServeInvariance` | `Serve_proofs` | `Spec => []ServeInv`, the inductive invariant |
| `Answers` | `Serve_proofs` | `Spec => []AnswersRight` |
| `HostInvariance` | `HostJobs_proofs` | `Spec => []HostInv`, the inductive invariant |
| `Accounts`, `Owners`, `Wakes` | `HostJobs_proofs` | `AccountsExact`, `OneOwner`, `NoLostWake` are invariants |
| `PoolInvariance` | `CpuPool_proofs` | `Spec => []Inv`, the inductive invariant |
| `GraphExactHolds`, `PoolCountHolds`, `ForeignAloneHolds` | `CpuPool_proofs` | `GraphExact`, `PoolCountExact`, `ForeignAlone` are invariants |
| `HeapInvariance` | `Evaluator_proofs` | `Spec => []Inv`, the inductive invariant |
| `HeapSoundness` | `Evaluator_proofs` | `Spec => []HeapSound` |
| `InvHolds` | `Network_proofs` | `Spec => []Inv`, the inductive invariant |
| `DescriptorsOwnedHolds`, `StreamExactHolds` | `Network_proofs` | `DescriptorsOwned`, `StreamExact` are invariants |

`Positions_proofs` holds the lemmas on the part of a sequence at some of its
positions (what `retain` and `drain` leave) that the proofs of `HostJobs`,
`TaskDriver`, `CpuPool`, `Network` and `Evaluator` use.

### Channels

The inductive invariant is `Inv == TableInv /\ Sound(transition) /\ CountInv`.
`TableInv` joins types, `Coherent` and `FreeListExact`: coherence is needed for
types (a parked sender at the front means that its payload may be taken), the
free list for `open` (a free row is vacant and its generation below the limit,
or the increment would fail), and `HandlesOld`: no handle is newer than its
row, so the handle that `open` mints was never held before. `CountInv` is `CountersExact` together with the
finiteness of the sets of places that it counts. Operations are proved first as
lemmas about one channel (what pushing, popping, refilling and closing do to
coherence), then about one row put back into the table, then per action;
counting is a chain of lemmas on how one changed row changes the sets of
occupied places. `Staleness` is an action property from the same invariant:
generations of a row only grow, and a handle names a channel only at its own
generation.

### Order and the refinement of Fifo

`OrderInv == Inv /\ HistoryOK /\ InOrder`. `InOrder` alone is not inductive: that
a refill keeps the order needs coherence (whoever waits on a buffered channel is
a sender), and that a reused row starts afresh needs `HandlesOld`. Each action
changes one handle's channel; a lemma per kind of change (push, pop, refill, hand
over, park, close) shows `Ordered` for that handle, and another that all other
handles keep theirs. The refinement follows action by action: the mapping of
`ImplementsFifo` sends buffering, handing over and refilling to an abstract send
or receive, and parking, closing an empty channel's waiters and row reuse to
stutters.

### TaskDriver

`DriverInv` is `Inv` of the channel table (until the end, when the table is
discarded) and `Good`, the driver's own part. `World` says where the tasks are: the
six places are disjoint (`Apart`), no place holds a task twice (`Once`), and `live`
is the sum of their sizes; `ParkedOnce` says that no task waits on two channels or
twice on one. `OnePlace` speaks of the sizes alone and is not inductive: that
`channel_request` can resume whatever a transition wakes needs the wakes to be
distinct parked tasks, and that the running task may be parked needs it to be
nowhere else. `Ordered` and `Passing` carry the order of the wakes: orders are below
`nextWait` and differ, and what a pass has woken was registered before the
descriptors and the overdue timers it has still to wake; a descriptor that parks
again gets a higher order than all of them. `Control` ties `pc` to the task that
runs and rules out the internal errors, which the proof of each action refutes by
counting. The proof has three layers: lemmas on how a task moves from one place to
another (`CollectMove`, `TakeMove`, `FireMove`, `WakeMove`, ...), stated of arbitrary
sequences and sets; what each operation of the channel table does to the parked
tasks (`SendEffect`, `RecvEffect`, `CloseEffect`, `OpenEffect`); and one lemma per
action that puts them together.

`TableUse` shows that the driver's steps are steps of `Channels`: the running task is
never parked. So `Inv`, and with it everything proved of the table, holds in
the composed system, and the proof of `DriverInvariance` uses it so.

### Serve

`ServeInv` says where every line is: answered, being answered, in the bounded
channel, held by the reader or unread, in this order (`Flow`); that `lastId` is the
largest number among the answered requests; why the reader may have left
(`ReaderLeft`: without it a session could end with lines unread); and that no
answered line was unframed while the session runs (`Framed`).

### HostJobs

`HostInv` joins eleven parts. `OnePlaceEach` and `Fresh` say that a job is queued,
held by one worker or answered, never two of these, and that new numbers are
unused; `PendingFlies` and `HandlesOut` tie the tables of a running evaluation to
its jobs and files in flight; `FlagHonest` and `WaitReady` relate cancellation
flags and the installed wake socket to where the evaluation is, which is what
`NoLostWake` needs across the gap between send and notify; `Counted` and
`Budgeted` are the counters. The budget part is the longest: a byte is one unit
of a set of pairs (`Units`), so that dropping a queue's or a receiver's leases is
the removal of a subset and its size a cardinality. `BudgetExact` holds only with
slots half taken and half returned counted in, and it is proved in this form.

### CpuPool

`Inv` is `Types /\ Control`, `Counting` until the pool is down, and `Graph` while
the executor is active. `Counting` is not `PoolCountExact` with a failure left out:
a failed worker drops its run and leaves it counted, so after a failure `pending`
is *larger* than the number of runs in the pool. So a failed pool is never taken
for an idle one (`IdlePool`), which is what keeps a foreign call from entering the
executor, and an execution from ending, while a worker is busy.

`Graph` says that there is a placement: every identity is in one kind of place
(free, queued, completed, with a worker, in the coordinator's hand, waiting for its
children, ...), and under it the books are exact. `Tree` is the part that
`GraphExact` needs to be inductive: parents and slots are linked both ways, a
parent waits for as many deliveries as it has children without a value (`Exact`),
a context has one root, and the graph is well-founded (`Founded`: every set of
nodes has one without a child in the set). The errors that the code can
report of itself are refuted from these: "duplicate delivery" by `Exact`, "invalid
root delivery" by `Rooted`, and "incomplete task graph" by `Founded`, since in a
set of records that nothing runs any more one would have nothing to wait for.
While a returned graph is accepted, its run is in no place (`loose`); the books
are exact then too, so the acceptance is proved in the pieces it has in the code:
adopting the children, rooting them, and releasing the run. The proof has lemmas
on lists and queues, then on what each move does to the books (`BooksSubmit`,
`BooksDeliver`, `BooksAdopt`, `BooksEnter`, ...), then one lemma per action.

### Evaluator

`Inv` is `Bounded`, `Working(heap, frames)` and `Held` of the slots in use. `HeapSound`
is not inductive: it says that a live slot is never referred to after it was freed,
but what keeps it is a property of every stored reference. So the invariant
names the set `L` of thunks and the set `E` of environments in use, and says of
each part of the machine (thunk, environment, value, frame, global, root) that
it refers to nothing else (`Closed`, `GoodThunk`, `GoodFrame`, ...). With `L` and `E` as
parameters a step that allocates only enlarges them, and a collection only
replaces them by the marked parts, so each is one lemma per kind of reference.

- *Allocation and evaluation.* `Arena` says that the free list holds the slots not
  in use, each once; a popped slot was therefore unreferenced. The loops over fields,
  arguments and environments are bounded recursive functions, and their lemmas go by
  `SetInduction`, which is stated of a set of naturals and needs no operator for
  a parameter.
- *Black holes.* `Holes` says that the thunks being evaluated are those of the update
  frames, each once, and that the pending constructors are disjoint chains that hang
  from the chain frames. A chain is the least linked set that contains its head, so
  linking a new head, completing a chain outwards and compressing a tail are
  arguments about sets.
- *Collection.* Marking runs as many rounds as there are slots; `Marked` is closed
  because a round that adds nothing is the last that can, and one that adds something
  makes the number of marked slots larger. What the sweep clears is unmarked, so
  nothing marked refers to it; black holes and pending chains are marked since
  their frames are roots, so `Holes` survives although thunks disappear.
- *Reading.* While an answer is read out, the fields of the constructors not yet
  finished must be roots. `Reading` says that the roots are these fields one behind the
  other, `Offsets` where each constructor begins; without it, popping the fields of
  a finished constructor could drop those of the one around it.

After a failure the machine is discarded, so the invariant says nothing of its
roots then.

### Network

`Inv` joins `Duty` (who runs, and that no internal fault has been met), `Work` (the
request the running task works on is one it may work on), `Books` and `Polled`.
`Books` is stated of a table of handles together with the descriptors and the
handle that are *in hand*: a request takes its socket out of the table, works on
it while the table has forgotten it, and puts it back or parks it, so neither table
nor request alone satisfies an invariant in between. With the hand as a
parameter, each operation of the table is one lemma (what leaves the table is in
hand and the other way round) and an action is a composition of them. Its parts:
types, the counters of handles and retained bytes (`Counted`), no handle busy in
two requests (`Single`), no descriptor behind two handles (`Distinct`), and the
bytes of every stream (`Flowing`), from which `StreamExact` follows. `Polled` is
needed for the pass over ready requests: each of them is still parked and decided
when its turn comes, whatever the earlier ones did.

### Left to TLC

- Liveness: the prover has no fairness rules and no ENABLED.
- `Adequate` of `Evaluator`: it compares the answer with that of `Meaning`, which is
  recursive.
- `JsonScan`, `Meaning`, `Numbers`, `NumericText`, `Syntax`, `Parser`, `Loader`,
  `Surface` and the kernel's modules are recursive functions over data, mostly
  RECURSIVE operators: what they compute is out of the prover's reach in principle
  (it has no induction over data), and no theorem module reaches them.

## Not modelled, and the plan

- System calls (files, sockets, processes), path handling, logging and the straight
  command handlers: their outcomes are choices in the models.
- Text: the lexer, diagnostics, source origins and recovery, the ranges of
  literals, and the byte limits of template keys. `syntax/diagnostics.rs` and the
  origins in `check.rs` never change a verdict.
- Memo tables, hash-consing and flat traversals of the kernel, which change the
  cost and not the answer; its two work budgets are one depth here.
- Float arithmetic of the host, native integers of the JavaScript target.
- The C and GPU generators and run times (`executable_c*.rs`, `executable_*.c`,
  `*.cu`) except the task executor, and IO of the JavaScript run time: generated C
  manages memory by hand, and its storage would need a heap model of its own.

Next, in order:

1. The IO drivers of the other targets against the native driver's properties.
2. The device task queue (`executable_device_tasks.cu`); publication of compiler
   outputs and child processes; data budgets of `protocol.rs`.
