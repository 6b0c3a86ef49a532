------------------------------ MODULE CpuPool -------------------------------
(***************************************************************************)
(* The task executor of compiled programs, src/compiler/executable_tasks.c.*)
(* A coordinator owns a graph of tasks: a task that returns a graph parks  *)
(* as its boundary until the graph's root delivers, a join starts when its *)
(* last child has delivered.  Ready runs that the compiler declared safe   *)
(* go to a pool of worker threads through mutex-protected queues; foreign  *)
(* code runs on the coordinator, which may enter the executor again.       *)
(* A task record and the run that computes it are one node here.  Slot     *)
(* indexes, widths and ownership masks are left out; what a node computes  *)
(* is the choice of its next event.                                        *)
(***************************************************************************)
EXTENDS Integers, Sequences, FiniteSets, Positions

CONSTANTS
    Worker,       \* threads the pool may create: tb_cpu.desired
    MaxNodes,     \* BEND_MAX_TASKS: nodes alive at once
    MaxDepth,     \* BEND_MAX_DEPTH: nested executions
    MaxChildren,  \* children of a join in a returned graph
    MaxGraphs     \* bound on the graphs and nested executions of one run

ASSUME CpuAssumption ==
    /\ IsFiniteSet(Worker)
    /\ MaxNodes \in Nat \ {0} /\ MaxDepth \in Nat \ {0}
    /\ MaxChildren \in Nat /\ MaxGraphs \in Nat

None == 0
Id == 1..MaxNodes

VARIABLES
    node,       \* the live nodes
    stack,      \* executions, outermost first: [ready, hand, done]
    pc,         \* where the coordinator is
    pending,    \* tb_cpu_pending: runs handed to the pool and not accepted
    created,    \* threads created
    at,         \* where each worker is
    holds,      \* the run it works on
    queue,      \* runs for the workers
    completed,  \* runs they have advanced
    stop, failed,
    live,       \* tb_cpu_live_workers
    graphs,     \* graphs adopted and executions entered so far
    fault       \* an internal error of the executor

graphVars == <<node, stack, pending, graphs, fault>>
poolVars == <<created, at, holds, queue, completed, stop, failed, live>>
vars == <<graphVars, pc, poolVars>>

Node == [up : {None} \cup Id, boundary : {None} \cup Id, remaining : Nat,
         depth : 1..MaxDepth, recorded : BOOLEAN, safe : BOOLEAN,
         event : {"none", "finish", "graph", "coordinator"}]

Context == [ready : Seq(Id), hand : {None} \cup Id, done : BOOLEAN]

Depth == Len(stack)
Top == stack[Depth]
Records(d) == {i \in DOMAIN node : node[i].depth = d /\ node[i].recorded}

\* The n lowest free identities.
Fresh(n) == CHOOSE S \in SUBSET (Id \ DOMAIN node) :
                /\ Cardinality(S) = n
                /\ \A i \in S, j \in (Id \ DOMAIN node) \ S : i < j

Room(n) == Cardinality(Id \ DOMAIN node) >= n

-----------------------------------------------------------------------------
(***************************************************************************)
(* The task graph: adoption and delivery, on the coordinator only.  Both   *)
(* give the new node table and the runs they start; deeper graphs than one *)
(* join arise when children return graphs of their own.                    *)
(***************************************************************************)
Leaf(up, boundary, depth, recorded) ==
    {[up |-> up, boundary |-> boundary, remaining |-> 0, depth |-> depth,
      recorded |-> recorded, safe |-> safe, event |-> "none"] : safe \in BOOLEAN}

\* Every node of a graph has a record.
GraphRoot(boundary, depth) == Leaf(None, boundary, depth, TRUE)
GraphChild(head, depth) == Leaf(head, None, depth, TRUE)

Dependencies(children) == Cardinality(children)

\* tb_task_adopt: the root of the graph, and the children it waits for.
WithGraph(table, head, children, root, leaves) ==
    [i \in DOMAIN table \cup {head} \cup children |->
        IF i = head
        THEN [root EXCEPT !.remaining = Dependencies(children)]
        ELSE IF i \in children THEN leaves[i] ELSE table[i]]

Adopted(table, boundary, depth, head, children) ==
    {WithGraph(table, head, children, root, leaves) :
        root \in GraphRoot(boundary, depth),
        leaves \in [children -> GraphChild(head, depth)]}

\* Mutant: the join is started with its children.
StartedAll(head, children) == <<head>> \o Ascending(children)

Started(head, children) ==
    IF children = {} THEN <<head>> ELSE Ascending(children)

Without(table, i) == [j \in DOMAIN table \ {i} |-> table[j]]

Push(context, runs) == [context EXCEPT !.ready = @ \o runs]

\* A run of this execution returned a graph: it waits as the graph's boundary.
AcceptGraph(run, context) ==
    /\ \E k \in 0..MaxChildren :
          /\ Room(k + 1)
          /\ LET new == Fresh(k + 1)
                 head == CHOOSE i \in new : \A j \in new : i <= j
             IN  /\ node' \in Adopted(node, run, Depth, head, new \ {head})
                 /\ stack' = [stack EXCEPT ![Depth] =
                                Push(context, Started(head, new \ {head}))]
    /\ graphs' = graphs + 1
    /\ fault' = fault

\* tb_task_finish: the result goes to the join that waits for it, to the parked
\* boundary, or becomes the root result of this execution.
AcceptFinish(run, context) ==
    LET n == node[run]
        rest == Without(node, run)
    IN  /\ \/ /\ n.up # None
              /\ IF node[n.up].remaining = 0
                 THEN /\ fault' = "duplicate delivery"
                      /\ UNCHANGED <<node, stack>>
                 ELSE /\ node' = [rest EXCEPT ![n.up].remaining = @ - 1]
                      /\ stack' = [stack EXCEPT ![Depth] = Push(context,
                            IF node[n.up].remaining = 1 THEN <<n.up>> ELSE <<>>)]
                      /\ fault' = fault
           \/ /\ n.up = None /\ n.boundary # None
              /\ node' = [rest EXCEPT ![n.boundary].safe = TRUE]
              /\ stack' = [stack EXCEPT ![Depth] = Push(context, <<n.boundary>>)]
              /\ fault' = fault
           \/ /\ n.up = None /\ n.boundary = None
              /\ node' = rest
              /\ stack' = [stack EXCEPT ![Depth] = [context EXCEPT !.done = TRUE]]
              /\ fault' = IF context.done THEN "invalid root delivery" ELSE fault
        /\ UNCHANGED graphs

\* A graph the task or step budget has no room for fails the execution.
Exhausted(event) == event = "graph" /\ (graphs >= MaxGraphs \/ ~Room(1))

\* tb_task_accept_event.
Accept(run, event, context) ==
    \/ event = "finish" /\ AcceptFinish(run, context)
    \/ event = "graph" /\ ~Exhausted(event) /\ AcceptGraph(run, context)
    \/ Exhausted(event) /\ UNCHANGED <<node, stack, graphs, fault>>
    \/ /\ event = "coordinator"
       /\ stack' = [stack EXCEPT ![Depth] = Push(context, <<run>>)]
       /\ node' = [node EXCEPT ![run].safe = FALSE]
       /\ UNCHANGED <<graphs, fault>>

-----------------------------------------------------------------------------
(***************************************************************************)
(* Entering and leaving an execution.  tb_apply runs a closure, which has  *)
(* no record; corpus_eval adopts a graph.                                  *)
(***************************************************************************)
Entry(depth, id) == {[i \in DOMAIN node \cup {id} |-> IF i = id THEN n ELSE node[i]] :
                        n \in UNION {Leaf(None, None, depth, r) : r \in BOOLEAN}}

EmptyContext(run) == [ready |-> <<run>>, hand |-> None, done |-> FALSE]

Init ==
    /\ node \in {[i \in {1} |-> n] : n \in UNION {Leaf(None, None, 1, r) : r \in BOOLEAN}}
    /\ stack = <<EmptyContext(1)>>
    /\ pc = "loop"
    /\ pending = 0 /\ created = 0
    /\ at = [w \in Worker |-> "none"]
    /\ holds = [w \in Worker |-> None]
    /\ queue = <<>> /\ completed = <<>>
    /\ stop = FALSE /\ failed = FALSE
    /\ live = 0 /\ graphs = 0 /\ fault = "none"

\* Nothing is left to run: the root result must be there and every record gone.
Leave ==
    /\ pc = "loop"
    /\ Top.ready = <<>>
    /\ pending = 0
    /\ IF ~Top.done \/ Records(Depth) # {}
       THEN fault' = "incomplete task graph" /\ pc' = "failing" /\ UNCHANGED stack
       ELSE /\ fault' = fault
            /\ stack' = SubSeq(stack, 1, Depth - 1)
            /\ pc' = IF Depth = 1 THEN "returned" ELSE "advance"
    /\ UNCHANGED <<node, pending, graphs, poolVars>>

\* Foreign code on the coordinator calls back into the executor.
Reenter ==
    /\ pc = "advance"
    /\ Depth < MaxDepth
    /\ graphs < MaxGraphs
    /\ Room(1)
    /\ ~node[Top.hand].safe
    /\ LET id == CHOOSE i \in Fresh(1) : TRUE
       IN  /\ node' \in Entry(Depth + 1, id)
           /\ stack' = Append(stack, EmptyContext(id))
    /\ graphs' = graphs + 1
    /\ pc' = "loop"
    /\ UNCHANGED <<pending, fault, poolVars>>

-----------------------------------------------------------------------------
(***************************************************************************)
(* The coordinator's loop, tb_task_execute.  Every change of the pool's    *)
(* state is broadcast to all that sleep on its condition variable.         *)
(***************************************************************************)
Woken == [w \in Worker |-> IF at[w] = "waiting" THEN "check" ELSE at[w]]
Roused == IF pc = "asleep" THEN "complete" ELSE pc

Desired == Cardinality(Worker)

Parallel(run, rest) ==
    /\ Desired > 1
    /\ pending # 0 \/ rest # <<>>
    /\ node[run].safe

\* The pool grows with the ready frontier, up to the desired count.
Frontier(rest) ==
    IF pending + 1 + Len(rest) < Desired THEN pending + 1 + Len(rest) ELSE Desired

NewWorkers(count) ==
    {S \in SUBSET {w \in Worker : at[w] = "none"} :
        Cardinality(S) = IF count > created THEN count - created ELSE 0}

Submit ==
    /\ pc = "loop"
    /\ Top.ready # <<>>
    /\ LET run == Head(Top.ready)
           rest == Tail(Top.ready)
       IN  /\ Parallel(run, rest)
           /\ stack' = [stack EXCEPT ![Depth].ready = rest]
           /\ queue' = Append(queue, run)
           /\ \E S \in NewWorkers(Frontier(rest)) :
                 /\ at' = [w \in Worker |-> IF w \in S THEN "start" ELSE Woken[w]]
                 /\ created' = created + Cardinality(S)
    /\ pending' = pending + 1
    /\ UNCHANGED <<node, pc, graphs, fault, holds, completed, stop, failed, live>>

\* A run for the coordinator waits in its hand until the pool is idle.
TakeInHand ==
    /\ pc = "loop"
    /\ Top.ready # <<>>
    /\ ~Parallel(Head(Top.ready), Tail(Top.ready))
    /\ stack' = [stack EXCEPT ![Depth].hand = Head(Top.ready),
                              ![Depth].ready = Tail(Top.ready)]
    /\ pc' = "drain"
    /\ UNCHANGED <<node, pending, graphs, fault, poolVars>>

\* Mutant: the coordinator does not wait for the workers.
MustDrainNever == FALSE

MustDrain == pending # 0

Drain ==
    /\ pc = "drain"
    /\ pc' = IF MustDrain THEN "complete" ELSE "advance"
    /\ UNCHANGED <<graphVars, poolVars>>

AwaitPool ==
    /\ pc = "loop"
    /\ Top.ready = <<>>
    /\ pending # 0
    /\ pc' = "complete"
    /\ UNCHANGED <<graphVars, poolVars>>

Resumed == IF Top.hand = None THEN "loop" ELSE "drain"

\* Mutant: an accepted run stays counted.
AcceptedKept == pending

Accepted == pending - 1

\* tb_cpu_complete, under the mutex, and the event it brings.
Complete ==
    /\ pc = "complete"
    /\ ~failed
    /\ completed # <<>>
    /\ completed' = Tail(completed)
    /\ pending' = Accepted
    /\ LET event == node[Head(completed)].event
       IN  /\ Accept(Head(completed), event, Top)
           /\ pc' = IF Exhausted(event) THEN "failing" ELSE Resumed
    /\ UNCHANGED <<created, at, holds, queue, stop, failed, live>>

Sleep ==
    /\ pc = "complete"
    /\ ~failed /\ completed = <<>>
    /\ pc' = "asleep"
    /\ UNCHANGED <<graphVars, poolVars>>

SeeFailure ==
    /\ pc = "complete"
    /\ failed
    /\ pc' = "failing"
    /\ UNCHANGED <<graphVars, poolVars>>

Advance ==
    /\ pc = "advance"
    /\ \E event \in {"finish", "graph"} :
          /\ Accept(Top.hand, event, [Top EXCEPT !.hand = None])
          /\ pc' = IF Exhausted(event) THEN "failing" ELSE "loop"
    /\ UNCHANGED <<pending, poolVars>>

\* Foreign code fails, a budget is used up, or a thread cannot be created.
CoordinatorFails ==
    /\ pc \in {"loop", "advance", "complete"}
    /\ pc' = "failing"
    /\ UNCHANGED <<graphVars, poolVars>>

-----------------------------------------------------------------------------
(***************************************************************************)
(* tb_cpu_worker.                                                          *)
(***************************************************************************)
Step(w, where) == at' = [at EXCEPT ![w] = where]

WorkerStart(w) ==
    /\ at[w] = "start"
    /\ live' = live + 1
    /\ Step(w, "check")
    /\ UNCHANGED <<graphVars, pc, created, holds, queue, completed, stop, failed>>

WorkerTake(w) ==
    /\ at[w] = "check"
    /\ \/ /\ stop
          /\ Step(w, "leave")
          /\ UNCHANGED <<holds, queue>>
       \/ /\ ~stop /\ queue = <<>>
          /\ Step(w, "waiting")
          /\ UNCHANGED <<holds, queue>>
       \/ /\ ~stop /\ queue # <<>>
          /\ Step(w, "busy")
          /\ holds' = [holds EXCEPT ![w] = Head(queue)]
          /\ queue' = Tail(queue)
    /\ UNCHANGED <<graphVars, pc, created, completed, stop, failed, live>>

WorkerDone(w) ==
    /\ at[w] = "busy"
    /\ \E event \in {"finish", "graph", "coordinator"} :
          node' = [node EXCEPT ![holds[w]].event = event]
    /\ completed' = Append(completed, holds[w])
    /\ holds' = [holds EXCEPT ![w] = None]
    /\ at' = [Woken EXCEPT ![w] = "check"]
    /\ pc' = Roused
    /\ UNCHANGED <<stack, pending, graphs, fault, created, queue, stop, failed, live>>

\* The first failure is kept; everyone is told to stop.
WorkerFails(w) ==
    /\ at[w] = "busy"
    /\ failed' = TRUE /\ stop' = TRUE
    /\ holds' = [holds EXCEPT ![w] = None]
    /\ at' = [Woken EXCEPT ![w] = "leave"]
    /\ pc' = Roused
    /\ UNCHANGED <<graphVars, created, queue, completed, live>>

WorkerLeave(w) ==
    /\ at[w] = "leave"
    /\ live' = live - 1
    /\ at' = [Woken EXCEPT ![w] = "exited"]
    /\ pc' = Roused
    /\ UNCHANGED <<graphVars, created, holds, queue, completed, stop, failed>>

Spurious(w) ==
    /\ at[w] = "waiting"
    /\ Step(w, "check")
    /\ UNCHANGED <<graphVars, pc, created, holds, queue, completed, stop, failed, live>>

-----------------------------------------------------------------------------
(***************************************************************************)
(* tb_cpu_shutdown.                                                        *)
(***************************************************************************)
\* Mutant: the sleepers are not told that the pool stops.
StoppedQuietly == at

Stopped == Woken

Shutdown ==
    /\ pc \in {"returned", "failing"}
    /\ stop' = TRUE
    /\ at' = Stopped
    /\ pc' = "joining"
    /\ UNCHANGED <<graphVars, created, holds, queue, completed, failed, live>>

Join ==
    /\ pc = "joining"
    /\ \A w \in Worker : at[w] \in {"none", "exited"}
    /\ pc' = "down"
    /\ created' = 0 /\ pending' = 0
    /\ UNCHANGED <<node, stack, graphs, fault, at, holds, queue, completed, stop, failed, live>>

Down == pc = "down" /\ UNCHANGED vars

-----------------------------------------------------------------------------
Coordinator ==
    \/ Leave
    \/ Reenter
    \/ Submit
    \/ TakeInHand
    \/ Drain
    \/ AwaitPool
    \/ Complete
    \/ Sleep
    \/ SeeFailure
    \/ Advance
    \/ Shutdown
    \/ Join

WorkerStep(w) ==
    \/ WorkerStart(w)
    \/ WorkerTake(w)
    \/ WorkerDone(w)
    \/ WorkerFails(w)
    \/ WorkerLeave(w)

Next ==
    \/ Coordinator
    \/ CoordinatorFails
    \/ \E w \in Worker : WorkerStep(w) \/ Spurious(w)
    \/ Down

\* Threads run.  tb_tick's step budget ends every computation, so a worker does
\* not stay busy and the coordinator does not stay in foreign code for ever.
Fairness == WF_vars(Coordinator) /\ \A w \in Worker : WF_vars(WorkerStep(w))

Spec == Init /\ [][Next]_vars
FairSpec == Spec /\ Fairness

-----------------------------------------------------------------------------
(***************************************************************************)
(* Properties.                                                             *)
(***************************************************************************)
Active == pc \notin {"failing", "joining", "down"} /\ ~failed

\* Types, and the coordinator's hand is full exactly while it has a use for it.
CpuTypeOK ==
    /\ DOMAIN node \subseteq Id /\ \A i \in DOMAIN node : node[i] \in Node
    /\ stack \in Seq(Context) /\ Depth <= MaxDepth
    /\ \A w \in Worker : at[w] = "busy" <=> holds[w] # None
    /\ pc = "advance" => Top.hand # None
    /\ pc = "loop" => Top.hand = None
    /\ created = Cardinality({w \in Worker : at[w] # "none"}) \/ pc = "down"

\* Where the runs are.  A suspended outer execution keeps a run in its hand.
Places(i) ==
    Cardinality({p \in (1..Depth) \X (1..MaxNodes) :
                    p[2] \in DOMAIN stack[p[1]].ready /\ stack[p[1]].ready[p[2]] = i})
    + Cardinality({d \in 1..Depth : stack[d].hand = i})
    + Cardinality({k \in DOMAIN queue : queue[k] = i})
    + Cardinality({k \in DOMAIN completed : completed[k] = i})
    + Cardinality({w \in Worker : holds[w] = i})
    + Cardinality({j \in DOMAIN node : node[j].boundary = i})

\* Every started run is owned once: by an execution's queue or hand, by the
\* pool, or by the graph it waits for.  A join that still misses results is
\* nowhere.  Runs move between threads by pointer, so two owners would be a
\* double free and none a lost computation.
OwnedOnce ==
    Active => \A i \in DOMAIN node : Places(i) = IF node[i].remaining = 0 THEN 1 ELSE 0

\* A join's count is the number of children that have yet to deliver, and its
\* children belong to its own execution.
JoinsExact ==
    /\ CpuTypeOK
    /\ Active => \A i \in DOMAIN node :
        LET children == {j \in DOMAIN node : node[j].up = i}
        IN  /\ node[i].remaining = Cardinality(children)
            /\ \A j \in children : node[j].depth = node[i].depth

\* "duplicate task result delivery", "invalid task root delivery" and
\* "incomplete task graph" never happen: an execution ends with its root result
\* delivered once and no record left, whatever order the workers finish in.
NoGraphFault == fault = "none"

\* The graph of an execution is exact: its runs, its joins and its end.
GraphExact == OwnedOnce /\ JoinsExact /\ NoGraphFault

\* pending, which only the coordinator changes, counts the runs in the pool, so
\* the coordinator never sleeps for a run that is not coming; and there are
\* enough workers for them, up to the desired count.
PoolCountExact ==
    Active =>
        /\ pending = Len(queue) + Len(completed)
                        + Cardinality({w \in Worker : holds[w] # None})
        /\ created >= (IF pending < Desired THEN pending ELSE Desired)

\* "Foreign callbacks never race generated worker bodies" and "every nested
\* foreign reentry starts with an idle pool": while the coordinator advances a
\* run, and whenever an execution is suspended below another, no worker has one
\* of an outer execution's runs.
ForeignAlone ==
    /\ pc = "advance" => pending = 0 /\ \A w \in Worker : holds[w] = None
    /\ Active => \A w \in Worker : holds[w] # None => node[holds[w]].depth = Depth

\* An execution ends, and the pool with it: nobody sleeps through the broadcast
\* that concerns it, and the join of a failed or finished pool returns with no
\* worker left.
EndsDown == <>(pc = "down" /\ live = 0)

=============================================================================
