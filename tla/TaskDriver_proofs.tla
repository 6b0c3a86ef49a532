------------------------- MODULE TaskDriver_proofs -------------------------
(***************************************************************************)
(* The driver neither loses nor duplicates a task, reports a deadlock only *)
(* when there is one, wakes in order and uses the channel table the way    *)
(* its own proof assumes, for any number of tasks, channels and waits.     *)
(***************************************************************************)
EXTENDS TaskDriver, Channels_proofs, Positions_proofs

Once(s) == \A j, k \in DOMAIN s : s[j] = s[k] => j = k

\* A task is in one of six places, and in none of them twice.
Apart(R, T, P, J, S, X) ==
    /\ R \cap T = {} /\ R \cap P = {} /\ R \cap J = {} /\ R \cap S = {} /\ R \cap X = {}
    /\ T \cap P = {} /\ T \cap J = {} /\ T \cap S = {} /\ T \cap X = {}
    /\ P \cap J = {} /\ P \cap S = {} /\ P \cap X = {}
    /\ J \cap S = {} /\ J \cap X = {}
    /\ S \cap X = {}

Asleep(t) == {t[k].action : k \in DOMAIN t}
OnSockets(s) == {k.task : k \in s}
Current(x) == {x} \ {NoTask}

\* The types of ready, timers, done, jobs, sockets, running and live.
Typed(r, t, d, j, s, x, l) ==
    /\ r \in Seq(Task) /\ t \in Seq(Timer) /\ d \in Seq(j) /\ j \subseteq Task
    /\ s \subseteq [order : Nat, task : Task] /\ IsFiniteSet(s)
    /\ x \in Task \cup {NoTask} /\ l \in Nat

\* Where the tasks are, with P and w the parked tasks and their count: apart, in
\* no place twice, and l in all.
World(r, t, d, j, s, x, P, w, l) ==
    /\ Typed(r, t, d, j, s, x, l)
    /\ Apart(ToSet(r), Asleep(t), P, j, OnSockets(s), Current(x))
    /\ Once(r) /\ Once(Actions(t)) /\ Once(d)
    /\ \A k, m \in s : k.task = m.task => k = m
    /\ P \subseteq Task /\ w \in Nat /\ w = Cardinality(P)
    /\ l = Len(r) + Len(t) + w + Cardinality(j) + Cardinality(s) + Cardinality(Current(x))

\* The tasks that wait on a channel, first to last.
Queue(ch) == [k \in DOMAIN ch.wait |-> ch.wait[k].continuation]

ParkedOnce ==
    /\ \A i \in Occupied : Once(Queue(rows[i].channel))
    /\ \A i, j \in Occupied : i # j =>
          ToSet(Queue(rows[i].channel)) \cap ToSet(Queue(rows[j].channel)) = {}

\* The waits in t and s are numbered below n in the order of their registration.
Ordered(t, s, n) ==
    /\ n \in Nat
    /\ \A k \in DOMAIN t : t[k].order < n
    /\ \A k \in s : k.order < n
    /\ Increasing(Orders(t))
    /\ \A k, m \in s : k.order = m.order => k = m
    /\ \A k \in DOMAIN t, m \in s : t[k].order # m.order

\* What a pass at time c has woken was registered before what it has still to
\* wake: the descriptors in q and the overdue timers.
Passing(p, q, t, s, c) ==
    /\ \A j \in DOMAIN q : \E k \in s : k.order = q[j]
    /\ Increasing(q)
    /\ \A i \in DOMAIN p, j \in DOMAIN q : p[i] < q[j]
    /\ \A i \in DOMAIN p, k \in DOMAIN t : t[k].deadline <= c => p[i] < t[k].order

\* Where the driver is.
Control ==
    /\ pc \in {"drive", "run", "wait", "resume", "stop", "ended"}
    /\ pc = "run" => running # NoTask
    /\ pc \in {"drive", "wait", "resume", "ended"} => running = NoTask
    /\ fault \in Faults \ InternalErrors
    /\ pc \notin {"stop", "ended"} => fault = "none" /\ result # "deadlock"
    /\ pc \in {"wait", "resume"} => live # 0

Driving ==
    /\ Typed(ready, timers, done, jobs, sockets, running, live) /\ live <= SchedulerLimit
    /\ Ordered(timers, sockets, nextWait)
    /\ now \in Nat /\ clock \in Nat /\ polled \in Seq(Nat)
    /\ passed \in Seq(Nat) /\ Increasing(passed)
    /\ pc = "resume" => Passing(passed, polled, timers, sockets, now)

InPlace ==
    /\ World(ready, timers, done, jobs, sockets, running, ParkedTasks, waiters, live)
    /\ ParkedOnce

\* The driver's own part of the invariant, and all of it.
Good == Control /\ Driving /\ (fault = "none" => InPlace) /\ DeadlockHonest

DriverInv == Good /\ (pc # "ended" => Inv)

-----------------------------------------------------------------------------
(***************************************************************************)
(* Sequences without repetition.                                           *)
(***************************************************************************)
LEMMA OnceConcat ==
    ASSUME NEW A, NEW s \in Seq(A), NEW t \in Seq(A), Once(s), Once(t),
           ToSet(s) \cap ToSet(t) = {}
    PROVE  /\ s \o t \in Seq(A) /\ Once(s \o t)
           /\ ToSet(s \o t) = ToSet(s) \cup ToSet(t)
           /\ Len(s \o t) = Len(s) + Len(t)
<1>1. /\ s \o t \in Seq(A) /\ Len(s \o t) = Len(s) + Len(t)
      /\ DOMAIN (s \o t) = 1 .. Len(s) + Len(t) /\ Len(s) \in Nat /\ Len(t) \in Nat
      /\ DOMAIN s = 1 .. Len(s) /\ DOMAIN t = 1 .. Len(t)
  OBVIOUS
<1>2. \A i \in 1 .. Len(s) + Len(t) :
          (s \o t)[i] = IF i <= Len(s) THEN s[i] ELSE t[i - Len(s)]
  BY <1>1
<1> DEFINE u == s \o t
<1> HIDE DEF u
<1>3. \A i \in DOMAIN s : i \in DOMAIN u /\ u[i] = s[i]
  BY <1>1, <1>2 DEF u
<1>4. \A i \in DOMAIN t : i + Len(s) \in DOMAIN u /\ u[i + Len(s)] = t[i]
  BY <1>1, <1>2 DEF u
<1>5. \A i \in DOMAIN u : \/ i \in DOMAIN s /\ u[i] = s[i]
                          \/ i - Len(s) \in DOMAIN t /\ u[i] = t[i - Len(s)]
  BY <1>1, <1>2 DEF u
<1>6. Once(u)
  <2> SUFFICES ASSUME NEW i \in DOMAIN u, NEW j \in DOMAIN u, u[i] = u[j] PROVE i = j
    BY DEF Once
  <2>1. CASE i \in DOMAIN s /\ j \in DOMAIN s
    BY <1>3, <2>1 DEF Once
  <2>2. CASE i \in DOMAIN s /\ j \notin DOMAIN s
    BY <1>3, <1>5, <2>2 DEF ToSet
  <2>3. CASE i \notin DOMAIN s /\ j \in DOMAIN s
    BY <1>3, <1>5, <2>3 DEF ToSet
  <2>4. CASE i \notin DOMAIN s /\ j \notin DOMAIN s
    <3>1. i - Len(s) = j - Len(s)
      BY <1>5, <2>4 DEF Once
    <3>2. i \in Int /\ j \in Int
      BY <1>1 DEF u
    <3> QED
      BY <1>1, <3>1, <3>2
  <2> QED
    BY <2>1, <2>2, <2>3, <2>4
<1>7. ToSet(u) = ToSet(s) \cup ToSet(t)
  BY <1>3, <1>4, <1>5 DEF ToSet
<1> QED
  BY <1>1, <1>6, <1>7 DEF u

\* Appending a new element.
LEMMA OnceAppend ==
    ASSUME NEW A, NEW s \in Seq(A), NEW x \in A, Once(s), x \notin ToSet(s)
    PROVE  /\ Append(s, x) \in Seq(A) /\ Once(Append(s, x))
           /\ ToSet(Append(s, x)) = ToSet(s) \cup {x}
           /\ Len(Append(s, x)) = Len(s) + 1
<1>1. /\ Append(s, x) \in Seq(A) /\ Len(Append(s, x)) = Len(s) + 1
      /\ DOMAIN Append(s, x) = 1 .. Len(s) + 1 /\ Len(s) \in Nat /\ DOMAIN s = 1 .. Len(s)
      /\ Append(s, x)[Len(s) + 1] = x /\ \A i \in 1 .. Len(s) : Append(s, x)[i] = s[i]
  OBVIOUS
<1>2. \A i \in 1 .. Len(s) : s[i] # x
  BY <1>1 DEF ToSet
<1>3. Once(Append(s, x))
  BY <1>1, <1>2 DEF Once
<1>4. ToSet(Append(s, x)) = ToSet(s) \cup {x}
  BY <1>1 DEF ToSet
<1> QED
  BY <1>1, <1>3, <1>4

\* Taking the first element.
LEMMA OnceTail ==
    ASSUME NEW A, NEW s \in Seq(A), s # <<>>, Once(s)
    PROVE  /\ Head(s) \in ToSet(s) /\ Head(s) \in A
           /\ Tail(s) \in Seq(A) /\ Once(Tail(s))
           /\ ToSet(Tail(s)) = ToSet(s) \ {Head(s)}
           /\ Len(s) = Len(Tail(s)) + 1
<1>1. /\ Tail(s) \in Seq(A) /\ Len(Tail(s)) = Len(s) - 1 /\ Len(s) \in Nat \ {0}
      /\ DOMAIN Tail(s) = 1 .. Len(s) - 1 /\ DOMAIN s = 1 .. Len(s)
      /\ \A i \in 1 .. Len(s) - 1 : Tail(s)[i] = s[i + 1]
      /\ Head(s) = s[1]
  OBVIOUS
<1>2. Head(s) \in ToSet(s) /\ Head(s) \in A
  BY <1>1 DEF ToSet
<1>3. Once(Tail(s))
  BY <1>1 DEF Once
<1>4. \A i \in DOMAIN Tail(s) : i + 1 \in DOMAIN s /\ Tail(s)[i] = s[i + 1] /\ i + 1 # 1
  BY <1>1
<1>5. \A i \in DOMAIN s : i # 1 => i - 1 \in DOMAIN Tail(s) /\ Tail(s)[i - 1] = s[i]
  BY <1>1
<1>6. \A i \in DOMAIN s : s[i] = s[1] => i = 1
  BY <1>1 DEF Once
<1>7. ToSet(Tail(s)) = ToSet(s) \ {Head(s)}
  <2>1. ASSUME NEW i \in DOMAIN Tail(s) PROVE Tail(s)[i] \in ToSet(s) \ {Head(s)}
    BY <1>1, <1>4, <1>6 DEF ToSet
  <2>2. ASSUME NEW x \in ToSet(s), x # Head(s) PROVE x \in ToSet(Tail(s))
    <3>1. PICK i \in DOMAIN s : x = s[i]
      BY DEF ToSet
    <3>2. i # 1
      BY <1>1, <2>2, <3>1
    <3> QED
      BY <1>5, <3>1, <3>2 DEF ToSet
  <2> QED
    BY <2>1, <2>2 DEF ToSet
<1> QED
  BY <1>1, <1>2, <1>3, <1>7

\* Such a sequence is as long as its set of elements is large.
LEMMA OnceSize ==
    ASSUME NEW A, NEW s \in Seq(A), Once(s)
    PROVE  IsFiniteSet(ToSet(s)) /\ Cardinality(ToSet(s)) = Len(s)
<1>1. PICK n \in Nat : n = Len(s) /\ DOMAIN s = 1 .. n
  OBVIOUS
<1>2. IsFiniteSet(1 .. n) /\ Cardinality(1 .. n) = n
  BY FS_Interval
<1>3. s \in Bijection(1 .. n, ToSet(s))
  BY <1>1 DEF Bijection, Injection, Surjection, IsInjective, Once, ToSet
<1>4. ExistsBijection(1 .. n, ToSet(s))
  BY <1>3 DEF ExistsBijection
<1> QED
  BY <1>1, <1>2, <1>4, FS_Bijection

\* A function on 1..n is a sequence.
LEMMA FunctionSeq ==
    ASSUME NEW A, NEW n \in Nat, NEW s \in [1 .. n -> A]
    PROVE  s \in Seq(A) /\ Len(s) = n /\ DOMAIN s = 1 .. n
  OBVIOUS

\* The empty sequence.
LEMMA OnceEmpty ==
    Once(<<>>) /\ ToSet(<<>>) = {} /\ Len(<<>>) = 0
  BY DEF Once, ToSet

\* f is the part of the timers in s at the positions in F, in order.
Picks(f, s, F) ==
    /\ f \in Seq(Timer) /\ Len(f) = Cardinality(F) /\ IsFiniteSet(F)
    /\ \E a \in [DOMAIN f -> F] :
          /\ Increasing(a) /\ \A i \in DOMAIN f : f[i] = s[a[i]]
          /\ \A x \in F : \E i \in DOMAIN f : a[i] = x

\* Subsequence picks.
LEMMA SubsequencePicks ==
    ASSUME NEW s \in Seq(Timer), NEW F \in SUBSET DOMAIN s
    PROVE  Picks(Subsequence(s, F), s, F)
<1>1. /\ IsFiniteSet(F) /\ Cardinality(F) \in Nat
      /\ Subsequence(s, F) \in Seq(Timer) /\ Len(Subsequence(s, F)) = Cardinality(F)
      /\ DOMAIN Subsequence(s, F) = 1 .. Cardinality(F)
      /\ Ascending(F) \in [1 .. Cardinality(F) -> F]
      /\ Increasing(Ascending(F))
      /\ \A x \in F : \E i \in 1 .. Cardinality(F) : Ascending(F)[i] = x
      /\ \A i \in 1 .. Cardinality(F) : Subsequence(s, F)[i] = s[Ascending(F)[i]]
  BY SubsequenceRight
<1>2. PICK f : f = Subsequence(s, F)
  OBVIOUS
<1>3. PICK a : a = Ascending(F)
  OBVIOUS
<1>4. /\ f \in Seq(Timer) /\ Len(f) = Cardinality(F) /\ DOMAIN f = 1 .. Cardinality(F)
      /\ a \in [DOMAIN f -> F] /\ Increasing(a)
      /\ \A x \in F : \E i \in DOMAIN f : a[i] = x
      /\ \A i \in DOMAIN f : f[i] = s[a[i]]
  BY <1>1, <1>2, <1>3
<1>5. Picks(f, s, F)
  BY <1>1, <1>4 DEF Picks
<1> QED
  BY <1>2, <1>5

\* What fires keeps its tasks apart and its order.
LEMMA PickedRight ==
    ASSUME NEW s \in Seq(Timer), NEW F \in SUBSET DOMAIN s, NEW f, Picks(f, s, F)
    PROVE  /\ Actions(f) \in Seq(Task) /\ Len(Actions(f)) = Len(f)
           /\ Orders(f) \in Seq(Nat) /\ DOMAIN Orders(f) = DOMAIN f
           /\ ToSet(Actions(f)) = {s[k].action : k \in F}
           /\ Once(Actions(s)) => Once(Actions(f))
           /\ Increasing(Orders(s)) => Increasing(Orders(f))
<1>1. PICK a \in [DOMAIN f -> F] :
          /\ Increasing(a) /\ \A i \in DOMAIN f : f[i] = s[a[i]]
          /\ \A x \in F : \E i \in DOMAIN f : a[i] = x
  BY DEF Picks
<1>2. f \in Seq(Timer) /\ DOMAIN f = 1 .. Len(f) /\ Len(f) \in Nat
  BY DEF Picks
<1>3. \A i \in DOMAIN f : f[i] \in Timer /\ f[i].action \in Task /\ f[i].order \in Nat
  <2>1. \A i \in DOMAIN f : f[i] \in Timer
    BY <1>2
  <2> QED
    BY <2>1 DEF Timer
<1>4. PICK n \in Nat : n = Len(f) /\ DOMAIN f = 1 .. n
  BY <1>2
<1>5. Actions(f) \in [1 .. n -> Task] /\ Orders(f) \in [1 .. n -> Nat]
  BY <1>3, <1>4 DEF Actions, Orders
<1>6. /\ Actions(f) \in Seq(Task) /\ Len(Actions(f)) = Len(f)
      /\ Orders(f) \in Seq(Nat) /\ DOMAIN Orders(f) = DOMAIN f
  BY <1>4, <1>5, FunctionSeq
<1>7. ToSet(Actions(f)) = {s[k].action : k \in F}
  <2>1. ToSet(Actions(f)) = {f[i].action : i \in DOMAIN f}
    BY DEF ToSet, Actions
  <2> QED
    BY <1>1, <2>1
<1>8. \A i, j \in DOMAIN f : a[i] = a[j] => i = j
  <2> SUFFICES ASSUME NEW i \in DOMAIN f, NEW j \in DOMAIN f, i < j PROVE a[i] # a[j]
    BY <1>4
  <2>1. a[i] < a[j] /\ a[i] \in DOMAIN s
    BY <1>1 DEF Increasing
  <2>2. a[i] \in Int
    BY <2>1
  <2> QED
    BY <2>1, <2>2
<1>9. ASSUME Once(Actions(s)) PROVE Once(Actions(f))
  <2>1. \A k, l \in DOMAIN s : s[k].action = s[l].action => k = l
    BY <1>9 DEF Once, Actions
  <2>2. \A i, j \in DOMAIN f : f[i].action = f[j].action => i = j
    BY <1>1, <1>8, <2>1
  <2> QED
    BY <2>2 DEF Once, Actions
<1>10. ASSUME Increasing(Orders(s)) PROVE Increasing(Orders(f))
  <2>1. \A k, l \in DOMAIN s : k < l => s[k].order < s[l].order
    BY <1>10 DEF Increasing, Orders
  <2>2. \A i, j \in DOMAIN f : i < j => f[i].order < f[j].order
    BY <1>1, <2>1 DEF Increasing
  <2> QED
    BY <2>2 DEF Increasing, Orders
<1> QED
  BY <1>6, <1>7, <1>9, <1>10

\* Each picked timer is one of those at F, and each of them is picked.
LEMMA PickedEach ==
    ASSUME NEW s, NEW F, NEW f, Picks(f, s, F)
    PROVE  /\ \A i \in DOMAIN f : \E k \in F : f[i] = s[k]
           /\ \A k \in F : \E i \in DOMAIN f : f[i] = s[k]
  BY DEF Picks

\* The timers that fire and those that stay share out the ones there were.
LEMMA Shared ==
    ASSUME NEW s \in Seq(Timer), NEW F \in SUBSET DOMAIN s, NEW f, NEW g,
           Picks(f, s, F), Picks(g, s, DOMAIN s \ F)
    PROVE  Len(f) + Len(g) = Len(s) /\ Len(f) \in Nat /\ Len(g) \in Nat
<1>1. PICK G : G = DOMAIN s \ F
  OBVIOUS
<1>2. /\ IsFiniteSet(F) /\ IsFiniteSet(G) /\ Len(f) = Cardinality(F) /\ Len(g) = Cardinality(G)
      /\ Len(f) \in Nat /\ Len(g) \in Nat
  BY <1>1 DEF Picks
<1>3. PICK n \in Nat : n = Len(s) /\ DOMAIN s = 1 .. n
  OBVIOUS
<1>4. IsFiniteSet(1 .. n) /\ Cardinality(1 .. n) = n
  BY FS_Interval
<1>5. F \cup G = 1 .. n /\ F \cap G = {}
  BY <1>1, <1>3
<1>6. Cardinality(F \cup G) = Cardinality(F) + Cardinality(G) - Cardinality(F \cap G)
  BY <1>2, FS_Union
<1>7. Cardinality({}) = 0
  BY FS_EmptySet
<1>8. n = Len(f) + Len(g) - 0
  BY <1>2, <1>4, <1>5, <1>6, <1>7
<1> QED
  BY <1>2, <1>3, <1>8

-----------------------------------------------------------------------------
(***************************************************************************)
(* What an operation of the channel table does to the tasks parked in it.  *)
(***************************************************************************)
\* The tasks parked in the rows S of r that hold a channel.
QueuedIn(r, S) == UNION {ToSet(Queue(r[i].channel)) : i \in S}

\* The parked tasks are those in the queues of the rows that hold a channel.
LEMMA ParkedQueues ==
    ASSUME NEW r
    PROVE  UNION {IF r[i].channel = NoChannel THEN {}
                  ELSE {r[i].channel.wait[k].continuation : k \in DOMAIN r[i].channel.wait} :
                        i \in DOMAIN r}
             = QueuedIn(r, {i \in DOMAIN r : r[i].channel # NoChannel})
<1>1. \A i : ToSet(Queue(r[i].channel))
               = {r[i].channel.wait[k].continuation : k \in DOMAIN r[i].channel.wait}
  BY DEF ToSet, Queue
<1> QED
  BY <1>1 DEF QueuedIn

\* The same, for one task.
LEMMA ParkedAre ==
    ASSUME NEW x
    PROVE  x \in ParkedTasks <=> \E i \in Occupied : x \in ToSet(Queue(rows[i].channel))
<1>1. ParkedTasks = QueuedIn(rows, Occupied)
  BY ParkedQueues DEF ParkedTasks, ParkedOn, Occupied
<1> QED
  BY <1>1 DEF QueuedIn

\* The same, after a step.
LEMMA ParkedAreNext ==
    ASSUME NEW x
    PROVE  x \in ParkedTasks' <=> \E i \in Occupied' : x \in ToSet(Queue(rows'[i].channel))
<1>1. ParkedTasks' = QueuedIn(rows', Occupied')
  BY ParkedQueues DEF ParkedTasks, ParkedOn, Occupied
<1> QED
  BY <1>1 DEF QueuedIn

\* The queue of a channel is as long as its list of waiters.
LEMMA QueueType ==
    ASSUME NEW ch \in Channel
    PROVE  /\ Queue(ch) \in Seq(Task) /\ Len(Queue(ch)) = Len(ch.wait)
           /\ DOMAIN Queue(ch) = DOMAIN ch.wait
<1>1. ch.wait \in Seq(Waiter)
  BY DEF Channel
<1>2. PICK n \in Nat : n = Len(ch.wait) /\ DOMAIN ch.wait = 1 .. n
  BY <1>1
<1>3. \A k \in 1 .. n : ch.wait[k] \in Waiter
  BY <1>1, <1>2
<1>4. \A k \in 1 .. n : ch.wait[k].continuation \in Task
  BY <1>3, DriverAssumption DEF Waiter
<1>5. Queue(ch) \in [1 .. n -> Task]
  BY <1>2, <1>4 DEF Queue
<1> QED
  BY <1>2, <1>5, FunctionSeq

\* Row i, which holds a channel, is the only one whose queue changes, to w.
Requeued(i, w) ==
    /\ \A j : j # i => (j \in Occupied' <=> j \in Occupied)
    /\ \A j \in Occupied : j # i => rows'[j] = rows[j]
    /\ i \in Occupied' => Queue(rows'[i].channel) = w
    /\ i \notin Occupied' => w = <<>>

\* Storing or releasing a channel replaces one queue.
LEMMA StoredQueue ==
    ASSUME TableInv, NEW i \in Occupied, NEW ch \in Channel, StoreOrRelease(i, ch),
           ch.closed /\ ch.buffer = <<>> => ch.wait = <<>>
    PROVE  Requeued(i, Queue(ch))
<1>1. i \in DOMAIN rows /\ rows \in Seq(Row) /\ ch # NoChannel
  BY NoChannelAssumption DEF Occupied, TableInv
<1>2. CASE ch.closed /\ ch.buffer = <<>>
  <2>1. rows' = [rows EXCEPT ![i] = [@ EXCEPT !.channel = NoChannel]]
    BY <1>2 DEF StoreOrRelease, Release
  <2>2. /\ DOMAIN rows' = DOMAIN rows /\ rows'[i].channel = NoChannel
        /\ \A j \in DOMAIN rows : j # i => rows'[j] = rows[j]
    BY <1>1, <2>1, RowUpdate
  <2>3. Queue(ch) = <<>>
    BY <1>2 DEF Queue
  <2> QED
    BY <2>2, <2>3 DEF Requeued, Occupied
<1>3. CASE ~(ch.closed /\ ch.buffer = <<>>)
  <2>1. rows' = [rows EXCEPT ![i] = [@ EXCEPT !.channel = ch]]
    BY <1>3 DEF StoreOrRelease, Store
  <2>2. /\ DOMAIN rows' = DOMAIN rows /\ rows'[i].channel = ch
        /\ \A j \in DOMAIN rows : j # i => rows'[j] = rows[j]
    BY <1>1, <2>1, RowUpdate
  <2> QED
    BY <1>1, <2>2 DEF Requeued, Occupied
<1> QED
  BY <1>2, <1>3

\* Replacing a queue by one of its own tasks and of tasks that are not parked.
LEMMA RequeuedParked ==
    ASSUME ParkedOnce, NEW i \in Occupied, NEW old, old = ToSet(Queue(rows[i].channel)),
           NEW w, Once(w), Requeued(i, w),
           \A x \in ToSet(w) : x \in old \/ x \notin ParkedTasks
    PROVE  ParkedOnce' /\ ParkedTasks' = (ParkedTasks \ old) \cup ToSet(w)
<1>0. /\ \A j \in Occupied' : Once(Queue(rows'[j].channel))
      /\ \A j \in Occupied', k \in Occupied' : j # k =>
            ToSet(Queue(rows'[j].channel)) \cap ToSet(Queue(rows'[k].channel)) = {}
  <2>1. \A j \in Occupied' : Once(Queue(rows'[j].channel))
    BY DEF ParkedOnce, Requeued
  <2>2. ASSUME NEW j \in Occupied', j # i, NEW x \in ToSet(Queue(rows'[j].channel))
        PROVE  /\ j \in Occupied /\ x \in ToSet(Queue(rows[j].channel))
               /\ x \in ParkedTasks /\ x \notin old /\ x \notin ToSet(w)
    <3>1. j \in Occupied /\ x \in ToSet(Queue(rows[j].channel))
      BY <2>2 DEF Requeued
    <3>2. x \in ParkedTasks
      BY <3>1, ParkedAre
    <3>3. x \notin old
      BY <2>2, <3>1 DEF ParkedOnce
    <3> QED
      BY <3>1, <3>2, <3>3
  <2>3. ASSUME NEW j \in Occupied', NEW k \in Occupied', j # k, NEW x,
               x \in ToSet(Queue(rows'[j].channel)), x \in ToSet(Queue(rows'[k].channel))
        PROVE  FALSE
    <3>1. CASE j = i
      BY <2>2, <2>3, <3>1 DEF Requeued
    <3>2. CASE k = i
      BY <2>2, <2>3, <3>2 DEF Requeued
    <3>3. CASE j # i /\ k # i
      BY <2>2, <2>3, <3>3 DEF ParkedOnce
    <3> QED
      BY <3>1, <3>2, <3>3
  <2> QED
    BY <2>1, <2>3
<1>1. ParkedOnce'
  BY <1>0 DEF ParkedOnce, Queue, ToSet, Once
<1>2. ASSUME NEW x \in ParkedTasks' PROVE x \in (ParkedTasks \ old) \cup ToSet(w)
  <2>1. PICK j \in Occupied' : x \in ToSet(Queue(rows'[j].channel))
    BY ParkedAreNext
  <2>2. CASE j = i
    BY <2>1, <2>2 DEF Requeued
  <2>3. CASE j # i
    <3>1. j \in Occupied /\ x \in ToSet(Queue(rows[j].channel))
      BY <2>1, <2>3 DEF Requeued
    <3> QED
      BY <2>3, <3>1, ParkedAre DEF ParkedOnce
  <2> QED
    BY <2>2, <2>3
<1>3. ASSUME NEW x \in ParkedTasks, x \notin old PROVE x \in ParkedTasks'
  <2>1. PICK j \in Occupied : x \in ToSet(Queue(rows[j].channel))
    BY ParkedAre
  <2>2. j # i
    BY <1>3, <2>1
  <2>3. j \in Occupied' /\ rows'[j] = rows[j]
    BY <2>2 DEF Requeued
  <2> QED
    BY <2>1, <2>3, ParkedAreNext
<1>4. ASSUME NEW x \in ToSet(w) PROVE x \in ParkedTasks'
  <2>1. i \in Occupied'
    BY <1>4, OnceEmpty DEF Requeued
  <2> QED
    BY <1>4, <2>1, ParkedAreNext DEF Requeued
<1> QED
  BY <1>1, <1>2, <1>3, <1>4

\* What becomes of a queue.
LEMMA QueueShapes ==
    ASSUME NEW ch \in Channel, NEW new \in Channel
    PROVE  /\ new.wait = ch.wait => Queue(new) = Queue(ch)
           /\ new.wait = <<>> => Queue(new) = <<>>
           /\ ch.wait # <<>> =>
                 Queue(ch) # <<>> /\ Head(Queue(ch)) = Head(ch.wait).continuation
           /\ ch.wait # <<>> /\ new.wait = Tail(ch.wait) => Queue(new) = Tail(Queue(ch))
           /\ \A w \in Waiter : new.wait = Append(ch.wait, w) =>
                 Queue(new) = Append(Queue(ch), w.continuation)
<1>1. ch.wait \in Seq(Waiter) /\ new.wait \in Seq(Waiter)
  BY DEF Channel
<1>2. /\ Queue(ch) \in Seq(Task) /\ Len(Queue(ch)) = Len(ch.wait) /\ DOMAIN Queue(ch) = DOMAIN ch.wait
      /\ Queue(new) \in Seq(Task) /\ Len(Queue(new)) = Len(new.wait)
      /\ DOMAIN Queue(new) = DOMAIN new.wait
  BY QueueType
<1>3. /\ \A k \in DOMAIN ch.wait : Queue(ch)[k] = ch.wait[k].continuation
      /\ \A k \in DOMAIN new.wait : Queue(new)[k] = new.wait[k].continuation
  BY DEF Queue
<1>4. new.wait = ch.wait => Queue(new) = Queue(ch)
  BY DEF Queue
<1>5. new.wait = <<>> => Queue(new) = <<>>
  BY DEF Queue
<1>6. ASSUME ch.wait # <<>>
      PROVE  Queue(ch) # <<>> /\ Head(Queue(ch)) = Head(ch.wait).continuation
  <2>1. Len(ch.wait) \in Nat \ {0} /\ 1 \in DOMAIN ch.wait /\ Head(ch.wait) = ch.wait[1]
    BY <1>1, <1>6
  <2>2. Queue(ch) # <<>> /\ Head(Queue(ch)) = Queue(ch)[1]
    BY <1>2, <2>1
  <2> QED
    BY <1>3, <2>1, <2>2
<1>7. ASSUME ch.wait # <<>>, new.wait = Tail(ch.wait) PROVE Queue(new) = Tail(Queue(ch))
  <2>0. Tail(Queue(ch)) \in Seq(Task)
    BY <1>2, <1>6, <1>7
  <2>1. PICK q \in Seq(Task) : q = Tail(Queue(ch))
    BY <2>0
  <2>2. PICK n \in Nat : n = Len(ch.wait) - 1 /\ DOMAIN new.wait = 1 .. n
    BY <1>1, <1>7
  <2>3. \A k \in 1 .. n : new.wait[k] = ch.wait[k + 1] /\ k + 1 \in DOMAIN ch.wait
    BY <1>1, <1>7, <2>2
  <2>4. Len(q) = n /\ DOMAIN q = 1 .. n /\ \A k \in 1 .. n : q[k] = Queue(ch)[k + 1]
    BY <1>2, <1>6, <1>7, <2>1, <2>2
  <2>5. \A k \in 1 .. n : Queue(new)[k] = q[k]
    BY <1>3, <2>2, <2>3, <2>4
  <2>6. PICK p \in Seq(Task) : p = Queue(new)
    BY <1>2
  <2>7. DOMAIN p = 1 .. n /\ \A k \in 1 .. n : p[k] = q[k]
    BY <1>2, <2>2, <2>5, <2>6
  <2>8. p = q
    <3>1. p \in [1 .. n -> Task] /\ q \in [1 .. n -> Task]
      BY <2>4, <2>7, LenProperties
    <3> QED
      BY <2>7, <3>1
  <2> QED
    BY <2>1, <2>6, <2>8
<1>8. ASSUME NEW w \in Waiter, new.wait = Append(ch.wait, w)
      PROVE  Queue(new) = Append(Queue(ch), w.continuation)
  <2>1. w.continuation \in Task
    BY DriverAssumption DEF Waiter
  <2>a. Append(Queue(ch), w.continuation) \in Seq(Task)
    BY <1>2, <2>1
  <2>2. PICK q \in Seq(Task) : q = Append(Queue(ch), w.continuation)
    BY <2>a
  <2>3. PICK n \in Nat : n = Len(ch.wait) /\ DOMAIN ch.wait = 1 .. n
    BY <1>1
  <2>4. /\ DOMAIN new.wait = 1 .. n + 1 /\ new.wait[n + 1] = w
        /\ \A k \in 1 .. n : new.wait[k] = ch.wait[k]
    BY <1>1, <1>8, <2>3
  <2>5. /\ DOMAIN q = 1 .. n + 1 /\ q[n + 1] = w.continuation
        /\ \A k \in 1 .. n : q[k] = Queue(ch)[k]
    BY <1>2, <2>1, <2>2, <2>3
  <2>6. \A k \in 1 .. n + 1 : Queue(new)[k] = q[k]
    <3> SUFFICES ASSUME NEW k \in 1 .. n + 1 PROVE Queue(new)[k] = q[k]
      OBVIOUS
    <3>1. CASE k = n + 1
      BY <1>3, <2>4, <2>5, <3>1
    <3>2. CASE k # n + 1
      <4>1. k \in 1 .. n
        BY <3>2
      <4> QED
        BY <1>3, <2>3, <2>4, <2>5, <4>1
    <3> QED
      BY <3>1, <3>2
  <2>7. Queue(new) = q
    BY <1>2, <2>2, <2>4, <2>5, <2>6
  <2> QED
    BY <2>2, <2>7
<1> QED
  BY <1>4, <1>5, <1>6, <1>7, <1>8

\* The tasks in w, each parked once, leave the table.
Released(w) ==
    /\ w \in Seq(Task) /\ Once(w) /\ ToSet(w) \subseteq ParkedTasks
    /\ ParkedOnce' /\ ParkedTasks' = ParkedTasks \ ToSet(w)
    /\ waiters' = waiters - Len(w)

\* Task c enters it.
Entered(c) ==
    /\ ParkedOnce' /\ ParkedTasks' = ParkedTasks \cup {c}
    /\ waiters' = waiters + 1

\* An operation of task c fails, parks c, or wakes tasks that it releases.
Effect(c) ==
    \/ transition'.outcome = "failed"
    \/ transition'.outcome = "parked" /\ transition'.wakes = <<>> /\ Entered(c)
    \/ /\ transition'.outcome = "ready"
       /\ \E w : /\ w = [k \in DOMAIN transition'.wakes |-> transition'.wakes[k].continuation]
                 /\ Released(w)

\* new is what row i, which holds old, is left with.
Replaced(i, old, new) ==
    /\ i \in Occupied /\ old = rows[i].channel /\ old \in Channel /\ new \in Channel
    /\ StoreOrRelease(i, new)
    /\ new.closed /\ new.buffer = <<>> => new.wait = <<>>

\* The waiters stay.
LEMMA QueueKept ==
    ASSUME TableInv, ParkedOnce, NEW i, NEW old, NEW new, Replaced(i, old, new),
           new.wait = old.wait
    PROVE  ParkedOnce' /\ ParkedTasks' = ParkedTasks
<1>1. Requeued(i, Queue(new)) /\ Queue(new) = Queue(old)
  BY StoredQueue, QueueShapes DEF Replaced
<1>2. PICK q : q = Queue(old)
  OBVIOUS
<1>3. Once(q) /\ ToSet(q) = ToSet(Queue(rows[i].channel)) /\ Requeued(i, q)
  BY <1>1, <1>2 DEF ParkedOnce, Replaced
<1>4. ParkedOnce' /\ ParkedTasks' = (ParkedTasks \ ToSet(q)) \cup ToSet(q)
  BY <1>3, RequeuedParked DEF Replaced
<1>5. \A x \in ToSet(q) : x \in ParkedTasks
  BY <1>3, ParkedAre DEF Replaced
<1> QED
  BY <1>4, <1>5

\* The first waiter is served.
LEMMA QueueServed ==
    ASSUME TableInv, ParkedOnce, NEW i, NEW old, NEW new, Replaced(i, old, new),
           old.wait # <<>>, new.wait = Tail(old.wait), waiters' = waiters - 1
    PROVE  Released(<<Head(old.wait).continuation>>)
<1>1. /\ Requeued(i, Queue(new)) /\ Queue(new) = Tail(Queue(old)) /\ Queue(old) # <<>>
      /\ Head(Queue(old)) = Head(old.wait).continuation
  BY StoredQueue, QueueShapes DEF Replaced
<1>2. PICK q \in Seq(Task) : q = Queue(old)
  BY QueueType DEF Replaced
<1>3. Once(q) /\ ToSet(q) = ToSet(Queue(rows[i].channel)) /\ q # <<>>
  BY <1>1, <1>2 DEF ParkedOnce, Replaced
<1>4. PICK x, t : x = Head(q) /\ t = Tail(q)
  OBVIOUS
<1>5. x \in ToSet(q) /\ x \in Task /\ Once(t) /\ ToSet(t) = ToSet(q) \ {x}
  BY <1>3, <1>4, OnceTail
<1>6. Requeued(i, t) /\ x = Head(old.wait).continuation
  BY <1>1, <1>2, <1>4
<1>7. ParkedOnce' /\ ParkedTasks' = (ParkedTasks \ ToSet(q)) \cup ToSet(t)
  BY <1>3, <1>5, <1>6, RequeuedParked DEF Replaced
<1>8. \A y \in ToSet(q) : y \in ParkedTasks
  BY <1>3, ParkedAre DEF Replaced
<1>9. ParkedTasks' = ParkedTasks \ {x} /\ x \in ParkedTasks
  BY <1>5, <1>7, <1>8
<1>10. <<x>> \in Seq(Task) /\ Once(<<x>>) /\ ToSet(<<x>>) = {x} /\ Len(<<x>>) = 1
  BY <1>5 DEF Once, ToSet
<1>11. Released(<<x>>)
  BY <1>7, <1>9, <1>10 DEF Released
<1> QED
  BY <1>6, <1>11

\* All waiters go.
LEMMA QueueCleared ==
    ASSUME TableInv, ParkedOnce, NEW i, NEW old, NEW new, Replaced(i, old, new),
           new.wait = <<>>, waiters' = waiters - Len(old.wait)
    PROVE  Released(Queue(old))
<1>1. Requeued(i, Queue(new)) /\ Queue(new) = <<>>
  BY StoredQueue, QueueShapes DEF Replaced
<1>2. PICK q \in Seq(Task) : q = Queue(old) /\ Len(q) = Len(old.wait)
  BY QueueType DEF Replaced
<1>3. Once(q) /\ ToSet(q) = ToSet(Queue(rows[i].channel))
  BY <1>1, <1>2 DEF ParkedOnce, Replaced
<1>4. ParkedOnce' /\ ParkedTasks' = (ParkedTasks \ ToSet(q)) \cup ToSet(<<>>)
  BY <1>1, <1>3, OnceEmpty, RequeuedParked DEF Replaced
<1>5. \A y \in ToSet(q) : y \in ParkedTasks
  BY <1>3, ParkedAre DEF Replaced
<1>6. ParkedTasks' = ParkedTasks \ ToSet(q) /\ ToSet(q) \subseteq ParkedTasks
  BY <1>4, <1>5, OnceEmpty
<1> QED
  BY <1>2, <1>3, <1>4, <1>6 DEF Released

\* One waiter more.
LEMMA QueueJoined ==
    ASSUME TableInv, ParkedOnce, NEW i, NEW old, NEW new, Replaced(i, old, new),
           NEW w \in Waiter, w.continuation \notin ParkedTasks,
           new.wait = Append(old.wait, w), waiters' = waiters + 1
    PROVE  Entered(w.continuation)
<1>1. Requeued(i, Queue(new)) /\ Queue(new) = Append(Queue(old), w.continuation)
  BY StoredQueue, QueueShapes DEF Replaced
<1>2. PICK q \in Seq(Task) : q = Queue(old)
  BY QueueType DEF Replaced
<1>3. Once(q) /\ ToSet(q) = ToSet(Queue(rows[i].channel))
  BY <1>1, <1>2 DEF ParkedOnce, Replaced
<1>4. \A y \in ToSet(q) : y \in ParkedTasks
  BY <1>3, ParkedAre DEF Replaced
<1>5. PICK x \in Task : x = w.continuation
  BY DriverAssumption DEF Waiter
<1>6. x \notin ToSet(q)
  BY <1>4, <1>5
<1>7. PICK t : t = Append(q, x)
  OBVIOUS
<1>8. Once(t) /\ ToSet(t) = ToSet(q) \cup {x}
  BY <1>3, <1>6, <1>7, OnceAppend
<1>9. Requeued(i, t)
  BY <1>1, <1>2, <1>5, <1>7
<1>10. \A y \in ToSet(t) : y \in ToSet(q) \/ y \notin ParkedTasks
  BY <1>5, <1>8
<1>11. ParkedOnce' /\ ParkedTasks' = (ParkedTasks \ ToSet(q)) \cup ToSet(t)
  BY <1>3, <1>8, <1>9, <1>10, RequeuedParked DEF Replaced
<1>12. ParkedTasks' = ParkedTasks \cup {x}
  BY <1>4, <1>8, <1>11
<1> QED
  BY <1>5, <1>11, <1>12 DEF Entered

\* A ready answer carries its wakes.
LEMMA ReadyIs ==
    ASSUME NEW answer, NEW wakes, transition' = Ready(answer, wakes)
    PROVE  transition'.outcome = "ready" /\ transition'.wakes = wakes
  BY Zenon DEF Ready

\* A parked answer wakes nobody.
LEMMA ParkedIs ==
    ASSUME transition' = Parked
    PROVE  transition'.outcome = "parked" /\ transition'.wakes = <<>>
  BY Zenon DEF Parked

\* A failed answer is one.
LEMMA FailedIs ==
    ASSUME NEW error, transition' = Failed(error)
    PROVE  transition'.outcome = "failed"
  BY Zenon DEF Failed

\* An operation that wakes nobody, or one task.
LEMMA QuietEffect ==
    ASSUME NEW c, NEW answer, transition' = Ready(answer, <<>>),
           ParkedOnce', ParkedTasks' = ParkedTasks, waiters' = waiters, waiters \in Int
    PROVE  Effect(c)
<1>1. transition'.outcome = "ready" /\ transition'.wakes = <<>>
  BY ReadyIs
<1>2. <<>> = [k \in DOMAIN transition'.wakes |-> transition'.wakes[k].continuation]
  BY <1>1
<1>3. waiters' = waiters - Len(<<>>) /\ <<>> \in Seq(Task)
  OBVIOUS
<1>4. Released(<<>>)
  BY <1>3, OnceEmpty DEF Released
<1> QED
  BY <1>1, <1>2, <1>4 DEF Effect

\* An answer that wakes one task.
LEMMA WakingEffect ==
    ASSUME NEW c, NEW answer, NEW wake, transition' = Ready(answer, <<wake>>),
           Released(<<wake.continuation>>)
    PROVE  Effect(c)
<1>1. transition'.outcome = "ready" /\ transition'.wakes = <<wake>>
  BY ReadyIs
<1>2. <<wake.continuation>> = [k \in DOMAIN transition'.wakes |-> transition'.wakes[k].continuation]
  BY <1>1
<1> QED
  BY <1>1, <1>2 DEF Effect

\* An answer that leaves the table alone.
LEMMA IdleEffect ==
    ASSUME NEW c, NEW answer, transition' = Ready(answer, <<>>), UNCHANGED table,
           ParkedOnce, waiters \in Int
    PROVE  Effect(c)
<1>1. rows' = rows /\ waiters' = waiters
  BY DEF table
<1>2. ParkedOnce' /\ ParkedTasks' = ParkedTasks
  BY <1>1 DEF ParkedOnce, ParkedTasks, ParkedOn, Occupied, Queue
<1> QED
  BY <1>1, <1>2, QuietEffect

\* A stored channel replaces the one in its row.
LEMMA StoreReplaces ==
    ASSUME TableInv, NEW h \in handles, Live(h), NEW new \in Channel, ChannelCoherent(new),
           Store(h.index, new)
    PROVE  Replaced(h.index, At(h), new)
  BY LiveRow, StoreIsKept DEF Replaced

\* send parks the sender, wakes a receiver or neither.
LEMMA SendEffect ==
    ASSUME TableInv, ParkedOnce, waiters \in Int, NEW h \in handles, NEW p \in Payload,
           NEW c \in Task \ ParkedTasks, Send(h, p, c)
    PROVE  Effect(c)
<1>1. CASE SendRefused(h)
  BY <1>1, IdleEffect DEF SendRefused
<1>2. CASE SendExhausted(h)
  BY <1>2, FailedIs DEF SendExhausted, Effect
<1>3. CASE SendHandoff(h, p)
  <2>1. Live(h) /\ At(h).wait # <<>> /\ waiters' = waiters - 1
    BY <1>3 DEF SendHandoff, Sendable, FrontIs
  <2>2. At(h) \in Channel /\ SendersLoaded(At(h)) /\ ChannelCoherent(At(h))
    BY <2>1, LiveRow
  <2>3. PICK ch : ch = At(h)
    OBVIOUS
  <2>4. PICK new : new = [ch EXCEPT !.wait = Tail(ch.wait)]
    OBVIOUS
  <2>5. new \in Channel /\ ChannelCoherent(new)
    BY <2>1, <2>2, <2>3, <2>4, TakeWaiter
  <2>6. new.wait = Tail(ch.wait)
    BY <2>2, <2>3, <2>4 DEF Channel
  <2>7. PICK wake : wake = [continuation |-> Head(ch.wait).continuation, answer |-> Some(p)]
    OBVIOUS
  <2>8. Store(h.index, new) /\ transition' = Ready(Plain("True"), <<wake>>)
    BY <1>3, <2>3, <2>4, <2>7 DEF SendHandoff
  <2>9. wake.continuation = Head(ch.wait).continuation
    BY <2>7
  <2>10. Released(<<Head(ch.wait).continuation>>)
    BY <2>1, <2>3, <2>5, <2>6, <2>8, StoreReplaces, QueueServed
  <2> QED
    BY <2>8, <2>9, <2>10, WakingEffect
<1>4. CASE SendBuffered(h, p)
  <2>1. /\ Live(h) /\ ~At(h).closed /\ waiters' = waiters /\ ~FrontIs(At(h), "Receiver")
        /\ Len(At(h).buffer) < At(h).room
    BY <1>4 DEF SendBuffered, Sendable
  <2>2. PICK new : new = [At(h) EXCEPT !.buffer = Append(At(h).buffer, p)]
    OBVIOUS
  <2>3. /\ new \in Channel /\ ChannelCoherent(new) /\ new.wait = <<>> /\ At(h).wait = <<>>
    BY <2>1, <2>2, LiveRow, PushPayload
  <2>4. Store(h.index, new) /\ transition' = Ready(Plain("True"), <<>>)
    BY <1>4, <2>2 DEF SendBuffered
  <2>5. ParkedOnce' /\ ParkedTasks' = ParkedTasks
    BY <2>1, <2>3, <2>4, StoreReplaces, QueueKept
  <2> QED
    BY <2>1, <2>4, <2>5, QuietEffect
<1>5. CASE SendParked(h, p, c)
  <2>1. /\ Live(h) /\ ~At(h).closed /\ ~FrontIs(At(h), "Receiver")
        /\ Len(At(h).buffer) >= At(h).room /\ waiters' = waiters + 1
        /\ transition' = Parked
    BY <1>5 DEF SendParked, Sendable
  <2>2. /\ Sender(c, p) \in Waiter /\ Sender(c, p).kind = "Sender"
        /\ Sender(c, p).payload \in Payload /\ Sender(c, p).continuation = c
    BY DriverAssumption DEF Sender, Waiter
  <2>3. At(h) \in Channel /\ SendersLoaded(At(h)) /\ ChannelCoherent(At(h))
    BY <2>1, LiveRow
  <2>4. PICK w \in Waiter : w = Sender(c, p)
    BY <2>2
  <2>5. PICK new : new = [At(h) EXCEPT !.wait = Append(At(h).wait, w)]
    OBVIOUS
  <2>6. new \in Channel /\ ChannelCoherent(new)
    BY <2>1, <2>2, <2>3, <2>4, <2>5, ParkWaiter
  <2>7. new.wait = Append(At(h).wait, w)
    BY <2>3, <2>5 DEF Channel
  <2>8. Store(h.index, new)
    BY <1>5, <2>4, <2>5 DEF SendParked
  <2>9. w.continuation = c /\ c \notin ParkedTasks
    BY <2>2, <2>4
  <2>10. Entered(w.continuation)
    BY <2>1, <2>6, <2>7, <2>8, <2>9, StoreReplaces, QueueJoined
  <2> QED
    BY <2>1, <2>9, <2>10, ParkedIs DEF Effect
<1> QED
  BY <1>1, <1>2, <1>3, <1>4, <1>5 DEF Send

\* recv parks the receiver, wakes a sender or neither.
LEMMA RecvEffect ==
    ASSUME TableInv, ParkedOnce, waiters \in Int, NEW h \in handles,
           NEW c \in Task \ ParkedTasks, Recv(h, c)
    PROVE  Effect(c)
<1>1. CASE RecvStale(h)
  BY <1>1, IdleEffect DEF RecvStale
<1>2. CASE RecvExhausted(h)
  BY <1>2, FailedIs DEF RecvExhausted, Effect
<1>3. CASE RecvBuffered(h)
  <2>1. Live(h) /\ At(h).buffer # <<>> /\ At(h).wait = <<>> /\ waiters' = waiters
    BY <1>3 DEF RecvBuffered
  <2>2. PICK new : new = [At(h) EXCEPT !.buffer = Tail(At(h).buffer)]
    OBVIOUS
  <2>3. new \in Channel /\ new.wait = <<>>
    BY <2>1, <2>2, LiveRow, PopPayload
  <2>4. /\ StoreOrRelease(h.index, new)
        /\ transition' = Ready(Some(Head(At(h).buffer)), <<>>)
    BY <1>3, <2>2 DEF RecvBuffered
  <2>5. Replaced(h.index, At(h), new)
    BY <2>1, <2>3, <2>4, LiveRow DEF Replaced
  <2>6. ParkedOnce' /\ ParkedTasks' = ParkedTasks
    BY <2>1, <2>3, <2>5, QueueKept
  <2> QED
    BY <2>1, <2>4, <2>6, QuietEffect
<1>4. CASE RecvRefilled(h)
  <2>1. Live(h) /\ At(h).buffer # <<>> /\ At(h).wait # <<>>
    BY <1>4 DEF RecvRefilled
  <2>2. PICK ch : ch = At(h)
    OBVIOUS
  <2>3. ch \in Channel /\ SendersLoaded(ch) /\ ChannelCoherent(ch)
    BY <2>1, <2>2, LiveRow
  <2>4. PICK new : new = [ch EXCEPT !.buffer = Append(Tail(ch.buffer), Head(ch.wait).payload),
                                    !.wait = Tail(ch.wait)]
    OBVIOUS
  <2>5. /\ Head(ch.wait).kind = "Sender" /\ ~new.closed /\ new \in Channel
        /\ new.wait = Tail(ch.wait)
    BY <2>1, <2>2, <2>3, <2>4, RefillBuffer
  <2>6. PICK wake : wake = [continuation |-> Head(ch.wait).continuation, answer |-> Plain("True")]
    OBVIOUS
  <2>7. /\ StoreOrRelease(h.index, new) /\ waiters' = waiters - 1
        /\ transition' = Ready(Some(Head(ch.buffer)), <<wake>>)
    BY <1>4, <2>2, <2>4, <2>5, <2>6 DEF RecvRefilled, Refilled
  <2>8. wake.continuation = Head(ch.wait).continuation
    BY <2>6
  <2>9. Replaced(h.index, ch, new)
    BY <2>1, <2>2, <2>5, <2>7, LiveRow DEF Replaced
  <2>10. Released(<<Head(ch.wait).continuation>>)
    BY <2>1, <2>2, <2>5, <2>7, <2>9, QueueServed
  <2> QED
    BY <2>7, <2>8, <2>10, WakingEffect
<1>5. CASE RecvHandoff(h)
  <2>1. Live(h) /\ At(h).wait # <<>> /\ waiters' = waiters - 1
    BY <1>5 DEF RecvHandoff, FrontIs
  <2>2. At(h) \in Channel /\ SendersLoaded(At(h)) /\ ChannelCoherent(At(h))
    BY <2>1, LiveRow
  <2>3. PICK ch : ch = At(h)
    OBVIOUS
  <2>4. PICK new : new = [ch EXCEPT !.wait = Tail(ch.wait)]
    OBVIOUS
  <2>5. new \in Channel /\ ChannelCoherent(new)
    BY <2>1, <2>2, <2>3, <2>4, TakeWaiter
  <2>6. new.wait = Tail(ch.wait)
    BY <2>2, <2>3, <2>4 DEF Channel
  <2>7. PICK wake : wake = [continuation |-> Head(ch.wait).continuation, answer |-> Plain("True")]
    OBVIOUS
  <2>8. Store(h.index, new) /\ transition' = Ready(Some(Head(ch.wait).payload), <<wake>>)
    BY <1>5, <2>3, <2>4, <2>7 DEF RecvHandoff
  <2>9. wake.continuation = Head(ch.wait).continuation
    BY <2>7
  <2>10. Released(<<Head(ch.wait).continuation>>)
    BY <2>1, <2>3, <2>5, <2>6, <2>8, StoreReplaces, QueueServed
  <2> QED
    BY <2>8, <2>9, <2>10, WakingEffect
<1>6. CASE RecvEmpty(h, c)
  <2>1. Live(h) /\ At(h).buffer = <<>> /\ ~FrontIs(At(h), "Sender")
    BY <1>6 DEF RecvEmpty
  <2>2. At(h) \in Channel /\ SendersLoaded(At(h)) /\ ChannelCoherent(At(h)) /\ ~At(h).closed
    BY <2>1, LiveRow DEF ChannelCoherent
  <2>3. Receiver(c) \in Waiter /\ Receiver(c).kind = "Receiver" /\ Receiver(c).continuation = c
    BY DriverAssumption DEF Receiver, Waiter
  <2>4. PICK w \in Waiter : w = Receiver(c)
    BY <2>3
  <2>5. PICK new : new = [At(h) EXCEPT !.wait = Append(At(h).wait, w)]
    OBVIOUS
  <2>6. Store(h.index, new) /\ transition' = Parked /\ waiters' = waiters + 1
    BY <1>6, <2>2, <2>4, <2>5 DEF RecvEmpty
  <2>7. new \in Channel /\ ChannelCoherent(new)
    BY <2>1, <2>2, <2>3, <2>4, <2>5, ParkWaiter
  <2>8. new.wait = Append(At(h).wait, w)
    BY <2>2, <2>5 DEF Channel
  <2>9. w.continuation = c /\ c \notin ParkedTasks
    BY <2>3, <2>4
  <2>10. Entered(w.continuation)
    BY <2>1, <2>6, <2>7, <2>8, <2>9, StoreReplaces, QueueJoined
  <2> QED
    BY <2>6, <2>9, <2>10, ParkedIs DEF Effect
<1> QED
  BY <1>1, <1>2, <1>3, <1>4, <1>5, <1>6 DEF Recv

\* close wakes whoever waits.
LEMMA CloseEffect ==
    ASSUME TableInv, ParkedOnce, waiters \in Int, NEW h \in handles, NEW c, Close(h)
    PROVE  Effect(c)
<1>1. CASE CloseIgnored(h)
  BY <1>1, IdleEffect DEF CloseIgnored
<1>2. CASE CloseOpen(h)
  <2>1. Live(h)
    BY <1>2 DEF CloseOpen, Sendable
  <2>2. PICK ch : ch = At(h)
    OBVIOUS
  <2>3. ch \in Channel /\ ChannelCoherent(ch) /\ ch.wait \in Seq(Waiter)
    BY <2>1, <2>2, LiveRow, ChannelParts
  <2>4. PICK new : new = [ch EXCEPT !.closed = TRUE, !.wait = <<>>]
    OBVIOUS
  <2>5. new \in Channel /\ new.wait = <<>>
    BY <2>3, <2>4, ShutChannel
  <2>6. PICK wakes : wakes = [k \in 1..Len(ch.wait) |-> Dismissal(ch.wait[k])]
    OBVIOUS
  <2>7. /\ StoreOrRelease(h.index, new) /\ waiters' = waiters - Len(ch.wait)
        /\ transition' = Ready(Plain("Unit"), wakes)
    BY <1>2, <2>2, <2>4, <2>6 DEF CloseOpen
  <2>8. Replaced(h.index, ch, new)
    BY <2>1, <2>2, <2>3, <2>5, <2>7, LiveRow DEF Replaced
  <2>9. Released(Queue(ch))
    BY <2>5, <2>7, <2>8, QueueCleared
  <2>10. transition'.outcome = "ready" /\ transition'.wakes = wakes
    BY <2>7, ReadyIs
  <2>11. DOMAIN wakes = DOMAIN ch.wait
         /\ \A k \in DOMAIN ch.wait : wakes[k].continuation = ch.wait[k].continuation
    BY <2>3, <2>6 DEF Dismissal
  <2>12. Queue(ch) = [k \in DOMAIN wakes |-> wakes[k].continuation]
    BY <2>11 DEF Queue
  <2> QED
    BY <2>9, <2>10, <2>12 DEF Effect
<1> QED
  BY <1>1, <1>2 DEF Close

-----------------------------------------------------------------------------
(***************************************************************************)
(* How tasks move from one place to another.                               *)
(***************************************************************************)

\* One element more.
LEMMA OneMore ==
    ASSUME NEW A, IsFiniteSet(A), NEW y, y \notin A
    PROVE  IsFiniteSet(A \cup {y}) /\ Cardinality(A \cup {y}) = Cardinality(A) + 1
           /\ Cardinality(A) \in Nat
  BY FS_AddElement, FS_CardinalityType

\* One element less.
LEMMA OneLess ==
    ASSUME NEW A, IsFiniteSet(A), NEW y \in A
    PROVE  IsFiniteSet(A \ {y}) /\ Cardinality(A \ {y}) = Cardinality(A) - 1
           /\ Cardinality(A) \in Nat
  BY FS_RemoveElement, FS_CardinalityType

\* A part less.
LEMMA PartLess ==
    ASSUME NEW A, IsFiniteSet(A), NEW B \in SUBSET A
    PROVE  /\ IsFiniteSet(B) /\ Cardinality(A \ B) = Cardinality(A) - Cardinality(B)
           /\ Cardinality(A) \in Nat /\ Cardinality(B) \in Nat /\ Cardinality(A \ B) \in Nat
<1>1. IsFiniteSet(B) /\ IsFiniteSet(A \ B)
  BY FS_Subset
<1>2. A \cap B = B
  OBVIOUS
<1>3. Cardinality(A \ B) = Cardinality(A) - Cardinality(A \cap B)
  BY <1>1, FS_Difference
<1> QED
  BY <1>1, <1>2, <1>3, FS_CardinalityType

\* The running task is one place or none.
LEMMA NobodyRuns ==
    /\ Current(NoTask) = {} /\ Cardinality(Current(NoTask)) = 0
    /\ \A x \in Task : Current(x) = {x} /\ Cardinality(Current(x)) = 1 /\ x # NoTask
<1>1. Current(NoTask) = {} /\ \A x \in Task : Current(x) = {x} /\ x # NoTask
  BY DriverAssumption DEF Current
<1>2. Cardinality({}) = 0 /\ \A x : Cardinality({x}) = 1
  BY FS_EmptySet, FS_Singleton
<1> QED
  BY <1>1, <1>2

\* Everything that is counted has a size.
LEMMA Sizes ==
    ASSUME NEW r, NEW t, NEW d, NEW j, NEW s, NEW x, NEW P, NEW w, NEW l,
           World(r, t, d, j, s, x, P, w, l)
    PROVE  /\ Len(r) \in Nat /\ Len(t) \in Nat /\ w \in Nat /\ Cardinality(j) \in Nat
           /\ Cardinality(s) \in Nat /\ Cardinality(Current(x)) \in Nat /\ l \in Nat
           /\ IsFiniteSet(j) /\ IsFiniteSet(s) /\ IsFiniteSet(P)
           /\ ToSet(d) \subseteq j /\ Len(d) \in Nat /\ Len(d) = Cardinality(ToSet(d))
           /\ Len(d) <= Cardinality(j)
           /\ l = Len(r) + Len(t) + w + Cardinality(j) + Cardinality(s) + Cardinality(Current(x))
<1>1. /\ r \in Seq(Task) /\ t \in Seq(Timer) /\ d \in Seq(j) /\ j \subseteq Task /\ w \in Nat /\ l \in Nat
      /\ IsFiniteSet(s) /\ x \in Task \cup {NoTask} /\ P \subseteq Task /\ Once(d)
  BY DEF World, Typed
<1>2. IsFiniteSet(j) /\ IsFiniteSet(P)
  BY <1>1, DriverAssumption, FS_Subset
<1>3. Cardinality(j) \in Nat /\ Cardinality(s) \in Nat /\ Len(r) \in Nat /\ Len(t) \in Nat /\ Len(d) \in Nat
  BY <1>1, <1>2, FS_CardinalityType
<1>4. Cardinality(Current(x)) \in Nat
  <2>1. CASE x \in Task
    BY <2>1, NobodyRuns
  <2>2. CASE x = NoTask
    BY <2>2, NobodyRuns
  <2> QED
    BY <1>1, <2>1, <2>2
<1>5. ToSet(d) \subseteq j
  BY <1>1 DEF ToSet
<1>6. Len(d) = Cardinality(ToSet(d))
  BY <1>1, OnceSize
<1>7. Len(d) <= Cardinality(j)
  BY <1>2, <1>5, <1>6, FS_Subset
<1>8. l = Len(r) + Len(t) + w + Cardinality(j) + Cardinality(s) + Cardinality(Current(x))
  BY DEF World
<1> QED
  BY <1>1, <1>2, <1>3, <1>4, <1>5, <1>6, <1>7, <1>8

\* Finished jobs are collected.
LEMMA CollectMove ==
    ASSUME NEW r, NEW t, NEW d, NEW j, NEW s, NEW x, NEW P, NEW w, NEW l,
           World(r, t, d, j, s, x, P, w, l)
    PROVE  World(r \o d, t, <<>>, j \ ToSet(d), s, x, P, w, l)
<1>1. PICK D : D = ToSet(d)
  OBVIOUS
<1>2. D \in SUBSET j /\ IsFiniteSet(j) /\ Len(d) = Cardinality(D)
  BY <1>1, Sizes
<1>3. /\ Typed(r, t, d, j, s, x, l) /\ Once(r) /\ Once(d) /\ Once(Actions(t))
      /\ Apart(ToSet(r), Asleep(t), P, j, OnSockets(s), Current(x))
  BY DEF World
<1>4. r \in Seq(Task) /\ d \in Seq(Task) /\ ToSet(r) \cap ToSet(d) = {}
  <2>1. d \in Seq(j) /\ j \subseteq Task /\ r \in Seq(Task)
    BY <1>3 DEF Typed
  <2> QED
    BY <1>1, <1>2, <1>3, <2>1 DEF Apart
<1>5. PICK q : q = r \o d
  OBVIOUS
<1>6. q \in Seq(Task) /\ Once(q) /\ ToSet(q) = ToSet(r) \cup D /\ Len(q) = Len(r) + Len(d)
  BY <1>1, <1>3, <1>4, <1>5, OnceConcat
<1>7. PICK i : i = j \ D
  OBVIOUS
<1>8. Cardinality(i) = Cardinality(j) - Cardinality(D) /\ Cardinality(D) \in Nat
  BY <1>2, <1>7, PartLess
<1>9. Apart(ToSet(q), Asleep(t), P, i, OnSockets(s), Current(x))
  BY <1>2, <1>3, <1>6, <1>7 DEF Apart
<1>10. l = Len(q) + Len(t) + w + Cardinality(i) + Cardinality(s) + Cardinality(Current(x))
  BY SMTT(30), <1>2, <1>6, <1>8, Sizes
<1>11. Typed(q, t, <<>>, i, s, x, l)
  BY <1>3, <1>6, <1>7 DEF Typed
<1>12. World(q, t, <<>>, i, s, x, P, w, l)
  BY <1>3, <1>6, <1>9, <1>10, <1>11, OnceEmpty DEF World
<1> QED
  BY <1>1, <1>5, <1>7, <1>12

\* The first ready task runs.
LEMMA TakeMove ==
    ASSUME NEW r, NEW t, NEW d, NEW j, NEW s, NEW P, NEW w, NEW l,
           World(r, t, d, j, s, NoTask, P, w, l), r # <<>>
    PROVE  World(Tail(r), t, d, j, s, Head(r), P, w, l) /\ Head(r) \in Task
<1>1. /\ Typed(r, t, d, j, s, NoTask, l) /\ Once(r) /\ r \in Seq(Task)
      /\ Apart(ToSet(r), Asleep(t), P, j, OnSockets(s), Current(NoTask))
  BY DEF World, Typed
<1>2. PICK x, q : x = Head(r) /\ q = Tail(r)
  OBVIOUS
<1>3. /\ x \in ToSet(r) /\ x \in Task /\ q \in Seq(Task) /\ Once(q)
      /\ ToSet(q) = ToSet(r) \ {x} /\ Len(r) = Len(q) + 1
  BY <1>1, <1>2, OnceTail
<1>4. Current(x) = {x} /\ Cardinality(Current(x)) = 1 /\ Cardinality(Current(NoTask)) = 0
  BY <1>3, NobodyRuns
<1>5. Apart(ToSet(q), Asleep(t), P, j, OnSockets(s), Current(x))
  BY <1>1, <1>3, <1>4 DEF Apart
<1>6. Len(q) \in Nat
  BY <1>3
<1>7. l = Len(q) + Len(t) + w + Cardinality(j) + Cardinality(s) + Cardinality(Current(x))
  BY SMTT(30), <1>3, <1>4, <1>6, Sizes
<1>8. Typed(q, t, d, j, s, x, l)
  BY <1>1, <1>3 DEF Typed
<1>9. World(q, t, d, j, s, x, P, w, l)
  BY <1>3, <1>5, <1>7, <1>8 DEF World
<1> QED
  BY <1>2, <1>3, <1>9

\* The timers at the positions F fire, the others stay.
LEMMA FireMove ==
    ASSUME NEW r, NEW t, NEW d, NEW j, NEW s, NEW x, NEW P, NEW w, NEW l,
           World(r, t, d, j, s, x, P, w, l),
           NEW F \in SUBSET DOMAIN t, NEW f, NEW g, Picks(f, t, F), Picks(g, t, DOMAIN t \ F)
    PROVE  World(r \o Actions(f), g, d, j, s, x, P, w, l)
<1>1. /\ Typed(r, t, d, j, s, x, l) /\ Once(r) /\ Once(Actions(t)) /\ Once(d)
      /\ r \in Seq(Task) /\ t \in Seq(Timer)
      /\ Apart(ToSet(r), Asleep(t), P, j, OnSockets(s), Current(x))
  BY DEF World, Typed
<1>2. PICK G \in SUBSET DOMAIN t : G = DOMAIN t \ F
  OBVIOUS
<1>3. PICK a : a = Actions(f)
  OBVIOUS
<1>4. /\ a \in Seq(Task) /\ Len(a) = Len(f) /\ Once(a)
      /\ ToSet(a) = {t[k].action : k \in F}
  BY <1>1, <1>3, PickedRight
<1>5. /\ g \in Seq(Timer) /\ Once(Actions(g)) /\ ToSet(Actions(g)) = {t[k].action : k \in G}
      /\ DOMAIN Actions(g) = DOMAIN g
  <2>1. Picks(g, t, G)
    BY <1>2
  <2>2. g \in Seq(Timer) /\ DOMAIN Actions(g) = DOMAIN g
    BY DEF Picks, Actions
  <2>3. Once(Actions(g)) /\ ToSet(Actions(g)) = {t[k].action : k \in G}
    BY <1>1, <2>1, PickedRight
  <2> QED
    BY <2>2, <2>3
<1>6. Asleep(g) = {t[k].action : k \in G}
  BY <1>5 DEF Asleep, Actions, ToSet
<1>7. ToSet(a) \subseteq Asleep(t) /\ Asleep(g) = Asleep(t) \ ToSet(a)
  <2>1. \A k, m \in DOMAIN t : t[k].action = t[m].action => k = m
    BY <1>1 DEF Once, Actions
  <2>2. ToSet(a) \subseteq Asleep(t)
    BY <1>4 DEF Asleep
  <2>3. ASSUME NEW y \in Asleep(g) PROVE y \in Asleep(t) \ ToSet(a)
    <3>1. PICK k \in G : y = t[k].action
      BY <1>6
    <3>2. k \in DOMAIN t /\ k \notin F
      BY <1>2
    <3>3. \A m \in F : t[m].action # y
      BY <3>1, <3>2, <2>1
    <3>4. y \notin ToSet(a)
      BY <3>3, <1>4
    <3> QED  BY <3>1, <3>2, <3>4 DEF Asleep
  <2>4. ASSUME NEW y \in Asleep(t), y \notin ToSet(a) PROVE y \in Asleep(g)
    <3>1. PICK k \in DOMAIN t : y = t[k].action
      BY DEF Asleep
    <3>2. k \in G
      BY <1>2, <1>4, <2>4, <3>1
    <3> QED
      BY <1>6, <3>1, <3>2
  <2> QED
    BY <2>2, <2>3, <2>4
<1>8. PICK q : q = r \o a
  OBVIOUS
<1>9. q \in Seq(Task) /\ Once(q) /\ ToSet(q) = ToSet(r) \cup ToSet(a) /\ Len(q) = Len(r) + Len(a)
  <2>1. ToSet(r) \cap ToSet(a) = {}
    BY <1>1, <1>7 DEF Apart
  <2>2. r \in Seq(Task) /\ a \in Seq(Task) /\ Once(r) /\ Once(a)
    BY <1>1, <1>4
  <2> QED
    BY <1>8, <2>1, <2>2, OnceConcat
<1>10. Apart(ToSet(q), Asleep(g), P, j, OnSockets(s), Current(x))
  BY <1>1, <1>7, <1>9 DEF Apart
<1>11. Len(f) + Len(g) = Len(t) /\ Len(f) \in Nat /\ Len(g) \in Nat
  BY <1>1, Shared
<1>12. l = Len(q) + Len(g) + w + Cardinality(j) + Cardinality(s) + Cardinality(Current(x))
  <2>1. PICK n1, n2, n3, n4 : /\ n1 = Cardinality(j) /\ n2 = Cardinality(s)
                              /\ n3 = Cardinality(Current(x)) /\ n4 = Len(r)
    OBVIOUS
  <2>2. n1 \in Nat /\ n2 \in Nat /\ n3 \in Nat /\ n4 \in Nat /\ w \in Nat /\ l \in Nat
    BY <2>1, Sizes
  <2>3. l = n4 + Len(t) + w + n1 + n2 + n3
    BY <2>1, Sizes
  <2>4. Len(q) = n4 + Len(f)
    BY <1>4, <1>9, <2>1
  <2>5. l = Len(q) + Len(g) + w + n1 + n2 + n3
    BY <1>11, <2>2, <2>3, <2>4
  <2> QED
    BY <2>1, <2>5
<1>13. Typed(q, g, d, j, s, x, l)
  BY <1>1, <1>5, <1>9 DEF Typed
<1>14. World(q, g, d, j, s, x, P, w, l)
  BY <1>1, <1>5, <1>9, <1>10, <1>12, <1>13 DEF World
<1> QED
  BY <1>3, <1>8, <1>14

\* A descriptor wait ends: its task is ready.
LEMMA AnsweredMove ==
    ASSUME NEW r, NEW t, NEW d, NEW j, NEW s, NEW x, NEW P, NEW w, NEW l,
           World(r, t, d, j, s, x, P, w, l), NEW k \in s
    PROVE  World(r \o <<k.task>>, t, d, j, s \ {k}, x, P, w, l)
<1>1. /\ Typed(r, t, d, j, s, x, l) /\ Once(r) /\ Once(Actions(t)) /\ Once(d)
      /\ r \in Seq(Task) /\ s \subseteq [order : Nat, task : Task] /\ IsFiniteSet(s)
      /\ Apart(ToSet(r), Asleep(t), P, j, OnSockets(s), Current(x))
      /\ \A m, n \in s : m.task = n.task => m = n
  BY DEF World, Typed
<1>2. PICK y \in Task : y = k.task
  BY <1>1
<1>3. PICK z : z = s \ {k}
  OBVIOUS
<1>4. /\ IsFiniteSet(z) /\ Cardinality(z) = Cardinality(s) - 1
      /\ z \subseteq s /\ y \in OnSockets(s) /\ OnSockets(z) = OnSockets(s) \ {y}
  <2>1. IsFiniteSet(z) /\ Cardinality(z) = Cardinality(s) - 1
    BY <1>1, <1>3, OneLess
  <2>2. y \in OnSockets(s) /\ OnSockets(z) \subseteq OnSockets(s) /\ z \subseteq s
    BY <1>2, <1>3 DEF OnSockets
  <2>3. y \notin OnSockets(z)
    BY <1>1, <1>2, <1>3 DEF OnSockets
  <2>4. \A u \in OnSockets(s) : u # y => u \in OnSockets(z)
    BY <1>2, <1>3 DEF OnSockets
  <2> QED
    BY <2>1, <2>2, <2>3, <2>4
<1>5. y \notin ToSet(r)
  BY <1>1, <1>4 DEF Apart
<1>6. <<y>> \in Seq(Task) /\ Once(<<y>>) /\ ToSet(<<y>>) = {y} /\ Len(<<y>>) = 1
  BY DEF Once, ToSet
<1>7. PICK q : q = r \o <<y>>
  OBVIOUS
<1>8. q \in Seq(Task) /\ Once(q) /\ ToSet(q) = ToSet(r) \cup {y} /\ Len(q) = Len(r) + 1
  <2>1. ToSet(r) \cap ToSet(<<y>>) = {}
    BY <1>5, <1>6
  <2>2. PICK a \in Seq(Task) : a = <<y>> /\ Once(a) /\ ToSet(a) = {y} /\ Len(a) = 1
    BY <1>6
  <2>3. ToSet(r) \cap ToSet(a) = {}
    BY <2>1, <2>2
  <2>4. /\ r \o a \in Seq(Task) /\ Once(r \o a) /\ ToSet(r \o a) = ToSet(r) \cup ToSet(a)
        /\ Len(r \o a) = Len(r) + Len(a)
    <3>1. r \in Seq(Task) /\ Once(r) /\ Once(a)
      BY <1>1, <2>2
    <3> QED
      BY <2>3, <3>1, OnceConcat
  <2> QED
    BY <1>7, <2>2, <2>4
<1>9. Apart(ToSet(q), Asleep(t), P, j, OnSockets(z), Current(x))
  BY <1>1, <1>4, <1>8 DEF Apart
<1>10. l = Len(q) + Len(t) + w + Cardinality(j) + Cardinality(z) + Cardinality(Current(x))
  BY <1>4, <1>8, Sizes
<1>11. Typed(q, t, d, j, z, x, l)
  BY <1>1, <1>4, <1>8 DEF Typed
<1>12. \A m, n \in z : m.task = n.task => m = n
  BY <1>1, <1>4
<1>13. World(q, t, d, j, z, x, P, w, l)
  BY <1>1, <1>8, <1>9, <1>10, <1>11, <1>12 DEF World
<1> QED
  BY <1>2, <1>3, <1>7, <1>13

\* An operation parks on its descriptor again.
LEMMA AgainMove ==
    ASSUME NEW r, NEW t, NEW d, NEW j, NEW s, NEW x, NEW P, NEW w, NEW l,
           World(r, t, d, j, s, x, P, w, l), NEW k \in s, NEW n \in Nat,
           \A m \in s : m.order < n
    PROVE  World(r, t, d, j, (s \ {k}) \cup {[order |-> n, task |-> k.task]}, x, P, w, l)
<1>1. /\ Typed(r, t, d, j, s, x, l)
      /\ s \subseteq [order : Nat, task : Task] /\ IsFiniteSet(s)
      /\ \A a, b \in s : a.task = b.task => a = b
  BY DEF World, Typed
<1>2. PICK e \in [order : Nat, task : Task] : e = [order |-> n, task |-> k.task]
  BY <1>1
<1>3. e.order = n /\ e.task = k.task
  BY <1>2
<1>4. e \notin s
  <2>1. SUFFICES ASSUME e \in s PROVE FALSE
    OBVIOUS
  <2>2. n < n
    BY <1>3, <2>1
  <2> QED
    BY <2>2
<1>5. PICK z : z = (s \ {k}) \cup {e}
  OBVIOUS
<1>6. IsFiniteSet(s \ {k}) /\ Cardinality(s \ {k}) = Cardinality(s) - 1 /\ Cardinality(s) \in Nat
  BY <1>1, OneLess
<1>7. IsFiniteSet(z) /\ Cardinality(z) = Cardinality(s \ {k}) + 1
  BY <1>4, <1>5, <1>6, OneMore
<1>8. Cardinality(z) = Cardinality(s)
  BY <1>6, <1>7
<1>9. OnSockets(z) = OnSockets(s)
  BY <1>3, <1>5 DEF OnSockets
<1>10. \A a, b \in z : a.task = b.task => a = b
  BY <1>1, <1>3, <1>5
<1>11. Typed(r, t, d, j, z, x, l)
  BY <1>1, <1>5, <1>7 DEF Typed
<1>12. World(r, t, d, j, z, x, P, w, l)
  BY <1>8, <1>9, <1>10, <1>11 DEF World
<1> QED
  BY <1>2, <1>5, <1>12

\* y is in none of the places.
Nowhere(y, r, t, j, s, x, P) ==
    y \notin ToSet(r) \cup Asleep(t) \cup P \cup j \cup OnSockets(s) \cup Current(x)

\* A new task is ready.
LEMMA SpawnMove ==
    ASSUME NEW r, NEW t, NEW d, NEW j, NEW s, NEW x, NEW P, NEW w, NEW l,
           World(r, t, d, j, s, x, P, w, l), NEW y \in Task, Nowhere(y, r, t, j, s, x, P)
    PROVE  World(Append(r, y), t, d, j, s, x, P, w, l + 1)
<1>1. /\ Typed(r, t, d, j, s, x, l) /\ Once(r) /\ r \in Seq(Task)
      /\ Apart(ToSet(r), Asleep(t), P, j, OnSockets(s), Current(x))
  BY DEF World, Typed
<1>2. PICK q : q = Append(r, y)
  OBVIOUS
<1>3. q \in Seq(Task) /\ Once(q) /\ ToSet(q) = ToSet(r) \cup {y} /\ Len(q) = Len(r) + 1
  BY <1>1, <1>2, OnceAppend DEF Nowhere
<1>4. Apart(ToSet(q), Asleep(t), P, j, OnSockets(s), Current(x))
  BY <1>1, <1>3 DEF Apart, Nowhere
<1>5. l + 1 = Len(q) + Len(t) + w + Cardinality(j) + Cardinality(s) + Cardinality(Current(x))
      /\ l + 1 \in Nat
  <2>1. Len(q) = Len(r) + 1
    BY <1>3
  <2>2. PICK nr \in Nat, nt \in Nat, nj \in Nat, ns \in Nat, nx \in Nat :
           /\ nr = Len(r) /\ nt = Len(t) /\ nj = Cardinality(j) /\ ns = Cardinality(s)
           /\ nx = Cardinality(Current(x))
    BY Sizes, Zenon
  <2>3. l = nr + nt + w + nj + ns + nx /\ w \in Nat /\ l \in Nat
    BY <2>2, Sizes
  <2>4. l + 1 = (nr + 1) + nt + w + nj + ns + nx /\ l + 1 \in Nat
    BY <2>3
  <2> QED  BY <2>1, <2>2, <2>4
<1>6. Typed(q, t, d, j, s, x, l + 1)
  BY <1>1, <1>3, <1>5 DEF Typed
<1>7. World(q, t, d, j, s, x, P, w, l + 1)
  BY <1>3, <1>4, <1>5, <1>6 DEF World
<1> QED
  BY <1>2, <1>7

\* The running task sleeps.
LEMMA SleepMove ==
    ASSUME NEW r, NEW t, NEW d, NEW j, NEW s, NEW x \in Task, NEW P, NEW w, NEW l,
           World(r, t, d, j, s, x, P, w, l), NEW e \in Timer, e.action = x
    PROVE  World(r, Append(t, e), d, j, s, NoTask, P, w, l)
<1>1. /\ Typed(r, t, d, j, s, x, l) /\ t \in Seq(Timer) /\ Once(Actions(t))
      /\ Apart(ToSet(r), Asleep(t), P, j, OnSockets(s), Current(x))
  BY DEF World, Typed
<1>2. Current(x) = {x} /\ Current(NoTask) = {}
  BY NobodyRuns
<1>a. Cardinality(Current(x)) = 1 /\ Cardinality(Current(NoTask)) = 0
  BY NobodyRuns
<1>3. PICK u : u = Append(t, e)
  OBVIOUS
<1>4. PICK n \in Nat : n = Len(t) /\ DOMAIN t = 1 .. n
  BY <1>1
<1>5. /\ u \in Seq(Timer) /\ Len(u) = Len(t) + 1 /\ DOMAIN u = 1 .. n + 1 /\ u[n + 1] = e
      /\ \A k \in 1 .. n : u[k] = t[k]
  BY <1>1, <1>3, <1>4
<1>6. \A k \in 1 .. n + 1 : k \in 1 .. n \/ k = n + 1
  OBVIOUS
<1>7. Asleep(u) = Asleep(t) \cup {x}
  <2>1. \A k \in DOMAIN u : u[k].action \in Asleep(t) \cup {x}
    BY <1>4, <1>5, <1>6 DEF Asleep
  <2>2. n + 1 \in DOMAIN u /\ \A k \in DOMAIN t : k \in DOMAIN u
    BY <1>4, <1>5
  <2>3. x \in Asleep(u)
    BY <1>5, <2>2 DEF Asleep
  <2>4. \A y \in Asleep(t) : y \in Asleep(u)
    BY <1>4, <1>5, <2>2 DEF Asleep
  <2>5. \A y \in Asleep(u) : y \in Asleep(t) \cup {x}
    BY <2>1 DEF Asleep
  <2> QED
    BY <2>3, <2>4, <2>5
<1>8. x \notin Asleep(t)
  BY <1>1, <1>2 DEF Apart
<1>9. Once(Actions(u))
  <2>1. \A k, m \in DOMAIN t : t[k].action = t[m].action => k = m
    BY <1>1 DEF Once, Actions
  <2>2. \A k \in DOMAIN t : t[k].action # x
    BY <1>8 DEF Asleep
  <2>3. \A k, m \in DOMAIN u : u[k].action = u[m].action => k = m
    BY <1>4, <1>5, <1>6, <2>1, <2>2
  <2> QED
    BY <2>3 DEF Once, Actions
<1>10. Apart(ToSet(r), Asleep(u), P, j, OnSockets(s), Current(NoTask))
  BY <1>1, <1>2, <1>7 DEF Apart
<1>11. l = Len(r) + Len(u) + w + Cardinality(j) + Cardinality(s) + Cardinality(Current(NoTask))
  BY SMTT(30), <1>a, <1>5, Sizes
<1>12. Typed(r, u, d, j, s, NoTask, l)
  BY <1>1, <1>5 DEF Typed
<1>13. World(r, u, d, j, s, NoTask, P, w, l)
  BY <1>9, <1>10, <1>11, <1>12 DEF World
<1> QED
  BY <1>3, <1>13

\* The running task waits for a job.
LEMMA JobMove ==
    ASSUME NEW r, NEW t, NEW d, NEW j, NEW s, NEW x \in Task, NEW P, NEW w, NEW l,
           World(r, t, d, j, s, x, P, w, l)
    PROVE  World(r, t, d, j \cup {x}, s, NoTask, P, w, l)
<1>1. /\ Typed(r, t, d, j, s, x, l)
      /\ Apart(ToSet(r), Asleep(t), P, j, OnSockets(s), Current(x))
  BY DEF World
<1>2. Current(x) = {x} /\ Current(NoTask) = {}
  BY NobodyRuns
<1>a. Cardinality(Current(x)) = 1 /\ Cardinality(Current(NoTask)) = 0
  BY NobodyRuns
<1>3. PICK i : i = j \cup {x}
  OBVIOUS
<1>4. x \notin j
  BY <1>1, <1>2 DEF Apart
<1>5. Cardinality(i) = Cardinality(j) + 1
  BY <1>3, <1>4, Sizes, OneMore
<1>6. Apart(ToSet(r), Asleep(t), P, i, OnSockets(s), Current(NoTask))
  BY <1>1, <1>2, <1>3 DEF Apart
<1>7. l = Len(r) + Len(t) + w + Cardinality(i) + Cardinality(s) + Cardinality(Current(NoTask))
  BY <1>a, <1>5, Sizes
<1>8. d \in Seq(i) /\ i \subseteq Task
  BY <1>1, <1>3 DEF Typed
<1>9. Typed(r, t, d, i, s, NoTask, l)
  BY <1>1, <1>8 DEF Typed
<1>10. World(r, t, d, i, s, NoTask, P, w, l)
  BY <1>6, <1>7, <1>9 DEF World
<1> QED
  BY <1>3, <1>10

\* The running task waits for a descriptor.
LEMMA SocketMove ==
    ASSUME NEW r, NEW t, NEW d, NEW j, NEW s, NEW x \in Task, NEW P, NEW w, NEW l,
           World(r, t, d, j, s, x, P, w, l), NEW n \in Nat
    PROVE  World(r, t, d, j, s \cup {[order |-> n, task |-> x]}, NoTask, P, w, l)
<1>1. /\ Typed(r, t, d, j, s, x, l) /\ s \subseteq [order : Nat, task : Task] /\ IsFiniteSet(s)
      /\ Apart(ToSet(r), Asleep(t), P, j, OnSockets(s), Current(x))
      /\ \A a, b \in s : a.task = b.task => a = b
  BY DEF World, Typed
<1>2. Current(x) = {x} /\ Current(NoTask) = {}
  BY NobodyRuns
<1>a. Cardinality(Current(x)) = 1 /\ Cardinality(Current(NoTask)) = 0
  BY NobodyRuns
<1>3. PICK e \in [order : Nat, task : Task] : e = [order |-> n, task |-> x]
  OBVIOUS
<1>4. e.task = x
  BY <1>3
<1>5. PICK z : z = s \cup {e}
  OBVIOUS
<1>6. x \notin OnSockets(s)
  BY <1>1, <1>2 DEF Apart
<1>7. e \notin s /\ \A a \in s : a.task # x
  BY <1>4, <1>6 DEF OnSockets
<1>8. IsFiniteSet(z) /\ Cardinality(z) = Cardinality(s) + 1
  BY <1>1, <1>5, <1>7, OneMore
<1>9. OnSockets(z) = OnSockets(s) \cup {x}
  BY <1>4, <1>5 DEF OnSockets
<1>10. \A a, b \in z : a.task = b.task => a = b
  BY <1>1, <1>4, <1>5, <1>7
<1>11. Apart(ToSet(r), Asleep(t), P, j, OnSockets(z), Current(NoTask))
  BY <1>1, <1>2, <1>9 DEF Apart
<1>12. l = Len(r) + Len(t) + w + Cardinality(j) + Cardinality(z) + Cardinality(Current(NoTask))
  BY <1>a, <1>8, Sizes
<1>13. Typed(r, t, d, j, z, NoTask, l)
  BY <1>1, <1>5, <1>8 DEF Typed
<1>14. World(r, t, d, j, z, NoTask, P, w, l)
  BY <1>10, <1>11, <1>12, <1>13 DEF World
<1> QED
  BY <1>3, <1>5, <1>14

\* The running task parks on a channel.
LEMMA EnterMove ==
    ASSUME NEW r, NEW t, NEW d, NEW j, NEW s, NEW x \in Task, NEW P, NEW w, NEW l,
           World(r, t, d, j, s, x, P, w, l)
    PROVE  World(r, t, d, j, s, NoTask, P \cup {x}, w + 1, l)
<1>1. /\ Typed(r, t, d, j, s, x, l) /\ P \subseteq Task /\ w = Cardinality(P)
      /\ Apart(ToSet(r), Asleep(t), P, j, OnSockets(s), Current(x))
  BY DEF World
<1>2. Current(x) = {x} /\ Current(NoTask) = {}
  BY NobodyRuns
<1>a. Cardinality(Current(x)) = 1 /\ Cardinality(Current(NoTask)) = 0
  BY NobodyRuns
<1>3. PICK Q : Q = P \cup {x}
  OBVIOUS
<1>4. x \notin P
  BY <1>1, <1>2 DEF Apart
<1>5. Cardinality(Q) = w + 1 /\ Q \subseteq Task
  BY <1>1, <1>3, <1>4, Sizes, OneMore
<1>6. Apart(ToSet(r), Asleep(t), Q, j, OnSockets(s), Current(NoTask))
  BY <1>1, <1>2, <1>3 DEF Apart
<1>7. /\ l = Len(r) + Len(t) + (w + 1) + Cardinality(j) + Cardinality(s) + Cardinality(Current(NoTask))
      /\ w + 1 \in Nat
  BY SMTT(30), <1>a, Sizes
<1>8. Typed(r, t, d, j, s, NoTask, l)
  BY <1>1 DEF Typed
<1>9. World(r, t, d, j, s, NoTask, Q, w + 1, l)
  BY <1>5, <1>6, <1>7, <1>8 DEF World
<1> QED
  BY <1>3, <1>9

\* Tasks parked on a channel are woken.
LEMMA WakeMove ==
    ASSUME NEW r, NEW t, NEW d, NEW j, NEW s, NEW x, NEW P, NEW w, NEW l,
           World(r, t, d, j, s, x, P, w, l),
           NEW a \in Seq(Task), Once(a), ToSet(a) \subseteq P
    PROVE  World(r \o a, t, d, j, s, x, P \ ToSet(a), w - Len(a), l) /\ Len(a) <= w
<1>1. /\ Typed(r, t, d, j, s, x, l) /\ P \subseteq Task /\ w = Cardinality(P) /\ r \in Seq(Task)
      /\ Once(r) /\ Apart(ToSet(r), Asleep(t), P, j, OnSockets(s), Current(x))
  BY DEF World, Typed
<1>2. PICK A \in SUBSET P : A = ToSet(a)
  OBVIOUS
<1>3. PICK q, Q : q = r \o a /\ Q = P \ A
  OBVIOUS
<1>4. ToSet(r) \cap ToSet(a) = {}
  BY <1>1 DEF Apart
<1>5. q \in Seq(Task) /\ Once(q) /\ ToSet(q) = ToSet(r) \cup A /\ Len(q) = Len(r) + Len(a)
  BY <1>1, <1>2, <1>3, <1>4, OnceConcat
<1>6. Cardinality(A) = Len(a) /\ Len(a) \in Nat
  BY <1>2, OnceSize
<1>7. /\ Cardinality(Q) = w - Len(a) /\ Cardinality(Q) \in Nat
  <2>1. IsFiniteSet(P)
    BY Sizes
  <2> QED
    BY <1>1, <1>3, <1>6, <2>1, PartLess
<1>8. Apart(ToSet(q), Asleep(t), Q, j, OnSockets(s), Current(x))
  BY <1>1, <1>3, <1>5 DEF Apart
<1>9. PICK v : v = w - Len(a)
  OBVIOUS
<1>10. v \in Nat /\ v = Cardinality(Q) /\ Q \subseteq Task
  BY <1>1, <1>3, <1>7, <1>9
<1>11. Len(r) \in Nat /\ Len(t) \in Nat /\ w \in Nat /\ Cardinality(j) \in Nat
       /\ Cardinality(s) \in Nat /\ Cardinality(Current(x)) \in Nat
       /\ l = Len(r) + Len(t) + w + Cardinality(j) + Cardinality(s) + Cardinality(Current(x))
  BY Sizes
<1>12. l = Len(q) + Len(t) + v + Cardinality(j) + Cardinality(s) + Cardinality(Current(x))
  BY <1>5, <1>6, <1>9, <1>11
<1>13. Typed(q, t, d, j, s, x, l)
  BY <1>1, <1>5 DEF Typed
<1>14. World(q, t, d, j, s, x, Q, v, l)
  BY <1>5, <1>8, <1>10, <1>12, <1>13 DEF World
<1>15. Len(a) <= w
  BY <1>6, <1>9, <1>10, <1>11
<1> QED
  BY <1>2, <1>3, <1>9, <1>14, <1>15

\* The running task completes.
LEMMA CompleteMove ==
    ASSUME NEW r, NEW t, NEW d, NEW j, NEW s, NEW x \in Task, NEW P, NEW w, NEW l,
           World(r, t, d, j, s, x, P, w, l)
    PROVE  World(r, t, d, j, s, NoTask, P, w, l - 1) /\ l - 1 \in Nat /\ l # 0
<1>1. /\ Typed(r, t, d, j, s, x, l)
      /\ Apart(ToSet(r), Asleep(t), P, j, OnSockets(s), Current(x))
  BY DEF World
<1>2. Current(x) = {x} /\ Current(NoTask) = {}
  BY NobodyRuns
<1>a. Cardinality(Current(x)) = 1 /\ Cardinality(Current(NoTask)) = 0
  BY NobodyRuns
<1>3. Apart(ToSet(r), Asleep(t), P, j, OnSockets(s), Current(NoTask))
  BY <1>1, <1>2 DEF Apart
<1>4. /\ l - 1 = Len(r) + Len(t) + w + Cardinality(j) + Cardinality(s) + Cardinality(Current(NoTask))
      /\ l - 1 \in Nat /\ l # 0
  BY <1>a, Sizes
<1>5. Typed(r, t, d, j, s, NoTask, l - 1)
  BY <1>1, <1>4 DEF Typed
<1>6. World(r, t, d, j, s, NoTask, P, w, l - 1)
  BY <1>3, <1>4, <1>5 DEF World
<1> QED
  BY <1>4, <1>6

\* A job finishes.
LEMMA DoneMove ==
    ASSUME NEW r, NEW t, NEW d, NEW j, NEW s, NEW x, NEW P, NEW w, NEW l,
           World(r, t, d, j, s, x, P, w, l), NEW y \in j \ ToSet(d)
    PROVE  World(r, t, Append(d, y), j, s, x, P, w, l)
<1>1. Typed(r, t, d, j, s, x, l) /\ d \in Seq(j) /\ Once(d)
  BY DEF World, Typed
<1>2. PICK e : e = Append(d, y)
  OBVIOUS
<1>3. e \in Seq(j) /\ Once(e)
  BY <1>1, <1>2, OnceAppend
<1>4. Typed(r, t, e, j, s, x, l)
  BY <1>1, <1>3 DEF Typed
<1>5. World(r, t, e, j, s, x, P, w, l)
  BY <1>3, <1>4 DEF World
<1> QED
  BY <1>2, <1>5

-----------------------------------------------------------------------------
(***************************************************************************)
(* The order of waits and wakes.                                           *)
(***************************************************************************)
LEMMA OrderedPicks ==
    ASSUME NEW t \in Seq(Timer), NEW s, NEW n, Ordered(t, s, n),
           NEW G \in SUBSET DOMAIN t, NEW g, Picks(g, t, G)
    PROVE  Ordered(g, s, n)
<1>1. \A i \in DOMAIN g : \E k \in DOMAIN t : g[i] = t[k]
  BY PickedEach
<1>2. Increasing(Orders(g))
  BY PickedRight DEF Ordered
<1>3. \A i \in DOMAIN g : g[i].order < n
  BY <1>1 DEF Ordered
<1>4. \A i \in DOMAIN g, m \in s : g[i].order # m.order
  BY <1>1 DEF Ordered
<1> QED
  BY <1>2, <1>3, <1>4 DEF Ordered

\* Fewer descriptors wait.
LEMMA OrderedFewer ==
    ASSUME NEW t, NEW s, NEW n, Ordered(t, s, n), NEW z, z \subseteq s
    PROVE  Ordered(t, z, n)
  BY DEF Ordered

\* A new timer has the next order.
LEMMA OrderedTimer ==
    ASSUME NEW t \in Seq(Timer), NEW s, NEW n, Ordered(t, s, n), NEW e \in Timer, e.order = n,
           s \subseteq [order : Nat, task : Task]
    PROVE  Ordered(Append(t, e), s, n + 1)
<1>1. PICK u : u = Append(t, e)
  OBVIOUS
<1>2. PICK m \in Nat : m = Len(t) /\ DOMAIN t = 1 .. m
  OBVIOUS
<1>3. /\ DOMAIN u = 1 .. m + 1 /\ u[m + 1] = e
      /\ \A k \in 1 .. m : u[k] = t[k]
  BY <1>1, <1>2
<1>4. \A k \in 1 .. m + 1 : k \in 1 .. m \/ k = m + 1
  OBVIOUS
<1>5. n \in Nat /\ \A k \in DOMAIN t : t[k].order < n /\ t[k].order \in Nat
  <2>1. \A k \in DOMAIN t : t[k] \in Timer
    OBVIOUS
  <2> QED
    BY <2>1 DEF Ordered, Timer
<1>6. \A k \in DOMAIN u : u[k].order < n + 1
  BY <1>2, <1>3, <1>4, <1>5
<1>7. Increasing(Orders(u))
  <2>1. \A k, i \in DOMAIN t : k < i => t[k].order < t[i].order
    BY DEF Ordered, Increasing, Orders
  <2>2. ASSUME NEW k \in DOMAIN u, NEW i \in DOMAIN u, k < i PROVE u[k].order < u[i].order
    <3>1. CASE i = m + 1
      <4>1. k \in 1 .. m
        BY <1>3, <2>2, <3>1
      <4> QED
        BY <1>2, <1>3, <1>5, <3>1, <4>1
    <3>2. CASE i # m + 1
      <4>1. k \in 1 .. m /\ i \in 1 .. m
        BY <1>3, <2>2, <3>2
      <4> QED
        BY <1>2, <1>3, <2>1, <2>2, <4>1
    <3> QED
      BY <3>1, <3>2
  <2> QED
    BY <2>2 DEF Increasing, Orders
<1>8. \A k \in s : k.order < n /\ k.order \in Nat
  BY DEF Ordered
<1>9. /\ \A k \in s : k.order < n + 1
      /\ \A k \in DOMAIN u, i \in s : u[k].order # i.order
  <2>1. \A k \in s : k.order < n + 1 /\ k.order # n
    BY <1>5, <1>8
  <2>2. \A k \in DOMAIN t, i \in s : t[k].order # i.order
    BY DEF Ordered
  <2> QED
    BY <1>2, <1>3, <1>4, <2>1, <2>2
<1>10. n + 1 \in Nat
  BY <1>5
<1>11. Ordered(u, s, n + 1)
  BY <1>6, <1>7, <1>9, <1>10 DEF Ordered
<1> QED
  BY <1>1, <1>11

\* A new wait for a descriptor has it.
LEMMA OrderedSocket ==
    ASSUME NEW t \in Seq(Timer), NEW s, NEW n, Ordered(t, s, n), NEW x,
           s \subseteq [order : Nat, task : Task]
    PROVE  Ordered(t, s \cup {[order |-> n, task |-> x]}, n + 1)
<1>1. PICK e : e = [order |-> n, task |-> x]
  OBVIOUS
<1>2. e.order = n
  BY <1>1
<1>3. PICK z : z = s \cup {e}
  OBVIOUS
<1>4. n \in Nat /\ \A k \in DOMAIN t : t[k].order < n /\ t[k].order \in Nat
  <2>1. \A k \in DOMAIN t : t[k] \in Timer
    OBVIOUS
  <2> QED
    BY <2>1 DEF Ordered, Timer
<1>5. \A k \in s : k.order < n /\ k.order \in Nat
  BY DEF Ordered
<1>6. n + 1 \in Nat /\ n < n + 1 /\ (\A k \in DOMAIN t : t[k].order < n + 1 /\ t[k].order # n)
      /\ (\A k \in s : k.order < n + 1 /\ k.order # n)
  BY <1>4, <1>5
<1>7. \A k \in z : k.order < n + 1
  BY <1>2, <1>3, <1>6
<1>8. \A k, m \in z : k.order = m.order => k = m
  BY <1>2, <1>3, <1>6 DEF Ordered
<1>9. \A k \in DOMAIN t, m \in z : t[k].order # m.order
  BY <1>2, <1>3, <1>6 DEF Ordered
<1>10. Ordered(t, z, n + 1)
  BY <1>6, <1>7, <1>8, <1>9 DEF Ordered
<1> QED
  BY <1>1, <1>3, <1>10

\* One increasing sequence below another.
LEMMA IncreasingConcat ==
    ASSUME NEW a \in Seq(Nat), NEW b \in Seq(Nat), Increasing(a), Increasing(b),
           \A i \in DOMAIN a, j \in DOMAIN b : a[i] < b[j]
    PROVE  /\ a \o b \in Seq(Nat) /\ Increasing(a \o b)
           /\ \A i \in DOMAIN (a \o b) : \/ \E j \in DOMAIN a : (a \o b)[i] = a[j]
                                         \/ \E j \in DOMAIN b : (a \o b)[i] = b[j]
<1>1. PICK m \in Nat : m = Len(a) /\ DOMAIN a = 1 .. m
  OBVIOUS
<1>2. PICK n \in Nat : n = Len(b) /\ DOMAIN b = 1 .. n
  OBVIOUS
<1>0. a \o b \in Seq(Nat)
  OBVIOUS
<1>3. PICK u \in Seq(Nat) : u = a \o b
  BY <1>0
<1>4. /\ DOMAIN u = 1 .. m + n
      /\ \A i \in 1 .. m + n : u[i] = IF i <= m THEN a[i] ELSE b[i - m]
  BY <1>1, <1>2, <1>3
<1>5. \A i \in DOMAIN u :
          /\ i \in Int
          /\ \/ i <= m /\ i \in DOMAIN a /\ u[i] = a[i]
             \/ i > m /\ i - m \in DOMAIN b /\ u[i] = b[i - m]
  <2>1. ASSUME NEW i \in 1 .. m + n
        PROVE  /\ i \in Int
               /\ \/ i <= m /\ i \in DOMAIN a /\ u[i] = a[i]
                  \/ i > m /\ i - m \in DOMAIN b /\ u[i] = b[i - m]
    <3>1. CASE i <= m
      BY <1>1, <1>4, <3>1
    <3>2. CASE i > m
      <4>1. ~(i <= m) /\ i - m \in 1 .. n
        BY <3>2
      <4> QED
        BY <1>2, <1>4, <3>2, <4>1
    <3> QED
      BY <3>1, <3>2
  <2>2. DOMAIN u = 1 .. m + n
    BY <1>4
  <2> QED
    BY <2>1, <2>2
<1>6. ASSUME NEW i \in DOMAIN u, NEW j \in DOMAIN u, i < j PROVE u[i] < u[j]
  <2>1. CASE j <= m
    <3>1. i \in DOMAIN a /\ j \in DOMAIN a /\ u[i] = a[i] /\ u[j] = a[j]
      BY <1>5, <1>6, <2>1
    <3> QED
      BY <1>6, <3>1 DEF Increasing
  <2>2. CASE i <= m /\ j > m
    <3>1. i \in DOMAIN a /\ u[i] = a[i] /\ j - m \in DOMAIN b /\ u[j] = b[j - m]
      BY <1>5, <2>2
    <3> QED
      BY <3>1
  <2>3. CASE i > m /\ j > m
    <3>1. i - m \in DOMAIN b /\ u[i] = b[i - m] /\ j - m \in DOMAIN b /\ u[j] = b[j - m]
      BY <1>5, <2>3
    <3>2. i - m < j - m
      BY <1>5, <1>6
    <3> QED
      BY <3>1, <3>2 DEF Increasing
  <2> QED
    BY <1>5, <1>6, <2>1, <2>2, <2>3
<1>7. Increasing(u)
  BY <1>6 DEF Increasing
<1>8. \A i \in DOMAIN u : \/ \E j \in DOMAIN a : u[i] = a[j]
                          \/ \E j \in DOMAIN b : u[i] = b[j]
  BY <1>5
<1> QED
  BY <1>3, <1>7, <1>8

\* A pass at time c that has woken p, with the descriptors q still to be looked at.
Pass(p, q, t, s, n, c) ==
    /\ t \in Seq(Timer) /\ s \subseteq [order : Nat, task : Task] /\ Ordered(t, s, n)
    /\ p \in Seq(Nat) /\ q \in Seq(Nat) /\ c \in Nat
    /\ Increasing(p) /\ Passing(p, q, t, s, c)

\* The overdue timers that fire before a wait registered as o.
Before(t, c, o) == {k \in DOMAIN t : t[k].deadline <= c /\ t[k].order < o}

\* The timers that fire next come after everything this pass has woken.
LEMMA FiredInOrder ==
    ASSUME NEW p, NEW q, NEW t, NEW s, NEW n, NEW c, Pass(p, q, t, s, n, c), NEW o, NEW f,
           Picks(f, t, Before(t, c, o))
    PROVE  /\ p \o Orders(f) \in Seq(Nat) /\ Increasing(p \o Orders(f))
           /\ \A i \in DOMAIN (p \o Orders(f)) :
                 \/ \E j \in DOMAIN p : (p \o Orders(f))[i] = p[j]
                 \/ \E k \in Before(t, c, o) : (p \o Orders(f))[i] = t[k].order
<1>1. PICK F \in SUBSET DOMAIN t : F = Before(t, c, o)
  BY DEF Before
<1>2. Picks(f, t, F) /\ t \in Seq(Timer) /\ Increasing(Orders(t)) /\ p \in Seq(Nat) /\ Increasing(p)
  BY <1>1 DEF Pass, Ordered
<1>3. PICK b : b = Orders(f)
  OBVIOUS
<1>4. b \in Seq(Nat) /\ Increasing(b) /\ DOMAIN b = DOMAIN f
  BY <1>2, <1>3, PickedRight
<1>5. \A j \in DOMAIN b : \E k \in F : b[j] = t[k].order
  <2>1. \A j \in DOMAIN f : \E k \in F : f[j] = t[k]
    BY <1>2, PickedEach
  <2> QED
    BY <1>3, <1>4, <2>1 DEF Orders
<1>6. \A k \in F : k \in DOMAIN t /\ t[k].deadline <= c
  BY <1>1 DEF Before
<1>7. \A i \in DOMAIN p, j \in DOMAIN b : p[i] < b[j]
  BY <1>5, <1>6 DEF Pass, Passing
<1>8. /\ p \o b \in Seq(Nat) /\ Increasing(p \o b)
      /\ \A i \in DOMAIN (p \o b) : \/ \E j \in DOMAIN p : (p \o b)[i] = p[j]
                                    \/ \E j \in DOMAIN b : (p \o b)[i] = b[j]
  BY <1>2, <1>4, <1>7, IncreasingConcat
<1>9. PICK u : u = p \o b
  OBVIOUS
<1>10. \A i \in DOMAIN u : \/ \E j \in DOMAIN p : u[i] = p[j]
                           \/ \E k \in F : u[i] = t[k].order
  <2>1. \A i \in DOMAIN u : \/ \E j \in DOMAIN p : u[i] = p[j]
                            \/ \E j \in DOMAIN b : u[i] = b[j]
    BY <1>8, <1>9
  <2> QED
    BY <1>5, <2>1
<1> QED
  BY <1>1, <1>3, <1>8, <1>9, <1>10

\* What is woken up to the first polled descriptor is registered before the rest.
LEMMA PassOn ==
    ASSUME NEW p, NEW q, NEW t, NEW s, NEW n, NEW c, Pass(p, q, t, s, n, c), q # <<>>,
           NEW k \in s, k.order = Head(q), NEW f, NEW g,
           Picks(f, t, Before(t, c, Head(q))), Picks(g, t, DOMAIN t \ Before(t, c, Head(q))),
           NEW z, \A m \in s : m # k => m \in z
    PROVE  /\ p \o Orders(f) \in Seq(Nat) /\ Increasing(p \o Orders(f))
           /\ Passing(p \o Orders(f), Tail(q), g, z, c)
           /\ p \o Orders(f) \o <<Head(q)>> \in Seq(Nat)
           /\ Increasing(p \o Orders(f) \o <<Head(q)>>)
           /\ Passing(p \o Orders(f) \o <<Head(q)>>, Tail(q), g, z, c)
<1>1. PICK o, r : o = Head(q) /\ r = Tail(q)
  OBVIOUS
<1>2. PICK u : u = p \o Orders(f)
  OBVIOUS
<1>3. PICK F \in SUBSET DOMAIN t : F = Before(t, c, o)
  BY DEF Before
<1>4. /\ u \in Seq(Nat) /\ Increasing(u)
      /\ \A i \in DOMAIN u : \/ \E j \in DOMAIN p : u[i] = p[j]
                             \/ \E m \in F : u[i] = t[m].order
  <2>1. Picks(f, t, Before(t, c, o))
    BY <1>1
  <2>2. /\ p \o Orders(f) \in Seq(Nat) /\ Increasing(p \o Orders(f))
        /\ \A i \in DOMAIN (p \o Orders(f)) :
              \/ \E j \in DOMAIN p : (p \o Orders(f))[i] = p[j]
              \/ \E m \in Before(t, c, o) : (p \o Orders(f))[i] = t[m].order
    BY <2>1, FiredInOrder
  <2> QED
    BY <1>2, <1>3, <2>2
<1>5. /\ q \in Seq(Nat) /\ p \in Seq(Nat) /\ t \in Seq(Timer) /\ Increasing(q) /\ c \in Nat
      /\ \A j \in DOMAIN q : \E m \in s : m.order = q[j]
      /\ \A i \in DOMAIN p, j \in DOMAIN q : p[i] < q[j]
      /\ \A i \in DOMAIN p, m \in DOMAIN t : t[m].deadline <= c => p[i] < t[m].order
  BY DEF Pass, Passing
<1>6. /\ r \in Seq(Nat) /\ 1 \in DOMAIN q /\ o = q[1] /\ o \in Nat
      /\ \A j \in DOMAIN r : j + 1 \in DOMAIN q /\ r[j] = q[j + 1] /\ 1 < j + 1 /\ j \in Nat
  BY <1>1, <1>5
<1>7. \A j \in DOMAIN r : o < r[j] /\ r[j] \in Nat
  <2> SUFFICES ASSUME NEW j \in DOMAIN r PROVE o < r[j] /\ r[j] \in Nat
    OBVIOUS
  <2>1. q[1] < q[j + 1]
    BY <1>5, <1>6 DEF Increasing
  <2> QED
    BY <1>6, <2>1
<1>8. Increasing(r)
  <2> SUFFICES ASSUME NEW i \in DOMAIN r, NEW j \in DOMAIN r, i < j PROVE r[i] < r[j]
    BY DEF Increasing
  <2>1. i + 1 < j + 1
    BY <1>6
  <2>2. q[i + 1] < q[j + 1]
    BY <1>5, <1>6, <2>1 DEF Increasing
  <2> QED
    BY <1>6, <2>2
<1>9. \A j \in DOMAIN r : \E m \in z : m.order = r[j]
  <2> SUFFICES ASSUME NEW j \in DOMAIN r PROVE \E m \in z : m.order = r[j]
    OBVIOUS
  <2>1. PICK m \in s : m.order = r[j]
    BY <1>5, <1>6
  <2>2. m # k
    <3>1. o # r[j]
      BY <1>6, <1>7
    <3> QED
      BY <1>1, <2>1, <3>1
  <2> QED
    BY <2>1, <2>2
<1>10. \A m \in DOMAIN t : t[m].order \in Nat /\ t[m].order # o /\ t[m] \in Timer
  <2>1. \A m \in DOMAIN t : t[m] \in Timer
    BY <1>5
  <2>2. \A m \in DOMAIN t : t[m].order \in Nat
    BY <2>1 DEF Timer
  <2>3. \A m \in DOMAIN t : t[m].order # o
    BY <1>1 DEF Pass, Ordered
  <2> QED
    BY <2>1, <2>2, <2>3
<1>11. \A m \in F : t[m].order < o /\ m \in DOMAIN t
  BY <1>3 DEF Before
<1>12. \A i \in DOMAIN g : g[i].deadline <= c =>
          \E m \in DOMAIN t : g[i] = t[m] /\ t[m].deadline <= c /\ o < t[m].order
  <2> SUFFICES ASSUME NEW i \in DOMAIN g, g[i].deadline <= c
               PROVE  \E m \in DOMAIN t : g[i] = t[m] /\ t[m].deadline <= c /\ o < t[m].order
    OBVIOUS
  <2>1. PICK m \in DOMAIN t \ F : g[i] = t[m]
    BY <1>1, <1>3, PickedEach
  <2>2. ~(t[m].order < o)
    BY <1>3, <2>1 DEF Before
  <2>3. o < t[m].order
    BY <1>6, <1>10, <2>2
  <2> QED
    BY <2>1, <2>3
<1>13. \A i \in DOMAIN u : u[i] < o /\ u[i] \in Nat
  <2> SUFFICES ASSUME NEW i \in DOMAIN u PROVE u[i] < o /\ u[i] \in Nat
    OBVIOUS
  <2>1. CASE \E j \in DOMAIN p : u[i] = p[j]
    BY SMTT(30), <1>4, <1>5, <1>6, <2>1
  <2>2. CASE \E m \in F : u[i] = t[m].order
    BY <1>4, <1>11, <2>2
  <2> QED
    BY <1>4, <2>1, <2>2
<1>14. \A i \in DOMAIN u, j \in DOMAIN r : u[i] < r[j]
  BY <1>6, <1>7, <1>13
<1>15. \A i \in DOMAIN g : g[i].deadline <= c => o < g[i].order /\ g[i].order \in Nat
  BY <1>10, <1>12
<1>16. \A i \in DOMAIN u, m \in DOMAIN g : g[m].deadline <= c => u[i] < g[m].order
  BY <1>6, <1>13, <1>15
<1>17. Passing(u, r, g, z, c)
  BY <1>8, <1>9, <1>14, <1>16 DEF Passing
<1>a. <<o>> \in Seq(Nat)
  BY <1>6
<1>18. PICK b \in Seq(Nat) : b = <<o>>
  BY <1>a
<1>19. Increasing(b) /\ \A i \in DOMAIN b : b[i] = o
  BY <1>18 DEF Increasing
<1>20. PICK v : v = u \o b
  OBVIOUS
<1>21. /\ v \in Seq(Nat) /\ Increasing(v)
       /\ \A i \in DOMAIN v : \/ \E j \in DOMAIN u : v[i] = u[j]
                              \/ \E j \in DOMAIN b : v[i] = b[j]
  <2>1. \A i \in DOMAIN u, j \in DOMAIN b : u[i] < b[j]
    BY <1>13, <1>19
  <2>2. Increasing(b)
    BY <1>19
  <2> QED
    BY <1>4, <1>20, <2>1, <2>2, IncreasingConcat
<1>22. \A i \in DOMAIN v : (\E j \in DOMAIN u : v[i] = u[j]) \/ v[i] = o
  BY <1>19, <1>21
<1>23. \A i \in DOMAIN v, j \in DOMAIN r : v[i] < r[j]
  BY <1>7, <1>14, <1>22
<1>24. \A i \in DOMAIN v, m \in DOMAIN g : g[m].deadline <= c => v[i] < g[m].order
  BY <1>15, <1>16, <1>22
<1>25. Passing(v, r, g, z, c)
  BY <1>8, <1>9, <1>23, <1>24 DEF Passing
<1> QED
  BY <1>1, <1>2, <1>4, <1>17, <1>18, <1>20, <1>21, <1>25

\* A step that leaves the table alone leaves the parked tasks alone.
LEMMA TableKept ==
    ASSUME UNCHANGED channelVars
    PROVE  ParkedTasks' = ParkedTasks /\ waiters' = waiters /\ (ParkedOnce => ParkedOnce')
<1>1. rows' = rows /\ waiters' = waiters
  BY DEF channelVars, table
<1>2. Occupied' = Occupied
  BY <1>1 DEF Occupied
<1>3. ParkedTasks' = ParkedTasks
  BY <1>1 DEF ParkedTasks, ParkedOn
<1>4. ParkedOnce => ParkedOnce'
  BY <1>1, <1>2 DEF ParkedOnce
<1> QED  BY <1>1, <1>3, <1>4

\* A new channel has no waiter.
LEMMA OpenEffect ==
    ASSUME TableInv, ParkedOnce, NEW room \in Rooms, OpenReused(room) \/ OpenNew(room)
    PROVE  ParkedOnce' /\ ParkedTasks' = ParkedTasks /\ waiters' = waiters
<1>1. PICK i : Opened(i, room)
  BY OpenedRow
<1>2. Queue(NewChannel(room)) = <<>>
  <2>1. NewChannel(room).wait = <<>>
    BY DEF NewChannel
  <2>2. DOMAIN NewChannel(room).wait = {}
    BY <2>1
  <2> QED  BY <2>2 DEF Queue
<1>3. ToSet(Queue(rows'[i].channel)) = {} /\ Once(Queue(rows'[i].channel))
  BY <1>1, <1>2 DEF Opened, ToSet, Once
<1>4. i \notin Occupied /\ Occupied' = Occupied \cup {i} /\ \A j \in Occupied : rows'[j] = rows[j]
  BY <1>1 DEF Opened
<1>5. ParkedOnce'
  <2>1. \A j \in Occupied' : Once(Queue(rows'[j].channel))
    BY <1>3, <1>4 DEF ParkedOnce
  <2>2. ASSUME NEW j \in Occupied', NEW k \in Occupied', j # k
        PROVE  ToSet(Queue(rows'[j].channel)) \cap ToSet(Queue(rows'[k].channel)) = {}
    <3>1. CASE j = i \/ k = i
      BY <3>1, <1>3
    <3>2. CASE j # i /\ k # i
      BY <3>2, <2>2, <1>4 DEF ParkedOnce
    <3> QED  BY <3>1, <3>2
  <2> QED  BY <2>1, <2>2 DEF ParkedOnce
<1>6. ASSUME NEW x PROVE x \in ParkedTasks' <=> x \in ParkedTasks
  <2>1. x \in ParkedTasks <=> \E j \in Occupied : x \in ToSet(Queue(rows[j].channel))
    BY ParkedAre
  <2>2. x \in ParkedTasks' <=> \E j \in Occupied' : x \in ToSet(Queue(rows'[j].channel))
    BY ParkedAreNext
  <2> QED  BY <2>1, <2>2, <1>3, <1>4
<1>7. ParkedTasks' = ParkedTasks
  BY <1>6
<1> QED  BY <1>1, <1>5, <1>7 DEF Opened

-----------------------------------------------------------------------------
(***************************************************************************)
(* Each action keeps the driver's part of the invariant.                   *)
(***************************************************************************)
\* What holds as long as the run goes on.
LEMMA Ongoing ==
    ASSUME DriverInv, pc \notin {"stop", "ended"}
    PROVE  /\ InPlace /\ Driving /\ Control /\ fault = "none" /\ result # "deadlock"
           /\ Inv /\ TableInv /\ ParkedOnce /\ waiters \in Int
           /\ World(ready, timers, done, jobs, sockets, running, ParkedTasks, waiters, live)
           /\ Typed(ready, timers, done, jobs, sockets, running, live)
           /\ Ordered(timers, sockets, nextWait)
<1>1. fault = "none" /\ Control /\ Driving /\ InPlace /\ Inv
  BY DEF DriverInv, Good, Control
<1>2. TableInv
  BY <1>1 DEF Inv
<1>3. waiters \in Int
  BY <1>1, Sizes DEF InPlace
<1> QED  BY <1>1, <1>2, <1>3 DEF Control, InPlace, Driving

\* A step that does not stop with a deadlock owes nothing to DeadlockHonest.
LEMMA GoodNext ==
    ASSUME Control', Driving', InPlace', pc' # "stop" \/ result' # "deadlock"
    PROVE  Good'
  BY DEF Good, DeadlockHonest

\* An error ends the run; a task may be lost on the way.
LEMMA FailStep ==
    ASSUME Driving, NEW why \in {"task budget", "channel", "aborted"}, Fails(why),
           UNCHANGED <<schedulerVars, hostVars, runUnchanged>>
    PROVE  Good'
<1>1. pc' = "stop" /\ result' = "failed" /\ fault' = why /\ running' = running
  BY DEF Fails, Stop
<1>2. Control'
  BY <1>1 DEF Control, Faults, InternalErrors
<1>3. UNCHANGED <<ready, timers, live, nextWait, jobs, done, sockets, polled, now, passed, clock>>
  BY DEF schedulerVars, hostVars, runUnchanged, passVars
<1>4. Driving'
  BY <1>1, <1>3 DEF Driving
<1> QED  BY <1>1, <1>2, <1>4 DEF Good, DeadlockHonest

\* Aborting a run.
LEMMA AbortGood ==
    ASSUME DriverInv, Abort
    PROVE  Good'
<1>1. pc \notin {"stop", "ended"}
  BY DEF Abort
<1>2. Driving /\ fault = "none"
  BY <1>1, Ongoing
<1>3. "aborted" \in {"task budget", "channel", "aborted"}
  OBVIOUS
<1> QED  BY <1>2, <1>3, FailStep DEF Abort

\* The world stands still.
LEMMA StandStill ==
    ASSUME Driving, InPlace, UNCHANGED <<channelVars, schedulerVars, hostVars, running>>,
           UNCHANGED <<polled, passed, now>>, clock' \in Nat, pc' = "resume" => pc = "resume"
    PROVE  Driving' /\ InPlace'
<1>1. UNCHANGED <<ready, timers, live, nextWait, jobs, done, sockets, polled, now, passed, running>>
  BY DEF schedulerVars, hostVars
<1>2. Driving'
  BY <1>1 DEF Driving
<1>3. World(ready', timers', done', jobs', sockets', running', ParkedTasks', waiters', live')
  BY <1>1, TableKept DEF InPlace
<1>4. ParkedOnce'
  BY TableKept DEF InPlace
<1> QED  BY <1>2, <1>3, <1>4 DEF InPlace

\* Nothing can run, and nothing is left.
LEMMA FinishGood ==
    ASSUME DriverInv, Finish
    PROVE  Good'
<1>1. pc \notin {"stop", "ended"}
  BY DEF Finish
<1>2. Driving /\ InPlace /\ Control
  BY <1>1, Ongoing
<1>3. pc' = "stop" /\ result' = "exit" /\ fault' = "none" /\ running' = running /\ clock' = clock
  BY DEF Finish, Stop
<1>4. Driving' /\ InPlace'
  BY <1>2, <1>3, StandStill DEF Finish, passVars, Driving
<1>5. Control'
  BY <1>3 DEF Control, Faults, InternalErrors
<1> QED  BY <1>3, <1>4, <1>5, GoodNext

\* Nothing can run yet.
LEMMA EnterWaitGood ==
    ASSUME DriverInv, EnterWait
    PROVE  Good'
<1>1. pc \notin {"stop", "ended"} /\ pc = "drive"
  BY DEF EnterWait
<1>2. Driving /\ InPlace /\ Control /\ fault = "none" /\ result # "deadlock"
  BY <1>1, Ongoing
<1>3. /\ pc' = "wait" /\ result' = result /\ fault' = fault /\ running' = running
      /\ clock' = clock /\ live' = live /\ live # 0
  BY DEF EnterWait, Goto, outcomeVars, schedulerVars
<1>4. Driving' /\ InPlace'
  BY <1>2, <1>3, StandStill DEF EnterWait, passVars, Driving
<1>5. Control'
  BY <1>1, <1>2, <1>3 DEF Control
<1> QED  BY <1>2, <1>3, <1>4, <1>5, GoodNext

\* A task ends the program.
LEMMA RunHaltGood ==
    ASSUME DriverInv, RunHalt
    PROVE  Good'
<1>1. pc \notin {"stop", "ended"}
  BY DEF RunHalt
<1>2. Driving /\ InPlace /\ Control
  BY <1>1, Ongoing
<1>3. pc' = "stop" /\ result' = "halt" /\ fault' = "none" /\ running' = running /\ clock' = clock
  BY DEF RunHalt, Stop, runUnchanged
<1>4. Driving' /\ InPlace'
  BY <1>2, <1>3, StandStill DEF RunHalt, runUnchanged, passVars, Driving
<1>5. Control'
  BY <1>3 DEF Control, Faults, InternalErrors
<1> QED  BY <1>3, <1>4, <1>5, GoodNext

\* Time passes.
LEMMA TickGood ==
    ASSUME DriverInv, Tick
    PROVE  Good'
<1>1. pc \notin {"stop", "ended"}
  BY DEF Tick
<1>2. Driving /\ InPlace /\ Control /\ fault = "none" /\ result # "deadlock"
  BY <1>1, Ongoing
<1>3. /\ pc' = pc /\ result' = result /\ fault' = fault /\ running' = running
      /\ clock' = clock + 1 /\ live' = live
  BY DEF Tick, outcomeVars, schedulerVars
<1>4. Driving' /\ InPlace'
  BY <1>2, <1>3, StandStill DEF Tick, passVars, Driving
<1>5. Control'
  BY <1>1, <1>2, <1>3 DEF Control
<1> QED  BY <1>2, <1>3, <1>4, <1>5, GoodNext

\* A request of the running task was answered, or parked it.
LEMMA RunGood ==
    ASSUME DriverInv, pc = "run", Parks \/ Continues, UNCHANGED runUnchanged,
           World(ready', timers', done', jobs', sockets', running', ParkedTasks', waiters', live'),
           ParkedOnce', Ordered(timers', sockets', nextWait'), live' <= SchedulerLimit
    PROVE  Good'
<1>1. /\ Driving /\ Control /\ fault = "none" /\ result # "deadlock" /\ running # NoTask
  <2>1. pc \notin {"stop", "ended"}
    OBVIOUS
  <2> QED  BY <2>1, Ongoing DEF Control
<1>2. UNCHANGED <<polled, now, passed, clock>>
  BY DEF runUnchanged, passVars
<1>3. /\ fault' = fault /\ result' = result
      /\ \/ pc' = "drive" /\ running' = NoTask
         \/ pc' = "run" /\ running' = running
  <2>1. CASE Parks
    BY <2>1 DEF Parks, Goto, outcomeVars
  <2>2. CASE Continues
    BY <2>2 DEF Continues, outcomeVars
  <2> QED  BY <2>1, <2>2
<1>4. Typed(ready', timers', done', jobs', sockets', running', live')
  BY DEF World
<1>5. Driving'
  BY <1>1, <1>2, <1>3, <1>4 DEF Driving
<1>6. Control'
  BY <1>1, <1>3 DEF Control
<1>7. InPlace'
  BY DEF InPlace
<1> QED  BY <1>1, <1>3, <1>5, <1>6, <1>7, GoodNext

\* What the actions of the running task start from.
LEMMA Running ==
    ASSUME DriverInv, pc = "run"
    PROVE  /\ running \in Task /\ live <= SchedulerLimit /\ live \in Nat
           /\ InPlace /\ Driving /\ Inv /\ TableInv /\ ParkedOnce /\ waiters \in Int
           /\ World(ready, timers, done, jobs, sockets, running, ParkedTasks, waiters, live)
           /\ Ordered(timers, sockets, nextWait)
           /\ timers \in Seq(Timer) /\ sockets \subseteq [order : Nat, task : Task]
           /\ nextWait \in Nat /\ clock \in Nat
<1>1. pc \notin {"stop", "ended"}
  OBVIOUS
<1>2. /\ Typed(ready, timers, done, jobs, sockets, running, live) /\ Control /\ Driving
      /\ Ordered(timers, sockets, nextWait)
  BY <1>1, Ongoing
<1>3. running \in Task /\ live \in Nat /\ timers \in Seq(Timer)
      /\ sockets \subseteq [order : Nat, task : Task]
  BY <1>2 DEF Typed, Control
<1>4. nextWait \in Nat /\ clock \in Nat /\ live <= SchedulerLimit
  BY <1>2 DEF Ordered, Driving
<1> QED  BY <1>1, <1>2, <1>3, <1>4, Ongoing

\* While a task runs, fewer are ready or asleep than are alive.
LEMMA RunningRoom ==
    ASSUME DriverInv, pc = "run"
    PROVE  /\ Len(ready) + Len(timers) + waiters < live
           /\ Len(ready) \in Nat /\ Len(timers) \in Nat /\ waiters \in Nat /\ live \in Nat
<1>1. World(ready, timers, done, jobs, sockets, running, ParkedTasks, waiters, live)
  BY Running
<1>2. PICK nr \in Nat, nt \in Nat, nj \in Nat, ns \in Nat :
         /\ nr = Len(ready) /\ nt = Len(timers) /\ nj = Cardinality(jobs)
         /\ ns = Cardinality(sockets)
  BY <1>1, Sizes, Zenon
<1>3. Cardinality(Current(running)) = 1
  BY Running, NobodyRuns
<1>4. live = nr + nt + waiters + nj + ns + 1 /\ waiters \in Nat /\ live \in Nat
  BY <1>1, <1>2, <1>3, Sizes
<1>5. nr + nt + waiters < live
  BY <1>4
<1> QED  BY <1>2, <1>4, <1>5

\* A spawned task is ready.
LEMMA RunSpawnGood ==
    ASSUME DriverInv, RunSpawn
    PROVE  Good'
<1>0. pc = "run" /\ UNCHANGED <<channelVars, hostVars, runUnchanged>>
  BY DEF RunSpawn
<1>1. CASE SpawnFails
  <2>1. "task budget" \in {"task budget", "channel", "aborted"}
    OBVIOUS
  <2>2. Fails("task budget") /\ UNCHANGED <<schedulerVars, hostVars, runUnchanged>>
    BY <1>0, <1>1 DEF RunSpawn
  <2> QED  BY <1>0, <2>1, <2>2, Running, FailStep
<1>2. CASE ~SpawnFails
  <2>1. PICK task \in Task \ Alive : Spawn(task) /\ Continues
    BY <1>2 DEF RunSpawn
  <2>2. Nowhere(task, ready, timers, jobs, sockets, running, ParkedTasks)
    BY <2>1 DEF Nowhere, Alive, TimerTasks, SocketTasks, Asleep, OnSockets, Current
  <2>3. World(Append(ready, task), timers, done, jobs, sockets, running, ParkedTasks, waiters, live + 1)
    BY <1>0, <2>1, <2>2, Running, SpawnMove
  <2>4. /\ ready' = Append(ready, task) /\ live' = live + 1 /\ timers' = timers
        /\ nextWait' = nextWait /\ jobs' = jobs /\ done' = done /\ sockets' = sockets
        /\ running' = running /\ ParkedTasks' = ParkedTasks /\ waiters' = waiters /\ ParkedOnce'
    BY <1>0, <2>1, Running, TableKept DEF Spawn, Continues, hostVars
  <2>5. World(ready', timers', done', jobs', sockets', running', ParkedTasks', waiters', live')
    BY <2>3, <2>4
  <2>6. Ordered(timers', sockets', nextWait')
    BY <1>0, <2>4, Running
  <2>7. live' <= SchedulerLimit
    <3>1. live < SchedulerLimit \/ live >= SchedulerLimit
      BY <1>0, Running, DriverAssumption, ChannelAssumption
    <3> QED  BY <1>0, <1>2, <2>4, <3>1, Running, DriverAssumption, ChannelAssumption DEF SpawnFails
  <2>8. UNCHANGED runUnchanged
    BY <1>0
  <2> QED  BY <1>0, <2>1, <2>4, <2>5, <2>6, <2>7, <2>8, RunGood
<1> QED  BY <1>1, <1>2

\* A sleeping task waits for its timer.
LEMMA RunSleepGood ==
    ASSUME DriverInv, RunSleep
    PROVE  Good'
<1>0. pc = "run" /\ UNCHANGED <<channelVars, hostVars, runUnchanged>>
  BY DEF RunSleep
<1>1. ~SleepFails
  <2>1. Len(timers) < live /\ Len(ready) + Len(timers) < live
    BY <1>0, RunningRoom
  <2> QED
    BY <1>0, <2>1, Running, RunningRoom, DriverAssumption, ChannelAssumption DEF SleepFails
<1>2. PICK d \in Delays : Sleep(clock + d, running) /\ Parks
  BY <1>1 DEF RunSleep
<1>3. PICK e : e = [order |-> nextWait, deadline |-> clock + d, action |-> running]
  OBVIOUS
<1>4. e \in Timer /\ e.order = nextWait /\ e.action = running
  <2>1. clock + d \in Nat
    BY <1>0, Running, DriverAssumption
  <2> QED  BY <1>0, <1>3, <2>1, Running DEF Timer
<1>5. World(ready, Append(timers, e), done, jobs, sockets, NoTask, ParkedTasks, waiters, live)
  BY <1>0, <1>4, Running, SleepMove
<1>6. Ordered(Append(timers, e), sockets, nextWait + 1)
  BY <1>0, <1>4, Running, OrderedTimer
<1>7. /\ timers' = Append(timers, e) /\ nextWait' = nextWait + 1 /\ ready' = ready
      /\ live' = live /\ running' = NoTask /\ jobs' = jobs /\ done' = done /\ sockets' = sockets
      /\ ParkedTasks' = ParkedTasks /\ waiters' = waiters /\ ParkedOnce'
  BY <1>0, <1>2, <1>3, Running, TableKept DEF Sleep, Parks, hostVars
<1>8. World(ready', timers', done', jobs', sockets', running', ParkedTasks', waiters', live')
  BY <1>5, <1>7
<1>9. Ordered(timers', sockets', nextWait') /\ live' <= SchedulerLimit
  BY <1>0, <1>6, <1>7, Running
<1>10. UNCHANGED runUnchanged
  BY <1>0
<1> QED  BY <1>0, <1>2, <1>7, <1>8, <1>9, <1>10, RunGood

\* A worker thread takes over.
LEMMA RunSubmitJobGood ==
    ASSUME DriverInv, RunSubmitJob
    PROVE  Good'
<1>0. pc = "run" /\ Parks /\ UNCHANGED <<channelVars, runUnchanged>>
  BY DEF RunSubmitJob
<1>1. World(ready, timers, done, jobs \cup {running}, sockets, NoTask, ParkedTasks, waiters, live)
  BY <1>0, Running, JobMove
<1>2. /\ jobs' = jobs \cup {running} /\ timers' = timers /\ nextWait' = nextWait /\ ready' = ready
      /\ live' = live /\ running' = NoTask /\ done' = done /\ sockets' = sockets
      /\ ParkedTasks' = ParkedTasks /\ waiters' = waiters /\ ParkedOnce'
  BY <1>0, Running, TableKept DEF RunSubmitJob, Parks, schedulerVars
<1>3. World(ready', timers', done', jobs', sockets', running', ParkedTasks', waiters', live')
  BY <1>1, <1>2
<1>4. Ordered(timers', sockets', nextWait') /\ live' <= SchedulerLimit
  BY <1>0, <1>2, Running
<1>5. UNCHANGED runUnchanged
  BY <1>0
<1> QED  BY <1>0, <1>2, <1>3, <1>4, <1>5, RunGood

\* A descriptor is waited for.
LEMMA RunParkSocketGood ==
    ASSUME DriverInv, RunParkSocket
    PROVE  Good'
<1>0. pc = "run" /\ Parks /\ UNCHANGED <<channelVars, runUnchanged>>
  BY DEF RunParkSocket
<1>a. PICK z : z = sockets \cup {[order |-> nextWait, task |-> running]}
  OBVIOUS
<1>1. World(ready, timers, done, jobs, z, NoTask, ParkedTasks, waiters, live)
  BY <1>0, <1>a, Running, SocketMove
<1>b. Ordered(timers, z, nextWait + 1)
  BY <1>0, <1>a, Running, OrderedSocket
<1>2. /\ jobs' = jobs /\ timers' = timers /\ nextWait' = nextWait + 1 /\ ready' = ready
      /\ live' = live /\ running' = NoTask /\ done' = done /\ sockets' = z
      /\ ParkedTasks' = ParkedTasks /\ waiters' = waiters /\ ParkedOnce'
  BY <1>0, <1>a, Running, TableKept DEF RunParkSocket, Parks
<1>3. World(ready', timers', done', jobs', sockets', running', ParkedTasks', waiters', live')
  BY <1>1, <1>2
<1>4. Ordered(timers', sockets', nextWait') /\ live' <= SchedulerLimit
  BY <1>0, <1>b, <1>2, Running
<1>5. UNCHANGED runUnchanged
  BY <1>0
<1> QED  BY <1>0, <1>2, <1>3, <1>4, <1>5, RunGood

\* A task completes.
LEMMA RunCompleteGood ==
    ASSUME DriverInv, RunComplete
    PROVE  Good'
<1>0. pc = "run" /\ UNCHANGED <<channelVars, hostVars, runUnchanged>>
  BY DEF RunComplete
<1>1. World(ready, timers, done, jobs, sockets, NoTask, ParkedTasks, waiters, live - 1)
      /\ live # 0 /\ live - 1 \in Nat
  BY <1>0, Running, CompleteMove
<1>2. Complete /\ Parks
  BY <1>1 DEF RunComplete
<1>3. /\ timers' = timers /\ nextWait' = nextWait /\ ready' = ready
      /\ live' = live - 1 /\ running' = NoTask /\ jobs' = jobs /\ done' = done /\ sockets' = sockets
      /\ ParkedTasks' = ParkedTasks /\ waiters' = waiters /\ ParkedOnce'
  BY <1>0, <1>2, Running, TableKept DEF Complete, Parks, hostVars
<1>4. World(ready', timers', done', jobs', sockets', running', ParkedTasks', waiters', live')
  BY <1>1, <1>3
<1>5. Ordered(timers', sockets', nextWait')
  BY <1>0, <1>3, Running
<1>6. live' <= SchedulerLimit
  BY <1>0, <1>3, Running, DriverAssumption, ChannelAssumption
<1>7. UNCHANGED runUnchanged
  BY <1>0
<1> QED  BY <1>0, <1>2, <1>3, <1>4, <1>5, <1>6, <1>7, RunGood

\* A channel is opened, or there are too many.
LEMMA RunOpenGood ==
    ASSUME DriverInv, RunOpen
    PROVE  Good'
<1>0. pc = "run" /\ UNCHANGED <<schedulerVars, hostVars, runUnchanged>>
  BY DEF RunOpen
<1>1. CASE transition'.outcome = "failed"
  <2>1. "channel" \in {"task budget", "channel", "aborted"}
    OBVIOUS
  <2>2. Fails("channel")
    BY <1>1 DEF RunOpen
  <2> QED  BY <1>0, <2>1, <2>2, Running, FailStep
<1>2. CASE transition'.outcome # "failed"
  <2>1. Continues
    BY <1>2 DEF RunOpen
  <2>2. PICK room \in Rooms : OpenReused(room) \/ OpenNew(room)
    <3>1. ~OpenFull
      BY <1>2, FailedIs DEF OpenFull
    <3> QED  BY <3>1 DEF RunOpen
  <2>3. ParkedTasks' = ParkedTasks /\ waiters' = waiters /\ ParkedOnce'
    BY <1>0, <2>2, Running, OpenEffect
  <2>4. /\ timers' = timers /\ nextWait' = nextWait /\ ready' = ready
        /\ live' = live /\ running' = running /\ jobs' = jobs /\ done' = done /\ sockets' = sockets
    BY <1>0, <2>1 DEF Continues, hostVars, schedulerVars
  <2>5. World(ready', timers', done', jobs', sockets', running', ParkedTasks', waiters', live')
    BY <1>0, <2>3, <2>4, Running
  <2>6. Ordered(timers', sockets', nextWait') /\ live' <= SchedulerLimit
    BY <1>0, <2>4, Running
  <2>7. UNCHANGED runUnchanged
    BY <1>0
  <2> QED  BY <1>0, <2>1, <2>3, <2>5, <2>6, <2>7, RunGood
<1> QED  BY <1>1, <1>2

\* send, receive and close park the caller or resume the tasks they wake.
LEMMA RunChannelGood ==
    ASSUME DriverInv, RunChannel
    PROVE  Good'
<1>0. pc = "run" /\ UNCHANGED <<hostVars, runUnchanged>>
  BY DEF RunChannel
<1>1. Effect(running)
  <2>1. running \in Task \ ParkedTasks
    <3>1. Apart(ToSet(ready), Asleep(timers), ParkedTasks, jobs, OnSockets(sockets), Current(running))
      BY <1>0, Running DEF World
    <3>2. Current(running) = {running}
      BY <1>0, Running, NobodyRuns
    <3> QED  BY <1>0, <3>1, <3>2, Running DEF Apart
  <2>2. PICK h \in handles : \/ \E p \in Payload : Send(h, p, running)
                             \/ Recv(h, running)
                             \/ Close(h)
    BY DEF RunChannel
  <2>3. TableInv /\ ParkedOnce /\ waiters \in Int
    BY <1>0, Running
  <2>4. CASE \E p \in Payload : Send(h, p, running)
    BY <2>1, <2>3, <2>4, SendEffect
  <2>5. CASE Recv(h, running)
    BY <2>1, <2>3, <2>5, RecvEffect
  <2>6. CASE Close(h)
    BY <2>1, <2>3, <2>6, CloseEffect
  <2> QED  BY <2>2, <2>4, <2>5, <2>6
<1> DEFINE woken == [k \in DOMAIN transition'.wakes |-> transition'.wakes[k].continuation]
<1>2. CASE transition'.outcome = "failed"
  <2>1. "channel" \in {"task budget", "channel", "aborted"}
    OBVIOUS
  <2>2. Fails("channel") /\ UNCHANGED schedulerVars
    BY <1>2 DEF RunChannel
  <2> QED  BY <1>0, <2>1, <2>2, Running, FailStep
<1>3. ASSUME transition'.outcome # "failed", NEW w, w = woken, w \in Seq(Task), Len(w) <= waiters
      PROVE  /\ ready' = ready \o w /\ timers' = timers /\ live' = live /\ nextWait' = nextWait
             /\ transition'.outcome = "parked" => Parks
             /\ transition'.outcome # "parked" => Continues
  <2>1. Len(w) \in Nat
    BY <1>3
  <2>2. ~ResumeFails(Len(w))
    BY <1>0, <1>3, <2>1, RunningRoom DEF ResumeFails
  <2>3. Resume(w) /\ IF transition'.outcome = "parked" THEN Parks ELSE Continues
    BY <1>3, <2>2 DEF RunChannel
  <2> QED  BY <2>3 DEF Resume
<1>4. jobs' = jobs /\ done' = done /\ sockets' = sockets /\ UNCHANGED runUnchanged
  BY <1>0 DEF hostVars
<1>5. CASE transition'.outcome = "parked" /\ transition'.wakes = <<>> /\ Entered(running)
  <2>1. woken = <<>>
    <3>1. DOMAIN transition'.wakes = {}
      BY <1>5
    <3> QED  BY <3>1
  <2>2. <<>> = woken /\ <<>> \in Seq(Task) /\ Len(<<>>) <= waiters /\ transition'.outcome # "failed"
    BY <1>0, <1>5, <2>1, RunningRoom
  <2> HIDE DEF woken
  <2>3. ready' = ready \o <<>> /\ timers' = timers /\ live' = live /\ nextWait' = nextWait /\ Parks
    BY <1>3, <1>5, <2>2
  <2>4. ready' = ready
    <3>1. ready \in Seq(Task)
      BY <1>0, Running DEF World, Typed
    <3> QED  BY <2>3, <3>1
  <2>5. ParkedOnce' /\ ParkedTasks' = ParkedTasks \cup {running} /\ waiters' = waiters + 1
    BY <1>5 DEF Entered
  <2>6. World(ready, timers, done, jobs, sockets, NoTask, ParkedTasks \cup {running}, waiters + 1, live)
    BY <1>0, Running, EnterMove
  <2>7. running' = NoTask
    BY <2>3 DEF Parks
  <2>8. World(ready', timers', done', jobs', sockets', running', ParkedTasks', waiters', live')
    BY <1>4, <2>3, <2>4, <2>5, <2>6, <2>7
  <2>9. Ordered(timers', sockets', nextWait') /\ live' <= SchedulerLimit
    BY <1>0, <1>4, <2>3, Running
  <2> QED  BY <1>0, <1>4, <2>3, <2>5, <2>8, <2>9, RunGood
<1>6. ASSUME transition'.outcome = "ready", NEW w, w = woken, Released(w)
      PROVE  Good'
  <2>1. /\ w \in Seq(Task) /\ Once(w) /\ ToSet(w) \subseteq ParkedTasks
        /\ ParkedOnce' /\ ParkedTasks' = ParkedTasks \ ToSet(w) /\ waiters' = waiters - Len(w)
    BY <1>6 DEF Released
  <2>2. /\ World(ready \o w, timers, done, jobs, sockets, running, ParkedTasks \ ToSet(w),
                 waiters - Len(w), live)
        /\ Len(w) <= waiters
    BY <1>0, <2>1, Running, WakeMove
  <2> HIDE DEF woken
  <2>3. /\ ready' = ready \o w /\ timers' = timers /\ live' = live /\ nextWait' = nextWait
        /\ Continues
    BY <1>3, <1>6, <2>1, <2>2
  <2>4. running' = running
    BY <2>3 DEF Continues
  <2>5. World(ready', timers', done', jobs', sockets', running', ParkedTasks', waiters', live')
    BY <1>4, <2>1, <2>2, <2>3, <2>4
  <2>6. Ordered(timers', sockets', nextWait') /\ live' <= SchedulerLimit
    BY <1>0, <1>4, <2>3, Running
  <2> QED  BY <1>0, <1>4, <2>1, <2>3, <2>5, <2>6, RunGood
<1> QED  BY <1>1, <1>2, <1>5, <1>6 DEF Effect

\* The driver takes a ready task, after collecting the finished jobs in some turns.
LEMMA DispatchGood ==
    ASSUME DriverInv, Dispatch
    PROVE  Good'
<1>0. /\ pc = "drive" /\ ready # <<>> /\ passed' = <<>> /\ now' = 0 /\ pc \notin {"stop", "ended"}
      /\ UNCHANGED <<channelVars, sockets, polled, clock>>
  BY DEF Dispatch
<1>1. /\ Driving /\ Control /\ fault = "none" /\ result # "deadlock" /\ running = NoTask
      /\ Ordered(timers, sockets, nextWait) /\ live <= SchedulerLimit /\ ParkedOnce
      /\ clock \in Nat /\ polled \in Seq(Nat)
  BY <1>0, Ongoing DEF Control, Driving
<1>2. World(ready, timers, done, jobs, sockets, NoTask, ParkedTasks, waiters, live)
  BY <1>0, <1>1, Ongoing
<1>3. ~ResumeFails(Len(done))
  <2>1. PICK nr \in Nat, nt \in Nat, nj \in Nat, ns \in Nat, nx \in Nat, nd \in Nat :
           /\ nr = Len(ready) /\ nt = Len(timers) /\ nj = Cardinality(jobs)
           /\ ns = Cardinality(sockets) /\ nx = Cardinality(Current(NoTask)) /\ nd = Len(done)
    BY <1>2, Sizes, Zenon
  <2>2. live = nr + nt + waiters + nj + ns + nx /\ waiters \in Nat /\ live \in Nat /\ nd <= nj
    BY <1>2, <2>1, Sizes
  <2>3. ~(nr + nt + nd > live)
    BY <2>2
  <2> QED  BY <2>1, <2>3 DEF ResumeFails
<1>4. /\ pc' = "run" /\ result' = result /\ fault' = fault
      /\ timers' = timers /\ live' = live /\ nextWait' = nextWait
  BY <1>3 DEF Dispatch, Goto, outcomeVars
<1>5. World(ready', timers, done', jobs', sockets, running', ParkedTasks, waiters, live)
      /\ running' \in Task
  <2>1. CASE CollectsNow
    <3>1. PICK queue : queue = ready \o done
      OBVIOUS
    <3>2. World(queue, timers, <<>>, jobs \ ToSet(done), sockets, NoTask, ParkedTasks, waiters, live)
      BY <1>2, <3>1, CollectMove
    <3>3. queue # <<>>
      <4>1. ready \in Seq(Task) /\ done \in Seq(jobs)
        BY <1>2 DEF World, Typed
      <4>2. Len(ready) # 0 /\ Len(ready) \in Nat /\ Len(done) \in Nat
        BY <1>0, <4>1
      <4>3. Len(queue) = Len(ready) + Len(done)
        BY <3>1, <4>1
      <4> QED  BY <4>2, <4>3
    <3>4. /\ running' = Head(queue) /\ ready' = Tail(queue) /\ jobs' = jobs \ ToSet(done)
          /\ done' = <<>>
      BY <1>3, <2>1, <3>1 DEF Dispatch
    <3> QED  BY <3>2, <3>3, <3>4, TakeMove
  <2>2. CASE ~CollectsNow
    <3>1. running' = Head(ready) /\ ready' = Tail(ready) /\ jobs' = jobs /\ done' = done
      BY <2>2 DEF Dispatch
    <3> QED  BY <1>0, <1>2, <3>1, TakeMove
  <2> QED  BY <2>1, <2>2
<1>6. ParkedTasks' = ParkedTasks /\ waiters' = waiters /\ ParkedOnce'
  BY <1>0, <1>1, TableKept
<1>7. InPlace'
  <2>1. World(ready', timers', done', jobs', sockets', running', ParkedTasks', waiters', live')
    BY <1>0, <1>4, <1>5, <1>6
  <2> QED  BY <1>6, <2>1 DEF InPlace
<1>8. Driving'
  <2>1. Typed(ready', timers', done', jobs', sockets', running', live')
    BY <1>7 DEF InPlace, World
  <2>2. passed' \in Seq(Nat) /\ Increasing(passed') /\ now' \in Nat
    BY <1>0 DEF Increasing
  <2> QED  BY <1>0, <1>1, <1>4, <2>1, <2>2 DEF Driving
<1>9. Control'
  <2>1. running' # NoTask
    BY <1>5, NobodyRuns
  <2> QED  BY <1>1, <1>4, <2>1 DEF Control
<1> QED  BY <1>1, <1>4, <1>7, <1>8, <1>9, GoodNext

\* A worker thread has finished.
LEMMA JobDoneGood ==
    ASSUME DriverInv, JobDone
    PROVE  Good'
<1>0. /\ pc \notin {"stop", "ended"}
      /\ UNCHANGED <<channelVars, schedulerVars, jobs, sockets, pc, running, turns,
                     passVars, clock, outcomeVars>>
  BY DEF JobDone
<1>1. /\ Driving /\ Control /\ fault = "none" /\ result # "deadlock" /\ ParkedOnce
      /\ World(ready, timers, done, jobs, sockets, running, ParkedTasks, waiters, live)
  BY <1>0, Ongoing
<1>2. PICK y \in jobs \ ToSet(done) : done' = Append(done, y)
  BY DEF JobDone
<1>3. World(ready, timers, Append(done, y), jobs, sockets, running, ParkedTasks, waiters, live)
  BY <1>1, <1>2, DoneMove
<1>4. ParkedTasks' = ParkedTasks /\ waiters' = waiters /\ ParkedOnce'
  BY <1>0, <1>1, TableKept
<1>5. UNCHANGED <<ready, timers, live, nextWait, jobs, sockets, pc, running, polled, now, passed,
                  clock, result, fault>>
  BY <1>0 DEF schedulerVars, passVars, outcomeVars
<1>6. World(ready', timers', done', jobs', sockets', running', ParkedTasks', waiters', live')
  BY <1>2, <1>3, <1>4, <1>5
<1>7. InPlace'
  BY <1>4, <1>6 DEF InPlace
<1>8. Typed(ready', timers', done', jobs', sockets', running', live')
  BY <1>6 DEF World
<1>9. Driving'
  BY <1>1, <1>5, <1>8 DEF Driving
<1>10. Control'
  BY <1>1, <1>5 DEF Control
<1> QED  BY <1>1, <1>5, <1>7, <1>9, <1>10, GoodNext

\* The timers that fire and those that stay.
LEMMA FiredPicks ==
    ASSUME timers \in Seq(Timer), NEW c, NEW o
    PROVE  /\ Before(timers, c, o) \in SUBSET DOMAIN timers
           /\ Picks(Fired(c, o), timers, Before(timers, c, o))
           /\ Picks(Kept(c, o), timers, DOMAIN timers \ Before(timers, c, o))
<1>1. Firing(c, o) = Before(timers, c, o)
  BY DEF Firing, Overdue, Before
<1>2. PICK F \in SUBSET DOMAIN timers : F = Before(timers, c, o)
  BY DEF Before
<1>3. PICK G \in SUBSET DOMAIN timers : G = DOMAIN timers \ F
  OBVIOUS
<1>4. Picks(Subsequence(timers, F), timers, F) /\ Picks(Subsequence(timers, G), timers, G)
  BY SubsequencePicks
<1>5. Fired(c, o) = Subsequence(timers, F) /\ Kept(c, o) = Subsequence(timers, G)
  BY <1>1, <1>2, <1>3 DEF Fired, Kept
<1> QED  BY <1>2, <1>3, <1>4, <1>5

\* What a pass of wait_for_task starts and goes on from.
LEMMA Waiting ==
    ASSUME DriverInv, pc \in {"wait", "resume"}
    PROVE  /\ Driving /\ Control /\ ParkedOnce /\ fault = "none" /\ result # "deadlock"
           /\ running = NoTask /\ live # 0 /\ live \in Nat /\ live <= SchedulerLimit
           /\ World(ready, timers, done, jobs, sockets, running, ParkedTasks, waiters, live)
           /\ Ordered(timers, sockets, nextWait) /\ timers \in Seq(Timer)
           /\ sockets \subseteq [order : Nat, task : Task] /\ IsFiniteSet(sockets)
           /\ ready \in Seq(Task) /\ nextWait \in Nat /\ clock \in Nat /\ now \in Nat
           /\ polled \in Seq(Nat) /\ passed \in Seq(Nat) /\ Increasing(passed)
           /\ pc = "resume" => Pass(passed, polled, timers, sockets, nextWait, now)
<1>1. pc \notin {"stop", "ended"}
  OBVIOUS
<1>2. /\ Driving /\ Control /\ fault = "none" /\ result # "deadlock" /\ ParkedOnce
      /\ World(ready, timers, done, jobs, sockets, running, ParkedTasks, waiters, live)
      /\ Typed(ready, timers, done, jobs, sockets, running, live)
      /\ Ordered(timers, sockets, nextWait)
  BY <1>1, Ongoing
<1>3. running = NoTask /\ live # 0
  BY <1>2 DEF Control
<1>4. /\ live \in Nat /\ timers \in Seq(Timer) /\ sockets \subseteq [order : Nat, task : Task]
      /\ IsFiniteSet(sockets) /\ ready \in Seq(Task)
  BY <1>2 DEF Typed
<1>5. /\ clock \in Nat /\ now \in Nat /\ polled \in Seq(Nat) /\ passed \in Seq(Nat)
      /\ Increasing(passed) /\ live <= SchedulerLimit
      /\ pc = "resume" => Passing(passed, polled, timers, sockets, now)
  BY <1>2 DEF Driving
<1>6. nextWait \in Nat
  BY <1>2 DEF Ordered
<1>7. pc = "resume" => Pass(passed, polled, timers, sockets, nextWait, now)
  BY <1>2, <1>4, <1>5 DEF Pass
<1> QED  BY <1>2, <1>3, <1>4, <1>5, <1>6, <1>7

\* A step of a pass that leaves the tasks and the waits in order.
LEMMA WaitGood ==
    ASSUME DriverInv, pc \in {"wait", "resume"}, pc' \in {"wait", "resume", "drive"},
           result' = result, fault' = fault, live' = live, running' = running,
           World(ready', timers', done', jobs', sockets', running', ParkedTasks', waiters', live'),
           ParkedOnce', Ordered(timers', sockets', nextWait'),
           now' \in Nat, clock' \in Nat, polled' \in Seq(Nat), passed' \in Seq(Nat),
           Increasing(passed'),
           pc' = "resume" => Passing(passed', polled', timers', sockets', now')
    PROVE  Good'
<1>1. Typed(ready', timers', done', jobs', sockets', running', live')
  BY DEF World
<1>2. Driving'
  BY <1>1, Waiting DEF Driving
<1>3. Control'
  BY Waiting DEF Control
<1>4. InPlace'
  BY DEF InPlace
<1> QED  BY <1>2, <1>3, <1>4, Waiting, GoodNext

\* A pass begins: it collects the finished jobs and polls the descriptors.
LEMMA PollGood ==
    ASSUME DriverInv, Poll
    PROVE  Good'
<1>0. pc = "wait" /\ pc \in {"wait", "resume"}
      /\ UNCHANGED <<channelVars, timers, live, nextWait, sockets, running, clock>>
  BY DEF Poll
<1>1. ~ResumeFails(Len(done))
  <2>1. World(ready, timers, done, jobs, sockets, running, ParkedTasks, waiters, live)
    BY <1>0, Waiting
  <2>2. PICK nr \in Nat, nt \in Nat, nj \in Nat, ns \in Nat, nx \in Nat, nd \in Nat :
           /\ nr = Len(ready) /\ nt = Len(timers) /\ nj = Cardinality(jobs)
           /\ ns = Cardinality(sockets) /\ nx = Cardinality(Current(running)) /\ nd = Len(done)
    BY <2>1, Sizes, Zenon
  <2>3. live = nr + nt + waiters + nj + ns + nx /\ waiters \in Nat /\ live \in Nat /\ nd <= nj
    BY <2>1, <2>2, Sizes
  <2>4. ~(nr + nt + nd > live)
    BY <2>3
  <2> QED  BY <2>2, <2>4 DEF ResumeFails
<1>2. PICK D \in SUBSET {s.order : s \in sockets} : polled' = Ascending(D)
  BY <1>1 DEF Poll
<1>3. /\ ready' = ready \o done /\ jobs' = jobs \ ToSet(done) /\ done' = <<>>
      /\ now' = clock /\ passed' = <<>> /\ pc' = "resume" /\ result' = result /\ fault' = fault
  BY <1>1 DEF Poll, CollectJobs, Goto, outcomeVars
<1>4. World(ready \o done, timers, <<>>, jobs \ ToSet(done), sockets, running, ParkedTasks, waiters, live)
  BY <1>0, Waiting, CollectMove
<1>5. ParkedTasks' = ParkedTasks /\ waiters' = waiters /\ ParkedOnce'
  BY <1>0, Waiting, TableKept
<1>6. World(ready', timers', done', jobs', sockets', running', ParkedTasks', waiters', live')
  BY <1>0, <1>3, <1>4, <1>5
<1>7. /\ polled' \in Seq(Nat) /\ Increasing(polled')
      /\ \A j \in DOMAIN polled' : \E k \in sockets : k.order = polled'[j]
  <2>1. IsFiniteSet(D) /\ D \subseteq Nat /\ D \subseteq Int
    <3> DEFINE O == {s.order : s \in sockets}
    <3>1. IsFiniteSet(O)
      <4>1. PICK f : f = [k \in sockets |-> k.order]
        OBVIOUS
      <4>2. f \in Surjection(sockets, O)
        BY <4>1 DEF Surjection
      <4> QED  BY <1>0, <4>2, Waiting, FS_Surjection
    <3>2. O \subseteq Nat
      BY <1>0, Waiting
    <3> QED  BY <3>1, <3>2, FS_Subset
  <2>2. PICK q : q = Ascending(D)
    OBVIOUS
  <2>3. Cardinality(D) \in Nat /\ q \in [1 .. Cardinality(D) -> D] /\ Increasing(q)
    BY <2>1, <2>2, AscendingRight
  <2>4. \A j \in DOMAIN q : q[j] \in D
    BY <2>3
  <2>5. q \in [1 .. Cardinality(D) -> Nat]
    BY <2>1, <2>3
  <2>6. q \in Seq(Nat)
    BY <2>3, <2>5, FunctionSeq
  <2> QED  BY <1>2, <2>2, <2>3, <2>4, <2>6
<1>8. Passing(passed', polled', timers', sockets', now')
  BY <1>0, <1>3, <1>7 DEF Passing
<1>9. Ordered(timers', sockets', nextWait')
  BY <1>0, Waiting
<1>10. passed' \in Seq(Nat) /\ Increasing(passed') /\ now' \in Nat /\ clock' \in Nat
  BY <1>0, <1>3, Waiting DEF Increasing
<1> QED  BY <1>0, <1>3, <1>5, <1>6, <1>7, <1>8, <1>9, <1>10, WaitGood

\* The world after the timers due before o fired.
LEMMA AfterFiring ==
    ASSUME DriverInv, pc = "resume", NEW o
    PROVE  /\ World(ready \o Actions(Fired(now, o)), Kept(now, o), done, jobs, sockets, running,
                    ParkedTasks, waiters, live)
           /\ Ordered(Kept(now, o), sockets, nextWait)
           /\ Kept(now, o) \in Seq(Timer)
<1>1. /\ timers \in Seq(Timer) /\ Ordered(timers, sockets, nextWait)
      /\ World(ready, timers, done, jobs, sockets, running, ParkedTasks, waiters, live)
  BY Waiting
<1>2. PICK F \in SUBSET DOMAIN timers : F = Before(timers, now, o)
  BY <1>1, FiredPicks
<1>3. PICK G \in SUBSET DOMAIN timers : G = DOMAIN timers \ F
  OBVIOUS
<1>4. Picks(Fired(now, o), timers, F) /\ Picks(Kept(now, o), timers, DOMAIN timers \ F)
  BY <1>1, <1>2, FiredPicks
<1>5. World(ready \o Actions(Fired(now, o)), Kept(now, o), done, jobs, sockets, running,
            ParkedTasks, waiters, live)
  BY <1>1, <1>4, FireMove
<1>6. Picks(Kept(now, o), timers, G)
  BY <1>3, <1>4
<1>7. Ordered(Kept(now, o), sockets, nextWait)
  BY <1>1, <1>6, OrderedPicks
<1> QED  BY <1>5, <1>6, <1>7 DEF Picks

\* A ready descriptor's task is answered, or waits behind all others.
LEMMA ResumeSocketGood ==
    ASSUME DriverInv, ResumeSocket
    PROVE  Good'
<1>0. pc = "resume" /\ pc \in {"wait", "resume"} /\ polled # <<>>
      /\ UNCHANGED <<channelVars, live, running, turns, jobs, done, now, clock>>
      /\ polled' = Tail(polled)
  BY DEF ResumeSocket
<1>1. /\ Pass(passed, polled, timers, sockets, nextWait, now) /\ polled \in Seq(Nat)
      /\ Passing(passed, polled, timers, sockets, now)
      /\ timers \in Seq(Timer) /\ sockets \subseteq [order : Nat, task : Task]
      /\ now \in Nat /\ clock \in Nat /\ nextWait \in Nat /\ Ordered(timers, sockets, nextWait)
  BY <1>0, Waiting DEF Pass
<1>2. PICK o : o = Head(polled)
  OBVIOUS
<1>3. \E k \in sockets : k.order = o
  <2>1. 1 \in DOMAIN polled /\ Head(polled) = polled[1]
    BY <1>0, <1>1
  <2> QED  BY <1>1, <1>2, <2>1 DEF Passing
<1>4. PICK k : k = CHOOSE s \in sockets : s.order = o
  OBVIOUS
<1>5. k \in sockets /\ k.order = o /\ k.task \in Task
  BY <1>1, <1>3, <1>4
<1>6. PICK f : f = Fired(now, o)
  OBVIOUS
<1>7. PICK g : g = Kept(now, o)
  OBVIOUS
<1>8. /\ World(ready \o Actions(f), g, done, jobs, sockets, running, ParkedTasks, waiters, live)
      /\ Ordered(g, sockets, nextWait) /\ g \in Seq(Timer)
  BY <1>0, <1>6, <1>7, AfterFiring
<1>9. /\ Picks(f, timers, Before(timers, now, o))
      /\ Picks(g, timers, DOMAIN timers \ Before(timers, now, o))
  BY <1>1, <1>6, <1>7, FiredPicks
<1>10. ~(Len(ready) + Len(timers) >= live)
  <2>1. World(ready, timers, done, jobs, sockets, running, ParkedTasks, waiters, live)
    BY <1>0, Waiting
  <2>2. PICK nr \in Nat, nt \in Nat, nj \in Nat, ns \in Nat, nx \in Nat :
           /\ nr = Len(ready) /\ nt = Len(timers) /\ nj = Cardinality(jobs)
           /\ ns = Cardinality(sockets) /\ nx = Cardinality(Current(running))
    BY <2>1, Sizes, Zenon
  <2>3. ns # 0
    <3>1. IsFiniteSet(sockets)
      BY <2>1, Sizes
    <3> QED  BY <1>5, <2>2, <3>1, FS_EmptySet
  <2>4. live = nr + nt + waiters + nj + ns + nx /\ waiters \in Nat /\ live \in Nat
    BY <2>1, <2>2, Sizes
  <2>5. ~(nr + nt >= live)
    BY <2>3, <2>4
  <2> QED  BY <2>2, <2>5
<1>11. /\ timers' = g
       /\ \/ /\ ready' = ready \o Actions(f) \o <<k.task>>
             /\ sockets' = sockets \ {k}
             /\ passed' = passed \o Orders(f) \o <<o>>
             /\ UNCHANGED <<pc, outcomeVars, nextWait>>
          \/ /\ ready' = ready \o Actions(f)
             /\ sockets' = (sockets \ {k}) \cup {[order |-> nextWait, task |-> k.task]}
             /\ nextWait' = nextWait + 1
             /\ passed' = passed \o Orders(f)
             /\ UNCHANGED <<pc, outcomeVars>>
  BY <1>2, <1>4, <1>6, <1>7, <1>10, Zenon DEF ResumeSocket
<1>12. UNCHANGED <<pc, result, fault>>
  BY <1>11 DEF outcomeVars
<1>13. ParkedTasks' = ParkedTasks /\ waiters' = waiters /\ ParkedOnce'
  BY <1>0, Waiting, TableKept
<1>14. ASSUME NEW z, \A m \in sockets : m # k => m \in z
       PROVE  /\ passed \o Orders(f) \in Seq(Nat) /\ Increasing(passed \o Orders(f))
              /\ Passing(passed \o Orders(f), Tail(polled), g, z, now)
              /\ passed \o Orders(f) \o <<o>> \in Seq(Nat)
              /\ Increasing(passed \o Orders(f) \o <<o>>)
              /\ Passing(passed \o Orders(f) \o <<o>>, Tail(polled), g, z, now)
  BY <1>0, <1>1, <1>2, <1>5, <1>9, <1>14, PassOn
<1>15. polled' \in Seq(Nat)
  BY <1>0, <1>1
<1>16. CASE /\ ready' = ready \o Actions(f) \o <<k.task>>
            /\ sockets' = sockets \ {k}
            /\ passed' = passed \o Orders(f) \o <<o>>
            /\ nextWait' = nextWait
  <2>1. PICK r : r = ready \o Actions(f)
    OBVIOUS
  <2>2. World(r, g, done, jobs, sockets, running, ParkedTasks, waiters, live)
    BY <1>8, <2>1
  <2>3. World(r \o <<k.task>>, g, done, jobs, sockets \ {k}, running, ParkedTasks, waiters, live)
    BY <1>5, <2>2, AnsweredMove
  <2>4. World(ready', timers', done', jobs', sockets', running', ParkedTasks', waiters', live')
    BY <1>0, <1>11, <1>13, <1>16, <2>1, <2>3
  <2>5. PICK z : z = sockets \ {k}
    OBVIOUS
  <2>6. (\A m \in sockets : m # k => m \in z) /\ z \subseteq sockets
    BY <2>5
  <2>7. Ordered(g, z, nextWait)
    BY <1>8, <2>6, OrderedFewer
  <2>8. Ordered(timers', sockets', nextWait')
    BY <1>11, <1>16, <2>5, <2>7
  <2>9. /\ passed' \in Seq(Nat) /\ Increasing(passed')
        /\ Passing(passed', polled', timers', sockets', now')
    BY <1>0, <1>11, <1>14, <1>16, <2>5, <2>6
  <2> QED
    BY <1>0, <1>1, <1>12, <1>13, <1>15, <2>4, <2>8, <2>9, WaitGood
<1>17. CASE /\ ready' = ready \o Actions(f)
            /\ sockets' = (sockets \ {k}) \cup {[order |-> nextWait, task |-> k.task]}
            /\ nextWait' = nextWait + 1
            /\ passed' = passed \o Orders(f)
  <2>1. PICK z : z = (sockets \ {k}) \cup {[order |-> nextWait, task |-> k.task]}
    OBVIOUS
  <2>2. \A m \in sockets : m.order < nextWait
    BY <1>8 DEF Ordered
  <2>3. World(ready \o Actions(f), g, done, jobs, z, running, ParkedTasks, waiters, live)
    BY <1>1, <1>5, <1>8, <2>1, <2>2, AgainMove
  <2>4. World(ready', timers', done', jobs', sockets', running', ParkedTasks', waiters', live')
    BY <1>0, <1>11, <1>13, <1>17, <2>1, <2>3
  <2>5. PICK y : y = sockets \ {k}
    OBVIOUS
  <2>6. y \subseteq sockets /\ y \subseteq [order : Nat, task : Task]
        /\ z = y \cup {[order |-> nextWait, task |-> k.task]}
    BY <1>1, <2>1, <2>5
  <2>7. Ordered(g, y, nextWait)
    BY <1>8, <2>6, OrderedFewer
  <2>8. Ordered(g, z, nextWait + 1)
    BY <1>8, <2>6, <2>7, OrderedSocket
  <2>9. Ordered(timers', sockets', nextWait')
    BY <1>11, <1>17, <2>1, <2>8
  <2>10. \A m \in sockets : m # k => m \in z
    BY <2>1
  <2>11. /\ passed' \in Seq(Nat) /\ Increasing(passed')
         /\ Passing(passed', polled', timers', sockets', now')
    BY <1>0, <1>11, <1>14, <1>17, <2>1, <2>10
  <2> QED
    BY <1>0, <1>1, <1>12, <1>13, <1>15, <2>4, <2>9, <2>11, WaitGood
<1> QED  BY <1>11, <1>16, <1>17

\* The pass ends with the remaining timers: some task can run, some wait is left,
\* or every task waits on a channel.
LEMMA FinishPassGood ==
    ASSUME DriverInv, FinishPass
    PROVE  Good'
<1>0. pc = "resume" /\ pc \in {"wait", "resume"} /\ polled = <<>>
      /\ UNCHANGED <<channelVars, live, nextWait, jobs, done, sockets, polled, now, clock, running>>
  BY DEF FinishPass, hostVars
<1>1. /\ Pass(passed, polled, timers, sockets, nextWait, now) /\ polled \in Seq(Nat)
      /\ timers \in Seq(Timer) /\ now \in Nat /\ clock \in Nat /\ running = NoTask
      /\ live # 0 /\ live \in Nat /\ live <= SchedulerLimit
  BY <1>0, Waiting
<1>2. PICK f : f = Fired(now, nextWait)
  OBVIOUS
<1>3. PICK g : g = Kept(now, nextWait)
  OBVIOUS
<1>4. /\ World(ready \o Actions(f), g, done, jobs, sockets, running, ParkedTasks, waiters, live)
      /\ Ordered(g, sockets, nextWait)
  BY <1>0, <1>2, <1>3, AfterFiring
<1>5. Picks(f, timers, Before(timers, now, nextWait))
  BY <1>1, <1>2, FiredPicks
<1>6. ready' = ready \o Actions(f) /\ timers' = g /\ passed' = passed \o Orders(f)
  BY <1>2, <1>3 DEF FinishPass, WakeBound
<1>7. ParkedTasks' = ParkedTasks /\ waiters' = waiters /\ ParkedOnce'
  BY <1>0, Waiting, TableKept
<1>8. World(ready', timers', done', jobs', sockets', running', ParkedTasks', waiters', live')
  BY <1>0, <1>4, <1>6, <1>7
<1>9. Ordered(timers', sockets', nextWait')
  BY <1>0, <1>4, <1>6
<1>10. passed' \in Seq(Nat) /\ Increasing(passed')
  BY <1>1, <1>5, <1>6, FiredInOrder
<1>11. CASE \/ ready' # <<>> /\ Goto("drive")
            \/ ready' = <<>> /\ Goto("wait")
  <2>1. pc' \in {"wait", "resume", "drive"} /\ pc' # "resume" /\ result' = result /\ fault' = fault
    BY <1>11 DEF Goto, outcomeVars
  <2> QED  BY <1>0, <1>1, <1>7, <1>8, <1>9, <1>10, <2>1, WaitGood
<1>12. CASE ready' = <<>> /\ NothingPending(g) /\ Stop("deadlock", "none")
  <2>1. pc' = "stop" /\ result' = "deadlock" /\ fault' = "none"
    BY <1>12 DEF Stop
  <2>2. ready' = <<>> /\ timers' = <<>> /\ jobs' = {} /\ sockets' = {} /\ running' = NoTask
    BY <1>0, <1>1, <1>6, <1>12 DEF NothingPending
  <2>3. live' = waiters'
    <3>1. Cardinality(Current(NoTask)) = 0
      BY NobodyRuns
    <3>2. World(<<>>, <<>>, done', {}, {}, NoTask, ParkedTasks', waiters', live')
      BY <1>8, <2>2
    <3> QED  BY <3>1, <3>2, FS_EmptySet, EmptySeq, Sizes DEF World
  <2>4. Alive' = ParkedTasks'
    BY <2>2 DEF Alive, TimerTasks, SocketTasks, ToSet
  <2>5. live' > 0
    BY <1>0, <1>1
  <2>6. DeadlockHonest'
    BY <2>3, <2>4, <2>5 DEF DeadlockHonest
  <2>7. Typed(ready', timers', done', jobs', sockets', running', live')
    BY <1>8 DEF World
  <2>8. Driving'
    BY <1>0, <1>1, <1>9, <1>10, <2>1, <2>7 DEF Driving
  <2>9. Control'
    BY <2>1 DEF Control, Faults, InternalErrors
  <2>10. InPlace'
    BY <1>7, <1>8 DEF InPlace
  <2> QED  BY <2>6, <2>8, <2>9, <2>10 DEF Good
<1> QED  BY <1>3, <1>6, <1>11, <1>12 DEF FinishPass, WakeBound

\* The table, and with it every place, is empty once the run is over.
LEMMA TeardownGood ==
    ASSUME DriverInv, Teardown
    PROVE  Good'
<1>1. /\ pc' = "ended" /\ fault' = fault /\ result' = result
      /\ ready' = <<>> /\ timers' = <<>> /\ live' = 0 /\ nextWait' = 0
      /\ rows' = <<>> /\ waiters' = 0 /\ jobs' = {} /\ done' = <<>> /\ sockets' = {}
      /\ running' = NoTask /\ UNCHANGED <<polled, now, passed, clock>>
  BY DEF Teardown, Goto, outcomeVars, runUnchanged, passVars
<1>2. Occupied' = {}
  BY <1>1 DEF Occupied
<1>3. ParkedTasks' = {}
  BY <1>2, ParkedAreNext
<1>4. ParkedOnce'
  BY <1>2 DEF ParkedOnce
<1>5. Typed(<<>>, <<>>, <<>>, {}, {}, NoTask, 0)
  BY EmptySeq, FS_EmptySet DEF Typed
<1>6. World(<<>>, <<>>, <<>>, {}, {}, NoTask, {}, 0, 0)
  <2>1. ToSet(<<>>) = {} /\ Asleep(<<>>) = {} /\ OnSockets({}) = {} /\ Current(NoTask) = {}
    BY OnceEmpty, NobodyRuns DEF Asleep, OnSockets
  <2>2. Apart(ToSet(<<>>), Asleep(<<>>), {}, {}, OnSockets({}), Current(NoTask))
    BY <2>1 DEF Apart
  <2>3. Once(<<>>) /\ Once(Actions(<<>>))
    BY DEF Once, Actions
  <2>4. 0 = Len(<<>>) + Len(<<>>) + 0 + Cardinality({}) + Cardinality({}) + Cardinality(Current(NoTask))
    BY NobodyRuns, FS_EmptySet
  <2> QED  BY <1>5, <2>2, <2>3, <2>4, FS_EmptySet DEF World
<1>7. InPlace'
  <2>1. World(ready', timers', done', jobs', sockets', running', ParkedTasks', waiters', live')
    BY <1>1, <1>3, <1>6
  <2> QED  BY <1>4, <2>1 DEF InPlace
<1>8. Ordered(<<>>, {}, 0)
  BY DEF Ordered, Increasing, Orders
<1>9. Driving'
  <2>1. Typed(ready', timers', done', jobs', sockets', running', live')
    BY <1>1, <1>5
  <2>2. Ordered(timers', sockets', nextWait')
    BY <1>1, <1>8
  <2>3. live' <= SchedulerLimit
    BY <1>1, DriverAssumption, ChannelAssumption
  <2>4. Driving
    BY DEF DriverInv, Good
  <2> QED  BY <1>1, <2>1, <2>2, <2>3, <2>4 DEF Driving
<1>10. Control'
  BY <1>1 DEF DriverInv, Good, Control
<1>11. DeadlockHonest'
  BY <1>1 DEF DeadlockHonest
<1> QED  BY <1>7, <1>9, <1>10, <1>11 DEF Good

\* Nothing changes.
LEMMA StutterGood ==
    ASSUME DriverInv, UNCHANGED vars
    PROVE  Good'
<1>1. /\ UNCHANGED channelVars
      /\ UNCHANGED <<ready, timers, live, nextWait, jobs, done, sockets, polled, now, passed,
                     clock, result, fault, pc, running>>
  BY DEF vars, schedulerVars, driverVars, hostVars, passVars, outcomeVars
<1>2. Good
  BY DEF DriverInv
<1>3. Control' /\ Driving'
  BY <1>1, <1>2 DEF Good, Control, Driving
<1>4. ParkedTasks' = ParkedTasks /\ waiters' = waiters /\ (ParkedOnce => ParkedOnce')
  BY <1>1, TableKept
<1>5. ASSUME fault' = "none" PROVE InPlace'
  <2>1. InPlace
    BY <1>1, <1>2, <1>5 DEF Good
  <2>2. World(ready', timers', done', jobs', sockets', running', ParkedTasks', waiters', live')
    BY <1>1, <1>4, <2>1 DEF InPlace
  <2> QED  BY <1>4, <2>1, <2>2 DEF InPlace
<1>6. DeadlockHonest'
  <2>1. Alive' = Alive
    BY <1>1, <1>4 DEF Alive, TimerTasks, SocketTasks
  <2> QED  BY <1>1, <1>2, <1>4, <2>1 DEF Good, DeadlockHonest
<1> QED  BY <1>3, <1>5, <1>6 DEF Good

\* The run begins with one task, ready.
LEMMA DriverInitGood ==
    ASSUME DriverInit
    PROVE  DriverInv
<1>1. PICK main \in Task : ready = <<main>>
  BY DEF DriverInit
<1>2. /\ timers = <<>> /\ live = 1 /\ nextWait = 0 /\ pc = "drive" /\ running = NoTask
      /\ jobs = {} /\ done = <<>> /\ sockets = {} /\ polled = <<>> /\ now = 0 /\ passed = <<>>
      /\ clock = 0 /\ result = "none" /\ fault = "none" /\ rows = <<>> /\ waiters = 0
  BY DEF DriverInit, Init
<1>3. Occupied = {}
  BY <1>2 DEF Occupied
<1>4. ParkedTasks = {}
  BY <1>3, ParkedAre
<1>5. ParkedOnce
  BY <1>3 DEF ParkedOnce
<1>6. Typed(<<main>>, <<>>, <<>>, {}, {}, NoTask, 1)
  BY FS_EmptySet DEF Typed
<1>7. World(<<main>>, <<>>, <<>>, {}, {}, NoTask, {}, 0, 1)
  <2>1. ToSet(<<main>>) = {main} /\ Asleep(<<>>) = {} /\ OnSockets({}) = {} /\ Current(NoTask) = {}
    BY NobodyRuns DEF Asleep, OnSockets, ToSet
  <2>2. Apart(ToSet(<<main>>), Asleep(<<>>), {}, {}, OnSockets({}), Current(NoTask))
    BY <2>1 DEF Apart
  <2>3. Once(<<main>>) /\ Once(<<>>) /\ Once(Actions(<<>>))
    BY DEF Once, Actions
  <2>4. 1 = Len(<<main>>) + Len(<<>>) + 0 + Cardinality({}) + Cardinality({}) + Cardinality(Current(NoTask))
    BY NobodyRuns, FS_EmptySet
  <2> QED  BY <1>6, <2>2, <2>3, <2>4, FS_EmptySet DEF World
<1>8. InPlace
  <2>1. World(ready, timers, done, jobs, sockets, running, ParkedTasks, waiters, live)
    BY <1>1, <1>2, <1>4, <1>7
  <2> QED  BY <1>5, <2>1 DEF InPlace
<1>9. Driving
  <2>1. Typed(ready, timers, done, jobs, sockets, running, live)
    BY <1>1, <1>2, <1>6
  <2>2. Ordered(timers, sockets, nextWait)
    BY <1>2 DEF Ordered, Increasing, Orders
  <2>3. live <= SchedulerLimit
    BY <1>2, DriverAssumption, ChannelAssumption
  <2>4. polled \in Seq(Nat) /\ passed \in Seq(Nat) /\ Increasing(passed)
    BY <1>2 DEF Increasing
  <2> QED  BY <1>2, <2>1, <2>2, <2>3, <2>4 DEF Driving
<1>10. Control
  BY <1>2 DEF Control, Faults, InternalErrors
<1>11. Inv
  BY InitInv DEF DriverInit
<1> QED  BY <1>2, <1>8, <1>9, <1>10, <1>11 DEF DriverInv, Good, DeadlockHonest

\* What a step of the driver is to the channel table.
LEMMA TableStep ==
    ASSUME DriverInv, [DriverNext]_vars
    PROVE  \/ pc = "stop" /\ pc' = "ended"
           \/ pc' = pc /\ UNCHANGED channelVars
           \/ pc \notin {"stop", "ended"} /\ [Next]_channelVars
<1>1. CASE RunOpen
  <2>1. pc \notin {"stop", "ended"}
    BY <1>1 DEF RunOpen
  <2>2. Next
    BY <1>1 DEF RunOpen, Next
  <2> QED  BY <2>1, <2>2
<1>2. CASE RunChannel
  <2>1. pc = "run"
    BY <1>2 DEF RunChannel
  <2>2. running \in Continuation \ ParkedTasks
    <3>1. Apart(ToSet(ready), Asleep(timers), ParkedTasks, jobs, OnSockets(sockets), Current(running))
      BY <2>1, Running DEF World
    <3>2. Current(running) = {running}
      BY <2>1, Running, NobodyRuns
    <3> QED  BY <2>1, <3>1, <3>2, Running, DriverAssumption DEF Apart
  <2>3. PICK h \in handles : \/ \E p \in Payload : Send(h, p, running)
                             \/ Recv(h, running)
                             \/ Close(h)
    BY <1>2 DEF RunChannel
  <2>4. Next
    BY <2>2, <2>3 DEF Next
  <2> QED  BY <2>1, <2>4
<1>3. CASE RunSpawn \/ RunSleep \/ RunSubmitJob \/ RunParkSocket \/ RunComplete \/ RunHalt
  BY <1>3 DEF RunSpawn, RunSleep, RunSubmitJob, RunParkSocket, RunComplete, RunHalt
<1>4. CASE Drive
  BY <1>4 DEF Drive, Dispatch, Finish, EnterWait
<1>5. CASE Wait
  BY <1>5 DEF Wait, Poll, ResumeSocket, FinishPass
<1>6. CASE Abort \/ JobDone \/ Tick
  BY <1>6 DEF Abort, JobDone, Tick
<1>7. CASE Teardown
  BY <1>7 DEF Teardown, Goto
<1>8. CASE Ended \/ UNCHANGED vars
  BY <1>8 DEF Ended, vars, driverVars
<1> QED
  BY <1>1, <1>2, <1>3, <1>4, <1>5, <1>6, <1>7, <1>8 DEF DriverNext, Run

\* Each step keeps the driver's invariant.
LEMMA DriverStep ==
    ASSUME DriverInv, [DriverNext]_vars
    PROVE  DriverInv'
<1>1. Good'
  <2>1. CASE Run
    BY <2>1, RunSpawnGood, RunSleepGood, RunOpenGood, RunChannelGood, RunSubmitJobGood,
       RunParkSocketGood, RunCompleteGood, RunHaltGood DEF Run
  <2>2. CASE Drive
    BY <2>2, DispatchGood, FinishGood, EnterWaitGood DEF Drive
  <2>3. CASE Wait
    BY <2>3, PollGood, ResumeSocketGood, FinishPassGood DEF Wait
  <2>4. CASE Abort \/ JobDone \/ Tick \/ Teardown
    BY <2>4, AbortGood, JobDoneGood, TickGood, TeardownGood
  <2>5. CASE Ended \/ UNCHANGED vars
    BY <2>5, StutterGood DEF Ended
  <2> QED  BY <2>1, <2>2, <2>3, <2>4, <2>5 DEF DriverNext
<1>2. pc # "ended" => Inv
  BY DEF DriverInv
<1>3. ASSUME pc' # "ended" PROVE Inv'
  <2>1. pc # "ended" /\ [Next]_channelVars
    BY <1>3, TableStep
  <2> QED  BY <1>2, <2>1, NextInv
<1> QED  BY <1>1, <1>3 DEF DriverInv

-----------------------------------------------------------------------------
(***************************************************************************)
(* What follows for every run of the driver.                               *)
(***************************************************************************)
\* The tasks, the waits of a pass and the channel table agree with the driver's
\* accounts in every reachable state of drive_io_with_clock.
THEOREM DriverInvariance == DriverSpec => []DriverInv
<1>1. DriverInit => DriverInv
  BY DriverInitGood
<1>2. DriverInv /\ [DriverNext]_vars => DriverInv'
  BY DriverStep
<1> QED  BY <1>1, <1>2, PTL DEF DriverSpec

\* Disjoint places hold as many tasks as all of them together.
LEMMA SizesAdd ==
    ASSUME NEW A, NEW B, IsFiniteSet(A), IsFiniteSet(B), A \cap B = {}
    PROVE  /\ IsFiniteSet(A \cup B) /\ Cardinality(A \cup B) = Cardinality(A) + Cardinality(B)
           /\ Cardinality(A) \in Nat /\ Cardinality(B) \in Nat
<1>1. Cardinality(A) \in Nat /\ Cardinality(B) \in Nat
  BY FS_CardinalityType
<1>2. Cardinality(A \cup B) = Cardinality(A) + Cardinality(B) - Cardinality(A \cap B)
  BY FS_Union
<1>3. Cardinality(A \cap B) = 0
  BY FS_EmptySet
<1>4. IsFiniteSet(A \cup B)
  BY FS_Union
<1> QED  BY <1>1, <1>2, <1>3, <1>4

\* As many tasks wait on descriptors as there are waits for them.
LEMMA SocketSizes ==
    ASSUME NEW s, IsFiniteSet(s), \A k, m \in s : k.task = m.task => k = m
    PROVE  IsFiniteSet(OnSockets(s)) /\ Cardinality(OnSockets(s)) = Cardinality(s)
<1>1. PICK f : f = [k \in s |-> k.task]
  OBVIOUS
<1>2. f \in Bijection(s, OnSockets(s))
  BY <1>1 DEF Bijection, Injection, Surjection, IsInjective, OnSockets
<1>3. ExistsBijection(s, OnSockets(s))
  BY <1>2 DEF ExistsBijection
<1> QED  BY <1>3, FS_Bijection, FS_CardinalityType

\* In a world every live task is in one place.
LEMMA WorldCounts ==
    ASSUME NEW r, NEW t, NEW d, NEW j, NEW s, NEW x, NEW P, NEW w, NEW l,
           World(r, t, d, j, s, x, P, w, l)
    PROVE  Cardinality(ToSet(r) \cup Asleep(t) \cup P \cup j \cup OnSockets(s) \cup Current(x)) = l
<1>1. PICK R, T, S, X :
         /\ R = ToSet(r) /\ T = Asleep(t) /\ S = OnSockets(s) /\ X = Current(x)
  BY Zenon
<1>2. IsFiniteSet(R) /\ Cardinality(R) = Len(r)
  BY <1>1, OnceSize DEF World, Typed
<1>3. IsFiniteSet(T) /\ Cardinality(T) = Len(t)
  <2>1. t \in Seq(Timer) /\ Once(Actions(t))
    BY DEF World, Typed
  <2>2. PICK a : a = Actions(t)
    OBVIOUS
  <2>3. a \in Seq(Task) /\ Len(a) = Len(t) /\ DOMAIN a = DOMAIN t
        /\ \A k \in DOMAIN t : a[k] = t[k].action
    <3>1. DOMAIN a = DOMAIN t /\ \A k \in DOMAIN t : a[k] = t[k].action
      BY <2>2 DEF Actions
    <3>2. Len(t) \in Nat /\ DOMAIN t = 1 .. Len(t)
      BY <2>1
    <3>3. \A k \in DOMAIN t : t[k] \in Timer
      BY <2>1
    <3>4. a \in [1 .. Len(t) -> Task]
      <4>1. \A k \in 1 .. Len(t) : a[k] \in Task
        BY <3>1, <3>2, <3>3 DEF Timer
      <4>2. a = [k \in 1 .. Len(t) |-> t[k].action]
        BY <2>2, <3>2 DEF Actions
      <4> QED  BY <3>1, <3>2, <4>1, <4>2
    <3> QED  BY <3>1, <3>2, <3>4, FunctionSeq
  <2>4. ToSet(a) = T
    BY <1>1, <2>3 DEF ToSet, Asleep
  <2> QED  BY <2>1, <2>2, <2>3, <2>4, OnceSize
<1>4. IsFiniteSet(S) /\ Cardinality(S) = Cardinality(s)
  BY <1>1, SocketSizes DEF World, Typed
<1>5. IsFiniteSet(P) /\ Cardinality(P) = w /\ IsFiniteSet(j)
  <2>1. IsFiniteSet(P) /\ IsFiniteSet(j)
    BY Sizes
  <2>2. Cardinality(P) = w
    BY DEF World
  <2> QED  BY <2>1, <2>2
<1>6. IsFiniteSet(X)
  <2>1. x \in Task \/ x = NoTask
    BY DEF World, Typed
  <2>2. CASE x \in Task
    <3>1. X = {x}
      BY <1>1, <2>2, NobodyRuns
    <3> QED  BY <3>1, FS_Singleton
  <2>3. CASE x = NoTask
    <3>1. X = {}
      BY <1>1, <2>3, NobodyRuns
    <3> QED  BY <3>1, FS_EmptySet
  <2> QED  BY <2>1, <2>2, <2>3
<1>7. Apart(R, T, P, j, S, X)
  BY <1>1 DEF World
<1>8. /\ IsFiniteSet(R \cup T) /\ Cardinality(R \cup T) = Cardinality(R) + Cardinality(T)
      /\ (R \cup T) \cap P = {}
  BY <1>2, <1>3, <1>7, SizesAdd DEF Apart
<1>9. PICK A : A = R \cup T \cup P
  OBVIOUS
<1>10. /\ IsFiniteSet(A) /\ Cardinality(A) = Cardinality(R \cup T) + Cardinality(P)
       /\ A \cap j = {}
  BY <1>5, <1>7, <1>8, <1>9, SizesAdd DEF Apart
<1>11. PICK B : B = A \cup j
  OBVIOUS
<1>12. /\ IsFiniteSet(B) /\ Cardinality(B) = Cardinality(A) + Cardinality(j)
       /\ B \cap S = {}
  BY <1>5, <1>7, <1>9, <1>10, <1>11, SizesAdd DEF Apart
<1>13. PICK C : C = B \cup S
  OBVIOUS
<1>14. /\ IsFiniteSet(C) /\ Cardinality(C) = Cardinality(B) + Cardinality(S)
       /\ C \cap X = {}
  BY <1>4, <1>7, <1>9, <1>11, <1>12, <1>13, SizesAdd DEF Apart
<1>15. Cardinality(C \cup X) = Cardinality(C) + Cardinality(X)
  BY <1>6, <1>14, SizesAdd
<1>16. Cardinality(C \cup X) = Cardinality(R) + Cardinality(T) + Cardinality(P)
                                 + Cardinality(j) + Cardinality(S) + Cardinality(X)
  BY <1>8, <1>10, <1>12, <1>14, <1>15
<1>17. Cardinality(C \cup X) = Len(r) + Len(t) + w + Cardinality(j) + Cardinality(s) + Cardinality(X)
  BY <1>2, <1>3, <1>4, <1>5, <1>16
<1>18. Cardinality(C \cup X) = l
  BY <1>1, <1>17 DEF World
<1> QED  BY <1>1, <1>9, <1>11, <1>13, <1>18

\* No task is lost, run twice or counted wrong by resume, complete, sleep and the
\* waits of the driver, and no internal error of scheduler.rs can be reached.
THEOREM Places == DriverSpec => []OnePlace
<1>1. ASSUME DriverInv PROVE OnePlace
  <2>1. /\ Control /\ Driving /\ (fault = "none" => InPlace)
        /\ Typed(ready, timers, done, jobs, sockets, running, live)
    BY <1>1 DEF DriverInv, Good, Driving
  <2>2. live \in 0..SchedulerLimit
    BY <2>1, DriverAssumption, ChannelAssumption DEF Driving, Typed
  <2>3. DriverTypeOK
    BY <2>1, <2>2 DEF DriverTypeOK, Control, Typed
  <2>4. fault \notin InternalErrors
    BY <2>1 DEF Control
  <2>5. ASSUME fault = "none" PROVE
           /\ Cardinality(Alive) = live
           /\ live = Len(ready) + Len(timers) + waiters + Cardinality(jobs)
                       + Cardinality(sockets) + (IF running = NoTask THEN 0 ELSE 1)
    <3>1. World(ready, timers, done, jobs, sockets, running, ParkedTasks, waiters, live)
      BY <2>1, <2>5 DEF InPlace
    <3>2. Alive = ToSet(ready) \cup Asleep(timers) \cup ParkedTasks \cup jobs
                    \cup OnSockets(sockets) \cup Current(running)
      BY DEF Alive, TimerTasks, SocketTasks, Asleep, OnSockets, Current
    <3>3. Cardinality(Current(running)) = IF running = NoTask THEN 0 ELSE 1
      BY <2>1, NobodyRuns DEF Typed
    <3>4. Cardinality(Alive) = live
      BY <3>1, <3>2, WorldCounts
    <3> QED  BY <3>1, <3>3, <3>4 DEF World
  <2> QED  BY <2>3, <2>4, <2>5 DEF OnePlace
<1> QED  BY <1>1, DriverInvariance, PTL

\* The driver prints "deadlock: every computation waits on a channel" only when
\* each live task does.
THEOREM Deadlocks == DriverSpec => []DeadlockHonest
<1>1. DriverInv => DeadlockHonest
  BY DEF DriverInv, Good
<1> QED  BY <1>1, DriverInvariance, PTL

\* wait_for_task wakes overdue timers and ready descriptors in the order in which
\* they were registered.
THEOREM WakeOrder == DriverSpec => []WakesInRegistrationOrder
<1>1. DriverInv => WakesInRegistrationOrder
  BY DEF DriverInv, Good, Driving, Increasing, WakesInRegistrationOrder
<1> QED  BY <1>1, DriverInvariance, PTL

\* The driver uses the channel table as Channels.tla assumes, so what is proved
\* of the table holds of the table inside the driver.
THEOREM TableUse == DriverSpec => UsesChannels
<1>1. DriverInv /\ [DriverNext]_vars => [pc = "stop" \/ Next]_channelVars
  BY TableStep
<1> QED  BY <1>1, DriverInvariance, PTL DEF DriverSpec, UsesChannels

=============================================================================
