-------------------------- MODULE CpuPool_proofs ---------------------------
(***************************************************************************)
(* The task graph of a compiled program keeps its books: every run has one *)
(* owner, every join its count, every execution one root, for any number   *)
(* of workers, tasks and nested executions.                                *)
(***************************************************************************)
EXTENDS CpuPool, Positions_proofs, SequenceTheorems

\* s lists the elements of S, each once.
Lists(s, S) ==
    /\ s \in Seq(S)
    /\ \A i, j \in DOMAIN s : s[i] = s[j] => i = j
    /\ \A x \in S : \E k \in DOMAIN s : s[k] = x

\* T has one element more, or one less, than S; or all of two sets.
More(S, x, T) == x \notin S /\ \A y : y \in T <=> y \in S \/ y = x
Less(S, x, T) == \A y : y \in T <=> y \in S /\ y # x
Both(S, U, T) == \A y : (y \in T <=> y \in S \/ y \in U) /\ ~(y \in S /\ y \in U)

-----------------------------------------------------------------------------
(***************************************************************************)
(* The books: where the runs of the table n are, with the executions s,    *)
(* the queues q and c and the workers' runs h; p names the place of each   *)
(* identity.  A "loose" run is in nobody's books while it is accepted.     *)
(***************************************************************************)
Kinds == {"free", "join", "ready", "hand", "queue", "done", "worker", "boundary", "loose"}
Moving == {"ready", "hand", "queue", "done", "worker", "loose"}

Of(p, kind) == {i \in Id : p[i] = kind}
At(n, p, d) == {i \in Id : p[i] = "ready" /\ n[i].depth = d}

Alive(n, p) ==
    /\ p \in [Id -> Kinds]
    /\ \A i \in Id : p[i] = "free" <=> i \notin DOMAIN n
    /\ \A i \in DOMAIN n : p[i] = "join" <=> n[i].remaining # 0

ReadyAt(n, s, p) == \A d \in DOMAIN s : Lists(s[d].ready, At(n, p, d))
HandAt(n, s, p) ==
    \A d \in DOMAIN s, i \in Id : s[d].hand = i <=> p[i] = "hand" /\ n[i].depth = d

PoolAt(q, c, h, p) ==
    /\ Lists(q, Of(p, "queue")) /\ Lists(c, Of(p, "done"))
    /\ \A i \in Id : p[i] = "worker" <=> \E w \in Worker : h[w] = i
    /\ \A v, w \in Worker : h[v] = h[w] /\ h[v] # None => v = w

BoundAt(n, p) == \A i \in Id : p[i] = "boundary" <=> \E j \in DOMAIN n : n[j].boundary = i

\* The pool works for the innermost execution only.
AtTop(n, p, depth) ==
    \A i \in Id : p[i] \in {"queue", "done", "worker", "loose"} => n[i].depth = depth

Placed(n, s, q, c, h, p) ==
    /\ Alive(n, p)
    /\ ReadyAt(n, s, p) /\ HandAt(n, s, p)
    /\ PoolAt(q, c, h, p)
    /\ BoundAt(n, p)
    /\ AtTop(n, p, Len(s))

-----------------------------------------------------------------------------
(***************************************************************************)
(* The shape of the graph: parents are alive and of the same execution,    *)
(* counts are exact, and following parents ends: every set of nodes has    *)
(* one without a child in the set.                                         *)
(***************************************************************************)
Children(n, i) == {j \in DOMAIN n : n[j].up = i}
ChildOf(n, j, i) == n[j].up = i \/ n[j].boundary = i
Parent(n, i, k) == k # None => k \in DOMAIN n /\ n[k].depth = n[i].depth

Linked(n, depth) ==
    \A i \in DOMAIN n :
        /\ n[i].depth <= depth
        /\ n[i].up = None \/ n[i].boundary = None
        /\ Parent(n, i, n[i].up) /\ Parent(n, i, n[i].boundary)
Exact(n) == \A i \in DOMAIN n : n[i].remaining = Cardinality(Children(n, i))
OneGraph(n) ==
    \A i, j \in DOMAIN n : n[i].boundary = n[j].boundary /\ n[i].boundary # None => i = j
Founded(n) ==
    \A S \in SUBSET DOMAIN n : S # {} => \E i \in S : \A j \in S : ~ChildOf(n, j, i)

Tree(n, depth) == Linked(n, depth) /\ Exact(n) /\ OneGraph(n) /\ Founded(n)

\* An execution has one root until it is delivered.
Roots(n, d) == {i \in DOMAIN n : n[i].depth = d /\ n[i].up = None /\ n[i].boundary = None}
Rooted(n, s) ==
    \A d \in DOMAIN s :
        /\ s[d].done <=> Roots(n, d) = {}
        /\ \A i, j \in Roots(n, d) : i = j

Table(n) == DOMAIN n \subseteq Id /\ n \in [DOMAIN n -> Node]

Books(n, s, q, c, h, p) ==
    /\ Table(n) /\ s \in Seq(Context)
    /\ Placed(n, s, q, c, h, p) /\ Tree(n, Len(s)) /\ Rooted(n, s)

-----------------------------------------------------------------------------
(***************************************************************************)
(* The inductive invariant.                                                *)
(***************************************************************************)
Types ==
    /\ Table(node)
    /\ stack \in Seq(Context) /\ Depth <= MaxDepth
    /\ pc \in {"loop", "drain", "complete", "asleep", "advance", "returned", "failing",
               "joining", "down"}
    /\ pending \in Nat /\ created \in Nat
    /\ at \in [Worker -> {"none", "start", "check", "waiting", "busy", "leave", "exited"}]
    /\ holds \in [Worker -> {None} \cup Id]
    /\ queue \in Seq(Id) /\ completed \in Seq(Id)
    /\ failed \in BOOLEAN

Control ==
    /\ \A w \in Worker : at[w] = "busy" <=> holds[w] # None
    /\ pc \in {"loop", "drain", "complete", "asleep", "advance"} => Depth >= 1
    /\ pc \in {"advance", "drain"} => Top.hand # None
    /\ pc = "loop" => Top.hand = None
    /\ \A d \in 1..(Depth - 1) : stack[d].hand # None
    /\ pc = "advance" => pending = 0
    /\ fault = "none"

Holders(h) == {w \in Worker : h[w] # None}
InPool(q, c, h) == Len(q) + Len(c) + Cardinality(Holders(h))
Hired(a) == {w \in Worker : a[w] # "none"}

\* A failed worker drops its run and leaves it counted.
Counting ==
    /\ created = Cardinality(Hired(at))
    /\ ~failed => pending = InPool(queue, completed, holds)
    /\ failed => pending > InPool(queue, completed, holds)
    /\ created >= (IF pending < Desired THEN pending ELSE Desired)

NoneLoose(p) == \A i \in Id : p[i] # "loose"
Graph == \E p : Books(node, stack, queue, completed, holds, p) /\ NoneLoose(p)

Inv ==
    /\ Types
    /\ Control
    /\ pc # "down" => Counting
    /\ Active => Graph

-----------------------------------------------------------------------------
(***************************************************************************)
(* Lists.                                                                  *)
(***************************************************************************)
\* The first element leaves the list.
LEMMA ListsTail ==
    ASSUME NEW S, NEW s, Lists(s, S), s # <<>>
    PROVE  /\ Head(s) \in S
           /\ \A T : Less(S, Head(s), T) => Lists(Tail(s), T)
<1>1. s \in Seq(S) /\ Len(s) \in Nat \ {0} /\ DOMAIN s = 1..Len(s)
  BY EmptySeq, LenProperties DEF Lists
<1>2. PICK x, u : x = Head(s) /\ u = Tail(s)
  OBVIOUS
<1>3. x = s[1] /\ x \in S
  BY <1>1, <1>2
<1>4. /\ u \in Seq(S) /\ Len(u) = Len(s) - 1 /\ DOMAIN u = 1..(Len(s) - 1)
      /\ \A k \in 1..(Len(s) - 1) : u[k] = s[k + 1]
  BY <1>1, <1>2, HeadTailProperties
<1>5. SUFFICES ASSUME NEW T, Less(S, x, T) PROVE Lists(u, T)
  BY <1>2, <1>3
<1>6. \A k \in DOMAIN u : k + 1 \in DOMAIN s /\ k + 1 # 1 /\ u[k] = s[k + 1]
  BY <1>1, <1>4
<1>7. \A k \in DOMAIN u : u[k] \in T
  <2> TAKE k \in DOMAIN u
  <2>1. s[k + 1] \in S /\ s[k + 1] # s[1]
    <3>1. 1 \in DOMAIN s
      BY <1>1
    <3> QED
      BY <1>1, <1>6, <3>1 DEF Lists
  <2> QED
    BY <1>3, <1>5, <1>6, <2>1 DEF Less
<1>8. u \in Seq(T)
  BY <1>4, <1>7
<1>9. ASSUME NEW i \in DOMAIN u, NEW j \in DOMAIN u, u[i] = u[j] PROVE i = j
  <2>1. i + 1 = j + 1
    BY <1>6, <1>9 DEF Lists
  <2> QED
    BY <1>4, <2>1
<1>10. ASSUME NEW y \in T PROVE \E k \in DOMAIN u : u[k] = y
  <2>1. y \in S /\ y # s[1]
    BY <1>3, <1>5 DEF Less
  <2>2. PICK k \in DOMAIN s : s[k] = y
    BY <2>1 DEF Lists
  <2>3. k - 1 \in DOMAIN u /\ (k - 1) + 1 = k
    BY <1>1, <1>4, <2>1, <2>2
  <2> QED
    BY <1>6, <2>2, <2>3
<1> QED
  BY <1>8, <1>9, <1>10 DEF Lists

\* Two lists of different elements, one behind the other.
LEMMA ListsBoth ==
    ASSUME NEW S, NEW s, Lists(s, S), NEW U, NEW u, Lists(u, U), NEW T, Both(S, U, T)
    PROVE  Lists(s \o u, T)
<1>1. s \in Seq(S) /\ u \in Seq(U) /\ Len(s) \in Nat /\ Len(u) \in Nat
      /\ DOMAIN s = 1..Len(s) /\ DOMAIN u = 1..Len(u)
  BY LenProperties DEF Lists
<1>2. s \in Seq(T) /\ u \in Seq(T)
  <2>1. S \subseteq T /\ U \subseteq T
    BY DEF Both
  <2> QED
    BY <1>1, <2>1
<1>3. PICK v : v = s \o u
  OBVIOUS
<1>4. /\ v \in Seq(T) /\ Len(v) = Len(s) + Len(u) /\ DOMAIN v = 1..(Len(s) + Len(u))
      /\ \A k \in 1..(Len(s) + Len(u)) : v[k] = IF k <= Len(s) THEN s[k] ELSE u[k - Len(s)]
  BY <1>2, <1>3, ConcatProperties, LenProperties
<1>5. ASSUME NEW k \in DOMAIN v
      PROVE  \/ k \in DOMAIN s /\ v[k] = s[k] /\ v[k] \in S
             \/ k - Len(s) \in DOMAIN u /\ v[k] = u[k - Len(s)] /\ v[k] \in U
  <2>1. CASE k <= Len(s)
    <3>1. k \in DOMAIN s /\ v[k] = s[k]
      BY <1>1, <1>4, <2>1
    <3> QED
      BY <1>1, <3>1
  <2>2. CASE ~(k <= Len(s))
    <3>1. k - Len(s) \in DOMAIN u /\ v[k] = u[k - Len(s)]
      BY <1>1, <1>4, <2>2
    <3> QED
      BY <1>1, <3>1
  <2> QED
    BY <2>1, <2>2
<1>6. ASSUME NEW i \in DOMAIN v, NEW j \in DOMAIN v, v[i] = v[j] PROVE i = j
  <2>1. ~(v[i] \in S /\ v[i] \in U)
    BY DEF Both
  <2>2. CASE i \in DOMAIN s /\ v[i] = s[i] /\ v[i] \in S
    <3>1. j \in DOMAIN s /\ v[j] = s[j]
      BY <1>5, <1>6, <2>1, <2>2
    <3> QED
      BY <1>6, <2>2, <3>1 DEF Lists
  <2>3. CASE i - Len(s) \in DOMAIN u /\ v[i] = u[i - Len(s)] /\ v[i] \in U
    <3>1. j - Len(s) \in DOMAIN u /\ v[j] = u[j - Len(s)]
      BY <1>5, <1>6, <2>1, <2>3
    <3>2. i - Len(s) = j - Len(s)
      BY <1>6, <2>3, <3>1 DEF Lists
    <3> QED
      BY <1>1, <1>4, <3>2
  <2> QED
    BY <1>5, <2>2, <2>3
<1>7. ASSUME NEW y \in T PROVE \E k \in DOMAIN v : v[k] = y
  <2>1. CASE y \in S
    <3>1. PICK k \in DOMAIN s : s[k] = y
      BY <2>1 DEF Lists
    <3>2. k \in DOMAIN v /\ v[k] = s[k]
      BY <1>1, <1>4
    <3> QED
      BY <3>1, <3>2
  <2>2. CASE y \in U
    <3>1. PICK k \in DOMAIN u : u[k] = y
      BY <2>2 DEF Lists
    <3>2. k + Len(s) \in DOMAIN v /\ ~(k + Len(s) <= Len(s)) /\ (k + Len(s)) - Len(s) = k
      BY <1>1, <1>4
    <3>3. v[k + Len(s)] = u[k]
      BY <1>4, <3>2
    <3> QED
      BY <3>1, <3>2, <3>3
  <2> QED
    BY <2>1, <2>2 DEF Both
<1> QED
  BY <1>3, <1>4, <1>6, <1>7 DEF Lists

\* Lists of nothing, of one element, and of a finite set of numbers.
LEMMA ListsFew ==
    /\ Lists(<<>>, {})
    /\ \A x : Lists(<<x>>, {x})
    /\ \A S : Lists(<<>>, S) => S = {}
  BY DEF Lists

\* A finite set of numbers, listed in ascending order.
LEMMA ListsAscending ==
    ASSUME NEW S, IsFiniteSet(S), S \subseteq Int
    PROVE  Lists(Ascending(S), S)
<1>1. PICK a, k : a = Ascending(S) /\ k = Cardinality(S)
  OBVIOUS
<1>2. k \in Nat /\ a \in [1..k -> S] /\ Increasing(a) /\ \A x \in S : \E i \in 1..k : a[i] = x
  BY <1>1, AscendingRight
<1>3. a \in Seq(S) /\ DOMAIN a = 1..k
  BY <1>2, SeqDef
<1>4. ASSUME NEW i \in DOMAIN a, NEW j \in DOMAIN a, a[i] = a[j] PROVE i = j
  <2>0. i \in 1..k /\ j \in 1..k
    BY <1>3
  <2>1. i \in Int /\ j \in Int
    BY <1>2, <2>0
  <2>3. a[i] \in S /\ a[j] \in S
    BY <1>2, <2>0
  <2>4. a[i] \in Int /\ a[j] \in Int
    BY <2>3
  <2>2. ~(i < j) /\ ~(j < i)
    BY <1>2, <1>3, <1>4, <2>1, <2>4 DEF Increasing
  <2> QED
    BY <2>1, <2>2
<1> QED
  BY <1>1, <1>2, <1>3, <1>4 DEF Lists

\* One element more.
LEMMA ListsAppend ==
    ASSUME NEW S, NEW s, Lists(s, S), NEW x, NEW T, More(S, x, T)
    PROVE  Lists(Append(s, x), T)
<1>1. Both(S, {x}, T)
  BY DEF Both, More
<1>2. Lists(<<x>>, {x})
  BY ListsFew
<1>3. s \in Seq(T) /\ x \in T
  <2>1. S \subseteq T /\ x \in T
    BY DEF More
  <2> QED
    BY <2>1 DEF Lists
<1>4. Append(s, x) = s \o <<x>>
  BY <1>3, AppendIsConcat
<1> QED
  BY <1>1, <1>2, <1>4, ListsBoth

-----------------------------------------------------------------------------
(***************************************************************************)
(* Moves: the run i comes to a place of the given kind.                    *)
(***************************************************************************)
Moved(p, i, kind, u) ==
    u \in [Id -> Kinds] /\ u[i] = kind /\ \A j \in Id : j # i => u[j] = p[j]

\* Two tables of the same shape, two stacks that differ in one execution.
Same(n, m) ==
    /\ DOMAIN m = DOMAIN n
    /\ \A i \in DOMAIN n : /\ m[i].up = n[i].up /\ m[i].boundary = n[i].boundary
                           /\ m[i].remaining = n[i].remaining /\ m[i].depth = n[i].depth
Replaced(s, d, x, t) ==
    /\ t \in Seq(Context) /\ DOMAIN t = DOMAIN s /\ Len(t) = Len(s)
    /\ t[d] = x /\ \A e \in DOMAIN s : e # d => t[e] = s[e]

\* None is not an identity.
LEMMA NoneIsNoRun == None \notin Id
  BY DEF None, Id

\* A place can be changed.
LEMMA MovedIs ==
    ASSUME NEW p \in [Id -> Kinds], NEW i \in Id, NEW kind \in Kinds
    PROVE  \E u : Moved(p, i, kind, u)
<1> WITNESS [p EXCEPT ![i] = kind]
<1> QED
  BY DEF Moved

\* One context of a stack is replaced.
LEMMA ReplacedIs ==
    ASSUME NEW s \in Seq(Context), NEW d \in DOMAIN s, NEW x \in Context,
           NEW t, t = [s EXCEPT ![d] = x]
    PROVE  Replaced(s, d, x, t)
<1>1. DOMAIN s = 1..Len(s) /\ Len(s) \in Nat
  BY LenProperties
<1>2. DOMAIN t = DOMAIN s /\ t[d] = x /\ \A e \in DOMAIN s : e # d => t[e] = s[e]
  OBVIOUS
<1>3. t \in Seq(Context) /\ Len(t) = Len(s)
  BY <1>1, ExceptSeq
<1> QED
  BY <1>2, <1>3 DEF Replaced

\* The sets of runs at a kind of place.
LEMMA OfMoved ==
    ASSUME NEW p \in [Id -> Kinds], NEW i \in Id, NEW kind, p[i] # kind,
           NEW u, Moved(p, i, kind, u)
    PROVE  /\ Less(Of(p, p[i]), i, Of(u, p[i])) /\ More(Of(p, kind), i, Of(u, kind))
           /\ \A k : k # p[i] /\ k # kind => Of(u, k) = Of(p, k)
<1>1. u[i] = kind /\ \A j \in Id : j # i => u[j] = p[j]
  BY DEF Moved
<1>2. Less(Of(p, p[i]), i, Of(u, p[i]))
  BY <1>1 DEF Less, Of
<1>3. More(Of(p, kind), i, Of(u, kind))
  BY <1>1 DEF More, Of
<1>4. \A k : k # p[i] /\ k # kind => Of(u, k) = Of(p, k)
  BY <1>1 DEF Of
<1> QED
  BY <1>2, <1>3, <1>4

\* The kinds of places a run moves between are kinds.
LEMMA KindsMoving == Moving \subseteq Kinds /\ "free" \in Kinds /\ "join" \in Kinds
  BY DEF Moving, Kinds

\* A run that waits for nothing goes from hand to hand.
LEMMA AliveMoves ==
    ASSUME NEW n, NEW p, Table(n), Alive(n, p), BoundAt(n, p), NEW i \in DOMAIN n,
           p[i] \in Moving, NEW kind \in Moving, NEW u, Moved(p, i, kind, u),
           NEW m, Same(n, m)
    PROVE  Alive(m, u) /\ BoundAt(m, u)
<1>1. /\ u \in [Id -> Kinds] /\ u[i] = kind /\ \A j \in Id : j # i => u[j] = p[j]
      /\ DOMAIN n \subseteq Id /\ DOMAIN m = DOMAIN n
  BY DEF Moved, Table, Same
<1>2. /\ p[i] \notin {"free", "join", "boundary"} /\ u[i] \notin {"free", "join", "boundary"}
  BY <1>1 DEF Moving
<1>3. \A j \in Id : u[j] = "free" <=> j \notin DOMAIN m
  BY <1>1, <1>2 DEF Alive
<1>4. \A j \in DOMAIN m : u[j] = "join" <=> m[j].remaining # 0
  BY <1>1, <1>2 DEF Alive, Same
<1>5. \A j \in Id : u[j] = "boundary" <=> \E k \in DOMAIN m : m[k].boundary = j
  BY <1>1, <1>2 DEF BoundAt, Same
<1> QED
  BY <1>1, <1>3, <1>4, <1>5 DEF Alive, BoundAt

\* The pool has runs of the innermost execution.
LEMMA TopMoves ==
    ASSUME NEW n, NEW p, NEW e, AtTop(n, p, e), NEW i \in DOMAIN n,
           NEW kind, n[i].depth = e, NEW u, Moved(p, i, kind, u), Table(n), Alive(n, p),
           NEW m, Same(n, m)
    PROVE  AtTop(m, u, e)
<1>1. /\ u[i] = kind /\ \A j \in Id : j # i => u[j] = p[j]
      /\ \A j \in DOMAIN n : m[j].depth = n[j].depth
  BY DEF Moved, Same
<1>2. \A j \in Id : p[j] \in {"queue", "done", "worker", "loose"} => j \in DOMAIN n
  BY DEF Alive
<1> QED
  BY <1>1, <1>2 DEF AtTop

-----------------------------------------------------------------------------
(***************************************************************************)
(* The ready queues and the hands.                                         *)
(***************************************************************************)
SameReady(s, t) == DOMAIN t = DOMAIN s /\ \A d \in DOMAIN s : t[d].ready = s[d].ready
SameHands(s, t) == DOMAIN t = DOMAIN s /\ \A d \in DOMAIN s : t[d].hand = s[d].hand

\* The runs of a kind are the same, and in the same executions.
SameOf(kind, n, p, m, u) ==
    \A i \in Id : /\ u[i] = kind <=> p[i] = kind
                  /\ p[i] = kind => m[i].depth = n[i].depth

\* The ready queues of runs that do not change.
LEMMA ReadyStays ==
    ASSUME NEW n, NEW s, NEW p, ReadyAt(n, s, p), NEW t, SameReady(s, t),
           NEW m, NEW u, SameOf("ready", n, p, m, u)
    PROVE  ReadyAt(m, t, u)
<1>1. \A d : At(m, u, d) = At(n, p, d)
  BY DEF At, SameOf
<1> QED
  BY <1>1 DEF ReadyAt, SameReady

\* The first ready run of an execution is taken.
ReadyLess(s, d, t) ==
    /\ DOMAIN t = DOMAIN s /\ t[d].ready = Tail(s[d].ready)
    /\ \A e \in DOMAIN s : e # d => t[e].ready = s[e].ready

\* The first of a ready queue is a ready run of that execution.
LEMMA ReadyHead ==
    ASSUME NEW n, NEW s, NEW p, ReadyAt(n, s, p), NEW d \in DOMAIN s, s[d].ready # <<>>
    PROVE  /\ Head(s[d].ready) \in Id /\ p[Head(s[d].ready)] = "ready"
           /\ n[Head(s[d].ready)].depth = d
<1>1. Lists(s[d].ready, At(n, p, d))
  BY DEF ReadyAt
<1>2. Head(s[d].ready) \in At(n, p, d)
  BY <1>1, ListsTail
<1> QED
  BY <1>2 DEF At

\* The first ready run of an execution is taken.
LEMMA ReadyTaken ==
    ASSUME NEW n, NEW s, NEW p, ReadyAt(n, s, p), NEW d \in DOMAIN s, s[d].ready # <<>>,
           NEW t, ReadyLess(s, d, t), NEW i, i = Head(s[d].ready),
           NEW kind, kind # "ready", NEW u, Moved(p, i, kind, u)
    PROVE  ReadyAt(n, t, u)
<1>1. i \in Id /\ p[i] = "ready" /\ n[i].depth = d
  BY ReadyHead
<1>2. u[i] = kind /\ \A j \in Id : j # i => u[j] = p[j]
  BY DEF Moved
<1>3. Less(At(n, p, d), i, At(n, u, d))
  BY <1>1, <1>2 DEF Less, At
<1>4. \A e : e # d => At(n, u, e) = At(n, p, e)
  BY <1>1, <1>2 DEF At
<1>5. Lists(s[d].ready, At(n, p, d))
  BY DEF ReadyAt
<1>6. Lists(Tail(s[d].ready), At(n, u, d))
  BY <1>3, <1>5, ListsTail
<1> QED
  BY <1>4, <1>6 DEF ReadyAt, ReadyLess

\* The runs U, listed in l, become ready in an execution.
ReadyMore(s, d, l, t) ==
    /\ DOMAIN t = DOMAIN s /\ t[d].ready = s[d].ready \o l
    /\ \A e \in DOMAIN s : e # d => t[e].ready = s[e].ready
Starts(n, p, U, d, m, u) ==
    \A i \in Id : /\ u[i] = "ready" <=> p[i] = "ready" \/ i \in U
                  /\ i \in U => p[i] # "ready" /\ m[i].depth = d
                  /\ p[i] = "ready" => m[i].depth = n[i].depth

\* Runs are appended to a ready queue.
LEMMA ReadyPushed ==
    ASSUME NEW n, NEW s, NEW p, ReadyAt(n, s, p), NEW d \in DOMAIN s,
           NEW l, NEW U \in SUBSET Id, Lists(l, U), NEW t, ReadyMore(s, d, l, t),
           NEW m, NEW u, Starts(n, p, U, d, m, u)
    PROVE  ReadyAt(m, t, u)
<1>1. Both(At(n, p, d), U, At(m, u, d))
  BY DEF Both, At, Starts
<1>2. \A e : e # d => At(m, u, e) = At(n, p, e)
  BY DEF At, Starts
<1>3. Lists(s[d].ready, At(n, p, d))
  BY DEF ReadyAt
<1>4. Lists(s[d].ready \o l, At(m, u, d))
  BY <1>1, <1>3, ListsBoth
<1> QED
  BY <1>2, <1>4 DEF ReadyAt, ReadyMore

\* The hands of executions that do not change.
LEMMA HandStays ==
    ASSUME NEW n, NEW s, NEW p, HandAt(n, s, p), NEW t, SameHands(s, t),
           NEW m, NEW u, SameOf("hand", n, p, m, u)
    PROVE  HandAt(m, t, u)
  BY DEF HandAt, SameHands, SameOf

\* The coordinator takes a run in its hand, or lets it go.
HandIs(s, d, i, t) ==
    /\ DOMAIN t = DOMAIN s /\ t[d].hand = i
    /\ \A e \in DOMAIN s : e # d => t[e].hand = s[e].hand

\* The coordinator takes a run in its hand.
LEMMA HandFilled ==
    ASSUME NEW n, NEW s, NEW p, HandAt(n, s, p), NEW d \in DOMAIN s, s[d].hand = None,
           NEW i \in Id, n[i].depth = d, p[i] # "hand", NEW t, HandIs(s, d, i, t),
           NEW u, Moved(p, i, "hand", u)
    PROVE  HandAt(n, t, u)
<1>1. u[i] = "hand" /\ \A j \in Id : j # i => u[j] = p[j]
  BY DEF Moved
<1>2. \A e \in DOMAIN s, j \in Id : t[e].hand = j <=> u[j] = "hand" /\ n[j].depth = e
  <2> TAKE e \in DOMAIN s, j \in Id
  <2>1. s[e].hand = j <=> p[j] = "hand" /\ n[j].depth = e
    BY DEF HandAt
  <2>2. CASE e = d /\ j # i
    <3>1. ~(p[j] = "hand" /\ n[j].depth = e)
      BY <2>1, <2>2, NoneIsNoRun
    <3> QED
      BY <1>1, <2>2, <3>1 DEF HandIs
  <2>3. CASE e = d /\ j = i
    BY <1>1, <2>3 DEF HandIs
  <2>4. CASE e # d
    BY <1>1, <2>1, <2>4 DEF HandIs
  <2> QED
    BY <2>2, <2>3, <2>4
<1> QED
  BY <1>2 DEF HandAt, HandIs

\* The coordinator lets go of the run in its hand.
LEMMA HandEmptied ==
    ASSUME NEW n, NEW s, NEW p, HandAt(n, s, p), NEW d \in DOMAIN s,
           NEW i \in Id, i = s[d].hand, NEW t, HandIs(s, d, None, t),
           NEW kind, kind # "hand", NEW u, Moved(p, i, kind, u)
    PROVE  HandAt(n, t, u) /\ p[i] = "hand" /\ n[i].depth = d
<1>1. u[i] = kind /\ \A j \in Id : j # i => u[j] = p[j]
  BY DEF Moved
<1>2. p[i] = "hand" /\ n[i].depth = d
  BY DEF HandAt
<1>3. \A e \in DOMAIN s, j \in Id : t[e].hand = j <=> u[j] = "hand" /\ n[j].depth = e
  <2> TAKE e \in DOMAIN s, j \in Id
  <2>1. s[e].hand = j <=> p[j] = "hand" /\ n[j].depth = e
    BY DEF HandAt
  <2>2. CASE e = d
    <3>1. t[e].hand # j
      BY <2>2, NoneIsNoRun DEF HandIs
    <3>2. j # i => s[e].hand # j
      BY <2>2
    <3> QED
      BY <1>1, <2>1, <3>1, <3>2
  <2>3. CASE e # d
    BY <1>1, <1>2, <2>1, <2>3 DEF HandIs
  <2> QED
    BY <2>2, <2>3
<1> QED
  BY <1>2, <1>3 DEF HandAt, HandIs

-----------------------------------------------------------------------------
(***************************************************************************)
(* The pool.                                                               *)
(***************************************************************************)
First(q, i) == q # <<>> /\ i = Head(q)
Given(h, w, i, g) ==
    g \in [Worker -> {None} \cup Id] /\ g[w] = i /\ \A v \in Worker : v # w => g[v] = h[v]
SamePool(p, u) ==
    \A i \in Id : \A kind \in {"queue", "done", "worker"} : u[i] = kind <=> p[i] = kind

\* The pool has the same runs.
LEMMA PoolStays ==
    ASSUME NEW q, NEW c, NEW h, NEW p, PoolAt(q, c, h, p), NEW u, SamePool(p, u)
    PROVE  PoolAt(q, c, h, u)
<1>1. Of(u, "queue") = Of(p, "queue") /\ Of(u, "done") = Of(p, "done")
  BY DEF SamePool, Of
<1>2. \A i \in Id : u[i] = "worker" <=> p[i] = "worker"
  BY DEF SamePool
<1> QED
  BY <1>1, <1>2 DEF PoolAt

\* A run is submitted.
LEMMA PoolSubmits ==
    ASSUME NEW q, NEW c, NEW h, NEW p \in [Id -> Kinds], PoolAt(q, c, h, p), NEW i \in Id,
           p[i] \notin {"queue", "done", "worker"}, NEW u, Moved(p, i, "queue", u)
    PROVE  PoolAt(Append(q, i), c, h, u)
<1>1. More(Of(p, "queue"), i, Of(u, "queue")) /\ Of(u, "done") = Of(p, "done")
  BY OfMoved
<1>2. \A j \in Id : u[j] = "worker" <=> p[j] = "worker"
  BY DEF Moved
<1>3. Lists(Append(q, i), Of(u, "queue"))
  BY <1>1, ListsAppend DEF PoolAt
<1> QED
  BY <1>1, <1>2, <1>3 DEF PoolAt

\* A worker takes the first run.
LEMMA PoolTakes ==
    ASSUME NEW q, NEW c, NEW h \in [Worker -> {None} \cup Id], NEW p \in [Id -> Kinds],
           PoolAt(q, c, h, p), NEW i, First(q, i),
           NEW w \in Worker, h[w] = None, NEW g, Given(h, w, i, g),
           NEW u, Moved(p, i, "worker", u)
    PROVE  PoolAt(Tail(q), c, g, u)
<1>1. i \in Of(p, "queue") /\ \A T : Less(Of(p, "queue"), i, T) => Lists(Tail(q), T)
  BY ListsTail DEF PoolAt, First
<1>2. i \in Id /\ p[i] = "queue"
  BY <1>1 DEF Of
<1>3. Less(Of(p, "queue"), i, Of(u, "queue")) /\ Of(u, "done") = Of(p, "done")
  <2>1. p[i] # "worker"
    BY <1>2
  <2>2. /\ Less(Of(p, p[i]), i, Of(u, p[i]))
        /\ \A k : k # p[i] /\ k # "worker" => Of(u, k) = Of(p, k)
    BY <1>2, <2>1, OfMoved
  <2> QED
    BY <1>2, <2>2
<1>4. u[i] = "worker" /\ \A j \in Id : j # i => u[j] = p[j]
  BY DEF Moved
<1>5. g[w] = i /\ \A v \in Worker : v # w => g[v] = h[v]
  BY DEF Given
<1>6. \A v \in Worker : h[v] # i
  BY <1>2 DEF PoolAt
<1>7. \A j \in Id : u[j] = "worker" <=> \E v \in Worker : g[v] = j
  <2> TAKE j \in Id
  <2>1. CASE j = i
    BY <1>4, <1>5, <2>1
  <2>2. CASE j # i
    <3>1. u[j] = p[j] /\ (p[j] = "worker" <=> \E v \in Worker : h[v] = j)
      BY <1>4, <2>2 DEF PoolAt
    <3>2. \A v \in Worker : h[v] = j <=> g[v] = j
      BY <1>5, <2>2, NoneIsNoRun
    <3> QED
      BY <3>1, <3>2
  <2> QED
    BY <2>1, <2>2
<1>8. \A v, x \in Worker : g[v] = g[x] /\ g[v] # None => v = x
  BY <1>5, <1>6 DEF PoolAt
<1> QED
  BY <1>1, <1>3, <1>7, <1>8 DEF PoolAt

\* A worker gives its run back.
LEMMA PoolFinishes ==
    ASSUME NEW q, NEW c, NEW h \in [Worker -> {None} \cup Id], NEW p \in [Id -> Kinds],
           PoolAt(q, c, h, p), NEW w \in Worker, NEW i, i = h[w], i # None,
           NEW g, Given(h, w, None, g), NEW u, Moved(p, i, "done", u)
    PROVE  PoolAt(q, Append(c, i), g, u) /\ i \in Id /\ p[i] = "worker"
<1>1. i \in Id /\ p[i] = "worker"
  BY DEF PoolAt
<1>2. More(Of(p, "done"), i, Of(u, "done")) /\ Of(u, "queue") = Of(p, "queue")
  BY <1>1, OfMoved
<1>3. u[i] = "done" /\ \A j \in Id : j # i => u[j] = p[j]
  BY DEF Moved
<1>4. g[w] = None /\ \A v \in Worker : v # w => g[v] = h[v]
  BY DEF Given
<1>5. Lists(Append(c, i), Of(u, "done"))
  BY <1>2, ListsAppend DEF PoolAt
<1>6. \A j \in Id : u[j] = "worker" <=> \E v \in Worker : g[v] = j
  <2> TAKE j \in Id
  <2>1. CASE j = i
    <3>1. \A v \in Worker : h[v] = i => v = w
      BY DEF PoolAt
    <3>2. \A v \in Worker : g[v] # i
      BY <1>4, <3>1
    <3> QED
      BY <1>3, <2>1, <3>2
  <2>2. CASE j # i
    <3>1. u[j] = p[j] /\ (p[j] = "worker" <=> \E v \in Worker : h[v] = j)
      BY <1>3, <2>2 DEF PoolAt
    <3>2. \A v \in Worker : h[v] = j <=> g[v] = j
      BY <1>4, <2>2, NoneIsNoRun
    <3> QED
      BY <3>1, <3>2
  <2> QED
    BY <2>1, <2>2
<1>7. \A v, x \in Worker : g[v] = g[x] /\ g[v] # None => v = x
  BY <1>4 DEF PoolAt
<1> QED
  BY <1>1, <1>2, <1>5, <1>6, <1>7 DEF PoolAt

\* The coordinator accepts the first run that is back.
LEMMA PoolDelivers ==
    ASSUME NEW q, NEW c, NEW h, NEW p \in [Id -> Kinds], PoolAt(q, c, h, p), 
           NEW i, First(c, i), NEW u, Moved(p, i, "loose", u)
    PROVE  PoolAt(q, Tail(c), h, u) /\ i \in Id /\ p[i] = "done"
<1>1. i \in Of(p, "done") /\ \A T : Less(Of(p, "done"), i, T) => Lists(Tail(c), T)
  BY ListsTail DEF PoolAt, First
<1>2. i \in Id /\ p[i] = "done"
  BY <1>1 DEF Of
<1>3. Less(Of(p, "done"), i, Of(u, "done")) /\ Of(u, "queue") = Of(p, "queue")
  <2>1. p[i] # "loose"
    BY <1>2
  <2>2. /\ Less(Of(p, p[i]), i, Of(u, p[i]))
        /\ \A k : k # p[i] /\ k # "loose" => Of(u, k) = Of(p, k)
    BY <1>2, <2>1, OfMoved
  <2> QED
    BY <1>2, <2>2
<1>4. \A j \in Id : u[j] = "worker" <=> p[j] = "worker"
  BY <1>2 DEF Moved
<1> QED
  BY <1>1, <1>2, <1>3, <1>4 DEF PoolAt

-----------------------------------------------------------------------------
(***************************************************************************)
(* The graph.                                                              *)
(***************************************************************************)
LEMMA TableFinite ==
    ASSUME NEW n, Table(n)
    PROVE  /\ IsFiniteSet(DOMAIN n)
           /\ \A i : IsFiniteSet(Children(n, i)) /\ Cardinality(Children(n, i)) \in Nat
<1>1. IsFiniteSet(Id)
  BY CpuAssumption, FS_Interval DEF Id
<1>2. IsFiniteSet(DOMAIN n)
  BY <1>1, FS_Subset DEF Table
<1>3. \A i : Children(n, i) \subseteq DOMAIN n
  BY DEF Children
<1> QED
  BY <1>2, <1>3, FS_Subset, FS_CardinalityType

\* Events and safety of runs are no part of the shape.
LEMMA TreeSame ==
    ASSUME NEW n, NEW e, Tree(n, e), NEW m, Same(n, m)
    PROVE  Tree(m, e)
<1>1. /\ DOMAIN m = DOMAIN n
      /\ \A i \in DOMAIN n : /\ m[i].up = n[i].up /\ m[i].boundary = n[i].boundary
                             /\ m[i].remaining = n[i].remaining /\ m[i].depth = n[i].depth
  BY DEF Same
<1>2. Linked(m, e)
  BY <1>1 DEF Tree, Linked, Parent
<1>3. \A i : Children(m, i) = Children(n, i)
  BY <1>1 DEF Children
<1>4. Exact(m)
  BY <1>1, <1>3 DEF Tree, Exact
<1>5. OneGraph(m)
  BY <1>1 DEF Tree, OneGraph
<1>6. \A i, j \in DOMAIN n : ChildOf(m, j, i) <=> ChildOf(n, j, i)
  BY <1>1 DEF ChildOf
<1>7. Founded(m)
  BY <1>1, <1>6 DEF Tree, Founded
<1> QED
  BY <1>2, <1>4, <1>5, <1>7 DEF Tree

SameDone(s, t) == DOMAIN t = DOMAIN s /\ \A d \in DOMAIN s : t[d].done = s[d].done

\* A table of the same shape has the same roots.
LEMMA RootedSame ==
    ASSUME NEW n, NEW s, Rooted(n, s), NEW m, Same(n, m), NEW t, SameDone(s, t)
    PROVE  Rooted(m, t)
<1>1. \A d : Roots(m, d) = Roots(n, d)
  BY DEF Roots, Same
<1> QED
  BY <1>1 DEF Rooted, SameDone

\* A delivered run leaves the graph.
Removed(n, i, m) ==
    /\ DOMAIN m = DOMAIN n \ {i}
    /\ \A j \in DOMAIN m :
          /\ m[j].up = n[j].up /\ m[j].boundary = n[j].boundary /\ m[j].depth = n[j].depth
          /\ m[j].remaining = IF n[i].up = j THEN n[j].remaining - 1 ELSE n[j].remaining

\* The graph without a delivered run.
LEMMA TreeLess ==
    ASSUME NEW n, NEW e, Table(n), Tree(n, e), NEW i \in DOMAIN n,
           n[i].remaining = 0, \A j \in DOMAIN n : n[j].boundary # i,
           NEW m, Removed(n, i, m)
    PROVE  Tree(m, e)
<1>1. /\ DOMAIN m = DOMAIN n \ {i}
      /\ \A j \in DOMAIN m :
            m[j].up = n[j].up /\ m[j].boundary = n[j].boundary /\ m[j].depth = n[j].depth
  BY DEF Removed
<1>2. \A j \in DOMAIN n : n[j].up # i
  <2>1. IsFiniteSet(Children(n, i)) /\ Cardinality(Children(n, i)) = 0
    BY TableFinite DEF Tree, Exact
  <2>2. Children(n, i) = {}
    BY <2>1, FS_EmptySet
  <2> QED
    BY <2>2 DEF Children
<1>3. Linked(m, e)
  BY <1>1, <1>2 DEF Tree, Linked, Parent
<1>4. OneGraph(m)
  BY <1>1 DEF Tree, OneGraph
<1>5. Founded(m)
  <2> SUFFICES ASSUME NEW S \in SUBSET DOMAIN m, S # {}
               PROVE  \E k \in S : \A j \in S : ~ChildOf(m, j, k)
    BY DEF Founded
  <2>1. S \in SUBSET DOMAIN n
    BY <1>1
  <2>2. PICK k \in S : \A j \in S : ~ChildOf(n, j, k)
    BY <2>1 DEF Tree, Founded
  <2>3. \A j \in S : ~ChildOf(m, j, k)
    BY <1>1, <2>2 DEF ChildOf
  <2> QED
    BY <2>3
<1>6. ASSUME NEW j \in DOMAIN m PROVE m[j].remaining = Cardinality(Children(m, j))
  <2>1. j \in DOMAIN n /\ n[j].remaining = Cardinality(Children(n, j)) /\ IsFiniteSet(Children(n, j))
    BY <1>1, TableFinite DEF Tree, Exact
  <2>2. CASE n[i].up = j
    <3>1. i \in Children(n, j) /\ Children(m, j) = Children(n, j) \ {i}
      BY <1>1, <2>2 DEF Children
    <3>2. Cardinality(Children(n, j) \ {i}) = Cardinality(Children(n, j)) - 1
      BY <2>1, <3>1, FS_RemoveElement
    <3>3. m[j].remaining = n[j].remaining - 1
      BY <2>2 DEF Removed
    <3> QED
      BY <2>1, <3>1, <3>2, <3>3
  <2>3. CASE n[i].up # j
    <3>1. Children(m, j) = Children(n, j)
      BY <1>1, <2>3 DEF Children
    <3>2. m[j].remaining = n[j].remaining
      BY <2>3 DEF Removed
    <3> QED
      BY <2>1, <3>1, <3>2
  <2> QED
    BY <2>2, <2>3
<1> QED
  BY <1>3, <1>4, <1>5, <1>6 DEF Tree, Exact

-----------------------------------------------------------------------------
(***************************************************************************)
(* New nodes.                                                              *)
(***************************************************************************)
\* The lowest free identities exist when there is room.
LEMMA FreshRight ==
    ASSUME Table(node), NEW k \in Nat, Room(k)
    PROVE  /\ Fresh(k) \subseteq Id \ DOMAIN node
           /\ IsFiniteSet(Fresh(k)) /\ Cardinality(Fresh(k)) = k
<1>1. PICK F, a, l : F = Id \ DOMAIN node /\ a = Ascending(F) /\ l = Cardinality(F)
  OBVIOUS
<1>2. IsFiniteSet(Id) /\ F \subseteq Id /\ Id \subseteq Int
  BY <1>1, CpuAssumption, FS_Interval DEF Id
<1>3. IsFiniteSet(F) /\ F \subseteq Int
  BY <1>2, FS_Subset
<1>4. /\ l \in Nat /\ a \in [1..l -> F] /\ Increasing(a)
      /\ \A x \in F : \E i \in 1..l : a[i] = x
  BY <1>1, <1>3, AscendingRight
<1>5. k <= l
  BY <1>1 DEF Room
<1>6. 1..k \subseteq 1..l
  BY <1>4, <1>5
<1>7. PICK f : f = [i \in 1..k |-> a[i]]
  OBVIOUS
<1>8. PICK S : S = {a[i] : i \in 1..k}
  OBVIOUS
<1>9. S \subseteq F
  BY <1>4, <1>6, <1>8
<1>10. \A i, j \in 1..l : i < j => a[i] < a[j]
  BY <1>4 DEF Increasing
<1>11. \A i, j \in 1..l : a[i] = a[j] => i = j
  <2> TAKE i \in 1..l, j \in 1..l
  <2>1. i \in Int /\ j \in Int /\ a[i] \in F /\ a[j] \in F
    BY <1>4
  <2>2. a[i] \in Int /\ a[j] \in Int
    BY <1>3, <2>1
  <2> QED
    BY <1>10, <2>1, <2>2
<1>12. f \in Bijection(1..k, S)
  BY <1>6, <1>7, <1>8, <1>11 DEF Bijection, Injection, Surjection, IsInjective
<1>13. IsFiniteSet(1..k) /\ Cardinality(1..k) = k
  BY FS_Interval
<1>14. IsFiniteSet(S) /\ Cardinality(S) = k
  <2>1. PICK I : I = 1..k
    OBVIOUS
  <2>2. IsFiniteSet(I) /\ Cardinality(I) = k /\ f \in Bijection(I, S)
    BY <1>12, <1>13, <2>1
  <2> QED
    BY <2>2, FS_Bijection DEF ExistsBijection
<1>15. \A x \in S, y \in F \ S : x < y
  <2> TAKE x \in S, y \in F \ S
  <2>1. PICK i \in 1..k : x = a[i]
    BY <1>8
  <2>2. PICK j \in 1..l : y = a[j]
    BY <1>4
  <2>3. j \notin 1..k
    BY <1>8, <2>2
  <2>4. i < j
    BY <1>4, <1>5, <2>1, <2>3
  <2> QED
    BY <1>6, <1>10, <2>1, <2>2, <2>4
<1>16. PICK G : G = Fresh(k)
  OBVIOUS
<1>17. G \in SUBSET F /\ Cardinality(G) = k
  BY <1>1, <1>9, <1>14, <1>15, <1>16 DEF Fresh
<1> QED
  BY <1>1, <1>3, <1>16, <1>17, FS_Subset

\* A finite set of numbers has a least one.
LEMMA LeastRight ==
    ASSUME NEW S, IsFiniteSet(S), S \subseteq Int, S # {}
    PROVE  (CHOOSE i \in S : \A j \in S : i <= j) \in S
<1>1. PICK a, k : a = Ascending(S) /\ k = Cardinality(S)
  OBVIOUS
<1>2. k \in Nat /\ a \in [1..k -> S] /\ Increasing(a) /\ \A x \in S : \E i \in 1..k : a[i] = x
  BY <1>1, AscendingRight
<1>3. 1 \in 1..k
  <2>1. PICK i : i \in 1..k
    BY <1>2
  <2> QED
    BY <1>2, <2>1
<1>4. \A j \in S : a[1] <= j
  <2> TAKE j \in S
  <2>1. PICK i \in 1..k : a[i] = j
    BY <1>2
  <2>2. a[1] \in Int /\ j \in Int
    BY <1>2, <1>3
  <2>3. i = 1 \/ 1 < i
    OBVIOUS
  <2>4. 1 < i => a[1] < a[i]
    BY <1>2, <1>3 DEF Increasing
  <2> QED
    BY <2>1, <2>2, <2>3, <2>4
<1>5. a[1] \in S
  BY <1>2, <1>3
<1> QED
  BY <1>4, <1>5

\* A graph of a join and its children, or of one node, below a run.
Grown(n, run, e, head, C, m) ==
    /\ DOMAIN m = DOMAIN n \cup {head} \cup C
    /\ head \in Id \ DOMAIN n /\ C \subseteq Id \ DOMAIN n /\ head \notin C
    /\ m[head].up = None /\ m[head].boundary = run /\ m[head].depth = e
    /\ m[head].remaining = Cardinality(C)
    /\ \A c \in C : /\ m[c].up = head /\ m[c].boundary = None /\ m[c].depth = e
                    /\ m[c].remaining = 0
    /\ \A j \in DOMAIN n : m[j] = n[j]

\* The nodes of a graph.
LEMMA LeafRight ==
    ASSUME NEW i \in Id, NEW e \in 1..MaxDepth
    PROVE  /\ \A l \in GraphRoot(i, e) :
                /\ l \in Node /\ l.up = None /\ l.boundary = i /\ l.depth = e
                /\ l.remaining = 0
           /\ \A l \in GraphChild(i, e) :
                /\ l \in Node /\ l.up = i /\ l.boundary = None /\ l.depth = e
                /\ l.remaining = 0
<1>1. ASSUME NEW l \in GraphRoot(i, e)
      PROVE  /\ l \in Node /\ l.up = None /\ l.boundary = i /\ l.depth = e
             /\ l.remaining = 0
  <2>1. PICK safe \in BOOLEAN :
            l = [up |-> None, boundary |-> i, remaining |-> 0, depth |-> e,
                 recorded |-> TRUE, safe |-> safe, event |-> "none"]
    BY DEF GraphRoot, Leaf
  <2> QED
    BY <2>1 DEF Node
<1>2. ASSUME NEW l \in GraphChild(i, e)
      PROVE  /\ l \in Node /\ l.up = i /\ l.boundary = None /\ l.depth = e
             /\ l.remaining = 0
  <2>1. PICK safe \in BOOLEAN :
            l = [up |-> i, boundary |-> None, remaining |-> 0, depth |-> e,
                 recorded |-> TRUE, safe |-> safe, event |-> "none"]
    BY DEF GraphChild, Leaf
  <2> QED
    BY <2>1 DEF Node
<1> QED
  BY <1>1, <1>2

\* What tb_task_adopt adds to the table.
LEMMA AdoptedGrown ==
    ASSUME NEW n, Table(n), NEW run \in DOMAIN n, NEW e \in 1..MaxDepth,
           NEW head \in Id \ DOMAIN n, NEW C \in SUBSET (Id \ DOMAIN n), head \notin C,
           NEW m \in Adopted(n, run, e, head, C)
    PROVE  Table(m) /\ Grown(n, run, e, head, C, m)
<1>1. PICK root \in GraphRoot(run, e), leaves \in [C -> GraphChild(head, e)] :
          m = WithGraph(n, head, C, root, leaves)
  BY DEF Adopted
<1>2. IsFiniteSet(C) /\ Cardinality(C) \in Nat
  <2>1. IsFiniteSet(Id)
    BY CpuAssumption, FS_Interval DEF Id
  <2> QED
    BY <2>1, FS_Subset, FS_CardinalityType
<1>3. PICK k \in Nat : k = Cardinality(C)
  BY <1>2
<1>4. PICK x : x = [root EXCEPT !.remaining = k]
  OBVIOUS
<1>5. run \in Id /\ \A y \in DOMAIN n : y \in Id
  BY DEF Table
<1>6. /\ x \in Node /\ x.up = None /\ x.boundary = run /\ x.depth = e /\ x.remaining = k
  <2>1. /\ root \in Node /\ root.up = None /\ root.boundary = run /\ root.depth = e
    BY <1>5, LeafRight
  <2> QED
    BY <1>4, <2>1 DEF Node
<1>7. \A l \in GraphChild(head, e) :
          l \in Node /\ l.up = head /\ l.boundary = None /\ l.depth = e /\ l.remaining = 0
  BY LeafRight
<1>8. /\ DOMAIN m = DOMAIN n \cup {head} \cup C /\ m[head] = x
      /\ \A c \in C : m[c] = leaves[c]
      /\ \A j \in DOMAIN n : m[j] = n[j]
  BY <1>1, <1>3, <1>4 DEF WithGraph, Dependencies
<1>9. \A c \in C : m[c] \in GraphChild(head, e)
  BY <1>8
<1>10. m = [i \in DOMAIN m |-> m[i]]
  BY <1>1 DEF WithGraph
<1>11. \A i \in DOMAIN m : m[i] \in Node
  <2>1. \A j \in DOMAIN n : n[j] \in Node
    BY DEF Table
  <2> QED
    BY <1>6, <1>7, <1>8, <1>9, <2>1
<1>12. DOMAIN m \subseteq Id
  BY <1>5, <1>8
<1>13. Table(m)
  BY <1>10, <1>11, <1>12 DEF Table
<1>14. \A c \in C : /\ m[c].up = head /\ m[c].boundary = None /\ m[c].depth = e
                    /\ m[c].remaining = 0
  BY <1>7, <1>9
<1> QED
  BY <1>3, <1>6, <1>8, <1>13, <1>14 DEF Grown

\* The graph with an adopted graph.
LEMMA TreeGrown ==
    ASSUME NEW n, NEW e, Table(n), Tree(n, e), NEW run \in DOMAIN n, n[run].depth = e,
           \A j \in DOMAIN n : n[j].boundary # run,
           e \in Nat, NEW head, NEW C, NEW m, Grown(n, run, e, head, C, m)
    PROVE  Tree(m, e) /\ \A d : Roots(m, d) = Roots(n, d)
<1>1. /\ DOMAIN m = DOMAIN n \cup {head} \cup C
      /\ head \in Id \ DOMAIN n /\ C \subseteq Id \ DOMAIN n /\ head \notin C
      /\ m[head].up = None /\ m[head].boundary = run /\ m[head].depth = e
      /\ m[head].remaining = Cardinality(C)
      /\ \A c \in C : /\ m[c].up = head /\ m[c].boundary = None /\ m[c].depth = e
                      /\ m[c].remaining = 0
      /\ \A j \in DOMAIN n : m[j] = n[j]
  BY DEF Grown
<1>2. head # None /\ run # None /\ None \notin C /\ None \notin DOMAIN n /\ e <= e
  BY <1>1, NoneIsNoRun DEF Table
<1>3. \A i \in DOMAIN n :
          /\ n[i].up \notin C \cup {head} /\ n[i].boundary \notin C \cup {head}
  BY <1>1, <1>2 DEF Tree, Linked, Parent
<1>4. Linked(m, e)
  <2> SUFFICES ASSUME NEW i \in DOMAIN m
               PROVE  /\ m[i].depth <= e
                      /\ m[i].up = None \/ m[i].boundary = None
                      /\ Parent(m, i, m[i].up) /\ Parent(m, i, m[i].boundary)
    BY DEF Linked
  <2>1. CASE i \in DOMAIN n
    BY <1>1, <2>1 DEF Tree, Linked, Parent
  <2>2. CASE i = head
    BY <1>1, <1>2, <2>2 DEF Parent
  <2>3. CASE i \in C
    BY <1>1, <1>2, <2>3 DEF Parent
  <2> QED
    BY <1>1, <2>1, <2>2, <2>3
<1>5. Exact(m)
  <2> SUFFICES ASSUME NEW i \in DOMAIN m PROVE m[i].remaining = Cardinality(Children(m, i))
    BY DEF Exact
  <2>1. CASE i \in DOMAIN n
    <3>1. Children(m, i) = Children(n, i)
      BY <1>1, <1>2, <2>1, NoneIsNoRun DEF Children
    <3> QED
      BY <1>1, <2>1, <3>1 DEF Tree, Exact
  <2>2. CASE i = head
    <3>1. Children(m, i) = C
      BY <1>1, <1>2, <1>3, <2>2 DEF Children
    <3> QED
      BY <1>1, <2>2, <3>1
  <2>3. CASE i \in C
    <3>1. Children(m, i) = {}
      BY <1>1, <1>2, <1>3, <2>3 DEF Children
    <3> QED
      BY <1>1, <2>3, <3>1, FS_EmptySet
  <2> QED
    BY <1>1, <2>1, <2>2, <2>3
<1>6. OneGraph(m)
  BY <1>1, <1>2 DEF Tree, OneGraph
<1>7. Founded(m)
  <2> SUFFICES ASSUME NEW S \in SUBSET DOMAIN m, S # {}
               PROVE  \E k \in S : \A j \in S : ~ChildOf(m, j, k)
    BY DEF Founded
  <2>1. ASSUME NEW c \in S, c \in C PROVE \A j \in S : ~ChildOf(m, j, c)
    BY <1>1, <1>2, <1>3, <2>1 DEF ChildOf
  <2>2. ASSUME head \in S, S \cap C = {} PROVE \A j \in S : ~ChildOf(m, j, head)
    BY <1>1, <1>2, <1>3, <2>2 DEF ChildOf
  <2>3. CASE S \subseteq DOMAIN n
    <3>1. PICK k \in S : \A j \in S : ~ChildOf(n, j, k)
      BY <2>3 DEF Tree, Founded
    <3>2. \A j \in S : ~ChildOf(m, j, k)
      BY <1>1, <2>3, <3>1 DEF ChildOf
    <3> QED
      BY <3>2
  <2>4. CASE ~(S \subseteq DOMAIN n)
    BY <1>1, <2>1, <2>2, <2>4
  <2> QED
    BY <2>3, <2>4
<1>8. \A d : Roots(m, d) = Roots(n, d)
  BY <1>1, <1>2 DEF Roots
<1> QED
  BY <1>4, <1>5, <1>6, <1>7, <1>8 DEF Tree

\* The root of a new execution.
Planted(n, i, e, m) ==
    /\ DOMAIN m = DOMAIN n \cup {i} /\ i \in Id \ DOMAIN n
    /\ m[i].up = None /\ m[i].boundary = None /\ m[i].depth = e /\ m[i].remaining = 0
    /\ \A j \in DOMAIN n : m[j] = n[j]

\* The graph with the first run of a new execution.
LEMMA TreePlanted ==
    ASSUME NEW n, NEW e \in Nat, Table(n), Tree(n, e), Table(n),
           NEW i, NEW m, Planted(n, i, e + 1, m)
    PROVE  /\ Tree(m, e + 1) /\ Roots(m, e + 1) = {i}
           /\ \A d : d # e + 1 => Roots(m, d) = Roots(n, d)
<1>0. PICK f \in Nat : f = e + 1
  OBVIOUS
<1>1. /\ DOMAIN m = DOMAIN n \cup {i} /\ i \in Id \ DOMAIN n /\ i # None
      /\ m[i].up = None /\ m[i].boundary = None /\ m[i].depth = f /\ m[i].remaining = 0
      /\ \A j \in DOMAIN n : m[j] = n[j]
  BY <1>0, NoneIsNoRun DEF Planted
<1>2. \A j \in DOMAIN n : n[j].up # i /\ n[j].boundary # i
  BY <1>1 DEF Tree, Linked, Parent
<1>3. \A j \in DOMAIN n : n[j].depth \in Nat /\ n[j].depth <= e
  <2>1. \A j \in DOMAIN n : n[j] \in Node
    BY DEF Table
  <2>2. \A j \in DOMAIN n : n[j].depth \in 1..MaxDepth
    BY <2>1 DEF Node
  <2> QED
    BY <2>2, CpuAssumption DEF Tree, Linked
<1>4. \A j \in DOMAIN n : n[j].depth <= f /\ n[j].depth # f /\ f <= f
  BY <1>0, <1>3
<1>5. Linked(m, f)
  BY <1>1, <1>4 DEF Tree, Linked, Parent
<1>6. Exact(m)
  <2> SUFFICES ASSUME NEW j \in DOMAIN m PROVE m[j].remaining = Cardinality(Children(m, j))
    BY DEF Exact
  <2>1. CASE j = i
    <3>1. Children(m, j) = {}
      BY <1>1, <1>2, <2>1 DEF Children
    <3> QED
      BY <1>1, <2>1, <3>1, FS_EmptySet
  <2>2. CASE j \in DOMAIN n
    <3>1. j # None
      BY <2>2, NoneIsNoRun DEF Table
    <3>2. Children(m, j) = Children(n, j)
      BY <1>1, <2>2, <3>1 DEF Children
    <3> QED
      BY <1>1, <2>2, <3>2 DEF Tree, Exact
  <2> QED
    BY <1>1, <2>1, <2>2
<1>7. OneGraph(m)
  BY <1>1, <1>2 DEF Tree, OneGraph
<1>8. Founded(m)
  <2> SUFFICES ASSUME NEW S \in SUBSET DOMAIN m, S # {}
               PROVE  \E k \in S : \A j \in S : ~ChildOf(m, j, k)
    BY DEF Founded
  <2>1. CASE i \in S
    <3>1. \A j \in S : ~ChildOf(m, j, i)
      BY <1>1, <1>2 DEF ChildOf
    <3> QED
      BY <2>1, <3>1
  <2>2. CASE i \notin S
    <3>1. S \subseteq DOMAIN n
      BY <1>1, <2>2
    <3>2. PICK k \in S : \A j \in S : ~ChildOf(n, j, k)
      BY <3>1 DEF Tree, Founded
    <3>3. \A j \in S : ~ChildOf(m, j, k)
      BY <1>1, <3>1, <3>2 DEF ChildOf
    <3> QED
      BY <3>3
  <2> QED
    BY <2>1, <2>2
<1>9. Roots(m, f) = {i}
  BY <1>1, <1>4 DEF Roots
<1>10. \A d : d # f => Roots(m, d) = Roots(n, d)
  BY <1>1 DEF Roots
<1> QED
  BY <1>0, <1>5, <1>6, <1>7, <1>8, <1>9, <1>10 DEF Tree

-----------------------------------------------------------------------------
(***************************************************************************)
(* A run is accepted: it is loose, then delivered, expanded or put back.   *)
(***************************************************************************)
Loose(p, run) == run \in Id /\ \A i \in Id : p[i] = "loose" <=> i = run

\* The runs in l are pushed on the ready queue of an execution.
Pushed(s, d, l, t) ==
    t \in Seq(Context) /\ Len(t) = Len(s) /\ ReadyMore(s, d, l, t) /\ SameHands(s, t)

\* A run that is being accepted is alive, complete and nobody's boundary.
LEMMA LooseRun ==
    ASSUME NEW n, NEW s, NEW q, NEW c, NEW h, NEW p, Books(n, s, q, c, h, p),
           NEW run, Loose(p, run)
    PROVE  /\ run \in DOMAIN n /\ n[run].depth = Len(s) /\ n[run].remaining = 0
           /\ \A j \in DOMAIN n : n[j].boundary # run
<1>1. run \in Id /\ p[run] = "loose"
  BY DEF Loose
<1>2. run \in DOMAIN n /\ n[run].remaining = 0
  BY <1>1 DEF Books, Placed, Alive
<1>3. n[run].depth = Len(s)
  BY <1>1 DEF Books, Placed, AtTop
<1>4. \A j \in DOMAIN n : n[j].boundary # run
  BY <1>1 DEF Books, Placed, BoundAt
<1> QED
  BY <1>2, <1>3, <1>4

\* The run is put back on the ready queue.
LEMMA BooksPutBack ==
    ASSUME NEW n, NEW s, NEW q, NEW c, NEW h, NEW p, Books(n, s, q, c, h, p),
           NEW run, Loose(p, run), Len(s) \in DOMAIN s,
           NEW m, Same(n, m), Table(m),
           NEW t, Pushed(s, Len(s), <<run>>, t), SameDone(s, t)
    PROVE  \E u : Books(m, t, q, c, h, u) /\ NoneLoose(u)
<1>1. /\ run \in DOMAIN n /\ n[run].depth = Len(s) /\ run \in Id /\ p[run] = "loose"
  BY LooseRun DEF Loose
<1>2. /\ Table(n) /\ Alive(n, p) /\ p \in [Id -> Kinds] /\ ReadyAt(n, s, p) /\ HandAt(n, s, p)
      /\ PoolAt(q, c, h, p) /\ BoundAt(n, p) /\ AtTop(n, p, Len(s))
      /\ Tree(n, Len(s)) /\ Rooted(n, s)
  BY DEF Books, Placed, Alive
<1>3. PICK u : Moved(p, run, "ready", u)
  BY <1>1, <1>2, MovedIs DEF Kinds
<1>4. u[run] = "ready" /\ \A j \in Id : j # run => u[j] = p[j]
  BY <1>3 DEF Moved
<1>5. Alive(m, u) /\ BoundAt(m, u)
  <2>1. p[run] \in Moving /\ "ready" \in Moving
    BY <1>1 DEF Moving
  <2> QED
    BY <1>1, <1>2, <1>3, <2>1, AliveMoves
<1>6. \A i \in DOMAIN n : m[i].depth = n[i].depth
  BY DEF Same
<1>7. \A i \in Id : p[i] # "free" => i \in DOMAIN n
  BY <1>2 DEF Alive
<1>8. ReadyAt(m, t, u)
  <2>1. Starts(n, p, {run}, Len(s), m, u)
    BY <1>1, <1>4, <1>6, <1>7 DEF Starts
  <2>2. Lists(<<run>>, {run}) /\ {run} \in SUBSET Id
    BY <1>1, ListsFew
  <2>3. ReadyMore(s, Len(s), <<run>>, t)
    BY DEF Pushed
  <2> QED
    BY <1>2, <2>1, <2>2, <2>3, ReadyPushed
<1>9. HandAt(m, t, u)
  <2>1. SameOf("hand", n, p, m, u)
    BY <1>1, <1>4, <1>6, <1>7 DEF SameOf
  <2> QED
    BY <1>2, <2>1, HandStays DEF Pushed
<1>10. PoolAt(q, c, h, u)
  <2>1. SamePool(p, u)
    BY <1>1, <1>4 DEF SamePool
  <2> QED
    BY <1>2, <2>1, PoolStays
<1>11. AtTop(m, u, Len(t)) /\ t \in Seq(Context)
  BY <1>1, <1>2, <1>3, TopMoves DEF Pushed
<1>12. Tree(m, Len(t)) /\ Rooted(m, t)
  BY <1>2, TreeSame, RootedSame DEF Pushed
<1>13. NoneLoose(u)
  BY <1>4 DEF NoneLoose, Loose
<1> QED
  BY <1>5, <1>8, <1>9, <1>10, <1>11, <1>12, <1>13 DEF Books, Placed

\* The result of the run is delivered, and wakes the runs W that waited for it.
Wakes(n, run, i) == (n[run].up = i /\ n[i].remaining = 1) \/ n[run].boundary = i

\* A result is delivered: the run leaves and whoever waited for it last is ready.
LEMMA BooksDeliver ==
    ASSUME NEW n, NEW s, NEW q, NEW c, NEW h, NEW p, Books(n, s, q, c, h, p),
           NEW run, Loose(p, run), Len(s) \in DOMAIN s,
           NEW m, Removed(n, run, m), Table(m),
           NEW W \in SUBSET Id, \A i \in Id : i \in W <=> Wakes(n, run, i),
           NEW l, Lists(l, W), NEW t, Pushed(s, Len(s), l, t), Rooted(m, t)
    PROVE  \E u : Books(m, t, q, c, h, u) /\ NoneLoose(u)
<1>1. /\ run \in DOMAIN n /\ n[run].depth = Len(s) /\ run \in Id /\ p[run] = "loose"
      /\ n[run].remaining = 0 /\ \A j \in DOMAIN n : n[j].boundary # run
  BY LooseRun DEF Loose
<1>2. /\ Table(n) /\ Alive(n, p) /\ p \in [Id -> Kinds] /\ ReadyAt(n, s, p) /\ HandAt(n, s, p)
      /\ PoolAt(q, c, h, p) /\ BoundAt(n, p) /\ AtTop(n, p, Len(s))
      /\ Tree(n, Len(s)) /\ Rooted(n, s)
  BY DEF Books, Placed, Alive
<1>3. PICK u : u = [i \in Id |-> IF i = run THEN "free" ELSE IF i \in W THEN "ready" ELSE p[i]]
  OBVIOUS
<1>4. run \notin W
  <2>1. n[run].up # run
    <3>1. IsFiniteSet(Children(n, run)) /\ Cardinality(Children(n, run)) = 0
      BY <1>1, <1>2, TableFinite DEF Tree, Exact
    <3>2. Children(n, run) = {}
      BY <3>1, FS_EmptySet
    <3> QED
      BY <1>1, <3>2 DEF Children
  <2> QED
    BY <1>1, <2>1 DEF Wakes
<1>5. /\ u[run] = "free" /\ \A i \in W : u[i] = "ready"
      /\ \A i \in Id : i # run /\ i \notin W => u[i] = p[i]
  BY <1>1, <1>3, <1>4
<1>6. u \in [Id -> Kinds]
  <2>1. \A i \in Id : u[i] \in Kinds
    BY <1>2, <1>3 DEF Kinds
  <2> QED
    BY <1>3, <2>1
<1>7. /\ DOMAIN m = DOMAIN n \ {run}
      /\ \A j \in DOMAIN m :
          /\ m[j].up = n[j].up /\ m[j].boundary = n[j].boundary /\ m[j].depth = n[j].depth
          /\ n[run].up # j => m[j].remaining = n[j].remaining
          /\ n[run].up = j => m[j].remaining = n[j].remaining - 1
  BY DEF Removed
<1>8. ASSUME NEW i \in DOMAIN n, n[run].up = i
      PROVE  n[i].remaining \in Nat \ {0} /\ p[i] = "join" /\ n[i].depth = Len(s)
  <2>1. run \in Children(n, i) /\ IsFiniteSet(Children(n, i)) /\ Cardinality(Children(n, i)) \in Nat
    BY <1>1, <1>2, <1>8, TableFinite DEF Children
  <2>2. Cardinality(Children(n, i)) # 0
    BY <2>1, FS_EmptySet
  <2>3. n[i].remaining = Cardinality(Children(n, i))
    BY <1>2 DEF Tree, Exact
  <2>4. n[i].depth = n[run].depth
    BY <1>1, <1>2, <1>8, NoneIsNoRun DEF Tree, Linked, Parent, Table
  <2> QED
    BY <1>1, <1>2, <2>1, <2>2, <2>3, <2>4 DEF Alive
<1>9. ASSUME NEW i \in Id, n[run].boundary = i
      PROVE  i \in DOMAIN n /\ p[i] = "boundary" /\ n[i].depth = Len(s) /\ n[run].up # i
  <2>1. p[i] = "boundary"
    BY <1>1, <1>2, <1>9 DEF BoundAt
  <2>2. i \in DOMAIN n /\ i # None
    BY <1>2, <2>1, NoneIsNoRun DEF Alive
  <2>3. n[i].depth = n[run].depth /\ n[run].up = None
    BY <1>1, <1>2, <1>9, <2>2 DEF Tree, Linked, Parent
  <2> QED
    BY <1>1, <2>1, <2>2, <2>3
<1>10. \A i \in W : i \in DOMAIN n /\ p[i] \in {"join", "boundary"} /\ n[i].depth = Len(s)
  <2> TAKE i \in W
  <2>1. Wakes(n, run, i) /\ i \in Id /\ i # None
    BY NoneIsNoRun
  <2>2. CASE n[run].up = i
    <3>1. i \in DOMAIN n
      BY <1>1, <1>2, <2>1, <2>2 DEF Tree, Linked, Parent
    <3> QED
      BY <1>8, <2>2, <3>1
  <2>3. CASE n[run].boundary = i
    BY <1>9, <2>1, <2>3
  <2> QED
    BY <2>1, <2>2, <2>3 DEF Wakes
<1>11. Alive(m, u)
  <2>1. \A i \in Id : u[i] = "free" <=> i \notin DOMAIN m
    BY <1>1, <1>2, <1>4, <1>5, <1>7, <1>10 DEF Alive
  <2>2. ASSUME NEW i \in DOMAIN m PROVE u[i] = "join" <=> m[i].remaining # 0
    <3>1. i \in DOMAIN n /\ i \in Id /\ i # run
      BY <1>2, <1>7 DEF Table
    <3>2. p[i] = "join" <=> n[i].remaining # 0
      BY <1>2, <3>1 DEF Alive
    <3>3. CASE n[run].up = i
      <4>1. n[i].remaining \in Nat \ {0} /\ p[i] = "join" /\ m[i].remaining = n[i].remaining - 1
        BY <1>7, <1>8, <3>1, <3>3
      <4>2. CASE n[i].remaining = 1
        <5>1. i \in W /\ m[i].remaining = 0
          BY <3>1, <3>3, <4>1, <4>2 DEF Wakes
        <5> QED
          BY <1>5, <5>1
      <4>3. CASE n[i].remaining # 1
        <5>1. i \notin W
          BY <1>9, <3>1, <3>3, <4>3 DEF Wakes
        <5>2. m[i].remaining # 0
          BY <4>1, <4>3
        <5> QED
          BY <1>5, <3>1, <4>1, <5>1, <5>2
      <4> QED
        BY <4>2, <4>3
    <3>4. CASE n[run].up # i
      <4>1. m[i].remaining = n[i].remaining
        BY <1>7, <3>4
      <4>2. CASE i \in W
        <5>1. p[i] = "boundary"
          BY <1>9, <3>1, <3>4, <4>2 DEF Wakes
        <5> QED
          BY <1>5, <3>2, <4>1, <4>2, <5>1
      <4>3. CASE i \notin W
        BY <1>5, <3>1, <3>2, <4>1, <4>3
      <4> QED
        BY <4>2, <4>3
    <3> QED
      BY <3>3, <3>4
  <2> QED
    BY <1>6, <2>1, <2>2 DEF Alive
<1>12. \A i \in Id : p[i] # "free" /\ i # run => i \in DOMAIN m /\ m[i].depth = n[i].depth
  BY <1>2, <1>7 DEF Alive
<1>13. ReadyAt(m, t, u)
  <2>1. Starts(n, p, W, Len(s), m, u)
    BY <1>1, <1>4, <1>5, <1>10, <1>12 DEF Starts
  <2>2. ReadyMore(s, Len(s), l, t)
    BY DEF Pushed
  <2> QED
    BY <1>2, <2>1, <2>2, ReadyPushed
<1>14. HandAt(m, t, u)
  <2>1. SameOf("hand", n, p, m, u)
    BY <1>1, <1>5, <1>10, <1>12 DEF SameOf
  <2> QED
    BY <1>2, <2>1, HandStays DEF Pushed
<1>15. PoolAt(q, c, h, u)
  <2>1. SamePool(p, u)
    BY <1>1, <1>5, <1>10 DEF SamePool
  <2> QED
    BY <1>2, <2>1, PoolStays
<1>16. BoundAt(m, u)
  <2> SUFFICES ASSUME NEW i \in Id
               PROVE  u[i] = "boundary" <=> \E j \in DOMAIN m : m[j].boundary = i
    BY DEF BoundAt
  <2>1. p[i] = "boundary" <=> \E j \in DOMAIN n : n[j].boundary = i
    BY <1>2 DEF BoundAt
  <2>2. CASE i = run
    BY <1>1, <1>5, <1>7, <2>2
  <2>3. CASE n[run].boundary = i
    <3>1. i \in W
      BY <2>3 DEF Wakes
    <3>2. \A j \in DOMAIN n : n[j].boundary = i => j = run
      BY <1>1, <1>2, <2>3, NoneIsNoRun DEF Tree, OneGraph
    <3> QED
      BY <1>5, <1>7, <3>1, <3>2
  <2>4. CASE i # run /\ n[run].boundary # i
    <3>1. (\E j \in DOMAIN m : m[j].boundary = i) <=> (\E j \in DOMAIN n : n[j].boundary = i)
      BY <1>7, <2>4
    <3>2. CASE i \in W
      <4>1. n[run].up = i
        BY <2>4, <3>2 DEF Wakes
      <4>2. p[i] = "join"
        BY <1>8, <1>10, <3>2, <4>1
      <4> QED
        BY <1>5, <2>1, <3>1, <3>2, <4>2
    <3>3. CASE i \notin W
      BY <1>5, <2>1, <2>4, <3>1, <3>3
    <3> QED
      BY <3>2, <3>3
  <2> QED
    BY <2>2, <2>3, <2>4
<1>17. AtTop(m, u, Len(t)) /\ t \in Seq(Context) /\ Len(t) = Len(s)
  <2>1. \A i \in Id : u[i] \in {"queue", "done", "worker", "loose"} => i # run /\ u[i] = p[i]
    BY <1>5
  <2> QED
    BY <1>2, <1>12, <2>1 DEF AtTop, Pushed
<1>18. Tree(m, Len(t))
  BY <1>1, <1>2, <1>17, TreeLess
<1>19. NoneLoose(u)
  BY <1>5 DEF NoneLoose, Loose
<1> QED
  BY <1>11, <1>13, <1>14, <1>15, <1>16, <1>17, <1>18, <1>19 DEF Books, Placed

\* The run becomes the boundary of a graph, of which the runs W can start.
LEMMA BooksAdopt ==
    ASSUME NEW n, NEW s, NEW q, NEW c, NEW h, NEW p, Books(n, s, q, c, h, p),
           NEW run, Loose(p, run), Len(s) \in DOMAIN s,
           NEW m, NEW head, NEW C, Grown(n, run, Len(s), head, C, m), Table(m), IsFiniteSet(C),
           NEW W, W = (IF C = {} THEN {head} ELSE C),
           NEW l, Lists(l, W), NEW t, Pushed(s, Len(s), l, t), SameDone(s, t)
    PROVE  \E u : Books(m, t, q, c, h, u) /\ NoneLoose(u)
<1>0. PICK e : e = Len(s)
  OBVIOUS
<1>1. /\ run \in DOMAIN n /\ n[run].depth = e /\ run \in Id /\ p[run] = "loose"
      /\ n[run].remaining = 0 /\ \A j \in DOMAIN n : n[j].boundary # run
  BY <1>0, LooseRun DEF Loose
<1>2. /\ Table(n) /\ Alive(n, p) /\ p \in [Id -> Kinds] /\ ReadyAt(n, s, p) /\ HandAt(n, s, p)
      /\ PoolAt(q, c, h, p) /\ BoundAt(n, p) /\ AtTop(n, p, e)
      /\ Tree(n, e) /\ Rooted(n, s)
  BY <1>0 DEF Books, Placed, Alive
<1>3. /\ DOMAIN m = DOMAIN n \cup {head} \cup C
      /\ head \in Id \ DOMAIN n /\ C \subseteq Id \ DOMAIN n /\ head \notin C
      /\ m[head].up = None /\ m[head].boundary = run /\ m[head].depth = e
      /\ m[head].remaining = Cardinality(C)
      /\ \A k \in C : /\ m[k].up = head /\ m[k].boundary = None /\ m[k].depth = e
                      /\ m[k].remaining = 0
      /\ \A j \in DOMAIN n : m[j] = n[j]
  BY <1>0 DEF Grown
<1>4. PICK u : u = [i \in Id |-> IF i = run THEN "boundary"
                                 ELSE IF i = head THEN (IF C = {} THEN "ready" ELSE "join")
                                 ELSE IF i \in C THEN "ready" ELSE p[i]]
  OBVIOUS
<1>5. /\ u[run] = "boundary"
      /\ C = {} => u[head] = "ready"
      /\ C # {} => u[head] = "join"
      /\ \A i \in C : u[i] = "ready"
      /\ \A i \in Id : i # run /\ i # head /\ i \notin C => u[i] = p[i]
  BY <1>1, <1>3, <1>4
<1>6. u \in [Id -> Kinds]
  <2>1. \A i \in Id : u[i] \in Kinds
    BY <1>2, <1>4 DEF Kinds
  <2> QED
    BY <1>4, <2>1
<1>7. \A i \in Id : p[i] = "free" <=> i \notin DOMAIN n
  BY <1>2 DEF Alive
<1>8. Cardinality(C) = 0 <=> C = {}
  BY FS_EmptySet
<1>9. Alive(m, u)
  <2>1. \A i \in Id : u[i] = "free" <=> i \notin DOMAIN m
    BY <1>1, <1>3, <1>5, <1>7
  <2>2. ASSUME NEW i \in DOMAIN m PROVE u[i] = "join" <=> m[i].remaining # 0
    <3>1. CASE i \in DOMAIN n /\ i # run
      <4>1. u[i] = p[i] /\ m[i].remaining = n[i].remaining
        BY <1>2, <1>3, <1>5, <3>1 DEF Table
      <4> QED
        BY <1>2, <3>1, <4>1 DEF Alive
    <3>2. CASE i = run
      BY <1>1, <1>3, <1>5, <3>2
    <3>3. CASE i = head
      BY <1>3, <1>5, <1>8, <3>3
    <3>4. CASE i \in C
      BY <1>3, <1>5, <3>4
    <3> QED
      BY <1>3, <3>1, <3>2, <3>3, <3>4
  <2> QED
    BY <1>6, <2>1, <2>2 DEF Alive
<1>10. \A i \in Id : p[i] # "free" => i \in DOMAIN m /\ m[i].depth = n[i].depth
  BY <1>3, <1>7
<1>11. /\ W \in SUBSET Id /\ W \cap DOMAIN n = {} /\ \A i \in W : m[i].depth = e
       /\ \A i \in Id : u[i] = "ready" <=> i \in W \/ p[i] = "ready"
  <2>1. CASE C = {}
    BY <1>1, <1>3, <1>5, <1>7, <2>1
  <2>2. CASE C # {}
    BY <1>1, <1>3, <1>5, <1>7, <2>2
  <2> QED
    BY <2>1, <2>2
<1>12. ReadyAt(m, t, u)
  <2>1. Starts(n, p, W, e, m, u)
    BY <1>7, <1>10, <1>11 DEF Starts
  <2>2. ReadyMore(s, e, l, t)
    BY <1>0 DEF Pushed
  <2> QED
    BY <1>0, <1>2, <1>11, <2>1, <2>2, ReadyPushed
<1>13. \A i \in Id : \A kind \in {"hand", "queue", "done", "worker"} : u[i] = kind <=> p[i] = kind
  BY <1>1, <1>3, <1>5, <1>7
<1>14. HandAt(m, t, u)
  <2>1. SameOf("hand", n, p, m, u)
    BY <1>10, <1>13 DEF SameOf
  <2> QED
    BY <1>2, <2>1, HandStays DEF Pushed
<1>15. PoolAt(q, c, h, u)
  <2>1. SamePool(p, u)
    BY <1>13 DEF SamePool
  <2> QED
    BY <1>2, <2>1, PoolStays
<1>16. BoundAt(m, u)
  <2> SUFFICES ASSUME NEW i \in Id
               PROVE  u[i] = "boundary" <=> \E j \in DOMAIN m : m[j].boundary = i
    BY DEF BoundAt
  <2>1. p[i] = "boundary" <=> \E j \in DOMAIN n : n[j].boundary = i
    BY <1>2 DEF BoundAt
  <2>2. CASE i = run
    BY <1>3, <1>5, <2>2
  <2>3. CASE i # run
    <3>1. (\E j \in DOMAIN m : m[j].boundary = i) <=> (\E j \in DOMAIN n : n[j].boundary = i)
      BY <1>3, <2>3, NoneIsNoRun
    <3>2. u[i] = "boundary" <=> p[i] = "boundary"
      BY <1>3, <1>5, <1>7, <2>3
    <3> QED
      BY <2>1, <3>1, <3>2
  <2> QED
    BY <2>2, <2>3
<1>17. AtTop(m, u, e) /\ t \in Seq(Context) /\ Len(t) = e
  <2>1. \A i \in Id : u[i] \in {"queue", "done", "worker", "loose"} => u[i] = p[i]
    BY <1>5
  <2> QED
    BY <1>0, <1>2, <1>10, <2>1 DEF AtTop, Pushed
<1>18. e \in Nat
  <2>1. s \in Seq(Context)
    BY DEF Books
  <2> QED
    BY <1>0, <2>1, LenProperties
<1>19. Tree(m, e) /\ \A d : Roots(m, d) = Roots(n, d)
  BY <1>0, <1>1, <1>2, <1>18, TreeGrown
<1>20. Rooted(m, t)
  BY <1>2, <1>19 DEF Rooted, SameDone
<1>21. NoneLoose(u)
  BY <1>5 DEF NoneLoose, Loose
<1> QED
  BY <1>9, <1>12, <1>14, <1>15, <1>16, <1>17, <1>19, <1>20, <1>21 DEF Books, Placed

-----------------------------------------------------------------------------
(***************************************************************************)
(* Runs go from hand to hand: out of the completed queue, or out of the    *)
(* coordinator's hand, before they are accepted, and into the pool.        *)
(***************************************************************************)
LEMMA BooksMoved ==
    ASSUME NEW n, NEW s, NEW q, NEW c, NEW h, NEW p, Books(n, s, q, c, h, p),
           NEW i \in DOMAIN n, p[i] \in Moving, NEW kind \in Moving, n[i].depth = Len(s),
           NEW u, Moved(p, i, kind, u), NEW m, Same(n, m), Table(m),
           NEW r, NEW d, NEW g, PoolAt(r, d, g, u),
           NEW t \in Seq(Context), Len(t) = Len(s), SameDone(s, t),
           ReadyAt(m, t, u), HandAt(m, t, u)
    PROVE  Books(m, t, r, d, g, u)
<1>1. /\ Table(n) /\ Alive(n, p) /\ BoundAt(n, p) /\ AtTop(n, p, Len(s))
      /\ Tree(n, Len(s)) /\ Rooted(n, s)
  BY DEF Books, Placed
<1>2. Alive(m, u) /\ BoundAt(m, u)
  BY <1>1, AliveMoves
<1>3. AtTop(m, u, Len(t))
  BY <1>1, TopMoves
<1>4. Tree(m, Len(t)) /\ Rooted(m, t)
  BY <1>1, TreeSame, RootedSame
<1> QED
  BY <1>2, <1>3, <1>4 DEF Books, Placed

\* A moved run that is neither ready nor in a hand, before and after.
LEMMA MovedAside ==
    ASSUME NEW n, NEW s, NEW p, Table(n), Alive(n, p), ReadyAt(n, s, p), HandAt(n, s, p),
           NEW i \in DOMAIN n, p[i] \notin {"ready", "hand"}, NEW kind, kind \notin {"ready", "hand"},
           NEW u, Moved(p, i, kind, u), NEW m, Same(n, m)
    PROVE  ReadyAt(m, s, u) /\ HandAt(m, s, u)
<1>1. /\ u[i] = kind /\ \A j \in Id : j # i => u[j] = p[j]
      /\ \A j \in DOMAIN n : m[j].depth = n[j].depth
  BY DEF Moved, Same
<1>2. \A j \in Id : p[j] # "free" => j \in DOMAIN n
  BY DEF Alive
<1>3. SameOf("ready", n, p, m, u) /\ SameOf("hand", n, p, m, u)
  BY <1>1, <1>2 DEF SameOf
<1>4. SameReady(s, s) /\ SameHands(s, s)
  BY DEF SameReady, SameHands
<1> QED
  BY <1>3, <1>4, ReadyStays, HandStays

\* Nothing changes.
LEMMA SameItself ==
    /\ \A n : Same(n, n)
    /\ \A s : SameDone(s, s)
  BY DEF Same, SameDone

\* The coordinator takes a run out of the completed queue.
LEMMA BooksDelivers ==
    ASSUME NEW n, NEW s, NEW q, NEW c, NEW h, NEW p, Books(n, s, q, c, h, p), NoneLoose(p),
           NEW i, First(c, i)
    PROVE  \E u : Books(n, s, q, Tail(c), h, u) /\ Loose(u, i)
<1>1. /\ Table(n) /\ Alive(n, p) /\ p \in [Id -> Kinds] /\ ReadyAt(n, s, p) /\ HandAt(n, s, p)
      /\ PoolAt(q, c, h, p) /\ AtTop(n, p, Len(s)) /\ s \in Seq(Context)
  BY DEF Books, Placed, Alive
<1>2. i \in Of(p, "done")
  BY <1>1, ListsTail DEF PoolAt, First
<1>3. i \in Id /\ p[i] = "done"
  BY <1>2 DEF Of
<1>4. i \in DOMAIN n /\ n[i].depth = Len(s)
  BY <1>1, <1>3 DEF Alive, AtTop
<1>5. PICK u : Moved(p, i, "loose", u)
  BY <1>1, <1>3, MovedIs DEF Kinds
<1>6. PoolAt(q, Tail(c), h, u)
  BY <1>1, <1>5, PoolDelivers
<1>7. ReadyAt(n, s, u) /\ HandAt(n, s, u)
  BY <1>1, <1>3, <1>4, <1>5, MovedAside, SameItself
<1>8. p[i] \in Moving /\ "loose" \in Moving
  BY <1>3 DEF Moving
<1>9. Books(n, s, q, Tail(c), h, u)
  BY <1>1, <1>4, <1>5, <1>6, <1>7, <1>8, BooksMoved, SameItself
<1>10. Loose(u, i)
  BY <1>3, <1>5 DEF Loose, Moved, NoneLoose
<1> QED
  BY <1>9, <1>10

\* The coordinator lets its run go.
LEMMA BooksLetGo ==
    ASSUME NEW n, NEW s, NEW q, NEW c, NEW h, NEW p, Books(n, s, q, c, h, p), NoneLoose(p),
           Len(s) \in DOMAIN s, NEW i \in Id, i = s[Len(s)].hand,
           NEW t \in Seq(Context), Len(t) = Len(s), HandIs(s, Len(s), None, t),
           SameReady(s, t), SameDone(s, t)
    PROVE  \E u : Books(n, t, q, c, h, u) /\ Loose(u, i)
<1>1. /\ Table(n) /\ Alive(n, p) /\ p \in [Id -> Kinds] /\ ReadyAt(n, s, p) /\ HandAt(n, s, p)
      /\ PoolAt(q, c, h, p) /\ s \in Seq(Context)
  BY DEF Books, Placed, Alive
<1>2. p[i] = "hand" /\ n[i].depth = Len(s)
  BY <1>1 DEF HandAt
<1>3. i \in DOMAIN n
  BY <1>1, <1>2 DEF Alive
<1>4. PICK u : Moved(p, i, "loose", u)
  BY <1>1, MovedIs DEF Kinds
<1>5. u[i] = "loose" /\ \A j \in Id : j # i => u[j] = p[j]
  BY <1>4 DEF Moved
<1>6. HandAt(n, t, u)
  BY <1>1, <1>4, HandEmptied
<1>7. ReadyAt(n, t, u)
  <2>1. SameOf("ready", n, p, n, u)
    BY <1>2, <1>5 DEF SameOf
  <2> QED
    BY <1>1, <2>1, ReadyStays
<1>8. PoolAt(q, c, h, u)
  <2>1. SamePool(p, u)
    BY <1>2, <1>5 DEF SamePool
  <2> QED
    BY <1>1, <2>1, PoolStays
<1>9. p[i] \in Moving /\ "loose" \in Moving
  BY <1>2 DEF Moving
<1>10. Books(n, t, q, c, h, u)
  BY <1>1, <1>2, <1>3, <1>4, <1>6, <1>7, <1>8, <1>9, BooksMoved, SameItself
<1>11. Loose(u, i)
  BY <1>5 DEF Loose, NoneLoose
<1> QED
  BY <1>10, <1>11

\* The coordinator takes the first ready run: for the pool, or in its hand.
LEMMA BooksSubmit ==
    ASSUME NEW n, NEW s, NEW q, NEW c, NEW h, NEW p, Books(n, s, q, c, h, p), NoneLoose(p),
           Len(s) \in DOMAIN s, s[Len(s)].ready # <<>>, NEW i, i = Head(s[Len(s)].ready),
           NEW t \in Seq(Context), Len(t) = Len(s), ReadyLess(s, Len(s), t),
           SameHands(s, t), SameDone(s, t)
    PROVE  \E u : Books(n, t, Append(q, i), c, h, u) /\ NoneLoose(u)
<1>1. /\ Table(n) /\ Alive(n, p) /\ p \in [Id -> Kinds] /\ ReadyAt(n, s, p) /\ HandAt(n, s, p)
      /\ PoolAt(q, c, h, p) /\ s \in Seq(Context)
  BY DEF Books, Placed, Alive
<1>2. i \in Id /\ p[i] = "ready" /\ n[i].depth = Len(s)
  BY <1>1, ReadyHead
<1>3. i \in DOMAIN n
  BY <1>1, <1>2 DEF Alive
<1>4. PICK u : Moved(p, i, "queue", u)
  BY <1>1, <1>2, MovedIs DEF Kinds
<1>5. u[i] = "queue" /\ \A j \in Id : j # i => u[j] = p[j]
  BY <1>4 DEF Moved
<1>6. ReadyAt(n, t, u)
  BY <1>1, <1>4, ReadyTaken
<1>7. HandAt(n, t, u)
  <2>1. SameOf("hand", n, p, n, u)
    BY <1>2, <1>5 DEF SameOf
  <2> QED
    BY <1>1, <2>1, HandStays
<1>8. PoolAt(Append(q, i), c, h, u)
  BY <1>1, <1>2, <1>4, PoolSubmits
<1>9. p[i] \in Moving /\ "queue" \in Moving
  BY <1>2 DEF Moving
<1>10. Books(n, t, Append(q, i), c, h, u)
  BY <1>1, <1>2, <1>3, <1>4, <1>6, <1>7, <1>8, <1>9, BooksMoved, SameItself
<1>11. NoneLoose(u)
  BY <1>5 DEF NoneLoose
<1> QED
  BY <1>10, <1>11

\* The coordinator takes the first ready run in its hand.
LEMMA BooksTakeInHand ==
    ASSUME NEW n, NEW s, NEW q, NEW c, NEW h, NEW p, Books(n, s, q, c, h, p), NoneLoose(p),
           Len(s) \in DOMAIN s, s[Len(s)].ready # <<>>, NEW i, i = Head(s[Len(s)].ready),
           s[Len(s)].hand = None,
           NEW t \in Seq(Context), Len(t) = Len(s), ReadyLess(s, Len(s), t),
           HandIs(s, Len(s), i, t), SameDone(s, t)
    PROVE  \E u : Books(n, t, q, c, h, u) /\ NoneLoose(u)
<1>1. /\ Table(n) /\ Alive(n, p) /\ p \in [Id -> Kinds] /\ ReadyAt(n, s, p) /\ HandAt(n, s, p)
      /\ PoolAt(q, c, h, p) /\ s \in Seq(Context)
  BY DEF Books, Placed, Alive
<1>2. i \in Id /\ p[i] = "ready" /\ n[i].depth = Len(s)
  BY <1>1, ReadyHead
<1>3. i \in DOMAIN n
  BY <1>1, <1>2 DEF Alive
<1>4. PICK u : Moved(p, i, "hand", u)
  BY <1>1, <1>2, MovedIs DEF Kinds
<1>5. u[i] = "hand" /\ \A j \in Id : j # i => u[j] = p[j]
  BY <1>4 DEF Moved
<1>6. ReadyAt(n, t, u)
  BY <1>1, <1>4, ReadyTaken
<1>7. HandAt(n, t, u)
  <2>1. p[i] # "hand"
    BY <1>2
  <2> QED
    BY <1>1, <1>2, <1>4, <2>1, HandFilled
<1>8. PoolAt(q, c, h, u)
  <2>1. SamePool(p, u)
    BY <1>2, <1>5 DEF SamePool
  <2> QED
    BY <1>1, <2>1, PoolStays
<1>9. p[i] \in Moving /\ "hand" \in Moving
  BY <1>2 DEF Moving
<1>10. Books(n, t, q, c, h, u)
  BY <1>1, <1>2, <1>3, <1>4, <1>6, <1>7, <1>8, <1>9, BooksMoved, SameItself
<1>11. NoneLoose(u)
  BY <1>5 DEF NoneLoose
<1> QED
  BY <1>10, <1>11

\* A worker takes a run, and gives it back with an event.
LEMMA BooksWork ==
    ASSUME NEW n, NEW s, NEW q, NEW c, NEW h \in [Worker -> {None} \cup Id], NEW p,
           Books(n, s, q, c, h, p), NoneLoose(p), NEW i, First(q, i),
           NEW w \in Worker, h[w] = None, NEW g, Given(h, w, i, g)
    PROVE  \E u : Books(n, s, Tail(q), c, g, u) /\ NoneLoose(u)
<1>1. /\ Table(n) /\ Alive(n, p) /\ p \in [Id -> Kinds] /\ ReadyAt(n, s, p) /\ HandAt(n, s, p)
      /\ PoolAt(q, c, h, p) /\ AtTop(n, p, Len(s)) /\ s \in Seq(Context)
  BY DEF Books, Placed, Alive
<1>2. i \in Of(p, "queue")
  BY <1>1, ListsTail DEF PoolAt, First
<1>3. i \in Id /\ p[i] = "queue"
  BY <1>2 DEF Of
<1>4. i \in DOMAIN n /\ n[i].depth = Len(s)
  BY <1>1, <1>3 DEF Alive, AtTop
<1>5. PICK u : Moved(p, i, "worker", u)
  BY <1>1, <1>3, MovedIs DEF Kinds
<1>6. PoolAt(Tail(q), c, g, u)
  BY <1>1, <1>5, PoolTakes
<1>7. ReadyAt(n, s, u) /\ HandAt(n, s, u)
  BY <1>1, <1>3, <1>4, <1>5, MovedAside, SameItself
<1>8. p[i] \in Moving /\ "worker" \in Moving
  BY <1>3 DEF Moving
<1>9. Books(n, s, Tail(q), c, g, u)
  BY <1>1, <1>4, <1>5, <1>6, <1>7, <1>8, BooksMoved, SameItself
<1>10. NoneLoose(u)
  BY <1>3, <1>5 DEF Moved, NoneLoose
<1> QED
  BY <1>9, <1>10

\* A worker gives its run back.
LEMMA BooksWorked ==
    ASSUME NEW n, NEW s, NEW q, NEW c, NEW h \in [Worker -> {None} \cup Id], NEW p,
           Books(n, s, q, c, h, p), NoneLoose(p), NEW w \in Worker,
           NEW i, i = h[w], i # None, NEW g, Given(h, w, None, g),
           NEW m, Same(n, m), Table(m)
    PROVE  \E u : Books(m, s, q, Append(c, i), g, u) /\ NoneLoose(u)
<1>1. /\ Table(n) /\ Alive(n, p) /\ p \in [Id -> Kinds] /\ ReadyAt(n, s, p) /\ HandAt(n, s, p)
      /\ PoolAt(q, c, h, p) /\ AtTop(n, p, Len(s)) /\ s \in Seq(Context)
  BY DEF Books, Placed, Alive
<1>3. i \in Id /\ p[i] = "worker"
  BY <1>1 DEF PoolAt
<1>4. i \in DOMAIN n /\ n[i].depth = Len(s)
  BY <1>1, <1>3 DEF Alive, AtTop
<1>5. PICK u : Moved(p, i, "done", u)
  BY <1>1, <1>3, MovedIs DEF Kinds
<1>6. PoolAt(q, Append(c, i), g, u)
  BY <1>1, <1>5, PoolFinishes
<1>7. ReadyAt(m, s, u) /\ HandAt(m, s, u)
  BY <1>1, <1>3, <1>4, <1>5, MovedAside
<1>8. p[i] \in Moving /\ "done" \in Moving
  BY <1>3 DEF Moving
<1>9. Books(m, s, q, Append(c, i), g, u)
  BY <1>1, <1>4, <1>5, <1>6, <1>7, <1>8, BooksMoved, SameItself
<1>10. NoneLoose(u)
  BY <1>3, <1>5 DEF Moved, NoneLoose
<1> QED
  BY <1>9, <1>10

-----------------------------------------------------------------------------
(***************************************************************************)
(* Executions begin and end while the pool is idle.                        *)
(***************************************************************************)
Idle(q, c, h) == q = <<>> /\ c = <<>> /\ \A w \in Worker : h[w] = None

\* An idle pool has no run.
LEMMA IdlePlaces ==
    ASSUME NEW q, NEW c, NEW h, NEW p, PoolAt(q, c, h, p), Idle(q, c, h), NoneLoose(p)
    PROVE  \A i \in Id : p[i] \notin {"queue", "done", "worker", "loose"}
<1>1. Of(p, "queue") = {} /\ Of(p, "done") = {}
  BY ListsFew DEF PoolAt, Idle
<1>2. \A i \in Id : p[i] # "queue" /\ p[i] # "done"
  BY <1>1 DEF Of
<1>3. \A i \in Id : p[i] # "worker"
  BY NoneIsNoRun DEF PoolAt, Idle
<1> QED
  BY <1>2, <1>3 DEF NoneLoose

\* With nothing to run, nothing is left of an execution: a node without a child in
\* it would have to be somewhere.
LEMMA NothingLeft ==
    ASSUME NEW n, NEW s, NEW q, NEW c, NEW h, NEW p, Books(n, s, q, c, h, p), NoneLoose(p),
           Idle(q, c, h), NEW d \in DOMAIN s, s[d].ready = <<>>, s[d].hand = None
    PROVE  (\A i \in DOMAIN n : n[i].depth # d) /\ s[d].done
<1>1. /\ Table(n) /\ Alive(n, p) /\ p \in [Id -> Kinds] /\ ReadyAt(n, s, p) /\ HandAt(n, s, p)
      /\ PoolAt(q, c, h, p) /\ BoundAt(n, p) /\ Tree(n, Len(s)) /\ Rooted(n, s)
  BY DEF Books, Placed, Alive
<1>2. PICK R : R = {i \in DOMAIN n : n[i].depth = d}
  OBVIOUS
<1>3. R = {}
  <2> SUFFICES ASSUME R # {} PROVE FALSE
    OBVIOUS
  <2>1. R \in SUBSET DOMAIN n
    BY <1>2
  <2>2. PICK k \in R : \A j \in R : ~ChildOf(n, j, k)
    BY <1>1, <2>1 DEF Tree, Founded
  <2>3. k \in DOMAIN n /\ k \in Id /\ n[k].depth = d /\ k # None
    BY <1>1, <1>2, <2>2, NoneIsNoRun DEF Table
  <2>4. ASSUME NEW j \in DOMAIN n, ChildOf(n, j, k) PROVE FALSE
    <3>1. n[j].depth = d
      BY <1>1, <2>3, <2>4 DEF Tree, Linked, Parent, ChildOf
    <3> QED
      BY <1>2, <2>2, <2>4, <3>1
  <2>5. p[k] # "join"
    <3>1. n[k].remaining = Cardinality(Children(n, k))
      BY <1>1, <2>3 DEF Tree, Exact
    <3>2. Children(n, k) = {}
      BY <2>4 DEF Children, ChildOf
    <3>3. n[k].remaining = 0
      BY <3>1, <3>2, FS_EmptySet
    <3> QED
      BY <1>1, <2>3, <3>3 DEF Alive
  <2>6. p[k] # "ready"
    <3>1. At(n, p, d) = {}
      BY <1>1, ListsFew DEF ReadyAt
    <3> QED
      BY <2>3, <3>1 DEF At
  <2>7. p[k] # "hand"
    BY <1>1, <2>3 DEF HandAt
  <2>8. p[k] # "boundary"
    BY <1>1, <2>3, <2>4 DEF BoundAt, ChildOf
  <2>9. p[k] \notin {"queue", "done", "worker", "loose"}
    BY <1>1, <2>3, IdlePlaces
  <2>10. p[k] # "free"
    BY <1>1, <2>3 DEF Alive
  <2>11. p[k] \in Kinds
    BY <1>1, <2>3
  <2> QED
    BY <2>5, <2>6, <2>7, <2>8, <2>9, <2>10, <2>11 DEF Kinds
<1>4. Roots(n, d) = {}
  BY <1>2, <1>3 DEF Roots
<1> QED
  BY <1>1, <1>2, <1>3, <1>4 DEF Rooted

\* The stack without its innermost execution, or with a new one.
Shortened(s, t) == t = SubSeq(s, 1, Len(s) - 1)
Entered(s, i, t) == t = Append(s, EmptyContext(i))

\* An execution ends with nothing left of it.
LEMMA BooksLeave ==
    ASSUME NEW n, NEW s, NEW q, NEW c, NEW h, NEW p, Books(n, s, q, c, h, p), NoneLoose(p),
           Idle(q, c, h), Len(s) \in DOMAIN s, s[Len(s)].ready = <<>>, s[Len(s)].hand = None,
           NEW t, Shortened(s, t)
    PROVE  /\ Books(n, t, q, c, h, p)
           /\ Len(t) = Len(s) - 1 /\ \A d \in 1..(Len(s) - 1) : t[d] = s[d]
<1>1. /\ Table(n) /\ Alive(n, p) /\ p \in [Id -> Kinds] /\ ReadyAt(n, s, p) /\ HandAt(n, s, p)
      /\ PoolAt(q, c, h, p) /\ BoundAt(n, p) /\ Tree(n, Len(s)) /\ Rooted(n, s)
      /\ s \in Seq(Context)
  BY DEF Books, Placed, Alive
<1>2. PICK e \in Nat \ {0} : e = Len(s)
  <2>1. Len(s) \in Nat /\ DOMAIN s = 1..Len(s)
    BY <1>1, LenProperties
  <2>2. PICK k : k = Len(s)
    OBVIOUS
  <2>3. k \in Nat /\ k \in 1..k
    BY <2>1, <2>2
  <2>4. k # 0
    BY <2>3
  <2> QED
    BY <2>2, <2>3, <2>4
<1>3. DOMAIN s = 1..e
  BY <1>1, <1>2, LenProperties
<1>4. /\ t \in Seq(Context) /\ Len(t) = e - 1 /\ DOMAIN t = 1..(e - 1)
      /\ \A d \in 1..(e - 1) : t[d] = s[d]
  <2>1. t \in Seq(Context) /\ Len(t) = e - 1 /\ \A d \in 1..(e - 1) : t[d] = s[1 + d - 1]
    BY <1>1, <1>2, SubSeqProperties DEF Shortened
  <2>2. \A d \in 1..(e - 1) : 1 + d - 1 = d
    BY <1>2
  <2> QED
    BY <2>1, <2>2, LenProperties
<1>5. \A d \in DOMAIN t : d \in DOMAIN s /\ t[d] = s[d]
  BY <1>2, <1>3, <1>4
<1>6. \A i \in DOMAIN n : n[i].depth # e
  BY <1>2, NothingLeft
<1>7. \A i \in DOMAIN n : n[i].depth <= e - 1
  <2>1. \A i \in DOMAIN n : n[i] \in Node
    BY <1>1 DEF Table
  <2>2. \A i \in DOMAIN n : n[i].depth \in 1..MaxDepth
    BY <2>1 DEF Node
  <2>3. \A i \in DOMAIN n : n[i].depth \in Nat /\ n[i].depth <= e
    BY <1>1, <1>2, <2>2, CpuAssumption DEF Tree, Linked
  <2> QED
    BY <1>2, <1>6, <2>3
<1>8. Tree(n, e - 1)
  BY <1>1, <1>7 DEF Tree, Linked
<1>9. AtTop(n, p, e - 1)
  BY <1>1, IdlePlaces DEF AtTop
<1>10. ReadyAt(n, t, p) /\ HandAt(n, t, p) /\ Rooted(n, t)
  BY <1>1, <1>5 DEF ReadyAt, HandAt, Rooted
<1> QED
  BY <1>1, <1>2, <1>4, <1>8, <1>9, <1>10 DEF Books, Placed

\* An execution begins with one ready run.
LEMMA BooksEnter ==
    ASSUME NEW n, NEW s, NEW q, NEW c, NEW h, NEW p, Books(n, s, q, c, h, p), NoneLoose(p),
           Idle(q, c, h), NEW i, NEW m, Planted(n, i, Len(s) + 1, m), Table(m),
           NEW t, Entered(s, i, t)
    PROVE  /\ \E u : Books(m, t, q, c, h, u) /\ NoneLoose(u)
           /\ Len(t) = Len(s) + 1 /\ t[Len(s) + 1] = EmptyContext(i)
           /\ \A d \in DOMAIN s : t[d] = s[d]
<1>1. /\ Table(n) /\ Alive(n, p) /\ p \in [Id -> Kinds] /\ ReadyAt(n, s, p) /\ HandAt(n, s, p)
      /\ PoolAt(q, c, h, p) /\ BoundAt(n, p) /\ Tree(n, Len(s)) /\ Rooted(n, s)
      /\ s \in Seq(Context)
  BY DEF Books, Placed, Alive
<1>2. PICK e \in Nat : e = Len(s)
  BY <1>1, LenProperties
<1>3. PICK f \in Nat : f = e + 1
  OBVIOUS
<1>4. /\ DOMAIN m = DOMAIN n \cup {i} /\ i \in Id /\ i \notin DOMAIN n /\ i # None
      /\ m[i].up = None /\ m[i].boundary = None /\ m[i].depth = f /\ m[i].remaining = 0
      /\ \A j \in DOMAIN n : m[j] = n[j]
  BY <1>2, <1>3, NoneIsNoRun DEF Planted
<1>5. PICK x : x = EmptyContext(i)
  OBVIOUS
<1>6. x.ready = <<i>> /\ x.hand = None /\ x.done = FALSE /\ x \in Context
  BY <1>4, <1>5 DEF EmptyContext, Context
<1>7. DOMAIN s = 1..e /\ f \notin DOMAIN s
  BY <1>1, <1>2, <1>3, LenProperties
<1>8. /\ t \in Seq(Context) /\ Len(t) = f /\ DOMAIN t = 1..f
      /\ t[f] = x /\ \A d \in DOMAIN s : t[d] = s[d]
  BY <1>1, <1>2, <1>3, <1>5, <1>6, <1>7, AppendProperties, LenProperties DEF Entered
<1>9. \A d \in DOMAIN t : d \in DOMAIN s \/ d = f
  BY <1>3, <1>7, <1>8
<1>10. PICK u : Moved(p, i, "ready", u)
  BY <1>1, <1>4, MovedIs DEF Kinds
<1>11. u \in [Id -> Kinds] /\ u[i] = "ready" /\ \A j \in Id : j # i => u[j] = p[j]
  BY <1>10 DEF Moved
<1>12. \A j \in Id : p[j] = "free" <=> j \notin DOMAIN n
  BY <1>1 DEF Alive
<1>13. \A j \in DOMAIN n : n[j].depth \in Nat /\ n[j].depth <= e
  <2>1. \A j \in DOMAIN n : n[j] \in Node
    BY <1>1 DEF Table
  <2>2. \A j \in DOMAIN n : n[j].depth \in 1..MaxDepth
    BY <2>1 DEF Node
  <2> QED
    BY <1>1, <1>2, <2>2, CpuAssumption DEF Tree, Linked
<1>14. \A j \in DOMAIN n : n[j].depth # f /\ n[j].up # i /\ n[j].boundary # i /\ j # i
  BY <1>1, <1>3, <1>4, <1>13 DEF Tree, Linked, Parent
<1>15. Alive(m, u)
  <2>1. \A j \in Id : u[j] = "free" <=> j \notin DOMAIN m
    BY <1>4, <1>11, <1>12
  <2>2. ASSUME NEW j \in DOMAIN m PROVE u[j] = "join" <=> m[j].remaining # 0
    <3>1. CASE j = i
      BY <1>4, <1>11, <3>1
    <3>2. CASE j # i
      <4>1. j \in DOMAIN n /\ j \in Id
        BY <1>1, <1>4, <3>2 DEF Table
      <4> QED
        BY <1>1, <1>4, <1>11, <3>2, <4>1 DEF Alive
    <3> QED
      BY <3>1, <3>2
  <2> QED
    BY <1>11, <2>1, <2>2 DEF Alive
<1>16. BoundAt(m, u)
  <2> SUFFICES ASSUME NEW j \in Id
               PROVE  u[j] = "boundary" <=> \E k \in DOMAIN m : m[k].boundary = j
    BY DEF BoundAt
  <2>1. p[j] = "boundary" <=> \E k \in DOMAIN n : n[k].boundary = j
    BY <1>1 DEF BoundAt
  <2>2. (\E k \in DOMAIN m : m[k].boundary = j) <=> (\E k \in DOMAIN n : n[k].boundary = j)
    BY <1>4, NoneIsNoRun
  <2>3. u[j] = "boundary" <=> p[j] = "boundary"
    BY <1>4, <1>11, <1>12
  <2> QED
    BY <2>1, <2>2, <2>3
<1>17. ReadyAt(m, t, u)
  <2>1. \A d \in DOMAIN s : At(m, u, d) = At(n, p, d)
    BY <1>4, <1>7, <1>11, <1>12 DEF At
  <2>2. At(m, u, f) = {i}
    BY <1>4, <1>11, <1>12, <1>14 DEF At
  <2>3. Lists(<<i>>, {i})
    BY ListsFew
  <2> QED
    BY <1>1, <1>6, <1>8, <1>9, <2>1, <2>2, <2>3 DEF ReadyAt
<1>18. HandAt(m, t, u)
  <2> SUFFICES ASSUME NEW d \in DOMAIN t, NEW j \in Id
               PROVE  t[d].hand = j <=> u[j] = "hand" /\ m[j].depth = d
    BY DEF HandAt
  <2>1. u[j] = "hand" <=> p[j] = "hand"
    BY <1>4, <1>11, <1>12
  <2>2. u[j] = "hand" => j \in DOMAIN n /\ m[j].depth = n[j].depth
    BY <1>4, <1>12, <2>1
  <2>3. CASE d = f
    BY <1>6, <1>8, <1>14, <2>2, <2>3, NoneIsNoRun
  <2>4. CASE d \in DOMAIN s
    BY <1>1, <1>8, <2>1, <2>2, <2>4 DEF HandAt
  <2> QED
    BY <1>9, <2>3, <2>4
<1>19. \A j \in Id : p[j] \notin {"queue", "done", "worker", "loose"}
  BY <1>1, IdlePlaces
<1>20. \A j \in Id : u[j] \notin {"queue", "done", "worker", "loose"}
  BY <1>11, <1>19
<1>21. PoolAt(q, c, h, u)
  <2>1. SamePool(p, u)
    BY <1>19, <1>20 DEF SamePool
  <2> QED
    BY <1>1, <2>1, PoolStays
<1>22. AtTop(m, u, f) /\ NoneLoose(u)
  BY <1>20 DEF AtTop, NoneLoose
<1>23. Tree(m, f) /\ Roots(m, f) = {i} /\ \A d : d # f => Roots(m, d) = Roots(n, d)
  <2>1. Planted(n, i, e + 1, m) /\ Tree(n, e)
    BY <1>1, <1>2
  <2> QED
    BY <1>1, <1>3, <2>1, TreePlanted
<1>24. Rooted(m, t)
  <2> SUFFICES ASSUME NEW d \in DOMAIN t
               PROVE  (t[d].done <=> Roots(m, d) = {}) /\ \A j, k \in Roots(m, d) : j = k
    BY DEF Rooted
  <2>1. CASE d = f
    BY <1>6, <1>8, <1>23, <2>1
  <2>2. CASE d \in DOMAIN s
    BY <1>1, <1>7, <1>8, <1>23, <2>2 DEF Rooted
  <2> QED
    BY <1>9, <2>1, <2>2
<1>25. Books(m, t, q, c, h, u)
  BY <1>8, <1>15, <1>16, <1>17, <1>18, <1>21, <1>22, <1>23, <1>24 DEF Books, Placed
<1> QED
  BY <1>2, <1>3, <1>5, <1>8, <1>22, <1>25

-----------------------------------------------------------------------------
(***************************************************************************)
(* The coordinator accepts an event.  s is the stack with the context that *)
(* the accepting step hands over.                                          *)
(***************************************************************************)
Handed(s, context) ==
    /\ s \in Seq(Context) /\ Len(s) = Depth /\ DOMAIN s = DOMAIN stack /\ Depth \in DOMAIN s
    /\ s[Depth] = context /\ \A e \in DOMAIN s : e # Depth => s[e] = stack[e]

\* What an accepted event leaves behind.
AcceptedRight(context, q, c, h) ==
    /\ fault' = "none" /\ Table(node')
    /\ stack' \in Seq(Context) /\ Len(stack') = Depth
    /\ stack'[Depth].hand = context.hand
    /\ \A e \in DOMAIN stack : e # Depth => stack'[e] = stack[e]
    /\ \E u : Books(node', stack', q, c, h, u) /\ NoneLoose(u)

PushedOn(s, context, l, t) ==
    /\ Pushed(s, Depth, l, t) /\ t[Depth].hand = context.hand
    /\ t[Depth].done = context.done
    /\ \A e \in DOMAIN stack : e # Depth => t[e] = stack[e]

\* Runs are appended to the innermost ready queue.
LEMMA PushedIs ==
    ASSUME Types, NEW s, NEW context \in Context, Handed(s, context),
           NEW l \in Seq(Id), NEW t, t = [stack EXCEPT ![Depth] = Push(context, l)]
    PROVE  PushedOn(s, context, l, t) /\ SameDone(s, t)
<1>1. /\ s \in Seq(Context) /\ Len(s) = Depth /\ DOMAIN s = DOMAIN stack /\ Depth \in DOMAIN s
      /\ s[Depth] = context /\ \A e \in DOMAIN s : e # Depth => s[e] = stack[e]
  BY DEF Handed
<1>2. PICK x : x = Push(context, l)
  OBVIOUS
<1>3. x \in Context /\ x.ready = context.ready \o l /\ x.hand = context.hand
      /\ x.done = context.done
  <2>1. PICK r : r = context.ready \o l
    OBVIOUS
  <2>2. r \in Seq(Id)
    BY <2>1, ConcatProperties DEF Context
  <2>3. x = [context EXCEPT !.ready = r]
    BY <1>2, <2>1 DEF Push
  <2> QED
    BY <2>1, <2>2, <2>3 DEF Context
<1>4. stack \in Seq(Context) /\ t = [stack EXCEPT ![Depth] = x]
  BY <1>2 DEF Types
<1>5. Replaced(stack, Depth, x, t)
  BY <1>1, <1>3, <1>4, ReplacedIs
<1>6. /\ t \in Seq(Context) /\ DOMAIN t = DOMAIN stack /\ Len(t) = Depth
      /\ t[Depth] = x /\ \A e \in DOMAIN stack : e # Depth => t[e] = stack[e]
  BY <1>5 DEF Replaced, Depth
<1>7. ReadyMore(s, Depth, l, t) /\ SameHands(s, t) /\ SameDone(s, t)
  BY <1>1, <1>3, <1>6 DEF ReadyMore, SameHands, SameDone
<1> QED
  BY <1>1, <1>3, <1>6, <1>7 DEF PushedOn, Pushed

\* The join that waits for a run still counts it.
LEMMA ParentWaits ==
    ASSUME NEW n, NEW s, NEW q, NEW c, NEW h, NEW p, Books(n, s, q, c, h, p),
           NEW run, Loose(p, run), n[run].up # None
    PROVE  /\ n[run].up \in DOMAIN n /\ n[run].up # run /\ n[run].boundary = None
           /\ n[n[run].up].remaining \in Nat \ {0}
<1>1. run \in DOMAIN n /\ n[run].remaining = 0
  BY LooseRun
<1>2. Table(n) /\ Tree(n, Len(s))
  BY DEF Books
<1>3. n[run].up \in DOMAIN n /\ n[run].boundary = None
  BY <1>1, <1>2 DEF Tree, Linked, Parent
<1>4. PICK k : k = n[run].up
  OBVIOUS
<1>5. run \in Children(n, k) /\ n[k].remaining = Cardinality(Children(n, k))
  BY <1>1, <1>2, <1>3, <1>4 DEF Tree, Exact, Children
<1>6. IsFiniteSet(Children(n, k)) /\ Cardinality(Children(n, k)) \in Nat
  BY <1>2, TableFinite
<1>7. Cardinality(Children(n, k)) # 0
  BY <1>5, <1>6, FS_EmptySet
<1> QED
  BY <1>1, <1>3, <1>4, <1>5, <1>6, <1>7

\* Roots stay when another run leaves.
LEMMA RootsLess ==
    ASSUME NEW n, NEW run \in DOMAIN n, NEW m, Removed(n, run, m),
           n[run].up # None \/ n[run].boundary # None
    PROVE  \A d : Roots(m, d) = Roots(n, d)
  BY DEF Roots, Removed

\* The last field that a delivery changes: a count, or the safety of a run.
LEMMA NodeChanges ==
    ASSUME NEW x \in Node
    PROVE  /\ \A k \in Nat : LET y == [x EXCEPT !.remaining = k]
                             IN  /\ y \in Node /\ y.up = x.up /\ y.boundary = x.boundary
                                 /\ y.depth = x.depth /\ y.remaining = k
           /\ \A b \in BOOLEAN : LET y == [x EXCEPT !.safe = b]
                                 IN  /\ y \in Node /\ y.up = x.up /\ y.boundary = x.boundary
                                     /\ y.depth = x.depth /\ y.remaining = x.remaining
  BY DEF Node

\* A table without one entry.
LEMMA WithoutIs ==
    ASSUME NEW n, Table(n), NEW i
    PROVE  /\ DOMAIN Without(n, i) = DOMAIN n \ {i} /\ Table(Without(n, i))
           /\ \A j \in DOMAIN n \ {i} : Without(n, i)[j] = n[j]
  BY DEF Without, Table

\* A table with one entry replaced.
Changed(n, i, x, m) ==
    DOMAIN m = DOMAIN n /\ m[i] = x /\ \A j \in DOMAIN n : j # i => m[j] = n[j]

\* A table with one entry replaced.
LEMMA ChangedIs ==
    ASSUME NEW n, Table(n), NEW i \in DOMAIN n, NEW x \in Node, NEW m, m = [n EXCEPT ![i] = x]
    PROVE  Table(m) /\ Changed(n, i, x, m)
  BY DEF Table, Changed

\* The two ways a result stays inside an execution.
ChildDone(run, up, context) ==
    /\ node' = [Without(node, run) EXCEPT ![up].remaining = @ - 1]
    /\ stack' = [stack EXCEPT ![Depth] = Push(context,
                     IF node[up].remaining = 1 THEN <<up>> ELSE <<>>)]
    /\ fault' = fault
GraphDone(run, b, context) ==
    /\ node' = [Without(node, run) EXCEPT ![b].safe = TRUE]
    /\ stack' = [stack EXCEPT ![Depth] = Push(context, <<b>>)]
    /\ fault' = fault

\* The result of a child comes to its join.
LEMMA FinishChild ==
    ASSUME Types, fault = "none", NEW s, NEW context \in Context, Handed(s, context),
           NEW q, NEW c, NEW h, NEW p, Books(node, s, q, c, h, p), NEW run, Loose(p, run),
           NEW up, up = node[run].up, up # None,
           ChildDone(run, up, context)
    PROVE  AcceptedRight(context, q, c, h)
<1>1. /\ up \in DOMAIN node /\ up # run /\ node[run].boundary = None
      /\ node[up].remaining \in Nat \ {0}
  BY ParentWaits
<1>2. Table(node) /\ run \in DOMAIN node /\ Len(s) = Depth /\ Depth \in DOMAIN s
      /\ Rooted(node, s) /\ DOMAIN node \subseteq Id /\ up \in Id
  BY <1>1, LooseRun DEF Types, Handed, Books, Table
<1>3. PICK r, k, x, m : r = Without(node, run) /\ k = node[up].remaining - 1
                        /\ x = [node[up] EXCEPT !.remaining = k] /\ m = [r EXCEPT ![up] = x]
  OBVIOUS
<1>4. Table(r) /\ DOMAIN r = DOMAIN node \ {run} /\ \A j \in DOMAIN node \ {run} : r[j] = node[j]
  BY <1>2, <1>3, WithoutIs
<1>5. up \in DOMAIN r /\ r[up] = node[up]
  BY <1>1, <1>4
<1>6. node[up] \in Node /\ k \in Nat
  BY <1>1, <1>2, <1>3 DEF Table
<1>7. /\ x \in Node /\ x.up = node[up].up /\ x.boundary = node[up].boundary
      /\ x.depth = node[up].depth /\ x.remaining = k
  BY <1>3, <1>6, NodeChanges
<1>8. Table(m) /\ Changed(r, up, x, m)
  BY <1>3, <1>4, <1>5, <1>7, ChangedIs
<1>9. node' = m
  BY <1>3, <1>5 DEF ChildDone
<1>10. Removed(node, run, m)
  BY <1>3, <1>4, <1>5, <1>7, <1>8 DEF Removed, Changed
<1>11. PICK l, W : /\ l = (IF node[up].remaining = 1 THEN <<up>> ELSE <<>>)
                   /\ W = (IF node[up].remaining = 1 THEN {up} ELSE {})
  OBVIOUS
<1>12. Lists(l, W) /\ l \in Seq(Id) /\ W \in SUBSET Id
  BY <1>2, <1>11, ListsFew
<1>13. \A i \in Id : i \in W <=> Wakes(node, run, i)
  BY <1>1, <1>11, NoneIsNoRun DEF Wakes
<1>14. PICK t : t = stack'
  OBVIOUS
<1>15. PushedOn(s, context, l, t) /\ SameDone(s, t)
  <2>1. t = [stack EXCEPT ![Depth] = Push(context, l)]
    BY <1>11, <1>14 DEF ChildDone
  <2> QED
    BY <1>12, <2>1, PushedIs
<1>16. Rooted(m, t)
  <2>1. \A d : Roots(m, d) = Roots(node, d)
    BY <1>2, <1>10, RootsLess
  <2> QED
    BY <1>2, <1>15, <2>1 DEF Rooted, SameDone
<1>17. \E u : Books(m, t, q, c, h, u) /\ NoneLoose(u)
  <2>1. Pushed(s, Len(s), l, t) /\ Len(s) \in DOMAIN s
    BY <1>2, <1>15 DEF PushedOn
  <2> QED
    BY <1>8, <1>10, <1>12, <1>13, <1>16, <2>1, BooksDeliver
<1> QED
  BY <1>2, <1>8, <1>9, <1>14, <1>15, <1>17 DEF ChildDone, AcceptedRight, PushedOn, Pushed

\* The result of a graph comes to its boundary, which is ready again.
LEMMA FinishGraph ==
    ASSUME Types, fault = "none", NEW s, NEW context \in Context, Handed(s, context),
           NEW q, NEW c, NEW h, NEW p, Books(node, s, q, c, h, p), NEW run, Loose(p, run),
           node[run].up = None, NEW b, b = node[run].boundary, b # None,
           GraphDone(run, b, context)
    PROVE  AcceptedRight(context, q, c, h)
<1>1. Table(node) /\ run \in DOMAIN node /\ Len(s) = Depth /\ Depth \in DOMAIN s
      /\ Rooted(node, s) /\ Tree(node, Len(s)) /\ DOMAIN node \subseteq Id
  BY LooseRun DEF Types, Handed, Books, Table
<1>2. b \in DOMAIN node /\ b # run /\ b \in Id
  BY <1>1, LooseRun DEF Tree, Linked, Parent
<1>3. PICK r, x, m : r = Without(node, run) /\ x = [node[b] EXCEPT !.safe = TRUE]
                     /\ m = [r EXCEPT ![b] = x]
  OBVIOUS
<1>4. Table(r) /\ DOMAIN r = DOMAIN node \ {run} /\ \A j \in DOMAIN node \ {run} : r[j] = node[j]
  BY <1>1, <1>3, WithoutIs
<1>5. b \in DOMAIN r /\ r[b] = node[b]
  BY <1>2, <1>4
<1>6. node[b] \in Node
  BY <1>1, <1>2 DEF Table
<1>7. /\ x \in Node /\ x.up = node[b].up /\ x.boundary = node[b].boundary
      /\ x.depth = node[b].depth /\ x.remaining = node[b].remaining
  BY <1>3, <1>6, NodeChanges
<1>8. Table(m) /\ Changed(r, b, x, m)
  BY <1>3, <1>4, <1>5, <1>7, ChangedIs
<1>9. node' = m
  BY <1>3, <1>5 DEF GraphDone
<1>10. Removed(node, run, m)
  BY <1>1, <1>4, <1>5, <1>7, <1>8, NoneIsNoRun DEF Removed, Changed
<1>11. Lists(<<b>>, {b}) /\ <<b>> \in Seq(Id) /\ {b} \in SUBSET Id
  BY <1>2, ListsFew
<1>12. \A i \in Id : i \in {b} <=> Wakes(node, run, i)
  BY NoneIsNoRun DEF Wakes
<1>13. PICK t, l, W : t = stack' /\ l = <<b>> /\ W = {b}
  OBVIOUS
<1>14. PushedOn(s, context, l, t) /\ SameDone(s, t)
  <2>1. t = [stack EXCEPT ![Depth] = Push(context, l)] /\ l \in Seq(Id)
    BY <1>11, <1>13 DEF GraphDone
  <2> QED
    BY <2>1, PushedIs
<1>15. Rooted(m, t)
  <2>1. \A d : Roots(m, d) = Roots(node, d)
    BY <1>1, <1>10, RootsLess
  <2> QED
    BY <1>1, <1>14, <2>1 DEF Rooted, SameDone
<1>16. \E u : Books(m, t, q, c, h, u) /\ NoneLoose(u)
  <2>1. /\ Pushed(s, Len(s), l, t) /\ Len(s) \in DOMAIN s /\ Lists(l, W) /\ W \in SUBSET Id
        /\ \A i \in Id : i \in W <=> Wakes(node, run, i)
    BY <1>1, <1>11, <1>12, <1>13, <1>14 DEF PushedOn
  <2> QED
    BY <1>8, <1>10, <1>15, <2>1, BooksDeliver
<1> QED
  BY <1>1, <1>8, <1>9, <1>13, <1>14, <1>16 DEF GraphDone, AcceptedRight, PushedOn, Pushed

\* The root of an execution delivers its result, once.
LEMMA FinishRoot ==
    ASSUME Types, fault = "none", NEW s, NEW context \in Context, Handed(s, context),
           NEW q, NEW c, NEW h, NEW p, Books(node, s, q, c, h, p), NEW run, Loose(p, run),
           node[run].up = None, node[run].boundary = None,
           node' = Without(node, run),
           stack' = [stack EXCEPT ![Depth] = [context EXCEPT !.done = TRUE]],
           fault' = IF context.done THEN "invalid root delivery" ELSE fault
    PROVE  AcceptedRight(context, q, c, h)
<1>1. Table(node) /\ run \in DOMAIN node /\ Len(s) = Depth /\ Depth \in DOMAIN s
      /\ Rooted(node, s) /\ node[run].depth = Depth /\ DOMAIN node \subseteq Id
      /\ DOMAIN s = DOMAIN stack /\ stack \in Seq(Context)
      /\ s[Depth] = context /\ \A e \in DOMAIN s : e # Depth => s[e] = stack[e]
  <2>1. /\ s[Depth] = context /\ \A e \in DOMAIN s : e # Depth => s[e] = stack[e]
        /\ Len(s) = Depth /\ Depth \in DOMAIN s /\ DOMAIN s = DOMAIN stack
    BY DEF Handed
  <2>2. Books(node, s, q, c, h, p) /\ Loose(p, run)
    OBVIOUS
  <2>4. run \in DOMAIN node
    BY <2>2, LooseRun
  <2>5. node[run].depth = Len(s)
    BY <2>2 DEF Books, Placed, AtTop, Loose
  <2>3. Table(node) /\ Rooted(node, s) /\ DOMAIN node \subseteq Id /\ stack \in Seq(Context)
    BY DEF Types, Books, Table
  <2> QED
    BY <2>1, <2>3, <2>4, <2>5
<1>2. PICK m, x, t : m = Without(node, run) /\ x = [context EXCEPT !.done = TRUE]
                     /\ t = [stack EXCEPT ![Depth] = x]
  OBVIOUS
<1>3. Table(m) /\ DOMAIN m = DOMAIN node \ {run} /\ \A j \in DOMAIN node \ {run} : m[j] = node[j]
  BY ZenonT(60), <1>1, <1>2, WithoutIs
<1>4. x \in Context /\ x.ready = context.ready /\ x.hand = context.hand /\ x.done = TRUE
  BY <1>2 DEF Context
<1>5. Replaced(stack, Depth, x, t)
  BY <1>1, <1>2, <1>4, ReplacedIs
<1>6. /\ t \in Seq(Context) /\ DOMAIN t = DOMAIN stack /\ Len(t) = Depth
      /\ t[Depth] = x /\ \A e \in DOMAIN stack : e # Depth => t[e] = stack[e]
  BY <1>5 DEF Replaced, Depth
<1>7. Removed(node, run, m)
  BY <1>1, <1>3, NoneIsNoRun DEF Removed
<1>8. Pushed(s, Len(s), <<>>, t)
  <2>1. context.ready \o <<>> = context.ready
    BY ConcatEmptySeq DEF Context
  <2>2. ReadyMore(s, Depth, <<>>, t) /\ SameHands(s, t)
    BY <1>1, <1>4, <1>6, <2>1 DEF ReadyMore, SameHands
  <2> QED
    BY <1>1, <1>6, <2>2 DEF Pushed
<1>9. run \in Roots(node, Depth)
  BY <1>1 DEF Roots
<1>10. ~context.done
  BY <1>1, <1>9 DEF Rooted
<1>11. Rooted(m, t)
  <2> SUFFICES ASSUME NEW d \in DOMAIN t
               PROVE  (t[d].done <=> Roots(m, d) = {}) /\ \A j, k \in Roots(m, d) : j = k
    BY DEF Rooted
  <2>1. CASE d = Depth
    <3>1. Roots(m, d) \subseteq Roots(node, d) /\ run \notin Roots(m, d)
      BY <1>3 DEF Roots
    <3>2. Roots(m, d) = {}
      <4>1. \A i, j \in Roots(node, Depth) : i = j
        BY <1>1 DEF Rooted
      <4>2. Roots(m, d) \subseteq Roots(node, Depth)
        BY <2>1, <3>1
      <4>3. \A i : i \notin Roots(m, d)
        BY <1>9, <3>1, <4>1, <4>2
      <4> QED
        BY <4>3
    <3> QED
      BY <1>4, <1>6, <2>1, <3>2
  <2>2. CASE d # Depth
    <3>1. Roots(m, d) = Roots(node, d)
      BY <1>1, <1>3, <2>2 DEF Roots
    <3>2. t[d].done = s[d].done /\ d \in DOMAIN s
      BY <1>1, <1>6, <2>2
    <3> QED
      BY <1>1, <3>1, <3>2 DEF Rooted
  <2> QED
    BY <2>1, <2>2
<1>12. \E u : Books(m, t, q, c, h, u) /\ NoneLoose(u)
  <2>1. PICK W : W = {}
    OBVIOUS
  <2>2. Lists(<<>>, W) /\ W \in SUBSET Id /\ \A i \in Id : i \in W <=> Wakes(node, run, i)
    BY <2>1, ListsFew, NoneIsNoRun DEF Wakes
  <2>3. Len(s) \in DOMAIN s
    BY <1>1
  <2> QED
    BY <1>3, <1>7, <1>8, <1>11, <2>2, <2>3, BooksDeliver
<1>13. node' = m /\ stack' = t /\ fault' = "none"
  BY <1>2, <1>10
<1> QED
  BY <1>3, <1>4, <1>6, <1>12, <1>13 DEF AcceptedRight

\* A returned graph is adopted below the run that returned it.
LEMMA GraphComes ==
    ASSUME Types, fault = "none", NEW s, NEW context \in Context, Handed(s, context),
           NEW q, NEW c, NEW h, NEW p, Books(node, s, q, c, h, p), NEW run, Loose(p, run),
           AcceptGraph(run, context)
    PROVE  AcceptedRight(context, q, c, h)
<1>1. /\ Table(node) /\ Len(s) = Depth /\ Depth \in DOMAIN s /\ Depth \in 1..MaxDepth
  <2>1. Table(node) /\ stack \in Seq(Context) /\ Depth <= MaxDepth
    BY DEF Types
  <2>2. Len(s) = Depth /\ Depth \in DOMAIN s /\ DOMAIN s = DOMAIN stack
    BY DEF Handed
  <2>3. Depth \in 1..Depth
    BY <2>1, <2>2, LenProperties DEF Depth
  <2> QED
    BY <2>1, <2>2, <2>3, CpuAssumption
<1>2. run \in DOMAIN node
  BY LooseRun
<1>3. PICK k \in 0..MaxChildren :
         /\ Room(k + 1)
         /\ LET new == Fresh(k + 1)
                head == CHOOSE i \in new : \A j \in new : i <= j
            IN  /\ node' \in Adopted(node, run, Depth, head, new \ {head})
                /\ stack' = [stack EXCEPT ![Depth] =
                               Push(context, Started(head, new \ {head}))]
  BY DEF AcceptGraph
<1>4. PICK count : count = k + 1
  OBVIOUS
<1>5. count \in Nat /\ count # 0 /\ Room(count)
  BY <1>3, <1>4, CpuAssumption
<1>6. PICK new, head, C, l, t, m :
         /\ new = Fresh(count) /\ head = (CHOOSE i \in new : \A j \in new : i <= j)
         /\ C = new \ {head} /\ l = Started(head, C) /\ t = stack' /\ m = node'
  OBVIOUS
<1>7. new \subseteq Id \ DOMAIN node /\ IsFiniteSet(new) /\ Cardinality(new) = count
  BY <1>1, <1>5, <1>6, FreshRight
<1>8. new # {} /\ new \subseteq Int
  BY <1>5, <1>7, FS_EmptySet DEF Id
<1>9. head \in new
  BY <1>6, <1>7, <1>8, LeastRight
<1>10. head \in Id \ DOMAIN node /\ C \in SUBSET (Id \ DOMAIN node) /\ head \notin C
       /\ IsFiniteSet(C) /\ C \subseteq Int
  BY <1>6, <1>7, <1>8, <1>9, FS_Subset
<1>11. m \in Adopted(node, run, Depth, head, C) /\ t = [stack EXCEPT ![Depth] = Push(context, l)]
  BY <1>3, <1>4, <1>6, Zenon
<1>12. Table(m) /\ Grown(node, run, Depth, head, C, m)
  BY <1>1, <1>2, <1>10, <1>11, AdoptedGrown
<1>13. PICK W : W = IF C = {} THEN {head} ELSE C
  OBVIOUS
<1>14. Lists(l, W) /\ l \in Seq(Id)
  <2>1. CASE C = {}
    <3>1. l = <<head>> /\ W = {head}
      BY <1>6, <1>13, <2>1 DEF Started
    <3> QED
      BY <1>10, <3>1, ListsFew
  <2>2. CASE C # {}
    <3>1. l = Ascending(C) /\ W = C
      BY <1>6, <1>13, <2>2 DEF Started
    <3>2. Lists(l, C) /\ C \subseteq Id
      BY <1>10, <3>1, ListsAscending
    <3>3. l \in Seq(C)
      BY <3>2 DEF Lists
    <3> QED
      BY <3>1, <3>2, <3>3
  <2> QED
    BY <2>1, <2>2
<1>15. PushedOn(s, context, l, t) /\ SameDone(s, t)
  BY <1>11, <1>14, PushedIs
<1>16. \E u : Books(m, t, q, c, h, u) /\ NoneLoose(u)
  <2>1. /\ Pushed(s, Len(s), l, t) /\ Len(s) \in DOMAIN s
        /\ Grown(node, run, Len(s), head, C, m)
    BY <1>1, <1>12, <1>15 DEF PushedOn
  <2> QED
    BY <1>10, <1>12, <1>13, <1>14, <1>15, <2>1, BooksAdopt
<1>17. fault' = "none"
  BY DEF AcceptGraph
<1> QED
  BY <1>1, <1>6, <1>12, <1>15, <1>16, <1>17 DEF AcceptedRight, PushedOn, Pushed

\* A run that only the coordinator may advance is ready again.
LEMMA BackComes ==
    ASSUME Types, fault = "none", NEW s, NEW context \in Context, Handed(s, context),
           NEW q, NEW c, NEW h, NEW p, Books(node, s, q, c, h, p), NEW run, Loose(p, run),
           stack' = [stack EXCEPT ![Depth] = Push(context, <<run>>)],
           node' = [node EXCEPT ![run].safe = FALSE],
           fault' = fault
    PROVE  AcceptedRight(context, q, c, h)
<1>1. Table(node) /\ run \in DOMAIN node /\ run \in Id
  BY LooseRun DEF Types, Table
<1>2. Len(s) = Depth /\ Depth \in DOMAIN s
  BY DEF Handed
<1>3. PICK x, m, t, l : /\ x = [node[run] EXCEPT !.safe = FALSE] /\ m = [node EXCEPT ![run] = x]
                        /\ t = stack' /\ l = <<run>>
  OBVIOUS
<1>4. node[run] \in Node
  BY <1>1 DEF Table
<1>5. /\ x \in Node /\ x.up = node[run].up /\ x.boundary = node[run].boundary
      /\ x.depth = node[run].depth /\ x.remaining = node[run].remaining
  BY <1>3, <1>4, NodeChanges
<1>6. Table(m) /\ Changed(node, run, x, m)
  BY <1>1, <1>3, <1>5, ChangedIs
<1>7. node' = m
  BY <1>3
<1>8. Same(node, m)
  BY <1>5, <1>6 DEF Same, Changed
<1>9. t = [stack EXCEPT ![Depth] = Push(context, l)] /\ l \in Seq(Id)
  BY <1>1, <1>3
<1>10. PushedOn(s, context, l, t) /\ SameDone(s, t)
  BY <1>9, PushedIs
<1>11. \E u : Books(m, t, q, c, h, u) /\ NoneLoose(u)
  <2>1. Pushed(s, Len(s), <<run>>, t) /\ Len(s) \in DOMAIN s
    BY <1>2, <1>3, <1>10 DEF PushedOn
  <2> QED
    BY <1>6, <1>8, <1>10, <2>1, BooksPutBack
<1> QED
  BY <1>2, <1>3, <1>6, <1>7, <1>10, <1>11 DEF AcceptedRight, PushedOn, Pushed

\* tb_task_accept_event.
LEMMA EventAccepted ==
    ASSUME Types, fault = "none", NEW s, NEW context \in Context, Handed(s, context),
           NEW q, NEW c, NEW h, NEW p, Books(node, s, q, c, h, p), NEW run, Loose(p, run),
           NEW event, Accept(run, event, context), ~Exhausted(event)
    PROVE  AcceptedRight(context, q, c, h)
<1>1. CASE event = "finish" /\ AcceptFinish(run, context)
  <2>1. PICK up : up = node[run].up
    OBVIOUS
  <2>2. PICK b : b = node[run].boundary
    OBVIOUS
  <2>3. CASE up # None
    <3>1. node[up].remaining # 0
      BY <2>1, <2>3, ParentWaits
    <3>2. ChildDone(run, up, context)
      BY <1>1, <2>1, <2>3, <3>1, Zenon DEF AcceptFinish, ChildDone
    <3> QED
      BY <2>1, <2>3, <3>2, FinishChild
  <2>4. CASE up = None /\ b # None
    <3>1. GraphDone(run, b, context)
      BY <1>1, <2>1, <2>2, <2>4, Zenon DEF AcceptFinish, GraphDone
    <3>2. node[run].up = None /\ b = node[run].boundary /\ b # None
      BY <2>1, <2>2, <2>4
    <3> QED
      BY <3>1, <3>2, FinishGraph
  <2>5. CASE up = None /\ b = None
    <3>1. /\ node' = Without(node, run)
          /\ stack' = [stack EXCEPT ![Depth] = [context EXCEPT !.done = TRUE]]
          /\ fault' = IF context.done THEN "invalid root delivery" ELSE fault
      BY <1>1, <2>1, <2>2, <2>5, Zenon DEF AcceptFinish
    <3> QED
      BY <2>1, <2>2, <2>5, <3>1, FinishRoot
  <2> QED
    BY <2>3, <2>4, <2>5
<1>2. CASE event = "graph" /\ AcceptGraph(run, context)
  BY <1>2, GraphComes
<1>3. CASE event = "coordinator" /\ ~(event = "finish") /\ ~(event = "graph")
  <2>1. /\ stack' = [stack EXCEPT ![Depth] = Push(context, <<run>>)]
        /\ node' = [node EXCEPT ![run].safe = FALSE]
        /\ fault' = fault
    BY <1>3 DEF Accept
  <2> QED
    BY <2>1, BackComes
<1> QED
  BY <1>1, <1>2, <1>3 DEF Accept

-----------------------------------------------------------------------------
(***************************************************************************)
(* Steps that move no run: threads change their phase, the coordinator its *)
(* place in the loop.                                                      *)
(***************************************************************************)
Phases == {"none", "start", "check", "waiting", "busy", "leave", "exited"}
Running == {"loop", "drain", "complete", "asleep", "advance"}
Ending == {"failing", "joining", "down"}

\* Nobody is created and nobody takes or drops a run.
MovesOn(a, b) ==
    /\ b \in [Worker -> Phases]
    /\ \A w \in Worker : /\ b[w] = "none" <=> a[w] = "none"
                         /\ b[w] = "busy" <=> a[w] = "busy"

GoesOn ==
    \/ pc' = pc
    \/ pc # "down" /\ pc' \in {"failing", "joining"}
    \/ pc \in {"loop", "drain", "complete", "asleep"} /\ pc' \in {"complete", "asleep"}
    \/ pc = "drain" /\ pc' = "advance" /\ pending = 0

\* The coordinator's part of Control.
Coordinated ==
    /\ pc \in Running => Depth >= 1
    /\ pc \in {"advance", "drain"} => Top.hand # None
    /\ pc = "loop" => Top.hand = None
    /\ \A d \in 1..(Depth - 1) : stack[d].hand # None
    /\ pc = "advance" => pending = 0
    /\ fault = "none"
Working == \A w \in Worker : at[w] = "busy" <=> holds[w] # None

\* Control is the workers' part and the coordinator's.
LEMMA ControlParts == Control <=> Working /\ Coordinated
  BY DEF Control, Working, Coordinated, Running

\* A worker that has no run changes its phase.
LEMMA PhaseMoves ==
    ASSUME NEW a, NEW b, MovesOn(a, b), NEW w \in Worker, a[w] \notin {"none", "busy"},
           NEW x \in Phases, x \notin {"none", "busy"}, NEW g, g = [b EXCEPT ![w] = x]
    PROVE  MovesOn(a, g)
<1>1. g \in [Worker -> Phases] /\ g[w] = x /\ \A v \in Worker : v # w => g[v] = b[v]
  BY DEF MovesOn
<1> QED
  BY <1>1 DEF MovesOn

\* A broadcast wakes sleepers only.
LEMMA PhasesStay == ASSUME Types PROVE MovesOn(at, at) /\ MovesOn(at, Woken)
<1>1. at \in [Worker -> Phases]
  BY DEF Types, Phases
<1>2. MovesOn(at, at)
  BY <1>1 DEF MovesOn
<1>3. \A w \in Worker : Woken[w] = IF at[w] = "waiting" THEN "check" ELSE at[w]
  BY DEF Woken
<1>4. \A w \in Worker : Woken[w] \in Phases
  BY <1>1, <1>3 DEF Phases
<1>5. Woken \in [Worker -> Phases]
  BY <1>4 DEF Woken
<1>6. MovesOn(at, Woken)
  BY <1>3, <1>5 DEF MovesOn
<1> QED
  BY <1>2, <1>6

\* The coordinator's part holds while it only changes its place in the loop.
LEMMA CoordinatorGoesOn ==
    ASSUME Types, Coordinated, GoesOn, stack' = stack, pending' = pending, fault' = fault
    PROVE  Coordinated'
<1>1. Depth' = Depth /\ Top' = Top
  BY DEF Depth, Top
<1>2. pc \in Running \/ pc = "returned" \/ pc \in Ending
  BY DEF Types, Running, Ending
<1>3. CASE pc' = pc
  BY <1>1, <1>3 DEF Coordinated
<1>4. CASE pc' \in {"failing", "joining"}
  BY <1>1, <1>4 DEF Coordinated, Running
<1>5. CASE pc \in {"loop", "drain", "complete", "asleep"} /\ pc' \in {"complete", "asleep"}
  BY <1>1, <1>5 DEF Coordinated, Running
<1>6. CASE pc = "drain" /\ pc' = "advance" /\ pending = 0
  BY <1>1, <1>6 DEF Coordinated, Running
<1> QED
  BY <1>3, <1>4, <1>5, <1>6 DEF GoesOn

\* An execution that has failed or ended stays so.
LEMMA ActiveBefore ==
    ASSUME GoesOn, failed => failed', Active'
    PROVE  Active /\ pc # "down"
  BY DEF GoesOn, Active

\* A pool that is shut down stays so.
LEMMA DownStays == ASSUME GoesOn, pc' # "down" PROVE pc # "down"
  BY DEF GoesOn

\* The coordinator's place is one of those it has.
LEMMA PcTyped == ASSUME Types, GoesOn
    PROVE pc' \in {"loop", "drain", "complete", "asleep", "advance", "returned", "failing",
                   "joining", "down"}
  BY DEF Types, GoesOn

\* A step that moves no run keeps the invariant.
LEMMA QuietKeeps ==
    ASSUME Inv, GoesOn, MovesOn(at, at'), failed' = failed, holds' = holds,
           node' = node, stack' = stack, pending' = pending, fault' = fault,
           created' = created, queue' = queue, completed' = completed
    PROVE  Inv'
<1>1. Types /\ Working /\ Coordinated /\ (pc # "down" => Counting) /\ (Active => Graph)
  BY ControlParts DEF Inv
<1>2. Types'
  <2>1. Depth' = Depth
    BY DEF Depth
  <2>2. at' \in [Worker -> {"none", "start", "check", "waiting", "busy", "leave", "exited"}]
    BY DEF MovesOn, Phases
  <2>3. pc' \in {"loop", "drain", "complete", "asleep", "advance", "returned", "failing",
                 "joining", "down"}
    BY <1>1, PcTyped
  <2> QED
    BY <1>1, <2>1, <2>2, <2>3 DEF Types
<1>3. Control'
  <2>1. Coordinated'
    BY <1>1, CoordinatorGoesOn
  <2>2. Working'
    BY <1>1 DEF Working, MovesOn
  <2> QED
    BY <2>1, <2>2, ControlParts, PTL
<1>4. ASSUME pc' # "down" PROVE Counting'
  <2>1. Counting
    BY <1>1, <1>4, DownStays
  <2>2. Hired(at') = Hired(at)
    BY DEF Hired, MovesOn
  <2> QED
    BY <2>1, <2>2 DEF Counting, Desired
<1>5. ASSUME Active' PROVE Graph'
  <2>1. Graph
    BY <1>1, <1>5, ActiveBefore
  <2> QED
    BY <2>1 DEF Graph
<1> QED
  BY <1>2, <1>3, <1>4, <1>5 DEF Inv

\* The coordinator's steps that only change its place, and the threads' that
\* only change theirs.
LEMMA PlaceKeeps ==
    ASSUME Inv, GoesOn, UNCHANGED <<graphVars, poolVars>>
    PROVE  Inv'
<1>1. Types
  BY DEF Inv
<1>2. MovesOn(at, at') /\ failed' = failed /\ holds' = holds
      /\ node' = node /\ stack' = stack /\ pending' = pending /\ fault' = fault
      /\ created' = created /\ queue' = queue /\ completed' = completed
  BY <1>1, PhasesStay DEF graphVars, poolVars
<1> QED
  BY <1>2, QuietKeeps

\* The steps of tb_task_execute that only decide where to go on.
LEMMA CoordinatorQuiet ==
    ASSUME Inv, Drain \/ AwaitPool \/ Sleep \/ SeeFailure \/ CoordinatorFails
    PROVE  Inv'
<1>1. UNCHANGED <<graphVars, poolVars>>
  BY DEF Drain, AwaitPool, Sleep, SeeFailure, CoordinatorFails
<1>2. GoesOn
  <2>1. CASE Drain
    <3>1. Inv /\ pending \in Nat
      BY DEF Inv, Types
    <3> QED
      BY <2>1, <3>1 DEF Drain, MustDrain, GoesOn
  <2>2. CASE AwaitPool
    BY <2>2 DEF AwaitPool, GoesOn
  <2>3. CASE Sleep
    BY <2>3 DEF Sleep, GoesOn
  <2>4. CASE SeeFailure
    BY <2>4 DEF SeeFailure, GoesOn
  <2>5. CASE CoordinatorFails
    BY <2>5 DEF CoordinatorFails, GoesOn
  <2> QED
    BY <2>1, <2>2, <2>3, <2>4, <2>5
<1> QED
  BY <1>1, <1>2, PlaceKeeps

\* A step of the pool that moves no run.
LEMMA PoolQuiet ==
    ASSUME Inv, GoesOn, MovesOn(at, at'), UNCHANGED graphVars,
           UNCHANGED <<created, holds, queue, completed, failed>>
    PROVE  Inv'
<1>1. failed' = failed /\ holds' = holds /\ node' = node /\ stack' = stack
      /\ pending' = pending /\ fault' = fault /\ created' = created
      /\ queue' = queue /\ completed' = completed
  BY DEF graphVars
<1> QED
  BY <1>1, QuietKeeps

\* A broadcast wakes a coordinator that sleeps.
LEMMA Rousing == ASSUME pc' = Roused PROVE GoesOn
  BY DEF Roused, GoesOn

\* A worker starts, leaves, or wakes without a cause.
LEMMA WorkerQuiet ==
    ASSUME Inv, NEW w \in Worker, WorkerStart(w) \/ WorkerLeave(w) \/ Spurious(w)
    PROVE  Inv'
<1>1. Types /\ MovesOn(at, at) /\ MovesOn(at, Woken)
  BY PhasesStay DEF Inv
<1>2. UNCHANGED graphVars /\ UNCHANGED <<created, holds, queue, completed, failed>>
  BY DEF WorkerStart, WorkerLeave, Spurious
<1>3. GoesOn /\ MovesOn(at, at')
  <2>1. CASE WorkerStart(w)
    <3>1. GoesOn /\ at[w] = "start" /\ at' = [at EXCEPT ![w] = "check"]
      BY <2>1 DEF WorkerStart, Step, GoesOn
    <3> QED
      BY <1>1, <3>1, PhaseMoves DEF Phases
  <2>2. CASE WorkerLeave(w)
    <3>1. GoesOn /\ at[w] = "leave" /\ at' = [Woken EXCEPT ![w] = "exited"]
      BY <2>2, Rousing DEF WorkerLeave
    <3> QED
      BY <1>1, <3>1, PhaseMoves DEF Phases
  <2>3. CASE Spurious(w)
    <3>1. GoesOn /\ at[w] = "waiting" /\ at' = [at EXCEPT ![w] = "check"]
      BY <2>3 DEF Spurious, Step, GoesOn
    <3> QED
      BY <1>1, <3>1, PhaseMoves DEF Phases
  <2> QED
    BY <2>1, <2>2, <2>3
<1> QED
  BY <1>2, <1>3, PoolQuiet

\* tb_cpu_shutdown tells everyone to stop.
LEMMA ShutdownKeeps == ASSUME Inv, Shutdown PROVE Inv'
<1>1. MovesOn(at, at')
  BY PhasesStay DEF Inv, Shutdown, Stopped
<1>2. GoesOn
  BY DEF Shutdown, GoesOn
<1> QED
  BY <1>1, <1>2, PoolQuiet DEF Shutdown

\* tb_cpu_shutdown has joined every thread.
LEMMA JoinKeeps == ASSUME Inv, Join PROVE Inv'
<1>1. Types /\ Working /\ Coordinated
  BY ControlParts DEF Inv
<1>2. /\ node' = node /\ stack' = stack /\ fault' = fault /\ at' = at /\ holds' = holds
      /\ queue' = queue /\ completed' = completed /\ failed' = failed
      /\ pc' = "down" /\ pending' = 0 /\ created' = 0
  BY DEF Join
<1>3. Types'
  <2>1. Depth' = Depth
    BY <1>2 DEF Depth
  <2> QED
    BY <1>1, <1>2, <2>1 DEF Types
<1>4. Coordinated' /\ Working'
  <2>1. Depth' = Depth /\ Top' = Top
    BY <1>2 DEF Depth, Top
  <2> QED
    BY <1>1, <1>2, <2>1 DEF Coordinated, Working, Running
<1>5. Control'
  BY <1>4, ControlParts, PTL
<1> QED
  BY <1>2, <1>3, <1>5 DEF Inv, Active

-----------------------------------------------------------------------------
(***************************************************************************)
(* The workers' steps with a run, and the count of the runs in the pool.   *)
(***************************************************************************)
LEMMA GivenIs ==
    ASSUME NEW h \in [Worker -> {None} \cup Id], NEW w \in Worker, NEW i \in {None} \cup Id,
           NEW g, g = [h EXCEPT ![w] = i]
    PROVE  Given(h, w, i, g)
  BY DEF Given

\* The workers with a run can be counted.
LEMMA HoldersFinite == ASSUME NEW h
    PROVE IsFiniteSet(Holders(h)) /\ Cardinality(Holders(h)) \in Nat
<1>1. Holders(h) \subseteq Worker
  BY DEF Holders
<1> QED
  BY <1>1, CpuAssumption, FS_Subset, FS_CardinalityType

\* A worker gets a run.
LEMMA HoldersMore ==
    ASSUME NEW h, NEW w \in Worker, h[w] = None, NEW i, i # None, NEW g, Given(h, w, i, g)
    PROVE  Cardinality(Holders(g)) = Cardinality(Holders(h)) + 1
<1>1. w \notin Holders(h) /\ Holders(g) = Holders(h) \cup {w}
  BY DEF Holders, Given
<1> QED
  BY <1>1, HoldersFinite, FS_AddElement

\* A worker gives its run away.
LEMMA HoldersLess ==
    ASSUME NEW h \in [Worker -> {None} \cup Id], NEW w \in Worker, h[w] # None,
           NEW g, Given(h, w, None, g)
    PROVE  /\ Cardinality(Holders(h)) = Cardinality(Holders(g)) + 1
           /\ Cardinality(Holders(g)) \in Nat
<1>1. g[w] = None /\ Given(g, w, h[w], h)
  BY DEF Given
<1> QED
  BY <1>1, HoldersMore, HoldersFinite

\* A run moves inside the pool.
LEMMA CountStays ==
    ASSUME Counting, Hired(at') = Hired(at), created' = created, pending' = pending,
           failed' = failed,
           InPool(queue', completed', holds') = InPool(queue, completed, holds)
    PROVE  Counting'
  BY DEF Counting, Desired

\* A busy worker has a run of its own, an idle one has none.
LEMMA WorkingMoves ==
    ASSUME Types, Working, NEW b, MovesOn(at, b), NEW w \in Worker, NEW x \in Phases,
           at' = [b EXCEPT ![w] = x], NEW i, Given(holds, w, i, holds'), x = "busy" <=> i # None
    PROVE  Working' /\ at' \in [Worker -> Phases]
           /\ (x # "none" /\ at[w] # "none" => Hired(at') = Hired(at))
<1>1. /\ holds'[w] = i /\ \A v \in Worker : v # w => holds'[v] = holds[v]
  BY DEF Given
<1>2. at' \in [Worker -> Phases] /\ at'[w] = x /\ \A v \in Worker : v # w => at'[v] = b[v]
  BY DEF MovesOn
<1>3. Working'
  BY <1>1, <1>2 DEF Working, MovesOn
<1>4. x # "none" /\ at[w] # "none" => Hired(at') = Hired(at)
  BY <1>2 DEF Hired, MovesOn
<1> QED
  BY <1>2, <1>3, <1>4

\* What the worker's steps leave to the coordinator.
LEMMA PoolKeeps ==
    ASSUME Inv, GoesOn, stack' = stack, pending' = pending, fault' = fault, created' = created,
           Table(node'), Working', at' \in [Worker -> Phases],
           holds' \in [Worker -> {None} \cup Id], queue' \in Seq(Id), completed' \in Seq(Id),
           failed' \in BOOLEAN, Counting => Counting', failed => failed',
           Active /\ Active' => Graph'
    PROVE  Inv'
<1>1. Types /\ Coordinated /\ (pc # "down" => Counting)
  BY ControlParts DEF Inv
<1>2. Types'
  <2>1. Depth' = Depth
    BY DEF Depth
  <2>2. at' \in [Worker -> {"none", "start", "check", "waiting", "busy", "leave", "exited"}]
    BY DEF Phases
  <2>3. pc' \in {"loop", "drain", "complete", "asleep", "advance", "returned", "failing",
                 "joining", "down"}
    BY <1>1, PcTyped
  <2> QED
    BY <1>1, <2>1, <2>2, <2>3 DEF Types
<1>3. Control'
  <2>1. Coordinated'
    BY <1>1, CoordinatorGoesOn
  <2> QED
    BY <2>1, ControlParts, PTL
<1>4. pc' # "down" => Counting'
  BY <1>1, DownStays
<1>5. Active' => Graph'
  BY ActiveBefore
<1> QED
  BY <1>2, <1>3, <1>4, <1>5 DEF Inv

\* A worker takes the first queued run, sleeps, or leaves when it is told to stop.
LEMMA WorkerTakes ==
    ASSUME Inv, NEW w \in Worker, WorkerTake(w)
    PROVE  Inv'
<1>1. Types /\ Working /\ MovesOn(at, at) /\ at[w] = "check" /\ GoesOn
  BY PhasesStay, ControlParts DEF Inv, WorkerTake, GoesOn
<1>2. UNCHANGED graphVars /\ UNCHANGED <<pc, created, completed, stop, failed>>
  BY DEF WorkerTake
<1>3. CASE at' = [at EXCEPT ![w] = "leave"] /\ UNCHANGED <<holds, queue>>
  <2>1. MovesOn(at, at')
    BY <1>1, <1>3, PhaseMoves DEF Phases
  <2> QED
    BY <1>1, <1>2, <1>3, <2>1, PoolQuiet
<1>4. CASE at' = [at EXCEPT ![w] = "waiting"] /\ UNCHANGED <<holds, queue>>
  <2>1. MovesOn(at, at')
    BY <1>1, <1>4, PhaseMoves DEF Phases
  <2> QED
    BY <1>1, <1>2, <1>4, <2>1, PoolQuiet
<1>5. CASE /\ queue # <<>> /\ at' = [at EXCEPT ![w] = "busy"]
           /\ holds' = [holds EXCEPT ![w] = Head(queue)] /\ queue' = Tail(queue)
  <2>1. PICK i : i = Head(queue)
    OBVIOUS
  <2>2. queue \in Seq(Id) /\ holds \in [Worker -> {None} \cup Id] /\ completed \in Seq(Id)
    BY <1>1 DEF Types
  <2>3. First(queue, i) /\ i \in Id /\ i # None /\ queue' \in Seq(Id) /\ Len(queue) = Len(queue') + 1
        /\ queue' = Tail(queue)
    BY <1>5, <2>1, <2>2, NoneIsNoRun, HeadTailProperties, EmptySeq DEF First
  <2>4. Given(holds, w, i, holds') /\ holds' \in [Worker -> {None} \cup Id]
    BY <1>5, <2>1, <2>2, <2>3, GivenIs DEF Given
  <2>5. holds[w] = None
    BY <1>1 DEF Working
  <2>6. Working' /\ at' \in [Worker -> Phases] /\ Hired(at') = Hired(at)
    <3>1. "busy" \in Phases
      BY DEF Phases
    <3> QED
      BY <1>1, <1>5, <2>3, <2>4, <3>1, WorkingMoves
  <2>7. InPool(queue', completed', holds') = InPool(queue, completed, holds)
    <3>1. Cardinality(Holders(holds')) = Cardinality(Holders(holds)) + 1
      BY <2>3, <2>4, <2>5, HoldersMore
    <3>2. Cardinality(Holders(holds)) \in Nat /\ Len(queue') \in Nat /\ Len(completed) \in Nat
      BY <2>2, <2>3, HoldersFinite, LenProperties
    <3>3. completed' = completed
      BY <1>2
    <3> QED
      BY <2>3, <3>1, <3>2, <3>3 DEF InPool
  <2>8. Counting => Counting'
    BY <1>2, <2>6, <2>7, CountStays DEF graphVars
  <2>9. ASSUME Active PROVE Graph'
    <3>1. PICK p : Books(node, stack, queue, completed, holds, p) /\ NoneLoose(p)
      BY <2>9 DEF Inv, Graph
    <3>2. PICK u : Books(node, stack, queue', completed, holds', u) /\ NoneLoose(u)
      BY <2>2, <2>3, <2>4, <2>5, <3>1, BooksWork
    <3> QED
      BY <1>2, <3>2 DEF Graph, graphVars
  <2>10. /\ stack' = stack /\ pending' = pending /\ fault' = fault /\ created' = created
         /\ node' = node /\ completed' = completed /\ failed' = failed
    BY <1>2 DEF graphVars
  <2>11. Table(node) /\ failed \in BOOLEAN
    BY <1>1 DEF Types
  <2> QED
    BY <1>1, <2>2, <2>3, <2>4, <2>6, <2>8, <2>9, <2>10, <2>11, PoolKeeps
<1> QED
  BY <1>3, <1>4, <1>5 DEF WorkerTake, Step

\* The event of an advanced run is a field of its node.
LEMMA EventIs ==
    ASSUME Table(node), NEW i, NEW event \in {"none", "finish", "graph", "coordinator"},
           NEW m, m = [node EXCEPT ![i].event = event]
    PROVE  Table(m) /\ Same(node, m)
<1>1. CASE i \in DOMAIN node
  <2>1. PICK x : x = [node[i] EXCEPT !.event = event]
    OBVIOUS
  <2>2. node[i] \in Node
    BY <1>1 DEF Table
  <2>3. /\ x \in Node /\ x.up = node[i].up /\ x.boundary = node[i].boundary
        /\ x.depth = node[i].depth /\ x.remaining = node[i].remaining
    BY <2>1, <2>2 DEF Node
  <2>4. m = [node EXCEPT ![i] = x]
    BY <1>1, <2>1
  <2>5. Table(m) /\ Changed(node, i, x, m)
    BY <1>1, <2>3, <2>4, ChangedIs
  <2> QED
    BY <2>3, <2>5 DEF Same, Changed
<1>2. CASE i \notin DOMAIN node
  <2>1. DOMAIN m = DOMAIN node /\ \A j \in DOMAIN node : m[j] = node[j]
    BY <1>2
  <2>2. m = [j \in DOMAIN node |-> node[j]]
    BY <1>2
  <2>3. Table(m)
    BY <2>1, <2>2 DEF Table
  <2> QED
    BY <2>1, <2>3 DEF Same
<1> QED
  BY <1>1, <1>2

\* A worker has advanced its run and completes it.
LEMMA WorkerFinishes ==
    ASSUME Inv, NEW w \in Worker, WorkerDone(w)
    PROVE  Inv'
<1>1. Types /\ Working /\ MovesOn(at, Woken) /\ at[w] = "busy" /\ GoesOn
  BY PhasesStay, ControlParts, Rousing DEF Inv, WorkerDone
<1>2. PICK i : i = holds[w]
  OBVIOUS
<1>3. /\ stack' = stack /\ pending' = pending /\ fault' = fault /\ created' = created
      /\ queue' = queue /\ failed' = failed /\ completed' = Append(completed, i)
      /\ holds' = [holds EXCEPT ![w] = None] /\ at' = [Woken EXCEPT ![w] = "check"]
  BY <1>2 DEF WorkerDone
<1>4. PICK event \in {"finish", "graph", "coordinator"} :
         node' = [node EXCEPT ![i].event = event]
  BY <1>2 DEF WorkerDone
<1>5. /\ queue \in Seq(Id) /\ completed \in Seq(Id) /\ holds \in [Worker -> {None} \cup Id]
      /\ Table(node) /\ failed \in BOOLEAN
  BY <1>1 DEF Types
<1>6. i \in Id /\ i # None /\ holds[w] # None
  BY <1>1, <1>2, <1>5 DEF Working
<1>7. Table(node') /\ Same(node, node')
  BY <1>4, <1>5, EventIs
<1>8. Given(holds, w, None, holds') /\ holds' \in [Worker -> {None} \cup Id]
  BY <1>3, <1>5, GivenIs DEF Given
<1>9. Working' /\ at' \in [Worker -> Phases] /\ Hired(at') = Hired(at)
  <2>1. "check" \in Phases
    BY DEF Phases
  <2> QED
    BY <1>1, <1>3, <1>8, <2>1, WorkingMoves
<1>10. completed' \in Seq(Id) /\ Len(completed') = Len(completed) + 1
  BY <1>3, <1>5, <1>6, AppendProperties
<1>11. InPool(queue', completed', holds') = InPool(queue, completed, holds)
  <2>1. /\ Cardinality(Holders(holds)) = Cardinality(Holders(holds')) + 1
        /\ Cardinality(Holders(holds')) \in Nat
    BY <1>5, <1>6, <1>8, HoldersLess
  <2>2. Len(queue) \in Nat /\ Len(completed) \in Nat
    BY <1>5, LenProperties
  <2> QED
    BY <1>3, <1>10, <2>1, <2>2 DEF InPool
<1>12. Counting => Counting'
  BY <1>3, <1>9, <1>11, CountStays
<1>13. ASSUME Active PROVE Graph'
  <2>1. PICK p : Books(node, stack, queue, completed, holds, p) /\ NoneLoose(p)
    BY <1>13 DEF Inv, Graph
  <2>2. PICK u : Books(node', stack, queue, Append(completed, i), holds', u) /\ NoneLoose(u)
    BY <1>2, <1>5, <1>6, <1>7, <1>8, <2>1, BooksWorked
  <2> QED
    BY <1>3, <2>2 DEF Graph
<1> QED
  BY <1>1, <1>3, <1>5, <1>7, <1>8, <1>9, <1>10, <1>12, <1>13, PoolKeeps

\* A worker fails: its run is dropped and stays counted.
LEMMA WorkerGivesUp ==
    ASSUME Inv, NEW w \in Worker, WorkerFails(w)
    PROVE  Inv'
<1>1. Types /\ Working /\ MovesOn(at, Woken) /\ at[w] = "busy" /\ GoesOn
  BY PhasesStay, ControlParts, Rousing DEF Inv, WorkerFails
<1>2. /\ node' = node /\ stack' = stack /\ pending' = pending /\ fault' = fault
      /\ created' = created /\ queue' = queue /\ completed' = completed /\ failed' = TRUE
      /\ holds' = [holds EXCEPT ![w] = None] /\ at' = [Woken EXCEPT ![w] = "leave"]
  BY DEF WorkerFails, graphVars
<1>3. /\ queue \in Seq(Id) /\ completed \in Seq(Id) /\ holds \in [Worker -> {None} \cup Id]
      /\ Table(node) /\ pending \in Nat
  BY <1>1 DEF Types
<1>4. holds[w] # None
  BY <1>1 DEF Working
<1>5. Given(holds, w, None, holds') /\ holds' \in [Worker -> {None} \cup Id]
  BY <1>2, <1>3, GivenIs DEF Given
<1>6. Working' /\ at' \in [Worker -> Phases] /\ Hired(at') = Hired(at)
  <2>1. "leave" \in Phases
    BY DEF Phases
  <2> QED
    BY <1>1, <1>2, <1>5, <2>1, WorkingMoves
<1>7. PICK a, b : a = InPool(queue, completed, holds) /\ b = InPool(queue, completed, holds')
  OBVIOUS
<1>8. b \in Nat /\ a = b + 1
  <2>1. /\ Cardinality(Holders(holds)) = Cardinality(Holders(holds')) + 1
        /\ Cardinality(Holders(holds')) \in Nat
    BY <1>3, <1>4, <1>5, HoldersLess
  <2>2. Len(queue) \in Nat /\ Len(completed) \in Nat
    BY <1>3, LenProperties
  <2> QED
    BY <1>7, <2>1, <2>2 DEF InPool
<1>9. Counting => Counting'
  <2> HAVE Counting
  <2>1. pending > b
    <3>1. failed => pending > a
      BY <1>7 DEF Counting
    <3>2. ~failed => pending = a
      BY <1>7 DEF Counting
    <3> QED
      BY <1>3, <1>8, <3>1, <3>2
  <2>2. InPool(queue', completed', holds') = b
    BY <1>2, <1>7
  <2> QED
    BY <1>2, <1>6, <2>1, <2>2 DEF Counting, Desired
<1>10. ~Active'
  BY <1>2 DEF Active
<1> QED
  BY <1>1, <1>2, <1>3, <1>5, <1>6, <1>9, <1>10, PoolKeeps

-----------------------------------------------------------------------------
(***************************************************************************)
(* The coordinator's steps with a run.                                     *)
(***************************************************************************)
LEMMA CoordinatorHands ==
    ASSUME Types, Coordinated, Depth >= 1, stack' \in Seq(Context), Len(stack') = Depth,
           \A e \in DOMAIN stack : e # Depth => stack'[e] = stack[e],
           NEW hand, stack'[Depth].hand = hand, fault' = "none",
           pc' \in Running \cup {"failing"}, pc' \in {"advance", "drain"} => hand # None,
           pc' = "loop" => hand = None, pc' = "advance" => pending' = 0
    PROVE  Coordinated' /\ Depth' = Depth
<1>1. Depth' = Depth /\ Top'.hand = hand
  BY DEF Depth, Top
<1>2. DOMAIN stack = 1..Depth /\ Depth \in Nat
  BY LenProperties DEF Types, Depth
<1>3. \A d \in 1..(Depth - 1) : d \in DOMAIN stack /\ d # Depth
  BY <1>2
<1>4. \A d \in 1..(Depth - 1) : stack'[d].hand # None
  BY <1>3 DEF Coordinated
<1>5. (pc \in Running => Depth >= 1)'
  BY <1>1
<1>6. (pc \in {"advance", "drain"} => Top.hand # None)'
  BY <1>1
<1>7. (pc = "loop" => Top.hand = None)'
  BY <1>1
<1> QED
  BY <1>1, <1>4, <1>5, <1>6, <1>7 DEF Coordinated

\* The innermost execution is there, and its context.
LEMMA TopIs ==
    ASSUME Types, Depth >= 1
    PROVE  /\ Depth \in Nat /\ DOMAIN stack = 1..Depth /\ Depth \in DOMAIN stack
           /\ Top \in Context /\ Top.ready \in Seq(Id) /\ Len(stack) = Depth
<1>1. stack \in Seq(Context)
  BY DEF Types
<1>2. Depth \in Nat /\ DOMAIN stack = 1..Depth /\ Len(stack) = Depth
  BY <1>1, LenProperties DEF Depth
<1>3. Depth \in DOMAIN stack
  BY <1>2
<1>4. Top \in Context
  BY <1>1, <1>3 DEF Top
<1> QED
  BY <1>2, <1>3, <1>4 DEF Context

\* A first ready run leaves a shorter queue.
LEMMA ReadySplit ==
    ASSUME Types, Depth >= 1, Top.ready # <<>>
    PROVE  /\ Head(Top.ready) \in Id /\ Tail(Top.ready) \in Seq(Id)
           /\ Len(Tail(Top.ready)) \in Nat
<1>1. Top.ready \in Seq(Id)
  BY TopIs
<1> QED
  BY <1>1, HeadTailProperties, LenProperties

\* The pool grows with the ready frontier.
LEMMA Growing ==
    ASSUME Types, Counting, NEW b, MovesOn(at, b), NEW S \in NewWorkers(Frontier(Tail(Top.ready))),
           Len(Tail(Top.ready)) \in Nat,
           at' = [w \in Worker |-> IF w \in S THEN "start" ELSE b[w]],
           created' = created + Cardinality(S), pending' = pending + 1
    PROVE  /\ at' \in [Worker -> Phases] /\ created' \in Nat
           /\ created' = Cardinality(Hired(at'))
           /\ created' >= (IF pending' < Desired THEN pending' ELSE Desired)
           /\ \A w \in Worker : at'[w] = "busy" <=> at[w] = "busy"
<1>1. S \subseteq {w \in Worker : at[w] = "none"}
  BY DEF NewWorkers
<1>2. PICK count : count = Frontier(Tail(Top.ready))
  OBVIOUS
<1>3. PICK l : l = Len(Tail(Top.ready))
  OBVIOUS
<1>4. pending \in Nat /\ created \in Nat /\ Desired \in Nat /\ l \in Nat
  BY <1>3, CpuAssumption, FS_CardinalityType DEF Types, Desired
<1>5. /\ count \in Nat
      /\ count >= (IF pending + 1 < Desired THEN pending + 1 ELSE Desired)
  <2>1. count = IF pending + 1 + l < Desired THEN pending + 1 + l ELSE Desired
    BY <1>2, <1>3 DEF Frontier
  <2>2. PICK k \in Nat, e \in Nat : k = pending /\ e = Desired
    BY <1>4
  <2> QED
    BY <1>4, <2>1, <2>2
<1>6. IsFiniteSet(S) /\ IsFiniteSet(Hired(at)) /\ Cardinality(S) \in Nat
      /\ Cardinality(Hired(at)) \in Nat
  BY <1>1, CpuAssumption, FS_Subset, FS_CardinalityType DEF Hired
<1>7. Cardinality(S) = IF count > created THEN count - created ELSE 0
  BY <1>2 DEF NewWorkers
<1>8. created' >= count /\ created' \in Nat
  BY <1>4, <1>5, <1>6, <1>7
<1>9. \A w \in Worker : at'[w] = IF w \in S THEN "start" ELSE b[w]
  OBVIOUS
<1>10. at' \in [Worker -> Phases] /\ \A w \in Worker : at'[w] = "busy" <=> at[w] = "busy"
  <2>1. \A w \in Worker : at'[w] \in Phases
    BY <1>9 DEF MovesOn, Phases
  <2>2. at' \in [Worker -> Phases]
    BY <2>1
  <2> QED
    BY <1>1, <1>9, <2>2 DEF MovesOn
<1>11. Hired(at') = Hired(at) \cup S /\ Hired(at) \cap S = {}
  BY <1>1, <1>9 DEF Hired, MovesOn
<1>12. Cardinality(Hired(at')) = Cardinality(Hired(at)) + Cardinality(S)
  <2>1. Cardinality(Hired(at) \cup S)
          = Cardinality(Hired(at)) + Cardinality(S) - Cardinality(Hired(at) \cap S)
    BY <1>6, FS_Union
  <2>2. Cardinality({}) = 0
    BY FS_EmptySet
  <2>3. PICK a \in Nat, c \in Nat : a = Cardinality(Hired(at)) /\ c = Cardinality(S)
    BY <1>6
  <2>4. Cardinality(Hired(at) \cup S) = a + c - 0
    BY <1>11, <2>1, <2>2, <2>3
  <2>5. Cardinality(Hired(at')) = Cardinality(Hired(at) \cup S)
    BY <1>11
  <2>6. a + c - 0 = a + c
    BY <2>3
  <2> QED
    BY <2>3, <2>4, <2>5, <2>6
<1>13. created = Cardinality(Hired(at))
  BY DEF Counting
<1> QED
  BY <1>4, <1>5, <1>8, <1>10, <1>12, <1>13

\* The types of a step that leaves the workers' runs alone.
LEMMA TypesAgain ==
    ASSUME Types, Table(node'), stack' \in Seq(Context), Depth' <= MaxDepth,
           pc' \in Running \cup Ending \cup {"returned"}, pending' \in Nat, created' \in Nat,
           at' \in [Worker -> Phases], holds' = holds, queue' \in Seq(Id),
           completed' \in Seq(Id), failed' = failed
    PROVE  Types'
<1>1. pc' \in {"loop", "drain", "complete", "asleep", "advance", "returned", "failing",
               "joining", "down"}
  BY DEF Running, Ending
<1>2. at' \in [Worker -> {"none", "start", "check", "waiting", "busy", "leave", "exited"}]
  BY DEF Phases
<1> QED
  BY <1>1, <1>2 DEF Types

\* What every step of the coordinator's loop can use.
LEMMA LoopFacts ==
    ASSUME Inv, pc \in Running
    PROVE  /\ Types /\ Working /\ Coordinated /\ Counting /\ Depth >= 1 /\ Depth <= MaxDepth
           /\ (~failed => Graph) /\ fault = "none"
           /\ at \in [Worker -> Phases] /\ holds \in [Worker -> {None} \cup Id]
           /\ queue \in Seq(Id) /\ completed \in Seq(Id) /\ failed \in BOOLEAN
           /\ pending \in Nat /\ created \in Nat /\ Table(node) /\ stack \in Seq(Context)
<1>1. Types /\ Working /\ Coordinated
  BY ControlParts DEF Inv
<1>2. pc # "down" /\ pc \notin {"failing", "joining", "down"}
  BY DEF Running
<1>3. Counting /\ (~failed => Graph)
  BY <1>2 DEF Inv, Active
<1>4. Depth >= 1 /\ fault = "none"
  BY <1>1 DEF Coordinated
<1>5. at \in [Worker -> Phases]
  BY <1>1 DEF Types, Phases
<1> QED
  BY <1>1, <1>3, <1>4, <1>5 DEF Types

\* The context that replaces the innermost one.
LEMMA TopReplaced ==
    ASSUME Types, Depth >= 1, NEW x \in Context, NEW t, t = [stack EXCEPT ![Depth] = x]
    PROVE  /\ t \in Seq(Context) /\ Len(t) = Depth /\ DOMAIN t = DOMAIN stack /\ t[Depth] = x
           /\ \A e \in DOMAIN stack : e # Depth => t[e] = stack[e]
<1>1. stack \in Seq(Context) /\ Depth \in DOMAIN stack /\ Len(stack) = Depth
  BY TopIs DEF Types
<1>2. Replaced(stack, Depth, x, t)
  BY <1>1, ReplacedIs
<1> QED
  BY <1>1, <1>2 DEF Replaced

\* tb_cpu_submit: a safe run goes to the pool.
LEMMA SubmitKeeps == ASSUME Inv, Submit PROVE Inv'
<1>1. pc = "loop" /\ pc \in Running /\ Top.ready # <<>>
  BY DEF Submit, Running
<1>2. /\ Types /\ Working /\ Coordinated /\ Counting /\ Depth >= 1 /\ Depth <= MaxDepth
      /\ (~failed => Graph) /\ holds \in [Worker -> {None} \cup Id]
      /\ queue \in Seq(Id) /\ completed \in Seq(Id) /\ failed \in BOOLEAN
      /\ pending \in Nat /\ Table(node) /\ stack \in Seq(Context)
  BY <1>1, LoopFacts
<1>3. /\ Depth \in DOMAIN stack /\ Top \in Context /\ Len(stack) = Depth
      /\ Top = stack[Depth]
  BY <1>2, TopIs DEF Top
<1>4. PICK i, rest : i = Head(Top.ready) /\ rest = Tail(Top.ready)
  OBVIOUS
<1>5. i \in Id /\ rest \in Seq(Id) /\ Len(rest) \in Nat
  BY <1>1, <1>2, <1>4, ReadySplit
<1>6. PICK x : x = [Top EXCEPT !.ready = rest]
  OBVIOUS
<1>7. x \in Context /\ x.ready = rest /\ x.hand = Top.hand /\ x.done = Top.done
  BY <1>3, <1>5, <1>6 DEF Context
<1>8. PICK t : t = stack'
  OBVIOUS
<1>9. /\ t = [stack EXCEPT ![Depth].ready = rest] /\ queue' = Append(queue, i)
      /\ pending' = pending + 1
      /\ node' = node /\ pc' = pc /\ fault' = fault /\ holds' = holds
      /\ completed' = completed /\ failed' = failed
  BY <1>4, <1>8 DEF Submit
<1>10. t = [stack EXCEPT ![Depth] = x]
  BY <1>3, <1>6, <1>9
<1>11. /\ t \in Seq(Context) /\ Len(t) = Depth /\ DOMAIN t = DOMAIN stack /\ t[Depth] = x
       /\ \A e \in DOMAIN stack : e # Depth => t[e] = stack[e]
  BY <1>2, <1>7, <1>10, TopReplaced
<1>12. PICK S \in NewWorkers(Frontier(rest)) :
          /\ at' = [w \in Worker |-> IF w \in S THEN "start" ELSE Woken[w]]
          /\ created' = created + Cardinality(S)
  BY <1>4 DEF Submit
<1>13. /\ at' \in [Worker -> Phases] /\ created' \in Nat
       /\ created' = Cardinality(Hired(at'))
       /\ created' >= (IF pending' < Desired THEN pending' ELSE Desired)
       /\ \A w \in Worker : at'[w] = "busy" <=> at[w] = "busy"
  <2>1. MovesOn(at, Woken)
    BY <1>2, PhasesStay
  <2> QED
    BY <1>2, <1>4, <1>5, <1>9, <1>12, <2>1, Growing
<1>14. queue' \in Seq(Id) /\ Len(queue') = Len(queue) + 1
  BY <1>2, <1>5, <1>9, AppendProperties
<1>15. Coordinated' /\ Depth' = Depth
  <2>1. Top.hand = None
    BY <1>1, <1>2 DEF Coordinated
  <2>2. fault' = "none" /\ pc' = "loop" /\ pc' \in Running
    BY <1>1, <1>2, <1>9 DEF Coordinated
  <2> QED
    BY <1>2, <1>7, <1>8, <1>11, <2>1, <2>2, CoordinatorHands
<1>16. Working'
  BY <1>2, <1>9, <1>13 DEF Working
<1>17. Types'
  BY <1>1, <1>2, <1>8, <1>9, <1>11, <1>13, <1>14, <1>15, TypesAgain
<1>18. Counting'
  <2>1. InPool(queue', completed', holds') = InPool(queue, completed, holds) + 1
        /\ InPool(queue, completed, holds) \in Nat
    <3>1. Cardinality(Holders(holds)) \in Nat /\ Len(queue) \in Nat /\ Len(completed) \in Nat
      BY <1>2, HoldersFinite, LenProperties
    <3> QED
      BY <1>9, <1>14, <3>1 DEF InPool
  <2>2. PICK a, b : a = InPool(queue, completed, holds) /\ b = InPool(queue', completed', holds')
    OBVIOUS
  <2>3. a \in Nat /\ b = a + 1 /\ pending' = pending + 1 /\ failed' = failed
    BY <1>9, <2>1, <2>2
  <2>4. (~failed => pending = a) /\ (failed => pending > a)
    BY <1>2, <2>2 DEF Counting
  <2>5. (~failed' => pending' = b) /\ (failed' => pending' > b)
    BY <1>2, <2>3, <2>4
  <2> QED
    BY <1>13, <2>2, <2>5 DEF Counting, Desired
<1>19. ASSUME Active' PROVE Graph'
  <2>1. PICK p : Books(node, stack, queue, completed, holds, p) /\ NoneLoose(p)
    BY <1>2, <1>9, <1>19 DEF Graph, Active
  <2>2. ReadyLess(stack, Depth, t) /\ SameHands(stack, t) /\ SameDone(stack, t)
    BY <1>3, <1>4, <1>7, <1>11 DEF ReadyLess, SameHands, SameDone
  <2>3. /\ Len(stack) \in DOMAIN stack /\ stack[Len(stack)].ready # <<>>
        /\ i = Head(stack[Len(stack)].ready) /\ Len(t) = Len(stack)
        /\ ReadyLess(stack, Len(stack), t)
    BY <1>1, <1>3, <1>4, <1>11, <2>2
  <2>4. \E u : Books(node, t, Append(queue, i), completed, holds, u) /\ NoneLoose(u)
    BY <1>11, <2>1, <2>2, <2>3, BooksSubmit
  <2> QED
    BY <1>8, <1>9, <2>4 DEF Graph
<1>20. Control'
  BY <1>15, <1>16, ControlParts, PTL
<1> QED
  BY <1>17, <1>18, <1>19, <1>20 DEF Inv

\* A run that only the coordinator may advance is taken in hand.
LEMMA TakeInHandKeeps == ASSUME Inv, TakeInHand PROVE Inv'
<1>1. pc = "loop" /\ pc \in Running /\ Top.ready # <<>>
  BY DEF TakeInHand, Running
<1>2. /\ Types /\ Working /\ Coordinated /\ Counting /\ Depth >= 1 /\ Depth <= MaxDepth
      /\ (~failed => Graph) /\ at \in [Worker -> Phases]
      /\ queue \in Seq(Id) /\ completed \in Seq(Id) /\ fault = "none"
      /\ pending \in Nat /\ created \in Nat /\ Table(node) /\ stack \in Seq(Context)
  BY <1>1, LoopFacts
<1>3. /\ Depth \in DOMAIN stack /\ Top \in Context /\ Len(stack) = Depth
      /\ Top = stack[Depth]
  BY <1>2, TopIs DEF Top
<1>4. PICK i, rest : i = Head(Top.ready) /\ rest = Tail(Top.ready)
  OBVIOUS
<1>5. i \in Id /\ rest \in Seq(Id) /\ i # None
  BY <1>1, <1>2, <1>4, ReadySplit, NoneIsNoRun
<1>6. PICK x : x = [ready |-> rest, hand |-> i, done |-> Top.done]
  OBVIOUS
<1>7. x \in Context /\ x.ready = rest /\ x.hand = i /\ x.done = Top.done
  BY <1>3, <1>5, <1>6 DEF Context
<1>8. PICK t : t = stack'
  OBVIOUS
<1>9. /\ t = [stack EXCEPT ![Depth].hand = i, ![Depth].ready = rest]
      /\ pc' = "drain" /\ node' = node /\ pending' = pending /\ fault' = fault
      /\ created' = created /\ at' = at /\ holds' = holds /\ queue' = queue
      /\ completed' = completed /\ failed' = failed
  BY <1>4, <1>8 DEF TakeInHand, poolVars
<1>10. t = [stack EXCEPT ![Depth] = x]
  <2>1. PICK y : y = [Top EXCEPT !.hand = i]
    OBVIOUS
  <2>2. Top = [ready |-> Top.ready, hand |-> Top.hand, done |-> Top.done]
    BY <1>3 DEF Context
  <2>3. y = [ready |-> Top.ready, hand |-> i, done |-> Top.done]
    BY <2>1, <2>2
  <2>4. [y EXCEPT !.ready = rest] = x
    BY <1>6, <2>3
  <2> QED
    BY <1>3, <1>9, <2>1, <2>4
<1>11. /\ t \in Seq(Context) /\ Len(t) = Depth /\ DOMAIN t = DOMAIN stack /\ t[Depth] = x
       /\ \A e \in DOMAIN stack : e # Depth => t[e] = stack[e]
  BY <1>2, <1>7, <1>10, TopReplaced
<1>12. Top.hand = None
  BY <1>1, <1>2 DEF Coordinated
<1>13. Coordinated' /\ Depth' = Depth
  <2>1. fault' = "none" /\ pc' = "drain" /\ pc' \in Running
    BY <1>2, <1>9 DEF Running
  <2> QED
    BY <1>2, <1>5, <1>7, <1>8, <1>11, <2>1, CoordinatorHands
<1>14. Control'
  <2>1. Working'
    BY <1>2, <1>9 DEF Working
  <2> QED
    BY <1>13, <2>1, ControlParts, PTL
<1>15. Types'
  <2>1. pc' \in Running
    BY <1>9 DEF Running
  <2> QED
    BY <1>2, <1>8, <1>9, <1>11, <1>13, <2>1, TypesAgain
<1>16. Counting'
  BY <1>2, <1>9 DEF Counting, Desired
<1>17. ASSUME Active' PROVE Graph'
  <2>1. PICK p : Books(node, stack, queue, completed, holds, p) /\ NoneLoose(p)
    BY <1>2, <1>9, <1>17 DEF Graph, Active
  <2>2. ReadyLess(stack, Depth, t) /\ HandIs(stack, Depth, i, t) /\ SameDone(stack, t)
    BY <1>3, <1>4, <1>7, <1>11 DEF ReadyLess, HandIs, SameDone
  <2>3. /\ Len(stack) \in DOMAIN stack /\ stack[Len(stack)].ready # <<>>
        /\ i = Head(stack[Len(stack)].ready) /\ Len(t) = Len(stack)
        /\ stack[Len(stack)].hand = None
        /\ ReadyLess(stack, Len(stack), t) /\ HandIs(stack, Len(stack), i, t)
    BY <1>1, <1>3, <1>4, <1>11, <1>12, <2>2
  <2>4. \E u : Books(node, t, queue, completed, holds, u) /\ NoneLoose(u)
    BY <1>11, <2>1, <2>2, <2>3, BooksTakeInHand
  <2> QED
    BY <1>8, <1>9, <2>4 DEF Graph
<1> QED
  BY <1>14, <1>15, <1>16, <1>17 DEF Inv

\* With nothing pending nobody works, and nobody has failed: a worker that fails
\* leaves its run counted.
LEMMA IdlePool ==
    ASSUME Types, Counting, pending = 0
    PROVE  ~failed /\ Idle(queue, completed, holds)
<1>1. queue \in Seq(Id) /\ completed \in Seq(Id)
  BY DEF Types
<1>2. PICK a, b, d : a = Len(queue) /\ b = Len(completed) /\ d = Cardinality(Holders(holds))
  OBVIOUS
<1>3. a \in Nat /\ b \in Nat /\ d \in Nat
  BY <1>1, <1>2, HoldersFinite, LenProperties
<1>4. InPool(queue, completed, holds) = a + b + d
  BY <1>2 DEF InPool
<1>5. ~failed /\ a + b + d = 0
  BY <1>3, <1>4 DEF Counting
<1>6. a = 0 /\ b = 0 /\ d = 0
  BY <1>3, <1>5
<1>7. queue = <<>> /\ completed = <<>>
  BY <1>1, <1>2, <1>6, EmptySeq
<1>8. Holders(holds) = {}
  BY <1>2, <1>6, HoldersFinite, FS_EmptySet
<1>9. \A w \in Worker : holds[w] = None
  BY <1>8 DEF Holders
<1> QED
  BY <1>5, <1>7, <1>9 DEF Idle

\* The invariant after an accepted event.
LEMMA AcceptedKeeps ==
    ASSUME Inv, pc \in Running, NEW context,
           AcceptedRight(context, queue, completed', holds),
           pc' \in {"loop", "drain"}, pc' = "drain" <=> context.hand # None,
           created' = created, at' = at, holds' = holds, queue' = queue, failed' = failed,
           completed' \in Seq(Id), pending' \in Nat, Counting'
    PROVE  Inv'
<1>1. /\ Types /\ Working /\ Coordinated /\ Depth >= 1 /\ Depth <= MaxDepth
      /\ at \in [Worker -> Phases] /\ queue \in Seq(Id) /\ created \in Nat
  BY LoopFacts
<1>2. /\ fault' = "none" /\ Table(node')
      /\ stack' \in Seq(Context) /\ Len(stack') = Depth
      /\ stack'[Depth].hand = context.hand
      /\ \A e \in DOMAIN stack : e # Depth => stack'[e] = stack[e]
  BY DEF AcceptedRight
<1>3. pc' \in Running /\ pc' # "advance"
  BY DEF Running
<1>4. Coordinated' /\ Depth' = Depth
  <2>1. PICK hand : hand = context.hand
    OBVIOUS
  <2> QED
    BY <1>1, <1>2, <1>3, <2>1, CoordinatorHands
<1>5. Types'
  BY <1>1, <1>2, <1>3, <1>4, TypesAgain
<1>6. Control'
  <2>1. Working'
    BY <1>1 DEF Working
  <2> QED
    BY <1>4, <2>1, ControlParts, PTL
<1>7. Graph'
  BY DEF AcceptedRight, Graph
<1> QED
  BY <1>5, <1>6, <1>7 DEF Inv

\* A graph without room ends the execution.
LEMMA ExhaustedKeeps ==
    ASSUME Inv, pc \in Running, NEW run, NEW event, NEW context,
           Accept(run, event, context), Exhausted(event), pc' = "failing",
           created' = created, at' = at, holds' = holds, queue' = queue, failed' = failed,
           completed' \in Seq(Id), pending' \in Nat, Counting'
    PROVE  Inv'
<1>1. /\ Types /\ Working /\ Coordinated /\ Depth <= MaxDepth
      /\ at \in [Worker -> Phases] /\ queue \in Seq(Id) /\ created \in Nat
      /\ Table(node) /\ stack \in Seq(Context)
  BY LoopFacts
<1>2. node' = node /\ stack' = stack /\ fault' = fault
  <2>1. event = "graph"
    BY DEF Exhausted
  <2> QED
    BY <2>1 DEF Accept
<1>3. Depth' = Depth /\ pc' \in Ending
  BY <1>2 DEF Depth, Ending
<1>4. Types'
  BY <1>1, <1>2, <1>3, TypesAgain
<1>5. Coordinated'
  BY <1>1, <1>2, <1>3 DEF Coordinated, Running, Ending
<1>6. Control'
  <2>1. Working'
    BY <1>1 DEF Working
  <2> QED
    BY <1>5, <2>1, ControlParts, PTL
<1>7. ~Active'
  BY DEF Active
<1> QED
  BY <1>4, <1>6, <1>7 DEF Inv

\* tb_cpu_complete: the coordinator accepts what a worker has advanced.
LEMMA CompleteKeeps == ASSUME Inv, Complete PROVE Inv'
<1>1. pc = "complete" /\ pc \in Running /\ ~failed /\ completed # <<>>
  BY DEF Complete, Running
<1>2. /\ Types /\ Working /\ Coordinated /\ Counting /\ Depth >= 1
      /\ (~failed => Graph) /\ fault = "none" /\ queue \in Seq(Id) /\ completed \in Seq(Id)
      /\ pending \in Nat
  BY <1>1, LoopFacts
<1>3. PICK i, event : i = Head(completed) /\ event = node[i].event
  OBVIOUS
<1>4. /\ completed' = Tail(completed) /\ pending' = pending - 1
      /\ Accept(i, event, Top) /\ pc' = (IF Exhausted(event) THEN "failing" ELSE Resumed)
      /\ created' = created /\ at' = at /\ holds' = holds /\ queue' = queue /\ failed' = failed
  BY <1>3, Zenon DEF Complete, Accepted
<1>5. completed' \in Seq(Id) /\ Len(completed) = Len(completed') + 1
  BY <1>1, <1>2, <1>4, HeadTailProperties
<1>6. pending' \in Nat /\ Counting'
  <2>1. Cardinality(Holders(holds)) \in Nat /\ Len(queue) \in Nat /\ Len(completed') \in Nat
    BY <1>2, <1>5, HoldersFinite, LenProperties
  <2>2. PICK a, b : a = InPool(queue, completed, holds) /\ b = InPool(queue', completed', holds')
    OBVIOUS
  <2>3. b \in Nat /\ a = b + 1
    BY <1>4, <1>5, <2>1, <2>2 DEF InPool
  <2>4. pending = a
    BY <1>1, <1>2, <2>2 DEF Counting
  <2>5. pending' = b /\ pending' \in Nat /\ pending' < pending
    BY <1>2, <1>4, <2>3, <2>4
  <2>6. created \in Nat /\ Desired \in Nat
    BY <1>2, CpuAssumption, FS_CardinalityType DEF Types, Desired
  <2>7. created' >= (IF pending' < Desired THEN pending' ELSE Desired)
    <3>1. created >= (IF pending < Desired THEN pending ELSE Desired)
      BY <1>2 DEF Counting
    <3> QED
      BY <1>2, <1>4, <2>5, <2>6, <3>1
  <2>8. created' = Cardinality(Hired(at'))
    BY <1>2, <1>4 DEF Counting
  <2> QED
    BY <1>1, <1>4, <2>2, <2>5, <2>7, <2>8 DEF Counting, Desired
<1>7. CASE Exhausted(event)
  <2>1. pc' = "failing"
    BY <1>4, <1>7
  <2> QED
    BY <1>1, <1>4, <1>5, <1>6, <1>7, <2>1, ExhaustedKeeps
<1>8. CASE ~Exhausted(event)
  <2>1. PICK p : Books(node, stack, queue, completed, holds, p) /\ NoneLoose(p)
    BY <1>1, <1>2 DEF Graph
  <2>2. First(completed, i)
    BY <1>1, <1>3 DEF First
  <2>3. PICK u : Books(node, stack, queue, completed', holds, u) /\ Loose(u, i)
    BY <1>4, <2>1, <2>2, BooksDelivers
  <2>4. Top \in Context /\ Handed(stack, Top)
    BY <1>2, TopIs DEF Types, Handed, Top
  <2>5. AcceptedRight(Top, queue, completed', holds)
    BY <1>2, <1>4, <1>8, <2>3, <2>4, EventAccepted
  <2>6. pc' \in {"loop", "drain"} /\ (pc' = "drain" <=> Top.hand # None)
    BY <1>4, <1>8 DEF Resumed
  <2> QED
    BY <1>1, <1>4, <1>5, <1>6, <2>5, <2>6, AcceptedKeeps
<1> QED
  BY <1>7, <1>8

\* The coordinator advances the run in its hand and accepts its event.
LEMMA AdvanceKeeps == ASSUME Inv, Advance PROVE Inv'
<1>1. pc = "advance" /\ pc \in Running
  BY DEF Advance, Running
<1>2. /\ Types /\ Working /\ Coordinated /\ Counting /\ Depth >= 1
      /\ (~failed => Graph) /\ fault = "none" /\ queue \in Seq(Id) /\ completed \in Seq(Id)
      /\ pending \in Nat
  BY <1>1, LoopFacts
<1>3. PICK context, i : context = [Top EXCEPT !.hand = None] /\ i = Top.hand
  OBVIOUS
<1>4. PICK event \in {"finish", "graph"} :
         /\ Accept(i, event, context)
         /\ pc' = IF Exhausted(event) THEN "failing" ELSE "loop"
  BY <1>3 DEF Advance
<1>5. /\ created' = created /\ at' = at /\ holds' = holds /\ queue' = queue /\ failed' = failed
      /\ completed' = completed /\ pending' = pending
  BY DEF Advance, poolVars
<1>6. Counting'
  BY <1>2, <1>5 DEF Counting, Desired
<1>7. completed' \in Seq(Id) /\ pending' \in Nat
  BY <1>2, <1>5
<1>8. CASE Exhausted(event)
  <2>1. pc' = "failing"
    BY <1>4, <1>8
  <2> QED
    BY <1>1, <1>4, <1>5, <1>6, <1>7, <1>8, <2>1, ExhaustedKeeps
<1>9. CASE ~Exhausted(event)
  <2>1. ~failed
    BY <1>1, <1>2, IdlePool DEF Coordinated
  <2>2. PICK p : Books(node, stack, queue, completed, holds, p) /\ NoneLoose(p)
    BY <1>2, <2>1 DEF Graph
  <2>3. /\ Depth \in DOMAIN stack /\ Top \in Context /\ Len(stack) = Depth /\ Top = stack[Depth]
    BY <1>2, TopIs DEF Top
  <2>4. i # None /\ i \in Id
    BY <1>1, <1>2, <1>3, <2>3 DEF Coordinated, Context
  <2>5. /\ context \in Context /\ context.ready = Top.ready /\ context.hand = None
        /\ context.done = Top.done
    BY <1>3, <2>3 DEF Context
  <2>6. PICK s : s = [stack EXCEPT ![Depth] = context]
    OBVIOUS
  <2>7. /\ s \in Seq(Context) /\ Len(s) = Depth /\ DOMAIN s = DOMAIN stack /\ s[Depth] = context
        /\ \A e \in DOMAIN stack : e # Depth => s[e] = stack[e]
    BY <1>2, <2>5, <2>6, TopReplaced
  <2>8. Handed(s, context)
    BY <2>3, <2>7 DEF Handed
  <2>9. HandIs(stack, Depth, None, s) /\ SameReady(stack, s) /\ SameDone(stack, s)
    BY <2>3, <2>5, <2>7 DEF HandIs, SameReady, SameDone
  <2>10. /\ Len(stack) \in DOMAIN stack /\ i = stack[Len(stack)].hand /\ Len(s) = Len(stack)
         /\ HandIs(stack, Len(stack), None, s)
    BY <1>3, <2>3, <2>7, <2>9
  <2>11. PICK u : Books(node, s, queue, completed, holds, u) /\ Loose(u, i)
    BY <2>2, <2>4, <2>7, <2>9, <2>10, BooksLetGo
  <2>12. AcceptedRight(context, queue, completed', holds)
    BY <1>2, <1>4, <1>5, <1>9, <2>5, <2>8, <2>11, EventAccepted
  <2>13. pc' \in {"loop", "drain"} /\ (pc' = "drain" <=> context.hand # None)
    BY <1>4, <1>9, <2>5
  <2> QED
    BY <1>1, <1>5, <1>6, <1>7, <2>12, <2>13, AcceptedKeeps
<1> QED
  BY <1>8, <1>9

-----------------------------------------------------------------------------
(***************************************************************************)
(* Executions end and begin.                                               *)
(***************************************************************************)
LEMMA LeaveKeeps == ASSUME Inv, Leave PROVE Inv'
<1>1. pc = "loop" /\ pc \in Running /\ Top.ready = <<>> /\ pending = 0
  BY DEF Leave, Running
<1>2. /\ Types /\ Working /\ Coordinated /\ Counting /\ Depth >= 1 /\ Depth <= MaxDepth
      /\ (~failed => Graph) /\ fault = "none" /\ queue \in Seq(Id) /\ completed \in Seq(Id)
      /\ pending \in Nat /\ created \in Nat /\ Table(node) /\ at \in [Worker -> Phases]
  BY <1>1, LoopFacts
<1>3. ~failed /\ Idle(queue, completed, holds)
  BY <1>1, <1>2, IdlePool
<1>4. PICK p : Books(node, stack, queue, completed, holds, p) /\ NoneLoose(p)
  BY <1>2, <1>3 DEF Graph
<1>5. /\ Depth \in DOMAIN stack /\ Len(stack) = Depth /\ Top = stack[Depth] /\ Depth \in Nat
      /\ DOMAIN stack = 1..Depth
  BY <1>2, TopIs DEF Top
<1>6. stack[Depth].ready = <<>> /\ stack[Depth].hand = None
  BY <1>1, <1>2, <1>5 DEF Coordinated
<1>7. (\A i \in DOMAIN node : node[i].depth # Depth) /\ stack[Depth].done
  BY <1>3, <1>4, <1>5, <1>6, NothingLeft
<1>8. Top.done /\ Records(Depth) = {}
  BY <1>5, <1>7 DEF Records
<1>9. PICK t : t = stack'
  OBVIOUS
<1>10. /\ t = SubSeq(stack, 1, Depth - 1)
       /\ pc' = (IF Depth = 1 THEN "returned" ELSE "advance")
       /\ fault' = fault /\ node' = node /\ pending' = pending /\ created' = created
       /\ at' = at /\ holds' = holds /\ queue' = queue /\ completed' = completed
       /\ failed' = failed
  BY <1>8, <1>9 DEF Leave, poolVars
<1>11. /\ Books(node, t, queue, completed, holds, p)
       /\ Len(t) = Depth - 1 /\ \A d \in 1..(Depth - 1) : t[d] = stack[d]
  <2>1. /\ Len(stack) \in DOMAIN stack /\ stack[Len(stack)].ready = <<>>
        /\ stack[Len(stack)].hand = None /\ Shortened(stack, t)
    BY <1>5, <1>6, <1>10 DEF Shortened
  <2>2. /\ Books(node, t, queue, completed, holds, p)
        /\ Len(t) = Len(stack) - 1 /\ \A d \in 1..(Len(stack) - 1) : t[d] = stack[d]
    BY <1>3, <1>4, <2>1, BooksLeave
  <2> QED
    BY <1>5, <2>2
<1>12. t \in Seq(Context) /\ Depth' = Depth - 1
  BY <1>9, <1>11 DEF Books, Depth
<1>13. \A d \in 1..(Depth - 1) : stack[d].hand # None
  BY <1>2 DEF Coordinated
<1>14. Coordinated'
  <2>1. CASE Depth = 1
    <3>1. pc' = "returned" /\ Depth' = 0 /\ fault' = "none"
      BY <1>2, <1>10, <1>12, <2>1
    <3> QED
      BY <3>1 DEF Coordinated, Running
  <2>2. CASE Depth # 1
    <3>1. /\ pc' = "advance" /\ fault' = "none" /\ pending' = 0
          /\ Depth' = Depth - 1 /\ Depth - 1 \in 1..(Depth - 1) /\ Depth' >= 1
      BY <1>1, <1>2, <1>5, <1>10, <1>12, <2>2
    <3>2. Top'.hand # None
      <4>1. Top' = t[Depth - 1]
        BY <1>9, <1>12 DEF Top
      <4>2. t[Depth - 1] = stack[Depth - 1] /\ stack[Depth - 1].hand # None
        BY <1>11, <1>13, <3>1
      <4> QED
        BY <4>1, <4>2
    <3>3. \A d \in 1..(Depth' - 1) : stack'[d].hand # None
      <4>1. \A d \in 1..(Depth' - 1) : d \in 1..(Depth - 1)
        BY <1>5, <1>12
      <4> QED
        BY <1>9, <1>11, <1>13, <4>1
    <3> QED
      BY <3>1, <3>2, <3>3 DEF Coordinated, Running
  <2> QED
    BY <2>1, <2>2
<1>15. Control'
  <2>1. Working'
    BY <1>2, <1>10 DEF Working
  <2> QED
    BY <1>14, <2>1, ControlParts, PTL
<1>16. Types'
  <2>1. Depth' <= MaxDepth
    BY <1>2, <1>5, <1>12, CpuAssumption
  <2>2. pc' \in Running \cup Ending \cup {"returned"}
    BY <1>10 DEF Running
  <2> QED
    BY <1>2, <1>9, <1>10, <1>12, <2>1, <2>2, TypesAgain
<1>17. Counting'
  BY <1>2, <1>10 DEF Counting, Desired
<1>18. Graph'
  BY <1>4, <1>9, <1>10, <1>11 DEF Graph
<1> QED
  BY <1>15, <1>16, <1>17, <1>18 DEF Inv

\* The run of a closure: nothing waits for it in its execution.
LEMMA EntryRight ==
    ASSUME NEW e \in 1..MaxDepth, NEW l \in UNION {Leaf(None, None, e, r) : r \in BOOLEAN}
    PROVE  /\ l \in Node /\ l.up = None /\ l.boundary = None /\ l.depth = e
           /\ l.remaining = 0
<1>1. PICK r \in BOOLEAN : l \in Leaf(None, None, e, r)
  OBVIOUS
<1>2. PICK b \in BOOLEAN : l = [up |-> None, boundary |-> None, remaining |-> 0, depth |-> e,
                                recorded |-> r, safe |-> b, event |-> "none"]
  BY <1>1 DEF Leaf
<1> QED
  BY <1>1, <1>2 DEF Node

\* Foreign code enters the executor again.
LEMMA ReenterKeeps == ASSUME Inv, Reenter PROVE Inv'
<1>1. pc = "advance" /\ pc \in Running /\ Depth < MaxDepth /\ Room(1)
  BY DEF Reenter, Running
<1>2. /\ Types /\ Working /\ Coordinated /\ Counting /\ Depth >= 1 /\ Depth <= MaxDepth
      /\ (~failed => Graph) /\ fault = "none" /\ queue \in Seq(Id) /\ completed \in Seq(Id)
      /\ pending \in Nat /\ created \in Nat /\ Table(node) /\ at \in [Worker -> Phases]
  BY <1>1, LoopFacts
<1>3. ~failed /\ Idle(queue, completed, holds)
  BY <1>1, <1>2, IdlePool DEF Coordinated
<1>4. PICK p : Books(node, stack, queue, completed, holds, p) /\ NoneLoose(p)
  BY <1>2, <1>3 DEF Graph
<1>5. /\ Len(stack) = Depth /\ Top = stack[Depth] /\ Depth \in Nat /\ DOMAIN stack = 1..Depth
      /\ Depth + 1 \in 1..MaxDepth
  BY <1>1, <1>2, TopIs, CpuAssumption DEF Top
<1>6. PICK id, t, m : id = (CHOOSE i \in Fresh(1) : TRUE) /\ t = stack' /\ m = node'
  OBVIOUS
<1>7. /\ m \in Entry(Depth + 1, id) /\ t = Append(stack, EmptyContext(id))
      /\ pc' = "loop" /\ pending' = pending /\ fault' = fault /\ created' = created
      /\ at' = at /\ holds' = holds /\ queue' = queue /\ completed' = completed
      /\ failed' = failed
  BY <1>6 DEF Reenter, poolVars
<1>8. id \in Id \ DOMAIN node
  <2>1. Fresh(1) \subseteq Id \ DOMAIN node /\ Cardinality(Fresh(1)) = 1
    BY <1>1, <1>2, FreshRight
  <2>2. Fresh(1) # {}
    BY <2>1, FS_EmptySet
  <2> QED
    BY <1>6, <2>1, <2>2
<1>9. PICK l \in UNION {Leaf(None, None, Depth + 1, r) : r \in BOOLEAN} :
         m = [i \in DOMAIN node \cup {id} |-> IF i = id THEN l ELSE node[i]]
  BY <1>7 DEF Entry
<1>10. l \in Node /\ l.up = None /\ l.boundary = None /\ l.depth = Depth + 1 /\ l.remaining = 0
  BY <1>5, <1>9, EntryRight
<1>11. Table(m) /\ Planted(node, id, Len(stack) + 1, m)
  <2>1. /\ DOMAIN m = DOMAIN node \cup {id} /\ m[id] = l
        /\ \A j \in DOMAIN node : m[j] = node[j]
    BY <1>8, <1>9
  <2>2. Table(m)
    BY <1>2, <1>8, <1>9, <1>10 DEF Table
  <2>3. Planted(node, id, Depth + 1, m)
    BY <1>8, <1>10, <2>1 DEF Planted
  <2> QED
    BY <1>5, <2>2, <2>3
<1>12. /\ \E u : Books(m, t, queue, completed, holds, u) /\ NoneLoose(u)
       /\ Len(t) = Depth + 1 /\ t[Depth + 1] = EmptyContext(id)
       /\ \A d \in 1..Depth : t[d] = stack[d]
  <2>1. /\ \E u : Books(m, t, queue, completed, holds, u) /\ NoneLoose(u)
        /\ Len(t) = Len(stack) + 1 /\ t[Len(stack) + 1] = EmptyContext(id)
        /\ \A d \in DOMAIN stack : t[d] = stack[d]
    <3>1. Entered(stack, id, t)
      BY <1>7 DEF Entered
    <3> QED
      BY <1>3, <1>4, <1>11, <3>1, BooksEnter
  <2> QED
    BY <1>5, <2>1
<1>13. t \in Seq(Context) /\ Depth' = Depth + 1
  BY <1>6, <1>12 DEF Books, Depth
<1>14. Coordinated'
  <2>1. Top'.hand = None
    BY <1>6, <1>12, <1>13 DEF Top, EmptyContext
  <2>2. \A d \in 1..Depth : stack[d].hand # None
    <3>1. Top.hand # None /\ \A d \in 1..(Depth - 1) : stack[d].hand # None
      BY <1>1, <1>2 DEF Coordinated
    <3>2. \A d \in 1..Depth : d = Depth \/ d \in 1..(Depth - 1)
      BY <1>5
    <3> QED
      BY <1>5, <3>1, <3>2
  <2>3. \A d \in 1..(Depth' - 1) : stack'[d].hand # None
    <3>1. \A d \in 1..(Depth' - 1) : d \in 1..Depth
      BY <1>5, <1>13
    <3> QED
      BY <1>6, <1>12, <2>2, <3>1
  <2>4. Depth' >= 1
    BY <1>5, <1>13
  <2> QED
    BY <1>2, <1>7, <2>1, <2>3, <2>4 DEF Coordinated
<1>15. Control'
  <2>1. Working'
    BY <1>2, <1>7 DEF Working
  <2> QED
    BY <1>14, <2>1, ControlParts, PTL
<1>16. Types'
  <2>1. Depth' <= MaxDepth
    BY <1>5, <1>13
  <2>2. pc' \in Running \cup Ending \cup {"returned"}
    BY <1>7 DEF Running
  <2> QED
    BY <1>2, <1>6, <1>7, <1>11, <1>13, <2>1, <2>2, TypesAgain
<1>17. Counting'
  BY <1>2, <1>7 DEF Counting, Desired
<1>18. Graph'
  BY <1>6, <1>7, <1>12 DEF Graph
<1> QED
  BY <1>15, <1>16, <1>17, <1>18 DEF Inv

\* Before the first run is planted there is nothing to keep books of.
LEMMA EmptyBooks ==
    ASSUME NEW h, \A w \in Worker : h[w] = None, NEW n, n = [i \in {} |-> None]
    PROVE  \E p : Books(n, <<>>, <<>>, <<>>, h, p) /\ NoneLoose(p)
<1>1. DOMAIN n = {} /\ Table(n)
  BY DEF Table
<1>2. PICK p : p = [i \in Id |-> "free"]
  OBVIOUS
<1>3. \A i \in Id : p[i] = "free"
  BY <1>2
<1>4. Alive(n, p)
  BY <1>1, <1>2, <1>3 DEF Alive, Kinds
<1>5. DOMAIN <<>> = {} /\ <<>> \in Seq(Context) /\ Len(<<>>) = 0
  OBVIOUS
<1>6. ReadyAt(n, <<>>, p) /\ HandAt(n, <<>>, p) /\ Rooted(n, <<>>)
  BY <1>5 DEF ReadyAt, HandAt, Rooted
<1>7. PoolAt(<<>>, <<>>, h, p)
  <2>1. Of(p, "queue") = {} /\ Of(p, "done") = {}
    BY <1>3 DEF Of
  <2> QED
    BY <1>3, <2>1, ListsFew, NoneIsNoRun DEF PoolAt
<1>8. BoundAt(n, p) /\ AtTop(n, p, Len(<<>>)) /\ NoneLoose(p)
  BY <1>1, <1>3 DEF BoundAt, AtTop, NoneLoose
<1>9. Tree(n, Len(<<>>))
  BY <1>1 DEF Tree, Linked, Exact, OneGraph, Founded
<1> QED
  BY <1>1, <1>4, <1>5, <1>6, <1>7, <1>8, <1>9 DEF Books, Placed

\* The first execution.
LEMMA InitInv == Init => Inv
<1> SUFFICES ASSUME Init PROVE Inv
  OBVIOUS
<1>1. /\ stack = <<EmptyContext(1)>> /\ pc = "loop" /\ pending = 0 /\ created = 0
      /\ at = [w \in Worker |-> "none"] /\ holds = [w \in Worker |-> None]
      /\ queue = <<>> /\ completed = <<>> /\ failed = FALSE /\ fault = "none"
  BY DEF Init
<1>2. PICK l \in UNION {Leaf(None, None, 1, r) : r \in BOOLEAN} : node = [i \in {1} |-> l]
  BY DEF Init
<1>3. 1 \in 1..MaxDepth /\ 1 \in Id
  BY CpuAssumption DEF Id
<1>4. l \in Node /\ l.up = None /\ l.boundary = None /\ l.depth = 1 /\ l.remaining = 0
  BY <1>2, <1>3, EntryRight
<1>5. PICK n : n = [i \in {} |-> None]
  OBVIOUS
<1>6. PICK p : Books(n, <<>>, queue, completed, holds, p) /\ NoneLoose(p)
  BY <1>1, <1>5, EmptyBooks
<1>7. Table(node) /\ Planted(n, 1, 1, node)
  <2>1. DOMAIN node = {1} /\ node[1] = l /\ DOMAIN n = {}
    BY <1>2, <1>5
  <2> QED
    BY <1>2, <1>3, <1>4, <2>1 DEF Table, Planted
<1>8. Idle(queue, completed, holds)
  BY <1>1 DEF Idle
<1>9. stack = Append(<<>>, EmptyContext(1)) /\ Len(<<>>) + 1 = 1
  BY <1>1
<1>10. Graph
  <2>1. \E u : Books(node, stack, queue, completed, holds, u) /\ NoneLoose(u)
    <3>1. PICK s : s = <<>>
      OBVIOUS
    <3>2. Entered(s, 1, stack) /\ Planted(n, 1, Len(s) + 1, node)
      BY <1>7, <1>9, <3>1 DEF Entered
    <3>3. Books(n, s, queue, completed, holds, p)
      BY <1>6, <3>1
    <3> QED
      BY ZenonT(60), <1>6, <1>7, <1>8, <3>2, <3>3, BooksEnter
  <2> QED
    BY <2>1 DEF Graph
<1>11. EmptyContext(1) \in Context /\ EmptyContext(1).hand = None
  BY <1>3 DEF EmptyContext, Context
<1>12. Depth = 1 /\ Top = EmptyContext(1) /\ stack \in Seq(Context)
  BY <1>1, <1>11 DEF Depth, Top
<1>13. Types
  <2>1. /\ at \in [Worker -> {"none", "start", "check", "waiting", "busy", "leave", "exited"}]
        /\ holds \in [Worker -> {None} \cup Id]
    BY <1>1
  <2>2. queue \in Seq(Id) /\ completed \in Seq(Id)
    BY <1>1
  <2>3. Depth <= MaxDepth
    BY <1>12, CpuAssumption
  <2> QED
    BY <1>1, <1>7, <1>12, <2>1, <2>2, <2>3 DEF Types
<1>14. Coordinated
  <2>1. 1..(Depth - 1) = {}
    BY <1>12
  <2> QED
    BY <1>1, <1>11, <1>12, <2>1 DEF Coordinated
<1>15. Working
  BY <1>1 DEF Working
<1>16. Counting
  <2>1. Hired(at) = {} /\ Holders(holds) = {}
    BY <1>1 DEF Hired, Holders
  <2>2. Cardinality({}) = 0 /\ Desired \in Nat
    BY FS_EmptySet, CpuAssumption, FS_CardinalityType DEF Desired
  <2>3. Cardinality(Hired(at)) = 0 /\ Cardinality(Holders(holds)) = 0
    BY <2>1, <2>2
  <2>4. Len(queue) = 0 /\ Len(completed) = 0
    BY <1>1
  <2>5. InPool(queue, completed, holds) = 0
    BY <2>3, <2>4 DEF InPool
  <2>6. created >= (IF pending < Desired THEN pending ELSE Desired)
    BY <1>1, <2>2
  <2> QED
    BY <1>1, <2>3, <2>5, <2>6 DEF Counting
<1> QED
  BY <1>10, <1>13, <1>14, <1>15, <1>16, ControlParts DEF Inv

\* Every step keeps the invariant.
LEMMA NextKeeps == Inv /\ [Next]_vars => Inv'
<1> SUFFICES ASSUME Inv, [Next]_vars PROVE Inv'
  OBVIOUS
<1>1. CASE Coordinator
  BY <1>1, LeaveKeeps, ReenterKeeps, SubmitKeeps, TakeInHandKeeps, CoordinatorQuiet,
     CompleteKeeps, AdvanceKeeps, ShutdownKeeps, JoinKeeps DEF Coordinator
<1>2. CASE CoordinatorFails
  BY <1>2, CoordinatorQuiet
<1>3. ASSUME NEW w \in Worker, WorkerStep(w) \/ Spurious(w) PROVE Inv'
  BY <1>3, WorkerQuiet, WorkerTakes, WorkerFinishes, WorkerGivesUp DEF WorkerStep
<1>4. CASE UNCHANGED vars
  <2>1. UNCHANGED <<graphVars, poolVars>> /\ GoesOn
    BY <1>4 DEF vars, GoesOn
  <2> QED
    BY <2>1, PlaceKeeps
<1> QED
  BY <1>1, <1>2, <1>3, <1>4 DEF Next, Down

\* The coordinator, its workers and the graph agree in every state that can be
\* reached.
THEOREM PoolInvariance == Spec => []Inv
  BY InitInv, NextKeeps, PTL DEF Spec

-----------------------------------------------------------------------------
(***************************************************************************)
(* What the invariant says of the checked properties.                      *)
(***************************************************************************)
LEMMA OneOrNone ==
    ASSUME NEW S, NEW P \in BOOLEAN, P => \E x : S = {x}, ~P => S = {}
    PROVE  Cardinality(S) = IF P THEN 1 ELSE 0
<1>1. CASE P
  <2>1. PICK x : S = {x}
    BY <1>1
  <2> QED
    BY <1>1, <2>1, FS_Singleton
<1>2. CASE ~P
  BY <1>2, FS_EmptySet
<1> QED
  BY <1>1, <1>2

\* A list of identities is no longer than there are identities.
LEMMA ListsShort ==
    ASSUME NEW S \in SUBSET Id, NEW s, Lists(s, S)
    PROVE  DOMAIN s \subseteq 1..MaxNodes
<1>1. s \in Seq(S)
  BY DEF Lists
<1>2. PICK l \in Nat : s \in [1..l -> S]
  BY <1>1, SeqDef
<1>3. s \in [1..l -> 1..MaxNodes] /\ DOMAIN s = 1..l
  BY <1>2 DEF Id
<1>4. l <= MaxNodes
  <2> SUFFICES ASSUME MaxNodes < l PROVE FALSE
    BY <1>2, CpuAssumption
  <2>1. PICK a, b : a = Cardinality(1..l) /\ b = Cardinality(1..MaxNodes)
    OBVIOUS
  <2>2. /\ IsFiniteSet(1..l) /\ a = (IF 1 > l THEN 0 ELSE l - 1 + 1)
        /\ IsFiniteSet(1..MaxNodes) /\ b = (IF 1 > MaxNodes THEN 0 ELSE MaxNodes - 1 + 1)
    <3>1. 1 \in Int /\ l \in Int /\ MaxNodes \in Int
      BY <1>2, CpuAssumption
    <3> QED
      BY <2>1, <3>1, FS_Interval
  <2>3. b < a
    BY <1>2, <2>2, CpuAssumption
  <2>4. \E x, y \in 1..l : x # y /\ s[x] = s[y]
    BY <1>3, <2>1, <2>2, <2>3, FS_PigeonHole
  <2> QED
    BY <1>3, <2>4 DEF Lists
<1> QED
  BY <1>2, <1>3, <1>4, CpuAssumption

\* A run is in a list in one place, or not at all.
LEMMA ListedOnce ==
    ASSUME NEW p, NEW kind, NEW s, Lists(s, Of(p, kind)), NEW i \in Id
    PROVE  Cardinality({k \in DOMAIN s : s[k] = i}) = IF p[i] = kind THEN 1 ELSE 0
<1>1. PICK S : S = {k \in DOMAIN s : s[k] = i}
  OBVIOUS
<1>2. ASSUME p[i] = kind PROVE \E x : S = {x}
  <2>1. PICK k \in DOMAIN s : s[k] = i
    BY <1>2 DEF Lists, Of
  <2>2. S = {k}
    BY <1>1, <2>1 DEF Lists
  <2> QED
    BY <2>2
<1>3. ASSUME p[i] # kind PROVE S = {}
  <2>1. \A k \in DOMAIN s : s[k] \in Of(p, kind)
    BY DEF Lists
  <2> QED
    BY <1>1, <1>3, <2>1 DEF Of
<1> QED
  BY <1>1, <1>2, <1>3, OneOrNone

\* The six places of a run, counted.
LEMMA ReadyOnce ==
    ASSUME NEW p, NEW i \in Id, stack \in Seq(Context), ReadyAt(node, stack, p),
           node[i].depth \in 1..Depth
    PROVE  Cardinality({r \in (1..Depth) \X (1..MaxNodes) :
                r[2] \in DOMAIN stack[r[1]].ready /\ stack[r[1]].ready[r[2]] = i})
             = IF p[i] = "ready" THEN 1 ELSE 0
<1>1. DOMAIN stack = 1..Depth
  BY LenProperties DEF Depth
<1>2. PICK S : S = {r \in (1..Depth) \X (1..MaxNodes) :
                      r[2] \in DOMAIN stack[r[1]].ready /\ stack[r[1]].ready[r[2]] = i}
  OBVIOUS
<1>3. \A d \in 1..Depth : Lists(stack[d].ready, At(node, p, d))
  BY <1>1 DEF ReadyAt
<1>4. \A d \in 1..Depth : \A k : k \in DOMAIN stack[d].ready /\ stack[d].ready[k] = i
                               => p[i] = "ready" /\ node[i].depth = d
  <2> SUFFICES ASSUME NEW d \in 1..Depth, NEW k \in DOMAIN stack[d].ready,
                      stack[d].ready[k] = i
               PROVE  p[i] = "ready" /\ node[i].depth = d
    OBVIOUS
  <2>1. PICK a, A : a = stack[d].ready /\ A = At(node, p, d)
    OBVIOUS
  <2>2. a \in Seq(A) /\ k \in DOMAIN a /\ a[k] = i
    BY <1>3, <2>1 DEF Lists
  <2>3. i \in A
    BY <2>2
  <2> QED
    BY <2>1, <2>3 DEF At
<1>5. ASSUME p[i] = "ready" PROVE \E x : S = {x}
  <2>1. PICK d \in 1..Depth : d = node[i].depth
    OBVIOUS
  <2>2. PICK a : a = stack[d].ready
    OBVIOUS
  <2>3. Lists(a, At(node, p, d)) /\ i \in At(node, p, d) /\ At(node, p, d) \in SUBSET Id
    BY <1>3, <1>5, <2>1, <2>2 DEF At
  <2>4. PICK k \in DOMAIN a : a[k] = i
    BY <2>3 DEF Lists
  <2>5. k \in 1..MaxNodes
    BY <2>3, <2>4, ListsShort
  <2>6. <<d, k>> \in S
    BY <1>2, <2>2, <2>4, <2>5
  <2>7. ASSUME NEW r \in S PROVE r = <<d, k>>
    <3>1. /\ r \in (1..Depth) \X (1..MaxNodes) /\ r = <<r[1], r[2]>> /\ r[1] \in 1..Depth
          /\ r[2] \in DOMAIN stack[r[1]].ready /\ stack[r[1]].ready[r[2]] = i
      BY <1>2, <2>7
    <3>2. r[1] = d
      BY <1>4, <2>1, <3>1
    <3>3. r[2] \in DOMAIN a /\ a[r[2]] = i
      BY <2>2, <3>1, <3>2
    <3>4. r[2] = k
      BY <2>3, <2>4, <3>3 DEF Lists
    <3> QED
      BY <3>1, <3>2, <3>4
  <2>8. PICK x : x = <<d, k>>
    OBVIOUS
  <2>9. S = {x}
    BY <2>6, <2>7, <2>8
  <2> QED
    BY <2>9
<1>6. ASSUME p[i] # "ready" PROVE S = {}
  <2>1. ASSUME NEW r \in S PROVE FALSE
    <3>1. /\ r[1] \in 1..Depth
          /\ r[2] \in DOMAIN stack[r[1]].ready /\ stack[r[1]].ready[r[2]] = i
      BY <1>2, <2>1
    <3> QED
      BY <1>4, <1>6, <3>1
  <2> QED
    BY <2>1
<1> QED
  BY <1>2, <1>5, <1>6, OneOrNone

\* An execution has a run in its hand once.
LEMMA InHandOnce ==
    ASSUME NEW p, NEW i \in Id, stack \in Seq(Context), HandAt(node, stack, p),
           node[i].depth \in 1..Depth
    PROVE  Cardinality({d \in 1..Depth : stack[d].hand = i}) = IF p[i] = "hand" THEN 1 ELSE 0
<1>1. DOMAIN stack = 1..Depth
  BY LenProperties DEF Depth
<1>2. \A d \in 1..Depth : stack[d].hand = i <=> p[i] = "hand" /\ node[i].depth = d
  BY <1>1 DEF HandAt
<1>3. PICK S : S = {d \in 1..Depth : stack[d].hand = i}
  OBVIOUS
<1>4. p[i] = "hand" => S = {node[i].depth}
  BY <1>2, <1>3
<1>5. p[i] # "hand" => S = {}
  BY <1>2, <1>3
<1> QED
  BY <1>3, <1>4, <1>5, OneOrNone

\* A run is with one worker.
LEMMA HeldOnce ==
    ASSUME NEW p, NEW i \in Id, PoolAt(queue, completed, holds, p)
    PROVE  Cardinality({w \in Worker : holds[w] = i}) = IF p[i] = "worker" THEN 1 ELSE 0
<1>1. PICK S : S = {w \in Worker : holds[w] = i}
  OBVIOUS
<1>2. ASSUME p[i] = "worker" PROVE \E x : S = {x}
  <2>1. PICK w \in Worker : holds[w] = i
    BY <1>2 DEF PoolAt
  <2>2. S = {w}
    BY <1>1, <2>1, NoneIsNoRun DEF PoolAt
  <2> QED
    BY <2>2
<1>3. p[i] # "worker" => S = {}
  BY <1>1 DEF PoolAt
<1> QED
  BY <1>1, <1>2, <1>3, OneOrNone

\* A run is the boundary of one graph.
LEMMA WaitsOnce ==
    ASSUME NEW p, NEW i \in Id, BoundAt(node, p), OneGraph(node)
    PROVE  Cardinality({j \in DOMAIN node : node[j].boundary = i})
             = IF p[i] = "boundary" THEN 1 ELSE 0
<1>1. PICK S : S = {j \in DOMAIN node : node[j].boundary = i}
  OBVIOUS
<1>2. ASSUME p[i] = "boundary" PROVE \E x : S = {x}
  <2>1. PICK j \in DOMAIN node : node[j].boundary = i
    BY <1>2 DEF BoundAt
  <2>2. S = {j}
    BY <1>1, <2>1, NoneIsNoRun DEF OneGraph
  <2> QED
    BY <2>2
<1>3. p[i] # "boundary" => S = {}
  BY <1>1 DEF BoundAt
<1> QED
  BY <1>1, <1>2, <1>3, OneOrNone

\* The place of a run is its only owner.
LEMMA OwnedOnceRight == Inv => OwnedOnce
<1> SUFFICES ASSUME Inv, Active, NEW i \in DOMAIN node
             PROVE  Places(i) = IF node[i].remaining = 0 THEN 1 ELSE 0
  BY DEF OwnedOnce
<1>1. PICK p : Books(node, stack, queue, completed, holds, p) /\ NoneLoose(p)
  BY DEF Inv, Graph
<1>2. /\ Table(node) /\ stack \in Seq(Context) /\ Alive(node, p) /\ ReadyAt(node, stack, p)
      /\ HandAt(node, stack, p) /\ PoolAt(queue, completed, holds, p) /\ BoundAt(node, p)
      /\ Tree(node, Len(stack))
  BY <1>1 DEF Books, Placed
<1>3. i \in Id /\ node[i] \in Node
  BY <1>2 DEF Table
<1>4. node[i].depth \in 1..Depth
  <2>1. PICK e, d : e = Len(stack) /\ d = node[i].depth
    OBVIOUS
  <2>2. d \in 1..MaxDepth /\ d <= e /\ e \in Nat
    BY <1>2, <1>3, <2>1, LenProperties DEF Node, Tree, Linked
  <2>3. d \in 1..e
    BY <2>2, CpuAssumption
  <2> QED
    BY <2>1, <2>3 DEF Depth
<1>5. p[i] \in Kinds /\ p[i] # "free" /\ p[i] # "loose"
      /\ (p[i] = "join" <=> node[i].remaining # 0)
  BY <1>1, <1>2, <1>3 DEF Alive, NoneLoose
<1>6. /\ Lists(queue, Of(p, "queue")) /\ Lists(completed, Of(p, "done"))
  BY <1>2 DEF PoolAt
<1>7. Cardinality({r \in (1..Depth) \X (1..MaxNodes) :
            r[2] \in DOMAIN stack[r[1]].ready /\ stack[r[1]].ready[r[2]] = i})
          = IF p[i] = "ready" THEN 1 ELSE 0
  BY <1>2, <1>3, <1>4, ReadyOnce
<1>8. Cardinality({d \in 1..Depth : stack[d].hand = i}) = IF p[i] = "hand" THEN 1 ELSE 0
  BY <1>2, <1>3, <1>4, InHandOnce
<1>9. Cardinality({k \in DOMAIN queue : queue[k] = i}) = IF p[i] = "queue" THEN 1 ELSE 0
  BY <1>3, <1>6, ListedOnce
<1>10. Cardinality({k \in DOMAIN completed : completed[k] = i})
         = IF p[i] = "done" THEN 1 ELSE 0
  BY <1>3, <1>6, ListedOnce
<1>11. Cardinality({w \in Worker : holds[w] = i}) = IF p[i] = "worker" THEN 1 ELSE 0
  BY <1>2, <1>3, HeldOnce
<1>12. Cardinality({j \in DOMAIN node : node[j].boundary = i})
         = IF p[i] = "boundary" THEN 1 ELSE 0
  BY <1>2, <1>3, WaitsOnce DEF Tree
<1>13. PICK k : k = p[i]
  OBVIOUS
<1>14. Places(i) = (IF k = "ready" THEN 1 ELSE 0) + (IF k = "hand" THEN 1 ELSE 0)
                     + (IF k = "queue" THEN 1 ELSE 0) + (IF k = "done" THEN 1 ELSE 0)
                     + (IF k = "worker" THEN 1 ELSE 0) + (IF k = "boundary" THEN 1 ELSE 0)
  BY <1>7, <1>8, <1>9, <1>10, <1>11, <1>12, <1>13 DEF Places
<1>15. Places(i) = IF k = "join" THEN 0 ELSE 1
  <2>1. k \in {"join", "ready", "hand", "queue", "done", "worker", "boundary"}
    BY <1>5, <1>13 DEF Kinds
  <2> QED
    BY <1>14, <2>1
<1> QED
  BY <1>5, <1>13, <1>15

\* A join's count is the number of its children.
LEMMA JoinsExactRight == Inv => JoinsExact
<1> SUFFICES ASSUME Inv PROVE JoinsExact
  OBVIOUS
<1>1. CpuTypeOK
  <2>1. /\ DOMAIN node \subseteq Id /\ \A i \in DOMAIN node : node[i] \in Node
        /\ stack \in Seq(Context) /\ Depth <= MaxDepth
    BY DEF Inv, Types, Table
  <2>2. /\ \A w \in Worker : at[w] = "busy" <=> holds[w] # None
        /\ pc = "advance" => Top.hand # None
        /\ pc = "loop" => Top.hand = None
    BY DEF Inv, Control
  <2>3. created = Cardinality({w \in Worker : at[w] # "none"}) \/ pc = "down"
    BY DEF Inv, Counting, Hired
  <2> QED
    BY <2>1, <2>2, <2>3 DEF CpuTypeOK
<1>2. ASSUME Active, NEW i \in DOMAIN node
      PROVE  /\ node[i].remaining = Cardinality({j \in DOMAIN node : node[j].up = i})
             /\ \A j \in {j \in DOMAIN node : node[j].up = i} : node[j].depth = node[i].depth
  <2>1. PICK p : Books(node, stack, queue, completed, holds, p)
    BY <1>2 DEF Inv, Graph
  <2>2. Linked(node, Len(stack)) /\ Exact(node) /\ i # None
    BY <1>2, <2>1, NoneIsNoRun DEF Books, Tree, Table
  <2>3. node[i].remaining = Cardinality({j \in DOMAIN node : node[j].up = i})
    BY <1>2, <2>2 DEF Exact, Children
  <2>4. \A j \in DOMAIN node : node[j].up = i => node[j].depth = node[i].depth
    BY <2>2 DEF Linked, Parent
  <2> QED
    BY <2>3, <2>4
<1> QED
  BY <1>1, <1>2 DEF JoinsExact

\* Every started run is owned once, every join counts its children, and no error
\* of the graph can be reached.
THEOREM GraphExactHolds == Spec => []GraphExact
<1>1. Inv => GraphExact
  <2>1. Inv => NoGraphFault
    BY DEF Inv, Control, NoGraphFault
  <2> QED
    BY <2>1, OwnedOnceRight, JoinsExactRight DEF GraphExact
<1> QED
  BY <1>1, PoolInvariance, PTL

\* pending counts the runs in the pool, and there are enough workers for them.
THEOREM PoolCountHolds == Spec => []PoolCountExact
<1>1. Inv => PoolCountExact
  <2> SUFFICES ASSUME Inv, Active PROVE
                 /\ pending = Len(queue) + Len(completed)
                                + Cardinality({w \in Worker : holds[w] # None})
                 /\ created >= (IF pending < Desired THEN pending ELSE Desired)
    BY DEF PoolCountExact
  <2>1. Counting /\ ~failed
    BY DEF Inv, Active
  <2> QED
    BY <2>1 DEF Counting, InPool, Holders
<1> QED
  BY <1>1, PoolInvariance, PTL

\* Foreign code never runs beside a worker, and the pool never holds a run of an
\* outer execution.
THEOREM ForeignAloneHolds == Spec => []ForeignAlone
<1>1. Inv => ForeignAlone
  <2> SUFFICES ASSUME Inv PROVE ForeignAlone
    OBVIOUS
  <2>1. ASSUME pc = "advance" PROVE pending = 0 /\ \A w \in Worker : holds[w] = None
    <3>1. Types /\ Counting /\ pending = 0
      BY <2>1 DEF Inv, Control
    <3> QED
      BY <3>1, IdlePool DEF Idle
  <2>2. ASSUME Active, NEW w \in Worker, holds[w] # None
        PROVE  node[holds[w]].depth = Depth
    <3>1. PICK p : Books(node, stack, queue, completed, holds, p)
      BY <2>2 DEF Inv, Graph
    <3>2. PICK i : i = holds[w]
      OBVIOUS
    <3>3. i \in Id
      BY <2>2, <3>2 DEF Inv, Types
    <3>4. p[i] = "worker"
      BY <3>1, <3>2, <3>3 DEF Books, Placed, PoolAt
    <3>5. node[i].depth = Len(stack)
      BY <3>1, <3>3, <3>4 DEF Books, Placed, AtTop
    <3> QED
      BY <3>2, <3>5 DEF Depth
  <2> QED
    BY <2>1, <2>2 DEF ForeignAlone
<1> QED
  BY <1>1, PoolInvariance, PTL
=============================================================================
