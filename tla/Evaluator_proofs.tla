-------------------------- MODULE Evaluator_proofs --------------------------
(***************************************************************************)
(* No reference of the evaluator outlives its slot, whatever the program,  *)
(* the limits and the moments of collection: HeapSound is invariant.       *)
(***************************************************************************)
EXTENDS Evaluator, Positions_proofs, SequenceTheorems

-----------------------------------------------------------------------------
(***************************************************************************)
(* What is in use, L the thunks and E the environments, and that a part of *)
(* the machine refers to nothing else.                                     *)
(***************************************************************************)
InUse(slots) == {id \in DOMAIN slots : slots[id].kind # "Vacant"}
IsList(s) == \E X : s \in Seq(X)

GoodValue(v, L, E) ==
    /\ v.kind \in {"Constructor", "Closure", "Match", "Impossible", "Erased"}
    /\ v.kind = "Constructor" => v.fields \in Seq(L)
    /\ v.kind = "Closure" => v.environment \in E /\ v.body \in Terms[program]
    /\ v.kind = "Match" => v.arm \in L /\ v.fallback \in L

ThunkKinds ==
    {"Vacant", "Expression", "Application", "Alias", "Evaluating", "Pending", "Ready"}
GoodThunk(t, L, E) ==
    /\ t.kind \in ThunkKinds
    /\ t.kind = "Vacant" => t = Vacant
    /\ t.kind = "Expression" => t.term \in Terms[program] /\ t.environment \in E
    /\ t.kind = "Application" => t.function \in L /\ t.argument \in L
    /\ t.kind = "Alias" => t.target \in L
    /\ t.kind = "Pending" => t.fields \in Seq(L) /\ t.parent \in L \cup {0}
    /\ t.kind = "Ready" => GoodValue(t.value, L, E)

GoodScope(s, L, E) ==
    /\ s.kind \in {"Vacant", "Scope"}
    /\ s.kind = "Vacant" => s = Vacant
    /\ s.kind = "Scope" =>
          s.parent \in E \cup {NoParent} /\ s.thunks \in Seq(L) /\ DOMAIN s.ids = DOMAIN s.thunks

GoodFrame(f, L, E) ==
    /\ f.kind \in {"Update", "Apply", "Call", "ResumeCall", "Constructor",
                   "CompleteConstructorChain", "Match"}
    /\ f.kind \in {"Update", "Apply", "Call", "CompleteConstructorChain"} => f.id \in L
    /\ f.kind = "ResumeCall" => GoodValue(f.function, L, E) /\ f.argument \in L
    /\ f.kind = "Constructor" =>
          /\ f = ConstructorFrame(f.name, f.fields, f.next)
          /\ f.fields \in Seq(L) /\ f.next \in 1..Len(f.fields)
    /\ f.kind = "Match" => f.arm \in L /\ f.fallback \in L /\ f.argument \in L

\* The free list names the vacant slots, each once, and there are not too many.
Arena(slots, free) ==
    /\ IsList(slots) /\ Len(slots) <= limits.arena
    /\ free \in Seq(DOMAIN slots)
    /\ \A j, k \in DOMAIN free : free[j] = free[k] => j = k
    /\ \A id \in DOMAIN slots : id \notin InUse(slots) <=> \E k \in DOMAIN free : free[k] = id

Shape(h) ==
    h = [thunks |-> h.thunks, environments |-> h.environments, freeThunks |-> h.freeThunks,
         freeEnvironments |-> h.freeEnvironments, debt |-> h.debt]
Closed(h, L, E) ==
    /\ \A id \in DOMAIN h.thunks : GoodThunk(h.thunks[id], L, E)
    /\ \A e \in DOMAIN h.environments : GoodScope(h.environments[e], L, E)
    /\ RootEnvironment \in E
Sound(h) ==
    /\ Shape(h) /\ h.debt \in Nat
    /\ Arena(h.thunks, h.freeThunks) /\ Arena(h.environments, h.freeEnvironments)
    /\ Closed(h, InUse(h.thunks), InUse(h.environments))

\* A heap h with the frames fs that work on it.
Working(h, fs) ==
    /\ Sound(h) /\ Holes(h.thunks, fs)
    /\ IsList(fs)
    /\ \A k \in DOMAIN fs : GoodFrame(fs[k], InUse(h.thunks), InUse(h.environments))

\* A constructor that is read: its fields, and the terms of the first of them.
Call(c) ==
    /\ c = [name |-> c.name, fields |-> c.fields, args |-> c.args]
    /\ c.fields \in Seq(Nat) /\ IsList(c.args) /\ Len(c.args) < Len(c.fields)

\* The roots rs hold the fields of the constructors rd that are read, in this order.
Part(rs, c, at) == \A j \in 1..Len(c.fields) : rs[at + j] = c.fields[j]
Offsets(from, rs, rd) ==
    /\ from \in [1..(Len(rd) + 1) -> Nat]
    /\ from[1] = 0 /\ from[Len(rd) + 1] = Len(rs)
    /\ \A k \in DOMAIN rd : from[k + 1] = from[k] + Len(rd[k].fields) /\ Part(rs, rd[k], from[k])
Reading(rs, rd) ==
    /\ IsList(rd) /\ rs \in Seq(Nat)
    /\ \A k \in DOMAIN rd : Call(rd[k])
    /\ \E from : Offsets(from, rs, rd)

Stages == {"start", "read", "safe", "inspect", "return", "answer", "built", "done", "failed"}
\* What the invocation holds beside the frames, when L and E are in use.
Held(L, E) ==
    /\ \A name \in DOMAIN globals : globals[name] \in L
    /\ current \in L \cup {0}
    /\ pc \in {"safe", "inspect", "read"} => current \in L
    /\ pc \in {"return", "answer"} => GoodValue(value, L, E)
    /\ pc # "failed" => roots \in Seq(L) /\ Reading(roots, reading)
Bounded ==
    /\ program \in DOMAIN Programs /\ limits \in Limits
    /\ pc \in Stages
    /\ nodes \in Nat /\ nodes <= limits.nodes
    /\ roots \in Seq(Nat) /\ Len(roots) <= limits.arena
    /\ Len(frames) <= limits.frames
    /\ pc \in {"start", "read", "answer", "built"} => frames = <<>>

Inv ==
    /\ Bounded
    /\ Working(heap, frames)
    /\ Held(InUse(heap.thunks), InUse(heap.environments))

-----------------------------------------------------------------------------
(***************************************************************************)
(* Natural numbers: a least one, and induction stated of sets.             *)
(***************************************************************************)
LEMMA Least ==
    ASSUME NEW S \in SUBSET Nat, S # {}
    PROVE  \E n \in S : \A m \in S : n <= m
<1>1. PICK x \in S : TRUE
  OBVIOUS
<1> DEFINE U == {y \in S : y <= x}
<1>2. IsFiniteSet(0..x) /\ U \in SUBSET (0..x)
  <2>1. 0 \in Int /\ x \in Int
    OBVIOUS
  <2>2. IsFiniteSet(0..x)
    BY <2>1, FS_Interval
  <2>3. \A y \in S : y <= x => y \in 0..x
    OBVIOUS
  <2> QED
    BY <2>2, <2>3
<1>3. IsFiniteSet(U) /\ U \subseteq Int /\ x \in U
  BY <1>2, FS_Subset
<1>4. \A y \in S : y \notin U => x <= y
  OBVIOUS
<1>5. U \subseteq S
  OBVIOUS
<1> HIDE DEF U
<1>6. PICK a, n : a = Ascending(U) /\ n = Cardinality(U)
  OBVIOUS
<1>7. n \in Nat /\ a \in [1..n -> U] /\ Increasing(a) /\ \A y \in U : \E i \in 1..n : a[i] = y
  BY <1>3, <1>6, AscendingRight
<1>8. 1 \in 1..n
  BY <1>3, <1>7
<1>9. a[1] \in U
  BY <1>7, <1>8
<1>10. ASSUME NEW y \in U PROVE a[1] <= y
  <2>1. PICK i \in 1..n : a[i] = y
    BY <1>7
  <2>2. i = 1 \/ 1 < i
    BY <1>7
  <2>3. DOMAIN a = 1..n
    BY <1>7
  <2>4. i = 1 \/ a[1] < a[i]
    BY <1>7, <1>8, <2>2, <2>3 DEF Increasing
  <2>5. a[1] \in Int /\ y \in Int
    BY <1>3, <1>9, <1>10
  <2> QED
    BY <2>1, <2>4, <2>5
<1>11. a[1] \in S /\ a[1] <= x
  BY <1>3, <1>5, <1>9, <1>10
<1>12. ASSUME NEW m \in S PROVE a[1] <= m
  <2>1. CASE m \in U
    BY <1>10, <2>1
  <2>2. CASE m \notin U
    <3>1. x <= m
      BY <1>4, <2>2
    <3>2. m \in Nat /\ x \in Nat /\ a[1] \in Nat
      BY <1>11
    <3> QED
      BY <1>11, <3>1, <3>2
  <2> QED
    BY <2>1, <2>2
<1> QED
  BY <1>11, <1>12

LEMMA SetInduction ==
    ASSUME NEW S, 0 \in S, \A n \in Nat : n \in S => n + 1 \in S
    PROVE  Nat \subseteq S
<1> SUFFICES ASSUME Nat \ S # {} PROVE FALSE
  OBVIOUS
<1>1. PICK n \in Nat \ S : \A m \in Nat \ S : n <= m
  BY Least
<1>2. n # 0 /\ n - 1 \in Nat /\ (n - 1) + 1 = n
  OBVIOUS
<1>3. n - 1 \in S
  BY <1>1, <1>2
<1> QED
  BY <1>2, <1>3

-----------------------------------------------------------------------------
(***************************************************************************)
(* Lists.                                                                  *)
(***************************************************************************)
LEMMA ListIs ==
    ASSUME NEW s, IsList(s)
    PROVE  Len(s) \in Nat /\ DOMAIN s = 1..Len(s)
<1>1. PICK X : s \in Seq(X)
  BY DEF IsList
<1> QED
  BY <1>1, LenProperties

LEMMA ListOf ==
    ASSUME NEW s, IsList(s), NEW Y, \A k \in DOMAIN s : s[k] \in Y
    PROVE  s \in Seq(Y)
<1>1. PICK X : s \in Seq(X)
  BY DEF IsList
<1>2. s \in [1..Len(s) -> X] /\ Len(s) \in Nat /\ DOMAIN s = 1..Len(s)
  BY <1>1, LenProperties
<1>3. s \in [1..Len(s) -> Y]
  BY <1>2
<1> QED
  BY <1>2, <1>3, SeqDef

LEMMA ListEmpty ==
    /\ IsList(<<>>) /\ Len(<<>>) = 0 /\ DOMAIN <<>> = {}
    /\ \A s : IsList(s) => (s = <<>> <=> Len(s) = 0) /\ (s # <<>> => Len(s) \in DOMAIN s)
<1>1. <<>> \in Seq({}) /\ Len(<<>>) = 0
  BY EmptySeq
<1>2. ASSUME NEW s, IsList(s) PROVE (s = <<>> <=> Len(s) = 0) /\ (s # <<>> => Len(s) \in DOMAIN s)
  <2>1. PICK X : s \in Seq(X)
    BY <1>2 DEF IsList
  <2>2. s # <<>> => Len(s) \in Nat \ {0}
    BY <2>1, EmptySeq
  <2> QED
    BY <1>1, <1>2, <2>2, ListIs
<1> QED
  BY <1>1, <1>2 DEF IsList

LEMMA ListAppend ==
    ASSUME NEW s, IsList(s), NEW x
    PROVE  /\ IsList(Append(s, x)) /\ Len(Append(s, x)) = Len(s) + 1
           /\ DOMAIN Append(s, x) = 1..(Len(s) + 1)
           /\ Append(s, x)[Len(s) + 1] = x
           /\ \A k \in DOMAIN s : k \in DOMAIN Append(s, x) /\ Append(s, x)[k] = s[k]
           /\ \A k \in DOMAIN Append(s, x) : k \in DOMAIN s \/ k = Len(s) + 1
           /\ Last(Append(s, x)) = x
           /\ Append(s, x) # <<>>
<1>1. PICK X : s \in Seq(X)
  BY DEF IsList
<1>2. s \in Seq(X \cup {x}) /\ x \in X \cup {x}
  BY <1>1
<1>3. PICK t : t = Append(s, x)
  OBVIOUS
<1>4. /\ t \in Seq(X \cup {x}) /\ Len(t) = Len(s) + 1 /\ Len(s) \in Nat /\ DOMAIN s = 1..Len(s)
      /\ t # <<>> /\ DOMAIN t = 1..Len(t)
      /\ \A i \in 1..Len(s) : t[i] = s[i]
      /\ t[Len(s) + 1] = x
  BY <1>2, <1>3, AppendProperties, LenProperties
<1>5. Last(t) = x
  BY <1>4 DEF Last
<1> QED
  BY <1>3, <1>4, <1>5 DEF IsList

LEMMA ListExcept ==
    ASSUME NEW s, IsList(s), NEW i \in DOMAIN s, NEW x
    PROVE  /\ IsList([s EXCEPT ![i] = x]) /\ Len([s EXCEPT ![i] = x]) = Len(s)
           /\ DOMAIN [s EXCEPT ![i] = x] = DOMAIN s
           /\ [s EXCEPT ![i] = x][i] = x
           /\ \A k \in DOMAIN s : k # i => [s EXCEPT ![i] = x][k] = s[k]
<1>1. PICK X : s \in Seq(X)
  BY DEF IsList
<1>2. s \in Seq(X \cup {x}) /\ x \in X \cup {x} /\ i \in 1..Len(s) /\ DOMAIN s = 1..Len(s)
  BY <1>1, ListIs
<1>3. PICK t : t = [s EXCEPT ![i] = x]
  OBVIOUS
<1>4. /\ t \in Seq(X \cup {x}) /\ Len(t) = Len(s)
      /\ \A j \in 1..Len(s) : t[j] = IF j = i THEN x ELSE s[j]
  BY <1>2, <1>3, ExceptSeq
<1> QED
  BY <1>2, <1>3, <1>4 DEF IsList

LEMMA ListSub ==
    ASSUME NEW s, IsList(s), NEW n \in 0..Len(s)
    PROVE  /\ IsList(SubSeq(s, 1, n)) /\ Len(SubSeq(s, 1, n)) = n
           /\ DOMAIN SubSeq(s, 1, n) = 1..n
           /\ \A k \in 1..n : k \in DOMAIN s /\ SubSeq(s, 1, n)[k] = s[k]
<1>1. PICK X : s \in Seq(X)
  BY DEF IsList
<1>2. Len(s) \in Nat /\ DOMAIN s = 1..Len(s) /\ \A k \in 1..Len(s) : s[k] \in X
  BY <1>1, LenProperties
<1>3. PICK t : t = SubSeq(s, 1, n)
  OBVIOUS
<1>4. \A i \in 1..n : s[i] \in X
  BY <1>2
<1>5. t \in Seq(X) /\ Len(t) = (IF 1 <= n THEN n - 1 + 1 ELSE 0) /\ \A i \in 1..(n - 1 + 1) : t[i] = s[1 + i - 1]
  BY <1>2, <1>3, <1>4, SubSeqProperties
<1>6. Len(t) = n /\ \A i \in 1..n : t[i] = s[i]
  BY <1>2, <1>5
<1> QED
  BY SMTT(30), <1>2, <1>3, <1>5, <1>6, LenProperties DEF IsList

LEMMA ListFront ==
    ASSUME NEW s, IsList(s), s # <<>>
    PROVE  /\ IsList(Front(s)) /\ Len(Front(s)) = Len(s) - 1
           /\ DOMAIN Front(s) = 1..(Len(s) - 1)
           /\ \A k \in 1..(Len(s) - 1) : k \in DOMAIN s /\ Front(s)[k] = s[k]
           /\ Last(s) = s[Len(s)] /\ Len(s) \in DOMAIN s
           /\ \A k \in DOMAIN s : k \in DOMAIN Front(s) \/ k = Len(s)
<1>1. Len(s) \in Nat /\ DOMAIN s = 1..Len(s) /\ Len(s) \in DOMAIN s
  BY ListIs, ListEmpty
<1>2. Len(s) - 1 \in 0..Len(s)
  BY <1>1
<1>3. Front(s) = SubSeq(s, 1, Len(s) - 1)
  BY DEF Front
<1> QED
  BY <1>1, <1>2, <1>3, ListSub DEF Last

\* The last element is replaced by another.
LEMMA ListSwap ==
    ASSUME NEW s, IsList(s), s # <<>>, NEW x
    PROVE  /\ IsList(Append(Front(s), x)) /\ Len(Append(Front(s), x)) = Len(s)
           /\ DOMAIN Append(Front(s), x) = DOMAIN s
           /\ Append(Front(s), x)[Len(s)] = x
           /\ \A k \in 1..(Len(s) - 1) : Append(Front(s), x)[k] = s[k]
<1>1. PICK t : t = Front(s)
  OBVIOUS
<1>2. /\ IsList(t) /\ Len(t) = Len(s) - 1 /\ DOMAIN t = 1..(Len(s) - 1)
      /\ \A k \in 1..(Len(s) - 1) : t[k] = s[k]
  BY <1>1, ListFront
<1>3. Len(s) \in Nat /\ DOMAIN s = 1..Len(s) /\ (Len(s) - 1) + 1 = Len(s)
  BY ListIs
<1> QED
  BY <1>1, <1>2, <1>3, ListAppend

-----------------------------------------------------------------------------
(***************************************************************************)
(* What is good stays good when more is in use.                            *)
(***************************************************************************)
LEMMA SeqGrows ==
    ASSUME NEW L, NEW M, L \subseteq M
    PROVE  \A s : s \in Seq(L) => s \in Seq(M)
  BY SeqMonotonic

LEMMA ValueGrows ==
    ASSUME NEW L, NEW E, NEW L2, NEW E2, L \subseteq L2, E \subseteq E2, NEW v, GoodValue(v, L, E)
    PROVE  GoodValue(v, L2, E2)
  BY SeqGrows DEF GoodValue

LEMMA ThunkGrows ==
    ASSUME NEW L, NEW E, NEW L2, NEW E2, L \subseteq L2, E \subseteq E2, NEW t, GoodThunk(t, L, E)
    PROVE  GoodThunk(t, L2, E2)
<1>1. t.kind = "Ready" => GoodValue(t.value, L2, E2)
  BY ValueGrows DEF GoodThunk
<1>2. t.kind = "Pending" => t.fields \in Seq(L2) /\ t.parent \in L2 \cup {0}
  BY SeqGrows DEF GoodThunk
<1>3. t.kind = "Expression" => t.term \in Terms[program] /\ t.environment \in E2
  BY DEF GoodThunk
<1>4. t.kind = "Application" => t.function \in L2 /\ t.argument \in L2
  BY DEF GoodThunk
<1>5. t.kind = "Alias" => t.target \in L2
  BY DEF GoodThunk
<1>6. t.kind \in ThunkKinds /\ (t.kind = "Vacant" => t = Vacant)
  BY DEF GoodThunk
<1> QED
  BY <1>1, <1>2, <1>3, <1>4, <1>5, <1>6 DEF GoodThunk

LEMMA ScopeGrows ==
    ASSUME NEW L, NEW E, NEW L2, NEW E2, L \subseteq L2, E \subseteq E2, NEW s, GoodScope(s, L, E)
    PROVE  GoodScope(s, L2, E2)
  BY SeqGrows DEF GoodScope

LEMMA FrameGrows ==
    ASSUME NEW L, NEW E, NEW L2, NEW E2, L \subseteq L2, E \subseteq E2, NEW f, GoodFrame(f, L, E)
    PROVE  GoodFrame(f, L2, E2)
<1>1. f.kind = "ResumeCall" => GoodValue(f.function, L2, E2) /\ f.argument \in L2
  BY ValueGrows DEF GoodFrame
<1>2. f.kind = "Constructor" =>
        f = ConstructorFrame(f.name, f.fields, f.next)
        /\ f.fields \in Seq(L2) /\ f.next \in 1..Len(f.fields)
  BY SeqGrows DEF GoodFrame
<1>3. f.kind = "Match" => f.arm \in L2 /\ f.fallback \in L2 /\ f.argument \in L2
  BY DEF GoodFrame
<1>4. f.kind \in {"Update", "Apply", "Call", "CompleteConstructorChain"} => f.id \in L2
  BY DEF GoodFrame
<1>5. f.kind \in {"Update", "Apply", "Call", "ResumeCall", "Constructor",
                   "CompleteConstructorChain", "Match"}
  BY DEF GoodFrame
<1> QED
  BY <1>1, <1>2, <1>3, <1>4, <1>5 DEF GoodFrame

\* The heap k has all that is in use in h.
Grows(h, k) ==
    InUse(h.thunks) \subseteq InUse(k.thunks) /\ InUse(h.environments) \subseteq InUse(k.environments)

LEMMA GrowsOn ==
    ASSUME NEW h, NEW j, NEW k, Grows(h, j), Grows(j, k)
    PROVE  Grows(h, k)
  BY DEF Grows

LEMMA HeldGrows ==
    ASSUME NEW L, NEW E, NEW L2, NEW E2, L \subseteq L2, E \subseteq E2, Held(L, E)
    PROVE  Held(L2, E2)
<1>1. pc \in {"return", "answer"} => GoodValue(value, L2, E2)
  BY ValueGrows DEF Held
<1>2. pc # "failed" => roots \in Seq(L2) /\ Reading(roots, reading)
  BY SeqGrows DEF Held
<1> QED
  BY <1>1, <1>2 DEF Held

-----------------------------------------------------------------------------
(***************************************************************************)
(* One slot of the heap changes.                                           *)
(***************************************************************************)
LEMMA ArenaPut ==
    ASSUME NEW slots, NEW free, Arena(slots, free), NEW id \in InUse(slots), NEW x, x.kind # "Vacant"
    PROVE  /\ Arena([slots EXCEPT ![id] = x], free)
           /\ InUse([slots EXCEPT ![id] = x]) = InUse(slots)
<1>1. PICK new : new = [slots EXCEPT ![id] = x]
  OBVIOUS
<1>2. id \in DOMAIN slots /\ IsList(slots)
  BY DEF InUse, Arena
<1>3. /\ IsList(new) /\ Len(new) = Len(slots) /\ DOMAIN new = DOMAIN slots
      /\ new[id] = x /\ \A k \in DOMAIN slots : k # id => new[k] = slots[k]
  BY <1>1, <1>2, ListExcept
<1>4. InUse(new) = InUse(slots)
  BY <1>2, <1>3 DEF InUse
<1> QED
  BY <1>1, <1>3, <1>4 DEF Arena

\* A slot is written, or a new one is added.
LEMMA StoredRight ==
    ASSUME NEW slots, IsList(slots), NEW id \in 1..(Len(slots) + 1), NEW x
    PROVE  /\ IsList(Stored(slots, id, x))
           /\ Len(Stored(slots, id, x)) = IF id > Len(slots) THEN Len(slots) + 1 ELSE Len(slots)
           /\ DOMAIN Stored(slots, id, x) = 1..Len(Stored(slots, id, x))
           /\ Stored(slots, id, x)[id] = x
           /\ \A j \in DOMAIN slots : j # id => Stored(slots, id, x)[j] = slots[j]
<1>1. Len(slots) \in Nat /\ DOMAIN slots = 1..Len(slots)
  BY ListIs
<1>2. CASE id > Len(slots)
  <2>1. id = Len(slots) + 1 /\ Stored(slots, id, x) = Append(slots, x)
    BY <1>1, <1>2 DEF Stored
  <2>2. PICK u : u = Append(slots, x)
    OBVIOUS
  <2>3. /\ IsList(u) /\ Len(u) = Len(slots) + 1 /\ DOMAIN u = 1..(Len(slots) + 1)
        /\ u[Len(slots) + 1] = x
        /\ \A k \in DOMAIN slots : k \in DOMAIN u /\ u[k] = slots[k]
        /\ \A k \in DOMAIN u : k \in DOMAIN slots \/ k = Len(slots) + 1
    BY <2>2, ListAppend
  <2>4. DOMAIN u = 1..Len(u)
    BY <2>3
  <2> QED
    BY <1>2, <2>1, <2>2, <2>3, <2>4
<1>3. CASE ~(id > Len(slots))
  <2>1. id \in DOMAIN slots /\ Stored(slots, id, x) = [slots EXCEPT ![id] = x]
    BY <1>1, <1>3 DEF Stored
  <2>2. PICK u : u = [slots EXCEPT ![id] = x]
    OBVIOUS
  <2>3. /\ IsList(u) /\ Len(u) = Len(slots) /\ DOMAIN u = DOMAIN slots
        /\ u[id] = x /\ \A k \in DOMAIN slots : k # id => u[k] = slots[k]
    BY <2>1, <2>2, ListExcept
  <2>4. DOMAIN u = 1..Len(u)
    BY <1>1, <2>3
  <2> QED
    BY <1>3, <2>1, <2>2, <2>3, <2>4
<1> QED
  BY <1>2, <1>3

\* The slots new are those of slots, but for the one id.
Beside(slots, new, id) ==
    DOMAIN new = DOMAIN slots \cup {id} /\ \A j \in DOMAIN slots : j # id => new[j] = slots[j]

LEMMA ArenaTake ==
    ASSUME NEW slots, NEW free, Arena(slots, free), NEW x, x.kind # "Vacant",
           ~(free = <<>> /\ Len(slots) >= limits.arena), limits.arena \in Nat,
           NEW id, id = Slot(slots, free), NEW new, new = Stored(slots, id, x)
    PROVE  /\ Arena(new, Popped(free))
           /\ id \notin InUse(slots) /\ id \in Nat /\ id # 0
           /\ InUse(new) = InUse(slots) \cup {id}
           /\ new[id] = x /\ Beside(slots, new, id)
<1>1. IsList(slots) /\ Len(slots) \in Nat /\ DOMAIN slots = 1..Len(slots) /\ Len(slots) <= limits.arena
  BY ListIs DEF Arena
<1>2. IsList(free) /\ Len(free) \in Nat /\ DOMAIN free = 1..Len(free)
      /\ \A k \in DOMAIN free : free[k] \in DOMAIN slots
  <2>1. IsList(free)
    BY DEF Arena, IsList
  <2> QED
    BY <2>1, ListIs, ElementOfSeq DEF Arena
<1>3. CASE free = <<>>
  <2>1. id = Len(slots) + 1 /\ Popped(free) = <<>>
    BY <1>3 DEF Slot, Popped
  <2>2. /\ IsList(new) /\ Len(new) = id /\ DOMAIN new = 1..id /\ new[id] = x
        /\ \A k \in DOMAIN slots : k \in DOMAIN new /\ new[k] = slots[k]
        /\ \A k \in DOMAIN new : k \in DOMAIN slots \/ k = id
    <3>1. id \in 1..(Len(slots) + 1) /\ id > Len(slots) /\ id \notin DOMAIN slots
      BY <1>1, <2>1
    <3>2. /\ IsList(new) /\ Len(new) = Len(slots) + 1 /\ DOMAIN new = 1..Len(new)
          /\ new[id] = x /\ \A j \in DOMAIN slots : j # id => new[j] = slots[j]
      BY <1>1, <3>1, StoredRight
    <3> QED
      BY <1>1, <2>1, <3>1, <3>2
  <2>3. id \notin DOMAIN slots /\ id \in DOMAIN new /\ id \in Nat /\ id # 0
    BY <1>1, <2>1, <2>2
  <2>4. DOMAIN free = {}
    BY <1>3, ListEmpty
  <2>5. InUse(slots) = DOMAIN slots
    BY <2>4 DEF Arena, InUse
  <2>6. InUse(new) = DOMAIN new /\ DOMAIN new = DOMAIN slots \cup {id}
    BY <2>2, <2>3, <2>5 DEF InUse
  <2>7. Len(new) <= limits.arena
    BY <1>1, <1>3, <2>1, <2>2
  <2>8. Popped(free) \in Seq(DOMAIN new)
    BY <2>1, EmptySeq
  <2>9. Arena(new, Popped(free))
    BY <1>3, <2>1, <2>2, <2>4, <2>6, <2>7, <2>8 DEF Arena
  <2> QED
    BY <2>2, <2>3, <2>5, <2>6, <2>9 DEF Beside
<1>4. CASE free # <<>>
  <2>1. id = Last(free) /\ Popped(free) = Front(free)
    BY <1>4 DEF Slot, Popped
  <2>2. PICK rest : rest = Popped(free)
    OBVIOUS
  <2>3. /\ IsList(rest) /\ Len(rest) = Len(free) - 1 /\ DOMAIN rest = 1..(Len(free) - 1)
        /\ \A k \in 1..(Len(free) - 1) : k \in DOMAIN free /\ rest[k] = free[k]
        /\ id = free[Len(free)] /\ Len(free) \in DOMAIN free
        /\ \A k \in DOMAIN free : k \in DOMAIN rest \/ k = Len(free)
    BY <1>2, <1>4, <2>1, <2>2, ListFront
  <2>4. id \in DOMAIN slots /\ id \in Nat /\ id # 0 /\ ~(id > Len(slots))
    BY <1>1, <1>2, <2>3
  <2>6. /\ IsList(new) /\ Len(new) = Len(slots) /\ DOMAIN new = DOMAIN slots
        /\ new[id] = x /\ \A k \in DOMAIN slots : k # id => new[k] = slots[k]
    <3>1. id \in 1..(Len(slots) + 1)
      BY <1>1, <2>4
    <3>2. /\ IsList(new) /\ Len(new) = Len(slots) /\ DOMAIN new = 1..Len(new)
          /\ new[id] = x /\ \A k \in DOMAIN slots : k # id => new[k] = slots[k]
      BY <1>1, <2>4, <3>1, StoredRight
    <3> QED
      BY <1>1, <3>2
  <2>7. id \notin InUse(slots)
    BY <2>3, <2>4 DEF Arena
  <2>8. InUse(new) = InUse(slots) \cup {id}
    BY <2>4, <2>6 DEF InUse
  <2>9. ASSUME NEW k \in DOMAIN rest
        PROVE  k \in DOMAIN free /\ rest[k] = free[k] /\ k # Len(free)
    BY <1>2, <2>3, <2>9
  <2>10. rest \in Seq(DOMAIN new)
    BY <1>2, <2>3, <2>6, <2>9, ListOf
  <2>11. \A j, k \in DOMAIN rest : rest[j] = rest[k] => j = k
    BY <2>9 DEF Arena
  <2>12. ASSUME NEW j \in DOMAIN new
         PROVE  j \notin InUse(new) <=> \E k \in DOMAIN rest : rest[k] = j
    <3>1. j \notin InUse(slots) <=> \E k \in DOMAIN free : free[k] = j
      BY <2>6 DEF Arena
    <3>2. CASE j = id
      <4>1. \A k \in DOMAIN rest : rest[k] # id
        BY <2>3, <2>9 DEF Arena
      <4> QED
        BY <2>8, <3>2, <4>1
    <3>3. CASE j # id
      <4>1. ASSUME NEW k \in DOMAIN free, free[k] = j PROVE k \in DOMAIN rest /\ rest[k] = j
        BY <2>3, <2>9, <3>3, <4>1
      <4> QED
        BY <2>8, <2>9, <3>1, <3>3, <4>1
    <3> QED
      BY <3>2, <3>3
  <2>13. Arena(new, rest)
    BY <1>1, <2>6, <2>10, <2>11, <2>12 DEF Arena
  <2> QED
    BY <2>2, <2>4, <2>6, <2>7, <2>8, <2>13 DEF Beside
<1> QED
  BY <1>3, <1>4

\* A thunk in use gets another content.
LEMMA PutThunk ==
    ASSUME NEW h, Sound(h), NEW id \in InUse(h.thunks), NEW t, t.kind # "Vacant",
           GoodThunk(t, InUse(h.thunks), InUse(h.environments)),
           NEW k, k = [h EXCEPT !.thunks[id] = t]
    PROVE  /\ Sound(k) /\ k.thunks = [h.thunks EXCEPT ![id] = t]
           /\ InUse(k.thunks) = InUse(h.thunks) /\ InUse(k.environments) = InUse(h.environments)
<1>1. /\ k.thunks = [h.thunks EXCEPT ![id] = t] /\ k.environments = h.environments
      /\ k.freeThunks = h.freeThunks /\ k.freeEnvironments = h.freeEnvironments
      /\ k.debt = h.debt /\ Shape(k)
  BY DEF Sound, Shape
<1>2. Arena(k.thunks, k.freeThunks) /\ InUse(k.thunks) = InUse(h.thunks)
  BY <1>1, ArenaPut DEF Sound
<1>3. id \in DOMAIN h.thunks /\ IsList(h.thunks)
  BY DEF InUse, Sound, Arena
<1>4. DOMAIN k.thunks = DOMAIN h.thunks
      /\ \A j \in DOMAIN h.thunks : k.thunks[j] = IF j = id THEN t ELSE h.thunks[j]
  BY <1>1, <1>3
<1>5. Closed(k, InUse(k.thunks), InUse(k.environments))
  BY <1>1, <1>2, <1>4 DEF Sound, Closed
<1> QED
  BY <1>1, <1>2, <1>5 DEF Sound

-----------------------------------------------------------------------------
(***************************************************************************)
(* Black holes: the identities of the frames of a kind, and chains.        *)
(***************************************************************************)
Names(fs, kind) == {fs[k].id : k \in FramesOf(fs, kind)}
Evals(thunks) == {id \in DOMAIN thunks : thunks[id].kind = "Evaluating"}

\* A frame is pushed, or the last one is popped.
LEMMA PushNames ==
    ASSUME NEW fs, IsList(fs), NEW f, NEW kind
    PROVE  /\ f.kind = kind => Names(Append(fs, f), kind) = Names(fs, kind) \cup {f.id}
           /\ f.kind # kind => Names(Append(fs, f), kind) = Names(fs, kind)
           /\ EachOnce(fs, kind) /\ (f.kind = kind => f.id \notin Names(fs, kind))
                => EachOnce(Append(fs, f), kind)
<1>1. PICK gs, n : gs = Append(fs, f) /\ n = Len(fs) + 1
  OBVIOUS
<1>2. /\ gs[n] = f /\ n \in DOMAIN gs /\ n \notin DOMAIN fs
      /\ \A k \in DOMAIN fs : k \in DOMAIN gs /\ gs[k] = fs[k]
      /\ \A k \in DOMAIN gs : k \in DOMAIN fs \/ k = n
  <2>1. Len(fs) \in Nat /\ DOMAIN fs = 1..Len(fs)
    BY ListIs
  <2>2. /\ DOMAIN gs = 1..(Len(fs) + 1) /\ gs[Len(fs) + 1] = f
        /\ \A k \in DOMAIN fs : k \in DOMAIN gs /\ gs[k] = fs[k]
        /\ \A k \in DOMAIN gs : k \in DOMAIN fs \/ k = Len(fs) + 1
    BY <1>1, ListAppend
  <2> QED
    BY <1>1, <2>1, <2>2
<1>3. \A k : k \in FramesOf(gs, kind) <=> k \in FramesOf(fs, kind) \/ (k = n /\ f.kind = kind)
  BY <1>2 DEF FramesOf
<1>4. \A k \in FramesOf(fs, kind) : gs[k] = fs[k] /\ k # n
  BY <1>2 DEF FramesOf
<1>5. f.kind = kind => Names(gs, kind) = Names(fs, kind) \cup {f.id}
  BY <1>2, <1>3, <1>4 DEF Names
<1>6. f.kind # kind => Names(gs, kind) = Names(fs, kind)
  BY <1>3, <1>4 DEF Names
<1>7. ASSUME EachOnce(fs, kind), f.kind = kind => f.id \notin Names(fs, kind) PROVE EachOnce(gs, kind)
  <2> SUFFICES ASSUME NEW j \in FramesOf(gs, kind), NEW k \in FramesOf(gs, kind), gs[j].id = gs[k].id
               PROVE  j = k
    BY DEF EachOnce
  <2>1. \A i \in FramesOf(fs, kind) : fs[i].id \in Names(fs, kind)
    BY DEF Names
  <2>2. CASE j \in FramesOf(fs, kind) /\ k \in FramesOf(fs, kind)
    BY <1>4, <1>7, <2>2 DEF EachOnce
  <2>3. CASE j = n /\ f.kind = kind /\ k \in FramesOf(fs, kind)
    BY <1>2, <1>4, <1>7, <2>1, <2>3
  <2>4. CASE k = n /\ f.kind = kind /\ j \in FramesOf(fs, kind)
    BY <1>2, <1>4, <1>7, <2>1, <2>4
  <2> QED
    BY <1>3, <2>2, <2>3, <2>4
<1> QED
  BY <1>1, <1>5, <1>6, <1>7

LEMMA PopNames ==
    ASSUME NEW fs, IsList(fs), fs # <<>>, NEW kind, EachOnce(fs, kind)
    PROVE  /\ Last(fs).kind = kind =>
                /\ Names(Front(fs), kind) = Names(fs, kind) \ {Last(fs).id}
                /\ Last(fs).id \in Names(fs, kind)
           /\ Last(fs).kind # kind => Names(Front(fs), kind) = Names(fs, kind)
           /\ EachOnce(Front(fs), kind)
<1>1. PICK gs, n, f : gs = Front(fs) /\ n = Len(fs) /\ f = Last(fs)
  OBVIOUS
<1>2. /\ f = fs[n] /\ n \in DOMAIN fs /\ n \notin DOMAIN gs
      /\ \A k \in DOMAIN gs : k \in DOMAIN fs /\ gs[k] = fs[k]
      /\ \A k \in DOMAIN fs : k \in DOMAIN gs \/ k = n
  <2>1. Len(fs) \in Nat /\ DOMAIN fs = 1..Len(fs)
    BY ListIs
  <2>2. /\ DOMAIN gs = 1..(Len(fs) - 1) /\ \A k \in 1..(Len(fs) - 1) : k \in DOMAIN fs /\ gs[k] = fs[k]
        /\ f = fs[n] /\ n \in DOMAIN fs /\ \A k \in DOMAIN fs : k \in DOMAIN gs \/ k = n
    BY <1>1, ListFront
  <2> QED
    BY <1>1, <2>1, <2>2
<1>3. \A k : k \in FramesOf(fs, kind) <=> k \in FramesOf(gs, kind) \/ (k = n /\ f.kind = kind)
  BY <1>2 DEF FramesOf
<1>4. \A k \in FramesOf(gs, kind) : gs[k] = fs[k] /\ k # n
  BY <1>2 DEF FramesOf
<1>5. EachOnce(gs, kind)
  BY <1>3, <1>4 DEF EachOnce
<1>6. f.kind # kind => Names(gs, kind) = Names(fs, kind)
  BY <1>3, <1>4 DEF Names
<1>7. ASSUME f.kind = kind PROVE Names(gs, kind) = Names(fs, kind) \ {f.id} /\ f.id \in Names(fs, kind)
  <2>1. n \in FramesOf(fs, kind)
    BY <1>3, <1>7
  <2>2. \A k \in FramesOf(gs, kind) : k \in FramesOf(fs, kind) /\ fs[k].id # fs[n].id
    BY <1>3, <1>4, <2>1 DEF EachOnce
  <2>3. ASSUME NEW x \in Names(gs, kind) PROVE x \in Names(fs, kind) /\ x # f.id
    <3>1. PICK k \in FramesOf(gs, kind) : x = gs[k].id
      BY DEF Names
    <3> QED
      BY <1>2, <1>4, <2>2, <3>1 DEF Names
  <2>4. ASSUME NEW x \in Names(fs, kind), x # f.id PROVE x \in Names(gs, kind)
    <3>1. PICK k \in FramesOf(fs, kind) : x = fs[k].id
      BY DEF Names
    <3>2. k \in FramesOf(gs, kind)
      BY <1>2, <1>3, <2>4, <3>1
    <3> QED
      BY <1>4, <3>1, <3>2 DEF Names
  <2>5. f.id \in Names(fs, kind)
    BY <1>2, <2>1 DEF Names
  <2> QED
    BY <2>3, <2>4, <2>5
<1> QED
  BY <1>1, <1>5, <1>6, <1>7

\* Frames that name the same black holes and chains.
Alike(fs, gs) ==
    /\ Updates(gs) = Updates(fs) /\ Heads(gs) = Heads(fs)
    /\ EachOnce(fs, "Update") => EachOnce(gs, "Update")
    /\ EachOnce(fs, "CompleteConstructorChain") => EachOnce(gs, "CompleteConstructorChain")

LEMMA NamesAre ==
    \A fs : Updates(fs) = Names(fs, "Update") /\ Heads(fs) = Names(fs, "CompleteConstructorChain")
  BY DEF Updates, Heads, Names

LEMMA PushAlike ==
    ASSUME NEW fs, IsList(fs), NEW f, f.kind \notin {"Update", "CompleteConstructorChain"}
    PROVE  Alike(fs, Append(fs, f))
<1>1. f.kind # "Update" /\ f.kind # "CompleteConstructorChain"
  OBVIOUS
<1>2. \A kind : f.kind # kind => /\ Names(Append(fs, f), kind) = Names(fs, kind)
                                 /\ EachOnce(fs, kind) => EachOnce(Append(fs, f), kind)
  BY PushNames
<1> QED
  BY <1>1, <1>2, NamesAre DEF Alike

LEMMA PopAlike ==
    ASSUME NEW fs, IsList(fs), fs # <<>>, Last(fs).kind \notin {"Update", "CompleteConstructorChain"},
           EachOnce(fs, "Update"), EachOnce(fs, "CompleteConstructorChain")
    PROVE  Alike(fs, Front(fs))
<1>1. Last(fs).kind # "Update" /\ Last(fs).kind # "CompleteConstructorChain"
  OBVIOUS
<1>2. Names(Front(fs), "Update") = Names(fs, "Update") /\ EachOnce(Front(fs), "Update")
  BY <1>1, PopNames
<1>3. /\ Names(Front(fs), "CompleteConstructorChain") = Names(fs, "CompleteConstructorChain")
      /\ EachOnce(Front(fs), "CompleteConstructorChain")
  BY <1>1, PopNames
<1> QED
  BY <1>2, <1>3, NamesAre DEF Alike

LEMMA AlikeOn ==
    ASSUME NEW fs, NEW gs, NEW hs, Alike(fs, gs), Alike(gs, hs)
    PROVE  Alike(fs, hs)
  BY DEF Alike

-----------------------------------------------------------------------------
\* Two contents of the arena with the same holes and links.
SameHoles(thunks, now) ==
    /\ Evals(now) = Evals(thunks) /\ PendingIn(now) = PendingIn(thunks)
    /\ \A id \in PendingIn(thunks) : now[id].parent = thunks[id].parent

LEMMA ChainSame ==
    ASSUME NEW thunks, NEW now, SameHoles(thunks, now)
    PROVE  \A x : ChainFrom(now, x) = ChainFrom(thunks, x)
<1>1. \A S \in SUBSET PendingIn(thunks) : Linkage(now, S) <=> Linkage(thunks, S)
  BY DEF SameHoles, Linkage
<1> QED
  BY <1>1 DEF ChainFrom, SameHoles

LEMMA HolesSame ==
    ASSUME NEW thunks, NEW now, SameHoles(thunks, now), NEW fs, NEW gs, Alike(fs, gs),
           Holes(thunks, fs)
    PROVE  Holes(now, gs)
<1>1. \A x : ChainFrom(now, x) = ChainFrom(thunks, x)
  BY ChainSame
<1>2. PendingIn(now) = PendingIn(thunks) /\ Updates(gs) = Updates(fs) /\ Heads(gs) = Heads(fs)
  BY DEF SameHoles, Alike
<1>3. {id \in DOMAIN now : now[id].kind = "Evaluating"} = Updates(gs)
  BY <1>2 DEF Holes, SameHoles, Evals
<1>4. EachOnce(gs, "Update") /\ EachOnce(gs, "CompleteConstructorChain")
  BY DEF Alike, Holes
<1>5. \A id \in PendingIn(now) : now[id].parent = thunks[id].parent
  BY DEF SameHoles
<1>6. Heads(gs) \subseteq PendingIn(now)
  BY <1>2 DEF Holes
<1>7. PendingIn(now) = UNION {ChainFrom(now, head) : head \in Heads(gs)}
  <2>1. {ChainFrom(now, head) : head \in Heads(gs)} = {ChainFrom(thunks, head) : head \in Heads(fs)}
    BY <1>1, <1>2
  <2> QED
    BY <1>2, <2>1 DEF Holes
<1>8. \A i, j \in Heads(gs) : i # j => ChainFrom(now, i) \cap ChainFrom(now, j) = {}
  BY <1>1, <1>2 DEF Holes
<1>9. \A id \in PendingIn(now) :
            now[id].parent # 0 =>
                now[id].parent \in PendingIn(now) /\ id \notin ChainFrom(now, now[id].parent)
  BY <1>1, <1>2, <1>5 DEF Holes
<1> QED
  BY <1>3, <1>4, <1>6, <1>7, <1>8, <1>9 DEF Holes

\* One thunk, which is no hole, changes or is new.
LEMMA OtherHoles ==
    ASSUME NEW thunks, NEW now, NEW id, Beside(thunks, now, id),
           now[id].kind \notin {"Evaluating", "Pending"},
           id \in DOMAIN thunks => thunks[id].kind \notin {"Evaluating", "Pending"}
    PROVE  SameHoles(thunks, now)
<1>1. /\ \A j : j \in DOMAIN now <=> j \in DOMAIN thunks \/ j = id
      /\ \A j \in DOMAIN thunks : j # id => now[j] = thunks[j]
  BY DEF Beside
<1>2. now[id].kind # "Evaluating" /\ now[id].kind # "Pending"
  OBVIOUS
<1>3. id \in DOMAIN thunks => thunks[id].kind # "Evaluating" /\ thunks[id].kind # "Pending"
  OBVIOUS
<1>4. ASSUME NEW kind, now[id].kind # kind, id \in DOMAIN thunks => thunks[id].kind # kind
      PROVE  \A j : (j \in DOMAIN now /\ now[j].kind = kind)
                        <=> (j \in DOMAIN thunks /\ thunks[j].kind = kind)
  BY <1>1, <1>4
<1>5. \A j : j \in Evals(now) <=> j \in Evals(thunks)
  BY <1>2, <1>3, <1>4 DEF Evals
<1>6. \A j : j \in PendingIn(now) <=> j \in PendingIn(thunks)
  BY <1>2, <1>3, <1>4 DEF PendingIn
<1>7. ASSUME NEW j \in PendingIn(thunks) PROVE now[j].parent = thunks[j].parent
  BY <1>1, <1>3, <1>7 DEF PendingIn
<1> QED
  BY <1>5, <1>6, <1>7 DEF SameHoles

\* A thunk is blackened and its update pushed.
LEMMA HolesBlacken ==
    ASSUME NEW thunks, IsList(thunks), NEW fs, IsList(fs), Holes(thunks, fs),
           NEW id \in DOMAIN thunks, thunks[id].kind \notin {"Evaluating", "Pending"}
    PROVE  Holes([thunks EXCEPT ![id] = Evaluating], Append(fs, UpdateFrame(id)))
<1>1. PICK now, gs : now = [thunks EXCEPT ![id] = Evaluating] /\ gs = Append(fs, UpdateFrame(id))
  OBVIOUS
<1>2. /\ DOMAIN now = DOMAIN thunks /\ now[id] = Evaluating
      /\ \A k \in DOMAIN thunks : k # id => now[k] = thunks[k]
  BY <1>1, ListExcept
<1>3. now[id].kind = "Evaluating"
  BY <1>2 DEF Evaluating
<1>4. thunks[id].kind # "Evaluating" /\ thunks[id].kind # "Pending"
  OBVIOUS
<1>5. \A j : j \in Evals(now) <=> j \in Evals(thunks) \/ j = id
  BY <1>2, <1>3, <1>4 DEF Evals
<1>6. \A j : j \in PendingIn(now) <=> j \in PendingIn(thunks)
  BY <1>2, <1>3, <1>4 DEF PendingIn
<1>7. \A j \in PendingIn(thunks) : now[j].parent = thunks[j].parent
  BY <1>2, <1>4 DEF PendingIn
<1>8. \A x : ChainFrom(now, x) = ChainFrom(thunks, x)
  <2>1. PendingIn(now) = PendingIn(thunks)
    BY <1>6
  <2>2. \A S \in SUBSET PendingIn(thunks) : Linkage(now, S) <=> Linkage(thunks, S)
    BY <1>7 DEF Linkage
  <2> QED
    BY <2>1, <2>2 DEF ChainFrom
<1>9. UpdateFrame(id).kind = "Update" /\ UpdateFrame(id).id = id
  BY DEF UpdateFrame
<1>10. id \notin Updates(fs)
  BY <1>4 DEF Holes
<1>11. Updates(gs) = Updates(fs) \cup {id} /\ EachOnce(gs, "Update")
  <2>1. EachOnce(fs, "Update") /\ id \notin Names(fs, "Update")
    BY <1>10, NamesAre DEF Holes
  <2>2. Names(gs, "Update") = Names(fs, "Update") \cup {UpdateFrame(id).id} /\ EachOnce(gs, "Update")
    BY SMTT(30), <1>1, <1>9, <2>1, PushNames
  <2> QED
    BY <1>9, <2>2, NamesAre
<1>12. Heads(gs) = Heads(fs) /\ EachOnce(gs, "CompleteConstructorChain")
  <2>1. UpdateFrame(id).kind # "CompleteConstructorChain"
    BY <1>9
  <2> QED
    BY <1>1, <2>1, PushNames, NamesAre DEF Holes
<1>13. {j \in DOMAIN now : now[j].kind = "Evaluating"} = Updates(gs)
  <2>1. Evals(now) = Evals(thunks) \cup {id}
    BY <1>5
  <2> QED
    BY <1>11, <2>1 DEF Evals, Holes
<1>14. PendingIn(now) = PendingIn(thunks)
  BY <1>6
<1>15. PendingIn(now) = UNION {ChainFrom(now, head) : head \in Heads(gs)}
  <2>1. {ChainFrom(now, head) : head \in Heads(gs)} = {ChainFrom(thunks, head) : head \in Heads(fs)}
    BY <1>8, <1>12
  <2> QED
    BY <1>14, <2>1 DEF Holes
<1>16. \A j \in PendingIn(now) :
            now[j].parent # 0 =>
                now[j].parent \in PendingIn(now) /\ j \notin ChainFrom(now, now[j].parent)
  BY <1>7, <1>8, <1>14 DEF Holes
<1>17. \A i, j \in Heads(gs) : i # j => ChainFrom(now, i) \cap ChainFrom(now, j) = {}
  BY <1>8, <1>12 DEF Holes
<1>18. Heads(gs) \subseteq PendingIn(now)
  BY <1>12, <1>14 DEF Holes
<1>19. Holes(now, gs)
  BY <1>11, <1>12, <1>13, <1>15, <1>16, <1>17, <1>18 DEF Holes
<1> QED
  BY <1>1, <1>19

\* The innermost update is done.
LEMMA HolesUpdated ==
    ASSUME NEW thunks, IsList(thunks), NEW fs, IsList(fs), Holes(thunks, fs),
           fs # <<>>, Last(fs).kind = "Update", NEW v
    PROVE  /\ Holes([thunks EXCEPT ![Last(fs).id] = Ready(v)], Front(fs))
           /\ Last(fs).id \in DOMAIN thunks
<1>1. PICK id, now, gs : id = Last(fs).id /\ now = [thunks EXCEPT ![id] = Ready(v)] /\ gs = Front(fs)
  OBVIOUS
<1>2. Updates(gs) = Updates(fs) \ {id} /\ id \in Updates(fs) /\ EachOnce(gs, "Update")
  BY <1>1, PopNames, NamesAre DEF Holes
<1>3. Heads(gs) = Heads(fs) /\ EachOnce(gs, "CompleteConstructorChain")
  <2>1. Last(fs).kind # "CompleteConstructorChain"
    OBVIOUS
  <2> QED
    BY <1>1, <2>1, PopNames, NamesAre DEF Holes
<1>4. id \in DOMAIN thunks /\ thunks[id].kind = "Evaluating"
  BY <1>2 DEF Holes
<1>5. /\ DOMAIN now = DOMAIN thunks /\ now[id] = Ready(v)
      /\ \A k \in DOMAIN thunks : k # id => now[k] = thunks[k]
  BY <1>1, <1>4, ListExcept
<1>6. now[id].kind = "Ready"
  BY <1>5 DEF Ready
<1>7. \A j : j \in Evals(now) <=> j \in Evals(thunks) /\ j # id
  BY <1>4, <1>5, <1>6 DEF Evals
<1>8. \A j : j \in PendingIn(now) <=> j \in PendingIn(thunks)
  BY <1>4, <1>5, <1>6 DEF PendingIn
<1>9. \A j \in PendingIn(thunks) : now[j].parent = thunks[j].parent
  BY <1>4, <1>5 DEF PendingIn
<1>10. PendingIn(now) = PendingIn(thunks)
  BY <1>8
<1>11. \A x : ChainFrom(now, x) = ChainFrom(thunks, x)
  <2>2. \A S \in SUBSET PendingIn(thunks) : Linkage(now, S) <=> Linkage(thunks, S)
    BY <1>9 DEF Linkage
  <2> QED
    BY <1>10, <2>2 DEF ChainFrom
<1>12. {j \in DOMAIN now : now[j].kind = "Evaluating"} = Updates(gs)
  <2>1. Evals(now) = Evals(thunks) \ {id}
    BY <1>7
  <2> QED
    BY <1>2, <2>1 DEF Evals, Holes
<1>13. PendingIn(now) = UNION {ChainFrom(now, head) : head \in Heads(gs)}
  <2>1. {ChainFrom(now, head) : head \in Heads(gs)} = {ChainFrom(thunks, head) : head \in Heads(fs)}
    BY <1>3, <1>11
  <2> QED
    BY <1>10, <2>1 DEF Holes
<1>14. \A j \in PendingIn(now) :
            now[j].parent # 0 =>
                now[j].parent \in PendingIn(now) /\ j \notin ChainFrom(now, now[j].parent)
  BY <1>9, <1>10, <1>11 DEF Holes
<1>15. \A i, j \in Heads(gs) : i # j => ChainFrom(now, i) \cap ChainFrom(now, j) = {}
  BY <1>3, <1>11 DEF Holes
<1>16. Heads(gs) \subseteq PendingIn(now)
  BY <1>3, <1>10 DEF Holes
<1>17. Holes(now, gs)
  BY <1>2, <1>3, <1>12, <1>13, <1>14, <1>15, <1>16 DEF Holes
<1> QED
  BY <1>1, <1>4, <1>17

\* The parent of a pending constructor is pending.
Links(thunks) ==
    \A id \in PendingIn(thunks) : thunks[id].parent # 0 => thunks[id].parent \in PendingIn(thunks)

LEMMA ChainLeast ==
    ASSUME NEW thunks, NEW x, NEW S, S \subseteq PendingIn(thunks), x \in S, Linkage(thunks, S)
    PROVE  ChainFrom(thunks, x) \subseteq S
  BY DEF ChainFrom

LEMMA ChainRight ==
    ASSUME NEW thunks, Links(thunks), NEW x \in PendingIn(thunks)
    PROVE  /\ ChainFrom(thunks, x) \subseteq PendingIn(thunks)
           /\ x \in ChainFrom(thunks, x)
           /\ Linkage(thunks, ChainFrom(thunks, x))
<1>1. ChainFrom(thunks, x) \subseteq PendingIn(thunks) /\ x \in ChainFrom(thunks, x)
  BY DEF ChainFrom
<1>2. ASSUME NEW id \in ChainFrom(thunks, x), thunks[id].parent # 0
      PROVE  thunks[id].parent \in ChainFrom(thunks, x)
  <2>1. thunks[id].parent \in PendingIn(thunks)
    BY <1>1, <1>2 DEF Links
  <2>2. ASSUME NEW S \in SUBSET PendingIn(thunks), x \in S, Linkage(thunks, S)
        PROVE  thunks[id].parent \in S
    <3>1. id \in S
      BY <2>2 DEF ChainFrom
    <3> QED
      BY <1>2, <2>2, <3>1 DEF Linkage
  <2> QED
    BY <2>1, <2>2 DEF ChainFrom
<1> QED
  BY <1>1, <1>2 DEF Linkage

\* A chain is its head and the chain of the one around it.
LEMMA ChainStep ==
    ASSUME NEW thunks, Links(thunks), NEW x \in PendingIn(thunks)
    PROVE  /\ thunks[x].parent = 0 => ChainFrom(thunks, x) = {x}
           /\ thunks[x].parent # 0 =>
                ChainFrom(thunks, x) = {x} \cup ChainFrom(thunks, thunks[x].parent)
<1>1. PICK p : p = thunks[x].parent
  OBVIOUS
<1>2. CASE p = 0
  <2>1. Linkage(thunks, {x})
    BY <1>1, <1>2 DEF Linkage
  <2>2. ChainFrom(thunks, x) \subseteq {x}
    BY <2>1, ChainLeast
  <2> QED
    BY <1>1, <1>2, <2>2, ChainRight
<1>3. CASE p # 0
  <2>1. p \in PendingIn(thunks)
    BY <1>1, <1>3 DEF Links
  <2>2. PICK C : C = ChainFrom(thunks, p)
    OBVIOUS
  <2>3. C \subseteq PendingIn(thunks) /\ p \in C /\ Linkage(thunks, C)
    BY <2>1, <2>2, ChainRight
  <2>4. Linkage(thunks, {x} \cup C)
    BY <1>1, <2>3 DEF Linkage
  <2>5. ChainFrom(thunks, x) \subseteq {x} \cup C
    BY <2>3, <2>4, ChainLeast
  <2>6. p \in ChainFrom(thunks, x)
    BY <1>1, <1>3, ChainRight DEF Linkage
  <2>7. C \subseteq ChainFrom(thunks, x)
    BY <2>2, <2>6, ChainRight, ChainLeast
  <2>8. x \in ChainFrom(thunks, x)
    BY ChainRight
  <2> QED
    BY <1>1, <1>3, <2>2, <2>5, <2>7, <2>8
<1> QED
  BY <1>2, <1>3

\* A black hole becomes the head of a chain, around which the chain p was.
LEMMA HolesLink ==
    ASSUME NEW thunks, IsList(thunks), NEW fs, Holes(thunks, fs),
           NEW h \in Updates(fs), NEW p \in Heads(fs) \cup {0}, NEW name, NEW fields,
           NEW gs, Updates(gs) = Updates(fs) \ {h}, Heads(gs) = (Heads(fs) \ {p}) \cup {h},
           EachOnce(gs, "Update"), EachOnce(gs, "CompleteConstructorChain")
    PROVE  Holes([thunks EXCEPT ![h] = PendingConstructor(name, fields, p)], gs)
<1>1. PICK now : now = [thunks EXCEPT ![h] = PendingConstructor(name, fields, p)]
  OBVIOUS
<1>2. h \in DOMAIN thunks /\ thunks[h].kind = "Evaluating"
  BY DEF Holes
<1>3. /\ DOMAIN now = DOMAIN thunks /\ now[h] = PendingConstructor(name, fields, p)
      /\ \A k \in DOMAIN thunks : k # h => now[k] = thunks[k]
  BY <1>1, <1>2, ListExcept
<1>4. now[h].kind = "Pending" /\ now[h].parent = p
  BY <1>3 DEF PendingConstructor
<1>5. {j \in DOMAIN now : now[j].kind = "Evaluating"} = Updates(gs)
  <2>1. \A j : j \in Evals(now) <=> j \in Evals(thunks) /\ j # h
    BY <1>2, <1>3, <1>4 DEF Evals
  <2>2. Evals(now) = Evals(thunks) \ {h}
    BY <2>1
  <2> QED
    BY <2>2 DEF Evals, Holes
<1>6. h \notin PendingIn(thunks)
  BY <1>2 DEF PendingIn
<1>7. PendingIn(now) = PendingIn(thunks) \cup {h}
  <2>1. \A j : j \in PendingIn(now) <=> j \in PendingIn(thunks) \/ j = h
    BY <1>2, <1>3, <1>4 DEF PendingIn
  <2> QED
    BY <2>1
<1>8. \A j \in PendingIn(thunks) : j # h /\ now[j] = thunks[j]
  BY <1>3, <1>6 DEF PendingIn
<1>9. Links(thunks) /\ Heads(fs) \subseteq PendingIn(thunks)
  BY DEF Holes, Links
<1>10. p # 0 => p \in PendingIn(thunks)
  BY <1>9
<1>11. Links(now)
  BY <1>4, <1>7, <1>8, <1>9, <1>10 DEF Links
<1>12. ASSUME NEW x \in PendingIn(thunks)
       PROVE  ChainFrom(now, x) = ChainFrom(thunks, x)
  <2>1. PICK C, D : C = ChainFrom(thunks, x) /\ D = ChainFrom(now, x)
    OBVIOUS
  <2>2. C \subseteq PendingIn(thunks) /\ x \in C /\ Linkage(thunks, C)
    BY <1>9, <2>1, ChainRight
  <2>3. Linkage(now, C)
    BY <1>8, <2>2 DEF Linkage
  <2>4. D \subseteq C
    BY <1>7, <2>1, <2>2, <2>3, ChainLeast
  <2>5. x \in PendingIn(now)
    BY <1>7
  <2>6. x \in D /\ Linkage(now, D)
    BY <1>11, <2>1, <2>5, ChainRight
  <2>7. Linkage(thunks, D)
    BY <1>8, <2>2, <2>4, <2>6 DEF Linkage
  <2>8. C \subseteq D
    BY <2>1, <2>2, <2>4, <2>6, <2>7, ChainLeast
  <2> QED
    BY <2>1, <2>4, <2>8
<1>13. \A x \in PendingIn(thunks) : ChainFrom(thunks, x) \subseteq PendingIn(thunks)
  BY <1>9, ChainRight
<1>14. h \in PendingIn(now)
  BY <1>7
<1>15. /\ p = 0 => ChainFrom(now, h) = {h}
       /\ p # 0 => ChainFrom(now, h) = {h} \cup ChainFrom(thunks, p)
  BY <1>4, <1>10, <1>11, <1>12, <1>14, ChainStep
<1>16. \A j \in Heads(fs) : ChainFrom(now, j) = ChainFrom(thunks, j)
  BY <1>9, <1>12
<1>17. \A i, j \in Heads(gs) : i # j => ChainFrom(now, i) \cap ChainFrom(now, j) = {}
  <2>1. ASSUME NEW j \in Heads(fs), j # p PROVE ChainFrom(now, h) \cap ChainFrom(now, j) = {}
    <3>1. h \notin ChainFrom(thunks, j)
      BY <1>6, <1>9, <1>13
    <3>2. p # 0 => p \in Heads(fs) /\ ChainFrom(thunks, p) \cap ChainFrom(thunks, j) = {}
      BY <2>1 DEF Holes
    <3> QED
      BY <1>15, <1>16, <3>1, <3>2
  <2>2. \A i, j \in Heads(fs) : i # j => ChainFrom(now, i) \cap ChainFrom(now, j) = {}
    BY <1>16 DEF Holes
  <2>3. \A i : i \in Heads(gs) <=> (i \in Heads(fs) /\ i # p) \/ i = h
    OBVIOUS
  <2>4. ASSUME NEW i \in Heads(gs), NEW j \in Heads(gs), i # j
        PROVE  ChainFrom(now, i) \cap ChainFrom(now, j) = {}
    <3>1. CASE i = h
      BY <2>1, <2>3, <2>4, <3>1
    <3>2. CASE j = h
      BY <2>1, <2>3, <2>4, <3>2
    <3>3. CASE i # h /\ j # h
      BY <2>2, <2>3, <2>4, <3>3
    <3> QED
      BY <3>1, <3>2, <3>3
  <2> QED
    BY <2>4
<1>18. Heads(gs) \subseteq PendingIn(now)
  BY <1>7, <1>9
<1>19. ASSUME NEW x \in PendingIn(now)
       PROVE  \E j \in Heads(gs) : x \in ChainFrom(now, j)
  <2>1. CASE x = h
    BY <1>15, <2>1
  <2>2. CASE x \in PendingIn(thunks)
    <3>1. PICK j \in Heads(fs) : x \in ChainFrom(thunks, j)
      BY <2>2 DEF Holes
    <3>2. CASE j = p
      <4>1. p # 0
        <5>1. j \in PendingIn(thunks) /\ 0 \notin DOMAIN thunks
          BY <1>9, ListIs
        <5> QED
          BY <3>2, <5>1 DEF PendingIn
      <4> QED
        BY <1>15, <3>1, <3>2, <4>1
    <3>3. CASE j # p
      BY <1>16, <3>1, <3>3
    <3> QED
      BY <3>2, <3>3
  <2> QED
    BY <1>7, <2>1, <2>2
<1>20. \A j \in Heads(gs) : ChainFrom(now, j) \subseteq PendingIn(now)
  BY <1>11, <1>18, ChainRight
<1>21. PendingIn(now) = UNION {ChainFrom(now, head) : head \in Heads(gs)}
  BY <1>19, <1>20
<1>22. ASSUME NEW x \in PendingIn(now), now[x].parent # 0
       PROVE  now[x].parent \in PendingIn(now) /\ x \notin ChainFrom(now, now[x].parent)
  <2>1. CASE x = h
    <3>1. ChainFrom(now, p) \subseteq PendingIn(thunks)
      BY <1>4, <1>10, <1>12, <1>13, <1>22, <2>1
    <3> QED
      BY <1>4, <1>6, <1>7, <1>10, <1>22, <2>1, <3>1
  <2>2. CASE x \in PendingIn(thunks)
    <3>1. thunks[x].parent # 0 /\ now[x].parent = thunks[x].parent
      BY <1>8, <1>22, <2>2
    <3>2. thunks[x].parent \in PendingIn(thunks) /\ x \notin ChainFrom(thunks, thunks[x].parent)
      BY <2>2, <3>1 DEF Holes
    <3> QED
      BY <1>7, <1>12, <3>1, <3>2
  <2> QED
    BY <1>7, <2>1, <2>2
<1>23. Holes(now, gs)
  BY <1>5, <1>17, <1>18, <1>21, <1>22 DEF Holes
<1> QED
  BY <1>1, <1>23

\* The head of a chain is finished, and the one around it becomes the head.
LEMMA HolesUnlink ==
    ASSUME NEW thunks, IsList(thunks), NEW fs, Holes(thunks, fs),
           NEW h \in Heads(fs), NEW p, p = thunks[h].parent, NEW v,
           NEW gs, Updates(gs) = Updates(fs), Heads(gs) = (Heads(fs) \ {h}) \cup ({p} \ {0}),
           EachOnce(gs, "Update"), EachOnce(gs, "CompleteConstructorChain")
    PROVE  Holes([thunks EXCEPT ![h] = Ready(v)], gs)
<1>1. PICK now : now = [thunks EXCEPT ![h] = Ready(v)]
  OBVIOUS
<1>2. Links(thunks) /\ Heads(fs) \subseteq PendingIn(thunks)
  BY DEF Holes, Links
<1>3. h \in DOMAIN thunks /\ thunks[h].kind = "Pending" /\ h \in PendingIn(thunks)
  BY <1>2 DEF PendingIn
<1>4. /\ DOMAIN now = DOMAIN thunks /\ now[h] = Ready(v)
      /\ \A k \in DOMAIN thunks : k # h => now[k] = thunks[k]
  BY <1>1, <1>3, ListExcept
<1>5. now[h].kind = "Ready"
  BY <1>4 DEF Ready
<1>6. {j \in DOMAIN now : now[j].kind = "Evaluating"} = Updates(gs)
  <2>1. \A j : j \in Evals(now) <=> j \in Evals(thunks)
    BY <1>3, <1>4, <1>5 DEF Evals
  <2> QED
    BY <2>1 DEF Evals, Holes
<1>7. PendingIn(now) = PendingIn(thunks) \ {h}
  <2>1. \A j : j \in PendingIn(now) <=> j \in PendingIn(thunks) /\ j # h
    BY <1>3, <1>4, <1>5 DEF PendingIn
  <2> QED
    BY <2>1
<1>8. \A j \in PendingIn(now) : now[j] = thunks[j] /\ j \in PendingIn(thunks) /\ j # h
  BY <1>4, <1>7 DEF PendingIn
<1>9. /\ p = 0 => ChainFrom(thunks, h) = {h}
      /\ p # 0 => ChainFrom(thunks, h) = {h} \cup ChainFrom(thunks, p)
  BY <1>2, <1>3, ChainStep
<1>10. p # 0 => p \in PendingIn(thunks) /\ h \notin ChainFrom(thunks, p)
  BY <1>3 DEF Holes
<1>11. ASSUME NEW j \in Heads(fs), j # h PROVE h \notin ChainFrom(thunks, j)
  <2>1. h \in ChainFrom(thunks, h)
    BY <1>2, <1>3, ChainRight
  <2>2. ChainFrom(thunks, h) \cap ChainFrom(thunks, j) = {}
    BY <1>11 DEF Holes
  <2> QED
    BY <2>1, <2>2
<1>12. ASSUME NEW q \in PendingIn(thunks) PROVE thunks[q].parent # h
  <2> SUFFICES ASSUME thunks[q].parent = h PROVE FALSE
    OBVIOUS
  <2>1. PICK j \in Heads(fs) : q \in ChainFrom(thunks, j)
    BY DEF Holes
  <2>2. h # 0
    <3>1. 0 \notin DOMAIN thunks
      BY ListIs
    <3> QED
      BY <1>3, <3>1
  <2>3. h \in ChainFrom(thunks, j)
    BY <1>2, <2>1, <2>2, ChainRight DEF Linkage
  <2>4. j = h
    BY <1>11, <2>3
  <2>5. CASE q = h
    <3>1. p = h /\ p # 0
      BY <2>2, <2>5
    <3>2. h \in ChainFrom(thunks, p)
      BY <1>2, <1>3, <3>1, ChainRight
    <3> QED
      BY <1>10, <3>1, <3>2
  <2>6. CASE q # h
    <3>1. p # 0 /\ q \in ChainFrom(thunks, p)
      BY <1>9, <2>1, <2>4, <2>6
    <3>2. h \in ChainFrom(thunks, p)
      BY <1>2, <1>10, <2>2, <3>1, ChainRight DEF Linkage
    <3> QED
      BY <1>10, <3>1, <3>2
  <2> QED
    BY <2>5, <2>6
<1>13. Links(now)
  BY <1>2, <1>7, <1>8, <1>12 DEF Links
<1>14. ASSUME NEW x \in PendingIn(now)
       PROVE  ChainFrom(now, x) = ChainFrom(thunks, x)
  <2>1. PICK C, D : C = ChainFrom(thunks, x) /\ D = ChainFrom(now, x)
    OBVIOUS
  <2>2. x \in PendingIn(thunks) /\ x # h
    BY <1>8
  <2>3. C \subseteq PendingIn(thunks) /\ x \in C /\ Linkage(thunks, C)
    BY <1>2, <2>1, <2>2, ChainRight
  <2>4. Linkage(thunks, C \ {h})
    BY <1>12, <2>3 DEF Linkage
  <2>5. C \subseteq C \ {h}
    BY <2>1, <2>2, <2>3, <2>4, ChainLeast
  <2>6. C \subseteq PendingIn(now)
    BY <1>7, <2>3, <2>5
  <2>7. Linkage(now, C)
    BY <1>8, <2>3, <2>6 DEF Linkage
  <2>8. D \subseteq C
    BY <2>1, <2>3, <2>6, <2>7, ChainLeast
  <2>9. D \subseteq PendingIn(now) /\ x \in D /\ Linkage(now, D)
    BY <1>13, <2>1, ChainRight
  <2>10. Linkage(thunks, D)
    BY <1>8, <2>9 DEF Linkage
  <2>11. C \subseteq D
    BY <1>7, <2>1, <2>9, <2>10, ChainLeast
  <2> QED
    BY <2>1, <2>8, <2>11
<1>15. \A j : j \in Heads(gs) <=> (j \in Heads(fs) /\ j # h) \/ (j = p /\ p # 0)
  OBVIOUS
<1>16. p # h
  BY <1>3, <1>12
<1>17. Heads(gs) \subseteq PendingIn(now)
  BY <1>2, <1>7, <1>10, <1>15, <1>16
<1>18. \A j \in Heads(gs) : ChainFrom(now, j) = ChainFrom(thunks, j)
  BY <1>14, <1>17
<1>19. \A i, j \in Heads(gs) : i # j => ChainFrom(now, i) \cap ChainFrom(now, j) = {}
  <2>1. ASSUME NEW j \in Heads(fs), j # h, p # 0
        PROVE  ChainFrom(thunks, p) \cap ChainFrom(thunks, j) = {}
    <3>1. ChainFrom(thunks, h) \cap ChainFrom(thunks, j) = {}
      BY <2>1 DEF Holes
    <3> QED
      BY <1>9, <2>1, <3>1
  <2>2. \A i, j \in Heads(fs) : i # j => ChainFrom(thunks, i) \cap ChainFrom(thunks, j) = {}
    BY DEF Holes
  <2>3. ASSUME NEW i \in Heads(gs), NEW j \in Heads(gs), i # j
        PROVE  ChainFrom(thunks, i) \cap ChainFrom(thunks, j) = {}
    <3>1. CASE i \in Heads(fs) /\ i # h /\ j \in Heads(fs) /\ j # h
      BY <2>2, <2>3, <3>1
    <3>2. CASE i = p /\ p # 0 /\ j \in Heads(fs) /\ j # h
      BY <2>1, <3>2
    <3>3. CASE j = p /\ p # 0 /\ i \in Heads(fs) /\ i # h
      BY <2>1, <3>3
    <3> QED
      BY <1>15, <2>3, <3>1, <3>2, <3>3
  <2> QED
    BY <1>18, <2>3
<1>20. ASSUME NEW x \in PendingIn(now)
       PROVE  \E j \in Heads(gs) : x \in ChainFrom(now, j)
  <2>1. x \in PendingIn(thunks) /\ x # h
    BY <1>8
  <2>2. PICK j \in Heads(fs) : x \in ChainFrom(thunks, j)
    BY <2>1 DEF Holes
  <2>3. CASE j = h
    <3>1. p # 0 /\ x \in ChainFrom(thunks, p)
      BY <1>9, <2>1, <2>2, <2>3
    <3> QED
      BY <1>15, <1>18, <3>1
  <2>4. CASE j # h
    BY <1>15, <1>18, <2>2, <2>4
  <2> QED
    BY <2>3, <2>4
<1>21. \A j \in Heads(gs) : ChainFrom(now, j) \subseteq PendingIn(now)
  BY <1>13, <1>17, ChainRight
<1>22. PendingIn(now) = UNION {ChainFrom(now, head) : head \in Heads(gs)}
  BY <1>20, <1>21
<1>23. ASSUME NEW x \in PendingIn(now), now[x].parent # 0
       PROVE  now[x].parent \in PendingIn(now) /\ x \notin ChainFrom(now, now[x].parent)
  <2>1. now[x].parent \in PendingIn(now)
    BY <1>13, <1>23 DEF Links
  <2>2. now[x].parent = thunks[x].parent /\ x \in PendingIn(thunks)
    BY <1>8
  <2>3. x \notin ChainFrom(thunks, thunks[x].parent)
    BY <1>23, <2>2 DEF Holes
  <2> QED
    BY <1>14, <2>1, <2>2, <2>3
<1>24. Holes(now, gs)
  BY <1>6, <1>17, <1>19, <1>22, <1>23 DEF Holes
<1> QED
  BY <1>1, <1>24

\* The one around the head of a chain is no head.
LEMMA ParentNoHead ==
    ASSUME NEW thunks, NEW fs, Holes(thunks, fs), NEW h \in Heads(fs), thunks[h].parent # 0
    PROVE  thunks[h].parent \notin Heads(fs)
<1>1. PICK p : p = thunks[h].parent
  OBVIOUS
<1>2. Links(thunks) /\ Heads(fs) \subseteq PendingIn(thunks)
  BY DEF Holes, Links
<1>3. h \in PendingIn(thunks) /\ p \in PendingIn(thunks) /\ h \notin ChainFrom(thunks, p)
  BY <1>1, <1>2 DEF Holes
<1>4. p \in ChainFrom(thunks, h) /\ p \in ChainFrom(thunks, p) /\ h \in ChainFrom(thunks, h)
  BY <1>1, <1>2, <1>3, ChainRight DEF Linkage
<1>5. p # h
  BY <1>3, <1>4
<1>6. p \in Heads(fs) => ChainFrom(thunks, h) \cap ChainFrom(thunks, p) = {}
  BY <1>5 DEF Holes
<1> QED
  BY <1>1, <1>4, <1>6

-----------------------------------------------------------------------------
(***************************************************************************)
(* The loops: what is known of each turn.                                  *)
(***************************************************************************)
LEMMA ExpressionsAre ==
    ASSUME NEW a, NEW terms, Len(terms) \in Nat, NEW environment
    PROVE  \E f : /\ f[0] = a
                  /\ \A k \in 1..Len(terms) : f[k] = Expression(f[k - 1], terms[k], environment)
                  /\ Expressions(a, terms, environment) = f[Len(terms)]
<1> DEFINE Turn(f, k) == IF k = 0 THEN a ELSE Expression(f[k - 1], terms[k], environment)
           Runs(f, m) == f = [k \in 0..m |-> Turn(f, k)]
           S == {m \in Nat : \E f : Runs(f, m)}
<1>1. 0 \in S
  <2>1. PICK f : f = [k \in 0..0 |-> a]
    OBVIOUS
  <2>2. f = [k \in 0..0 |-> Turn(f, k)]
    BY <2>1
  <2> QED
    BY <2>2
<1>2. ASSUME NEW m \in Nat, m \in S PROVE m + 1 \in S
  <2>1. PICK f : Runs(f, m)
    BY <1>2
  <2>2. PICK g : g = [k \in 0..(m + 1) |-> IF k <= m THEN f[k]
                                          ELSE Expression(f[m], terms[m + 1], environment)]
    OBVIOUS
  <2>3. ASSUME NEW k \in 0..(m + 1) PROVE g[k] = Turn(g, k)
    <3>1. CASE k <= m
      <4>1. g[k] = f[k] /\ f[k] = Turn(f, k)
        BY <2>1, <2>2, <3>1
      <4>2. k # 0 => g[k - 1] = f[k - 1]
        BY <2>2, <3>1
      <4> QED
        BY <4>1, <4>2
    <3>2. CASE k = m + 1
      <4>1. g[k] = Expression(f[m], terms[m + 1], environment) /\ g[m] = f[m] /\ k # 0 /\ k - 1 = m
        BY <2>2, <3>2
      <4> QED
        BY <3>2, <4>1
    <3> QED
      BY <3>1, <3>2
  <2>4. DOMAIN g = 0..(m + 1) /\ g = [k \in DOMAIN g |-> g[k]]
    BY <2>2
  <2>5. g = [k \in 0..(m + 1) |-> Turn(g, k)]
    BY <2>3, <2>4
  <2> QED
    BY <2>5
<1>3. PICK f : Runs(f, Len(terms))
  <2>1. Nat \subseteq S
    <3> HIDE DEF S
    <3> QED
      BY <1>1, <1>2, SetInduction
  <2> QED
    BY <2>1
<1>4. PICK f2 : /\ Runs(f2, Len(terms)) /\ Expressions(a, terms, environment) = f2[Len(terms)]
  BY <1>3 DEF Expressions
<1> QED
  BY <1>4

LEMMA ApplicationsAre ==
    ASSUME NEW a, NEW args, Len(args) \in Nat
    PROVE  \E f : /\ f[0] = a
                  /\ \A k \in 1..Len(args) : f[k] = Allocate(f[k - 1], Application(Last(f[k - 1].ids), args[k]))
                  /\ Applications(a, args) = f[Len(args)]
<1> DEFINE Turn(f, k) == IF k = 0 THEN a
                         ELSE Allocate(f[k - 1], Application(Last(f[k - 1].ids), args[k]))
           Runs(f, m) == f = [k \in 0..m |-> Turn(f, k)]
           S == {m \in Nat : \E f : Runs(f, m)}
<1>1. 0 \in S
  <2>1. PICK f : f = [k \in 0..0 |-> a]
    OBVIOUS
  <2>2. f = [k \in 0..0 |-> Turn(f, k)]
    BY <2>1
  <2> QED
    BY <2>2
<1>2. ASSUME NEW m \in Nat, m \in S PROVE m + 1 \in S
  <2>1. PICK f : Runs(f, m)
    BY <1>2
  <2>2. PICK g : g = [k \in 0..(m + 1) |-> IF k <= m THEN f[k] ELSE Allocate(f[m], Application(Last(f[m].ids), args[m + 1]))]
    OBVIOUS
  <2>3. ASSUME NEW k \in 0..(m + 1) PROVE g[k] = Turn(g, k)
    <3>1. CASE k <= m
      <4>1. g[k] = f[k] /\ f[k] = Turn(f, k)
        BY <2>1, <2>2, <3>1
      <4>2. k # 0 => g[k - 1] = f[k - 1]
        BY <2>2, <3>1
      <4> QED
        BY <4>1, <4>2
    <3>2. CASE k = m + 1
      <4>1. g[k] = Allocate(f[m], Application(Last(f[m].ids), args[m + 1])) /\ g[m] = f[m] /\ k # 0 /\ k - 1 = m
        BY <2>2, <3>2
      <4> QED
        BY <3>2, <4>1
    <3> QED
      BY <3>1, <3>2
  <2>4. DOMAIN g = 0..(m + 1) /\ g = [k \in DOMAIN g |-> g[k]]
    BY <2>2
  <2>5. g = [k \in 0..(m + 1) |-> Turn(g, k)]
    BY <2>3, <2>4
  <2> QED
    BY <2>5
<1>3. PICK f : Runs(f, Len(args))
  <2>1. Nat \subseteq S
    <3> HIDE DEF S
    <3> QED
      BY <1>1, <1>2, SetInduction
  <2> QED
    BY <2>1
<1>4. PICK g : Runs(g, Len(args)) /\ Applications(a, args) = g[Len(args)]
  BY <1>3 DEF Applications
<1> QED
  BY <1>4

\* A turn of Enter's loop.
Applied(a, argument) ==
    LET b == Expression(a, argument, RootEnvironment)
    IN  Allocate(b, Application(Last(a.ids), Last(b.ids)))

LEMMA EnteredIs ==
    ASSUME NEW args, args = Text.arguments, Len(args) \in Nat
    PROVE  \E f : /\ f[0] = Reference(Same, Text.entry)
                  /\ \A k \in 1..Len(args) : f[k] = Applied(f[k - 1], args[k])
                  /\ Entered = f[Len(args)]
<1> DEFINE Turn(f, k) == IF k = 0 THEN Reference(Same, Text.entry)
                         ELSE Applied(f[k - 1], args[k])
           Runs(f, m) == f = [k \in 0..m |-> Turn(f, k)]
           S == {m \in Nat : \E f : Runs(f, m)}
<1>1. 0 \in S
  <2>1. PICK f : f = [k \in 0..0 |-> Reference(Same, Text.entry)]
    OBVIOUS
  <2>2. f = [k \in 0..0 |-> Turn(f, k)]
    BY <2>1
  <2> QED
    BY <2>2
<1>2. ASSUME NEW m \in Nat, m \in S PROVE m + 1 \in S
  <2>1. PICK f : Runs(f, m)
    BY <1>2
  <2>2. PICK g : g = [k \in 0..(m + 1) |-> IF k <= m THEN f[k] ELSE Applied(f[m], args[m + 1])]
    OBVIOUS
  <2>3. ASSUME NEW k \in 0..(m + 1) PROVE g[k] = Turn(g, k)
    <3>1. CASE k <= m
      <4>1. g[k] = f[k] /\ f[k] = Turn(f, k)
        BY <2>1, <2>2, <3>1
      <4>2. k # 0 => g[k - 1] = f[k - 1]
        BY <2>2, <3>1
      <4> QED
        BY <4>1, <4>2
    <3>2. CASE k = m + 1
      <4>1. g[k] = Applied(f[m], args[m + 1]) /\ g[m] = f[m] /\ k # 0 /\ k - 1 = m
        BY <2>2, <3>2
      <4> QED
        BY <3>2, <4>1
    <3> QED
      BY <3>1, <3>2
  <2>4. DOMAIN g = 0..(m + 1) /\ g = [k \in DOMAIN g |-> g[k]]
    BY <2>2
  <2>5. g = [k \in 0..(m + 1) |-> Turn(g, k)]
    BY <2>3, <2>4
  <2> QED
    BY <2>5
<1>3. PICK f : Runs(f, Len(args))
  <2>1. Nat \subseteq S
    <3> HIDE DEF S
    <3> QED
      BY <1>1, <1>2, SetInduction
  <2> QED
    BY <2>1
<1>4. PICK g : Runs(g, Len(args)) /\ Entered = g[Len(args)]
  BY <1>3 DEF Entered, Applied
<1>5. g[0] = Reference(Same, Text.entry) /\ \A k \in 1..Len(args) : g[k] = Applied(g[k - 1], args[k])
  BY SMTT(30), <1>4
<1> QED
  BY <1>4, <1>5

LEMMA ScopesAre ==
    ASSUME NEW h, NEW e, NEW bound, bound \in Nat
    PROVE  \E f : /\ f[0] = <<>>
                  /\ \A k \in 1..bound : f[k] = Longer(h, e, f[k - 1])
                  /\ Scopes(h, e, bound) = f[bound]
<1> DEFINE Turn(f, k) == IF k = 0 THEN <<>>
                         ELSE Longer(h, e, f[k - 1])
           Runs(f, m) == f = [k \in 0..m |-> Turn(f, k)]
           S == {m \in Nat : \E f : Runs(f, m)}
<1>1. 0 \in S
  <2>1. PICK f : f = [k \in 0..0 |-> <<>>]
    OBVIOUS
  <2>2. f = [k \in 0..0 |-> Turn(f, k)]
    BY <2>1
  <2> QED
    BY <2>2
<1>2. ASSUME NEW m \in Nat, m \in S PROVE m + 1 \in S
  <2>1. PICK f : Runs(f, m)
    BY <1>2
  <2>2. PICK g : g = [k \in 0..(m + 1) |-> IF k <= m THEN f[k] ELSE Longer(h, e, f[m])]
    OBVIOUS
  <2>3. ASSUME NEW k \in 0..(m + 1) PROVE g[k] = Turn(g, k)
    <3>1. CASE k <= m
      <4>1. g[k] = f[k] /\ f[k] = Turn(f, k)
        BY <2>1, <2>2, <3>1
      <4>2. k # 0 => g[k - 1] = f[k - 1]
        BY <2>2, <3>1
      <4> QED
        BY <4>1, <4>2
    <3>2. CASE k = m + 1
      <4>1. g[k] = Longer(h, e, f[m]) /\ g[m] = f[m] /\ k # 0 /\ k - 1 = m
        BY <2>2, <3>2
      <4> QED
        BY <3>2, <4>1
    <3> QED
      BY <3>1, <3>2
  <2>4. DOMAIN g = 0..(m + 1) /\ g = [k \in DOMAIN g |-> g[k]]
    BY <2>2
  <2>5. g = [k \in 0..(m + 1) |-> Turn(g, k)]
    BY <2>3, <2>4
  <2> QED
    BY <2>5
<1>3. PICK f : Runs(f, bound)
  <2>1. Nat \subseteq S
    <3> HIDE DEF S
    <3> QED
      BY <1>1, <1>2, SetInduction
  <2> QED
    BY <2>1
<1>4. PICK g : Runs(g, bound) /\ Scopes(h, e, bound) = g[bound]
  BY <1>3 DEF Scopes
<1> QED
  BY <1>4

\* The free list that a sweep builds.
Freeing(tag, marked, free, id) == IF <<tag, id>> \in marked THEN free ELSE Append(free, id)

LEMMA FreeSlotsAre ==
    ASSUME NEW slots, NEW tag, NEW marked, Len(slots) \in Nat
    PROVE  \E f : /\ f[0] = <<>>
                  /\ \A k \in 1..Len(slots) : f[k] = Freeing(tag, marked, f[k - 1], k)
                  /\ FreeSlots(slots, tag, marked) = f[Len(slots)]
<1> DEFINE Turn(f, k) == IF k = 0 THEN <<>>
                         ELSE Freeing(tag, marked, f[k - 1], k)
           Runs(f, m) == f = [k \in 0..m |-> Turn(f, k)]
           S == {m \in Nat : \E f : Runs(f, m)}
<1>1. 0 \in S
  <2>1. PICK f : f = [k \in 0..0 |-> <<>>]
    OBVIOUS
  <2>2. f = [k \in 0..0 |-> Turn(f, k)]
    BY <2>1
  <2> QED
    BY <2>2
<1>2. ASSUME NEW m \in Nat, m \in S PROVE m + 1 \in S
  <2>1. PICK f : Runs(f, m)
    BY <1>2
  <2>2. PICK g : g = [k \in 0..(m + 1) |-> IF k <= m THEN f[k] ELSE Freeing(tag, marked, f[m], m + 1)]
    OBVIOUS
  <2>3. ASSUME NEW k \in 0..(m + 1) PROVE g[k] = Turn(g, k)
    <3>1. CASE k <= m
      <4>1. g[k] = f[k] /\ f[k] = Turn(f, k)
        BY <2>1, <2>2, <3>1
      <4>2. k # 0 => g[k - 1] = f[k - 1]
        BY <2>2, <3>1
      <4> QED
        BY <4>1, <4>2
    <3>2. CASE k = m + 1
      <4>1. g[k] = Freeing(tag, marked, f[m], m + 1) /\ g[m] = f[m] /\ k # 0 /\ k - 1 = m
        BY <2>2, <3>2
      <4> QED
        BY <3>2, <4>1
    <3> QED
      BY <3>1, <3>2
  <2>4. DOMAIN g = 0..(m + 1) /\ g = [k \in DOMAIN g |-> g[k]]
    BY <2>2
  <2>5. g = [k \in 0..(m + 1) |-> Turn(g, k)]
    BY <2>3, <2>4
  <2> QED
    BY <2>5
<1>3. PICK f : Runs(f, Len(slots))
  <2>1. Nat \subseteq S
    <3> HIDE DEF S
    <3> QED
      BY <1>1, <1>2, SetInduction
  <2> QED
    BY <2>1
<1>4. PICK g : Runs(g, Len(slots)) /\ FreeSlots(slots, tag, marked) = g[Len(slots)]
  BY <1>3 DEF FreeSlots, Freeing
<1> QED
  BY <1>4

LEMMA MarkedIs ==
    ASSUME NEW rounds, rounds \in Nat, rounds = Len(heap.thunks) + Len(heap.environments)
    PROVE  \E f : /\ f[0] = RootNodes
                  /\ \A k \in 1..rounds : f[k] = Around(f[k - 1])
                  /\ Marked = f[rounds]
<1>0. PICK n \in Nat : n = rounds
  OBVIOUS
<1> DEFINE Turn(f, k) == IF k = 0 THEN RootNodes
                         ELSE Around(f[k - 1])
           Runs(f, m) == f = [k \in 0..m |-> Turn(f, k)]
           S == {m \in Nat : \E f : Runs(f, m)}
<1>1. 0 \in S
  <2>1. PICK f : f = [k \in 0..0 |-> RootNodes]
    OBVIOUS
  <2>2. f = [k \in 0..0 |-> Turn(f, k)]
    BY <2>1
  <2> QED
    BY <2>2
<1>2. ASSUME NEW m \in Nat, m \in S PROVE m + 1 \in S
  <2>1. PICK f : Runs(f, m)
    BY <1>2
  <2>2. PICK g : g = [k \in 0..(m + 1) |-> IF k <= m THEN f[k] ELSE Around(f[m])]
    OBVIOUS
  <2>3. ASSUME NEW k \in 0..(m + 1) PROVE g[k] = Turn(g, k)
    <3>1. CASE k <= m
      <4>1. g[k] = f[k] /\ f[k] = Turn(f, k)
        BY <2>1, <2>2, <3>1
      <4>2. k # 0 => g[k - 1] = f[k - 1]
        BY <2>2, <3>1
      <4> QED
        BY <4>1, <4>2
    <3>2. CASE k = m + 1
      <4>1. g[k] = Around(f[m]) /\ g[m] = f[m] /\ k # 0 /\ k - 1 = m
        BY <2>2, <3>2
      <4> QED
        BY <3>2, <4>1
    <3> QED
      BY <3>1, <3>2
  <2>4. DOMAIN g = 0..(m + 1) /\ g = [k \in DOMAIN g |-> g[k]]
    BY <2>2
  <2>5. g = [k \in 0..(m + 1) |-> Turn(g, k)]
    BY <2>3, <2>4
  <2> QED
    BY <2>5
<1>3. PICK f : Runs(f, n)
  <2>1. Nat \subseteq S
    <3> HIDE DEF S
    <3> QED
      BY <1>1, <1>2, SetInduction
  <2> QED
    BY <2>1
<1>4. PICK g : Runs(g, n) /\ Marked = g[n]
  BY <1>0, <1>3 DEF Marked
<1>5. g[0] = RootNodes /\ \A k \in 1..n : g[k] = Around(g[k - 1])
  BY <1>4
<1> QED
  BY <1>0, <1>4, <1>5

LEMMA ScopesRight ==
    ASSUME NEW h, NEW L, NEW E, Closed(h, L, E), E = InUse(h.environments), NEW e \in E,
           NEW bound, bound \in Nat
    PROVE  Scopes(h, e, bound) \in Seq(E)
<1>1. ASSUME NEW path \in Seq(E) PROVE Longer(h, e, path) \in Seq(E)
  <2>1. PICK next : next = IF path = <<>> THEN e ELSE Outside(h, Last(path))
    OBVIOUS
  <2>2. CASE path # <<>>
    <3>1. Len(path) \in 1..Len(path)
      BY <2>2, EmptySeq, LenProperties
    <3>2. Last(path) \in E
      BY <3>1, ElementOfSeq DEF Last
    <3>3. Last(path) \in DOMAIN h.environments /\ h.environments[Last(path)].kind # "Vacant"
      BY <3>2 DEF InUse
    <3>4. h.environments[Last(path)].parent \in E \cup {NoParent}
      BY <3>3 DEF Closed, GoodScope
    <3>5. next = h.environments[Last(path)].parent
      BY <2>1, <2>2, <3>3 DEF Outside
    <3> QED
      BY ZenonT(60), <2>1, <3>4, <3>5, AppendProperties DEF Longer, Further
  <2>3. CASE path = <<>>
    <3>1. next = e /\ Append(path, e) \in Seq(E)
      BY <2>1, <2>3, AppendProperties
    <3> QED
      BY <2>1, <3>1 DEF Longer, Further
  <2> QED
    BY <2>2, <2>3
<1>2. PICK f : /\ f[0] = <<>> /\ \A k \in 1..bound : f[k] = Longer(h, e, f[k - 1])
               /\ Scopes(h, e, bound) = f[bound]
  BY ScopesAre
<1> DEFINE S == {m \in Nat : m <= bound => f[m] \in Seq(E)}
<1>3. 0 \in S
  BY <1>2, EmptySeq
<1>4. ASSUME NEW m \in Nat, m \in S PROVE m + 1 \in S
  <2>1. CASE m + 1 <= bound
    <3>1. m + 1 \in 1..bound /\ (m + 1) - 1 = m /\ f[m] \in Seq(E)
      BY <1>4, <2>1
    <3>2. f[m + 1] = Longer(h, e, f[m])
      BY <1>2, <3>1
    <3> QED
      BY <1>1, <3>1, <3>2
  <2> QED
    BY <2>1
<1>5. bound \in S
  <2> HIDE DEF S
  <2>1. Nat \subseteq S
    BY <1>3, <1>4, SetInduction
  <2> QED
    BY <2>1
<1> QED
  BY <1>2, <1>5

-----------------------------------------------------------------------------
(***************************************************************************)
(* Allocation: a heap that the frames fs work on stays one, with all that  *)
(* was in use.                                                             *)
(***************************************************************************)
Live(a) == InUse(a.heap.thunks)
Scoped(a) == InUse(a.heap.environments)
Allotted(a, fs) ==
    /\ a = [heap |-> a.heap, ids |-> a.ids, ok |-> a.ok] /\ IsList(a.ids)
    /\ a.ok => Working(a.heap, fs) /\ Grows(heap, a.heap)
\* The allotment b is a and another thunk.
Gives(a, b, fs) ==
    /\ Allotted(b, fs)
    /\ b.ok => /\ a.ok /\ Grows(a.heap, b.heap)
               /\ \E id : b.ids = Append(a.ids, id) /\ id \in Live(b)

LEMMA GivesLast ==
    ASSUME NEW a, NEW b, NEW fs, IsList(a.ids), Gives(a, b, fs), b.ok
    PROVE  /\ a.ok /\ Grows(a.heap, b.heap) /\ Last(b.ids) \in Live(b)
           /\ b.ids = Append(a.ids, Last(b.ids))
           /\ Len(b.ids) = Len(a.ids) + 1
<1>1. PICK id : b.ids = Append(a.ids, id) /\ id \in Live(b)
  BY DEF Gives
<1>2. Last(Append(a.ids, id)) = id /\ Len(Append(a.ids, id)) = Len(a.ids) + 1
  BY ListAppend
<1> QED
  BY <1>1, <1>2 DEF Gives

\* A thunk is allocated in the heap h.
LEMMA ThunkTaken ==
    ASSUME NEW fs, NEW h, Working(h, fs), limits.arena \in Nat,
           ~(h.freeThunks = <<>> /\ Len(h.thunks) >= limits.arena),
           NEW t, GoodThunk(t, InUse(h.thunks), InUse(h.environments)),
           t.kind \notin {"Vacant", "Evaluating", "Pending"},
           NEW id, id = Slot(h.thunks, h.freeThunks),
           NEW k, k = [thunks |-> Stored(h.thunks, id, t), environments |-> h.environments,
                       freeThunks |-> Popped(h.freeThunks),
                       freeEnvironments |-> h.freeEnvironments, debt |-> h.debt + 1]
    PROVE  Working(k, fs) /\ Grows(h, k) /\ id \in InUse(k.thunks)
<1>1. /\ Shape(k) /\ k.debt \in Nat /\ k.thunks = Stored(h.thunks, id, t)
      /\ k.environments = h.environments /\ k.freeThunks = Popped(h.freeThunks)
      /\ k.freeEnvironments = h.freeEnvironments
  BY DEF Working, Sound, Shape
<1>2. Arena(h.thunks, h.freeThunks) /\ t.kind # "Vacant" /\ Holes(h.thunks, fs)
  BY DEF Working, Sound
<1>3. /\ Arena(k.thunks, k.freeThunks)
      /\ id \notin InUse(h.thunks) /\ id # 0
      /\ InUse(k.thunks) = InUse(h.thunks) \cup {id}
      /\ k.thunks[id] = t /\ Beside(h.thunks, k.thunks, id)
  <2>1. PICK slots, free, new : slots = h.thunks /\ free = h.freeThunks /\ new = Stored(slots, id, t)
    OBVIOUS
  <2>2. /\ Arena(slots, free) /\ t.kind # "Vacant" /\ ~(free = <<>> /\ Len(slots) >= limits.arena)
        /\ id = Slot(slots, free) /\ new = Stored(slots, id, t)
    BY <1>2, <2>1
  <2>3. /\ Arena(new, Popped(free))
        /\ id \notin InUse(slots) /\ id \in Nat /\ id # 0
        /\ InUse(new) = InUse(slots) \cup {id}
        /\ new[id] = t /\ Beside(slots, new, id)
    BY <2>2, ArenaTake
  <2> QED
    BY <1>1, <2>1, <2>3
<1>4. Grows(h, k) /\ InUse(k.environments) = InUse(h.environments)
  BY <1>1, <1>3 DEF Grows
<1>5. PICK L, E, M : L = InUse(h.thunks) /\ E = InUse(h.environments) /\ M = InUse(k.thunks)
  OBVIOUS
<1>6. L \subseteq M
  BY <1>3, <1>5
<1>7. Closed(h, L, E)
  BY <1>5 DEF Working, Sound
<1>8. ASSUME NEW j \in DOMAIN k.thunks PROVE GoodThunk(k.thunks[j], M, E)
  <2>1. CASE j = id
    <3>1. GoodThunk(t, L, E)
      BY <1>5
    <3> QED
      BY <1>3, <1>6, <2>1, <3>1, ThunkGrows
  <2>2. CASE j # id
    <3>1. j \in DOMAIN h.thunks /\ k.thunks[j] = h.thunks[j]
      BY <1>3, <1>8, <2>2 DEF Beside
    <3>2. GoodThunk(h.thunks[j], L, E)
      BY <1>7, <3>1 DEF Closed
    <3> QED
      BY <1>6, <3>1, <3>2, ThunkGrows
  <2> QED
    BY <2>1, <2>2
<1>9. ASSUME NEW e \in DOMAIN k.environments PROVE GoodScope(k.environments[e], M, E)
  <2>1. GoodScope(h.environments[e], L, E)
    BY <1>1, <1>7, <1>9 DEF Closed
  <2> QED
    BY <1>1, <1>6, <2>1, ScopeGrows
<1>10. Closed(k, M, E)
  BY <1>7, <1>8, <1>9 DEF Closed
<1>11. Sound(k)
  BY <1>1, <1>3, <1>4, <1>5, <1>10 DEF Working, Sound
<1>12. Holes(k.thunks, fs)
  <2>1. t.kind \notin {"Evaluating", "Pending"}
    OBVIOUS
  <2>2. id \in DOMAIN h.thunks => h.thunks[id].kind = "Vacant"
    BY <1>3 DEF InUse
  <2>3. SameHoles(h.thunks, k.thunks)
    BY <1>3, <2>1, <2>2, OtherHoles
  <2>4. Alike(fs, fs)
    BY DEF Alike
  <2> QED
    BY <1>2, <2>3, <2>4, HolesSame
<1>13. ASSUME NEW j \in DOMAIN fs PROVE GoodFrame(fs[j], M, E)
  <2>1. GoodFrame(fs[j], L, E)
    BY <1>5 DEF Working
  <2> QED
    BY <1>6, <2>1, FrameGrows
<1> QED
  BY <1>3, <1>4, <1>5, <1>11, <1>12, <1>13 DEF Working

LEMMA AllocateGives ==
    ASSUME NEW fs, NEW a, Allotted(a, fs), limits.arena \in Nat, NEW t,
           a.ok => GoodThunk(t, Live(a), Scoped(a)), t.kind \in {"Expression", "Application"}
    PROVE  Gives(a, Allocate(a, t), fs)
<1>1. PICK b : b = Allocate(a, t)
  OBVIOUS
<1>2. CASE ~a.ok \/ (a.heap.freeThunks = <<>> /\ Len(a.heap.thunks) >= limits.arena)
  <2>1. b = [a EXCEPT !.ok = FALSE]
    BY <1>1, <1>2 DEF Allocate
  <2>2. b = [heap |-> a.heap, ids |-> a.ids, ok |-> FALSE]
    BY <2>1 DEF Allotted
  <2>3. b.heap = a.heap /\ b.ids = a.ids /\ b.ok = FALSE
    BY <2>2
  <2> QED
    BY <1>1, <2>2, <2>3 DEF Allotted, Gives
<1>3. CASE ~(~a.ok \/ (a.heap.freeThunks = <<>> /\ Len(a.heap.thunks) >= limits.arena))
  <2>1. PICK h, id : h = a.heap /\ id = Slot(h.thunks, h.freeThunks)
    OBVIOUS
  <2>2. Working(h, fs) /\ Grows(heap, h) /\ IsList(a.ids) /\ a.ok
        /\ a = [heap |-> h, ids |-> a.ids, ok |-> a.ok]
        /\ ~(h.freeThunks = <<>> /\ Len(h.thunks) >= limits.arena)
    BY <1>3, <2>1 DEF Allotted
  <2>3. Shape(h)
    BY <2>2 DEF Working, Sound
  <2>4. b = [a EXCEPT !.heap.thunks = Stored(@, id, t), !.heap.freeThunks = Popped(@),
                      !.heap.debt = @ + 1, !.ids = Append(@, id)]
    BY <1>1, <1>3, <2>1 DEF Allocate
  <2>5. PICK k : k = [thunks |-> Stored(h.thunks, id, t), environments |-> h.environments,
                      freeThunks |-> Popped(h.freeThunks),
                      freeEnvironments |-> h.freeEnvironments, debt |-> h.debt + 1]
    OBVIOUS
  <2>6. b = [heap |-> k, ids |-> Append(a.ids, id), ok |-> a.ok]
    BY <2>1, <2>2, <2>3, <2>4, <2>5 DEF Shape
  <2>7. b.heap = k /\ b.ids = Append(a.ids, id) /\ b.ok = a.ok
    BY <2>6
  <2>8. GoodThunk(t, InUse(h.thunks), InUse(h.environments))
    BY <2>1, <2>2 DEF Live, Scoped
  <2>9. t.kind \notin {"Vacant", "Evaluating", "Pending"}
    OBVIOUS
  <2>10. Working(k, fs) /\ Grows(h, k) /\ id \in InUse(k.thunks)
    BY <2>1, <2>2, <2>5, <2>8, <2>9, ThunkTaken
  <2>11. Grows(heap, k)
    BY <2>2, <2>10, GrowsOn
  <2>12. IsList(b.ids)
    BY <2>2, <2>7, ListAppend
  <2> QED
    BY <1>1, <2>1, <2>2, <2>6, <2>7, <2>10, <2>11, <2>12 DEF Allotted, Gives, Live
<1> QED
  BY <1>2, <1>3

\* An environment is allocated in the heap h.
LEMMA ScopeTaken ==
    ASSUME NEW fs, NEW h, Working(h, fs), limits.arena \in Nat,
           ~(h.freeEnvironments = <<>> /\ Len(h.environments) >= limits.arena),
           NEW s, GoodScope(s, InUse(h.thunks), InUse(h.environments)), s.kind # "Vacant",
           NEW id, id = Slot(h.environments, h.freeEnvironments),
           NEW k, k = [thunks |-> h.thunks, environments |-> Stored(h.environments, id, s),
                       freeThunks |-> h.freeThunks,
                       freeEnvironments |-> Popped(h.freeEnvironments), debt |-> h.debt + 1]
    PROVE  Working(k, fs) /\ Grows(h, k) /\ id \in InUse(k.environments)
<1>1. /\ Shape(k) /\ k.debt \in Nat /\ k.environments = Stored(h.environments, id, s)
      /\ k.thunks = h.thunks /\ k.freeEnvironments = Popped(h.freeEnvironments)
      /\ k.freeThunks = h.freeThunks
  BY DEF Working, Sound, Shape
<1>2. Arena(h.environments, h.freeEnvironments) /\ Holes(h.thunks, fs)
  BY DEF Working, Sound
<1>3. /\ Arena(k.environments, k.freeEnvironments)
      /\ InUse(k.environments) = InUse(h.environments) \cup {id}
      /\ k.environments[id] = s /\ Beside(h.environments, k.environments, id)
  <2>1. PICK slots, free, new :
            slots = h.environments /\ free = h.freeEnvironments /\ new = Stored(slots, id, s)
    OBVIOUS
  <2>2. /\ Arena(slots, free) /\ s.kind # "Vacant" /\ ~(free = <<>> /\ Len(slots) >= limits.arena)
        /\ id = Slot(slots, free) /\ new = Stored(slots, id, s)
    BY <1>2, <2>1
  <2>3. /\ Arena(new, Popped(free))
        /\ id \notin InUse(slots) /\ id \in Nat /\ id # 0
        /\ InUse(new) = InUse(slots) \cup {id}
        /\ new[id] = s /\ Beside(slots, new, id)
    BY <2>2, ArenaTake
  <2> QED
    BY <1>1, <2>1, <2>3
<1>4. Grows(h, k) /\ InUse(k.thunks) = InUse(h.thunks)
  BY <1>1, <1>3 DEF Grows
<1>5. PICK L, E, F : L = InUse(h.thunks) /\ E = InUse(h.environments) /\ F = InUse(k.environments)
  OBVIOUS
<1>6. E \subseteq F
  BY <1>3, <1>5
<1>7. Closed(h, L, E)
  BY <1>5 DEF Working, Sound
<1>8. ASSUME NEW e \in DOMAIN k.environments PROVE GoodScope(k.environments[e], L, F)
  <2>1. CASE e = id
    <3>1. GoodScope(s, L, E)
      BY <1>5
    <3> QED
      BY <1>3, <1>6, <2>1, <3>1, ScopeGrows
  <2>2. CASE e # id
    <3>1. e \in DOMAIN h.environments /\ k.environments[e] = h.environments[e]
      BY <1>3, <1>8, <2>2 DEF Beside
    <3>2. GoodScope(h.environments[e], L, E)
      BY <1>7, <3>1 DEF Closed
    <3> QED
      BY <1>6, <3>1, <3>2, ScopeGrows
  <2> QED
    BY <2>1, <2>2
<1>9. ASSUME NEW j \in DOMAIN k.thunks PROVE GoodThunk(k.thunks[j], L, F)
  <2>1. GoodThunk(h.thunks[j], L, E)
    BY <1>1, <1>7, <1>9 DEF Closed
  <2> QED
    BY <1>1, <1>6, <2>1, ThunkGrows
<1>10. Closed(k, L, F)
  BY <1>6, <1>7, <1>8, <1>9 DEF Closed
<1>11. Sound(k)
  BY <1>1, <1>3, <1>4, <1>5, <1>10 DEF Working, Sound
<1>12. ASSUME NEW j \in DOMAIN fs PROVE GoodFrame(fs[j], L, F)
  <2>1. GoodFrame(fs[j], L, E)
    BY <1>5 DEF Working
  <2> QED
    BY <1>6, <2>1, FrameGrows
<1> QED
  BY <1>1, <1>2, <1>3, <1>4, <1>5, <1>11, <1>12 DEF Working

LEMMA AllocateScopeGives ==
    ASSUME NEW fs, NEW a, Allotted(a, fs), limits.arena \in Nat, NEW s,
           a.ok => GoodScope(s, Live(a), Scoped(a)), s.kind = "Scope",
           NEW b, b = AllocateScope(a, s)
    PROVE  /\ Allotted(b, fs)
           /\ b.ok => a.ok /\ Grows(a.heap, b.heap) /\ Last(b.ids) \in Scoped(b)
<1>2. CASE ~a.ok \/ (a.heap.freeEnvironments = <<>> /\ Len(a.heap.environments) >= limits.arena)
  <2>1. b = [a EXCEPT !.ok = FALSE]
    BY <1>2 DEF AllocateScope
  <2>2. b = [heap |-> a.heap, ids |-> a.ids, ok |-> FALSE]
    BY <2>1 DEF Allotted
  <2>3. b.heap = a.heap /\ b.ids = a.ids /\ b.ok = FALSE
    BY <2>2
  <2> QED
    BY <2>2, <2>3 DEF Allotted
<1>3. CASE ~(~a.ok \/ (a.heap.freeEnvironments = <<>> /\ Len(a.heap.environments) >= limits.arena))
  <2>1. PICK h, id : h = a.heap /\ id = Slot(h.environments, h.freeEnvironments)
    OBVIOUS
  <2>2. Working(h, fs) /\ Grows(heap, h) /\ IsList(a.ids) /\ a.ok
        /\ a = [heap |-> h, ids |-> a.ids, ok |-> a.ok]
        /\ ~(h.freeEnvironments = <<>> /\ Len(h.environments) >= limits.arena)
    BY <1>3, <2>1 DEF Allotted
  <2>3. Shape(h)
    BY <2>2 DEF Working, Sound
  <2>4. b = [a EXCEPT !.heap.environments = Stored(@, id, s),
                      !.heap.freeEnvironments = Popped(@),
                      !.heap.debt = @ + 1, !.ids = Append(@, id)]
    BY <1>3, <2>1 DEF AllocateScope
  <2>5. PICK k : k = [thunks |-> h.thunks, environments |-> Stored(h.environments, id, s),
                      freeThunks |-> h.freeThunks,
                      freeEnvironments |-> Popped(h.freeEnvironments), debt |-> h.debt + 1]
    OBVIOUS
  <2>6. b = [heap |-> k, ids |-> Append(a.ids, id), ok |-> a.ok]
    <3>1. PICK th, en, ft, fe, d :
            h = [thunks |-> th, environments |-> en, freeThunks |-> ft,
                 freeEnvironments |-> fe, debt |-> d]
      BY <2>3 DEF Shape
    <3>0. /\ th = h.thunks /\ en = h.environments /\ ft = h.freeThunks
          /\ fe = h.freeEnvironments /\ d = h.debt
      BY <3>1
    <3>2. PICK en2, fe2, d2 : en2 = Stored(en, id, s) /\ fe2 = Popped(fe) /\ d2 = d + 1
      OBVIOUS
    <3>3. k = [thunks |-> th, environments |-> en2, freeThunks |-> ft,
               freeEnvironments |-> fe2, debt |-> d2]
      BY <2>5, <3>0, <3>2
    <3>4. b = [a EXCEPT !.heap.environments = en2, !.heap.freeEnvironments = fe2,
                        !.heap.debt = d2, !.ids = Append(@, id)]
      BY <2>1, <2>2, <2>4, <3>0, <3>2
    <3>5. b = [a EXCEPT !.heap = [h EXCEPT !.environments = en2, !.freeEnvironments = fe2,
                                           !.debt = d2],
                        !.ids = Append(@, id)]
      BY <2>1, <3>4
    <3>6. k = [h EXCEPT !.environments = en2, !.freeEnvironments = fe2, !.debt = d2]
      <4>1. PICK h1 : h1 = [h EXCEPT !.environments = en2]
        OBVIOUS
      <4>2. PICK h2 : h2 = [h1 EXCEPT !.freeEnvironments = fe2]
        OBVIOUS
      <4>3. PICK h3 : h3 = [h2 EXCEPT !.debt = d2]
        OBVIOUS
      <4>4. h1 = [thunks |-> th, environments |-> en2, freeThunks |-> ft,
                  freeEnvironments |-> fe, debt |-> d]
        BY <3>1, <4>1
      <4>5. h2 = [thunks |-> th, environments |-> en2, freeThunks |-> ft,
                  freeEnvironments |-> fe2, debt |-> d]
        BY <4>2, <4>4
      <4>6. h3 = k
        BY <3>3, <4>3, <4>5
      <4> QED
        BY <4>1, <4>2, <4>3, <4>6
    <3> QED
      BY <2>2, <3>5, <3>6
  <2>7. b.heap = k /\ b.ids = Append(a.ids, id) /\ b.ok = a.ok
    BY <2>6
  <2>8. GoodScope(s, InUse(h.thunks), InUse(h.environments)) /\ s.kind # "Vacant"
    BY <2>1, <2>2 DEF Live, Scoped
  <2>10. Working(k, fs) /\ Grows(h, k) /\ id \in InUse(k.environments)
    BY <2>1, <2>2, <2>5, <2>8, ScopeTaken
  <2>11. Grows(heap, k)
    BY <2>2, <2>10, GrowsOn
  <2>12. IsList(b.ids) /\ Last(b.ids) = id
    BY <2>2, <2>7, ListAppend
  <2> QED
    BY <2>1, <2>2, <2>6, <2>7, <2>10, <2>11, <2>12 DEF Allotted, Scoped
<1> QED
  BY <1>2, <1>3

-----------------------------------------------------------------------------
(***************************************************************************)
(* Names and terms.                                                        *)
(***************************************************************************)
LEMMA SetRight ==
    ASSUME Inv
    PROVE  /\ Checked(Text, Terms[program])
           /\ limits.arena \in Nat /\ limits.arena >= 1 /\ limits.frames \in Nat
           /\ limits.inspect \in Nat /\ limits.depth \in Nat /\ limits.nodes \in Nat
           /\ Working(heap, frames) /\ IsList(frames)
           /\ \A name \in DOMAIN globals : globals[name] \in InUse(heap.thunks)
<1>1. program \in DOMAIN Programs /\ limits \in Limits
  BY DEF Inv, Bounded
<1>2. Checked(Text, Terms[program])
  BY <1>1, ProgramAssumption DEF Text
<1>3. limits \in [arena : Nat \ {0}, frames : Nat, reserve : Nat, debt : Nat,
                  depth : Nat, nodes : Nat, inspect : Nat]
  BY <1>1, LimitAssumption
<1> QED
  BY <1>2, <1>3 DEF Inv, Held, Working

LEMMA LookupRight ==
    ASSUME NEW h, NEW L, NEW E, Closed(h, L, E), E = InUse(h.environments), NEW e \in E,
           NEW binder, NEW bound, bound \in Nat
    PROVE  Lookup(h, e, binder, bound) \in L \cup {0}
<1>1. PICK path, hits : /\ path = Scopes(h, e, bound)
                        /\ hits = {k \in DOMAIN path : BindsIn(h, path[k], binder)}
  OBVIOUS
<1>2. path \in Seq(E) /\ DOMAIN path = 1..Len(path) /\ Len(path) \in Nat
  BY <1>1, ScopesRight, LenProperties
<1>3. CASE hits = {}
  BY <1>1, <1>3 DEF Lookup, Nearest
<1>4. CASE hits # {}
  <2>1. hits \in SUBSET Nat
    BY <1>1, <1>2
  <2>2. \E k \in hits : \A j \in hits : k <= j
    BY <1>4, <2>1, Least
  <2>3. PICK k \in hits : Lookup(h, e, binder, bound) = BoundIn(h, path[k], binder)
    BY <1>1, <1>4, <2>2 DEF Lookup, Nearest
  <2>4. PICK x : x = path[k]
    OBVIOUS
  <2>5. x \in E /\ BindsIn(h, x, binder)
    BY <1>1, <1>2, <2>3, <2>4, ElementOfSeq
  <2>6. PICK s : s = h.environments[x]
    OBVIOUS
  <2>7. x \in DOMAIN h.environments /\ s.kind = "Scope"
    BY <2>5, <2>6 DEF BindsIn, InUse
  <2>8. GoodScope(s, L, E)
    BY <2>6, <2>7 DEF Closed
  <2>9. s.thunks \in Seq(L) /\ DOMAIN s.ids = DOMAIN s.thunks
    BY <2>7, <2>8 DEF GoodScope
  <2>10. PICK ids : ids = s.ids
    OBVIOUS
  <2>11. PICK n \in Nat : DOMAIN ids = 1..n
    BY <2>9, <2>10, LenProperties
  <2>12. PICK P : P = {i \in DOMAIN ids : ids[i] = binder}
    OBVIOUS
  <2>13. P \in SUBSET Nat /\ P # {}
    <3>1. \E i \in DOMAIN ids : ids[i] = binder
      BY <2>5, <2>6, <2>10 DEF BindsIn
    <3> QED
      BY <2>11, <2>12, <3>1
  <2>14. PICK i \in P : \A m \in P : i <= m
    BY <2>13, Least
  <2>15. \A j \in 1..i - 1 : ids[j] # binder
    BY <2>11, <2>12, <2>14
  <2>16. i \in DOMAIN ids /\ ids[i] = binder
    BY <2>12, <2>14
  <2>17. PICK first \in DOMAIN ids : BoundIn(h, x, binder) = s.thunks[first]
    BY <2>6, <2>10, <2>15, <2>16 DEF BoundIn
  <2>18. s.thunks[first] \in L
    BY <2>9, <2>10, <2>17, LenProperties, ElementOfSeq
  <2> QED
    BY <2>3, <2>4, <2>17, <2>18
<1> QED
  BY <1>3, <1>4

\* An identity in use is added as it is.
LEMMA SharedGives ==
    ASSUME NEW fs, NEW a, Allotted(a, fs), NEW id, a.ok => id \in Live(a),
           NEW b, b = [a EXCEPT !.ids = Append(@, id)]
    PROVE  Gives(a, b, fs)
<1>1. b = [heap |-> a.heap, ids |-> Append(a.ids, id), ok |-> a.ok]
  BY DEF Allotted
<1>2. b.heap = a.heap /\ b.ids = Append(a.ids, id) /\ b.ok = a.ok
  BY <1>1
<1>3. IsList(b.ids)
  BY <1>2, ListAppend DEF Allotted
<1>4. Grows(a.heap, b.heap)
  BY <1>2 DEF Grows
<1> QED
  BY <1>1, <1>2, <1>3, <1>4 DEF Allotted, Gives, Live

LEMMA ExpressionGives ==
    ASSUME Inv, NEW fs, NEW a, Allotted(a, fs), NEW term, term \in Terms[program],
           NEW environment, a.ok => environment \in Scoped(a)
    PROVE  Gives(a, Expression(a, term, environment), fs)
<1>1. PICK bound, global :
        /\ bound = IF Text.packed /\ term.op = "Var"
                   THEN Lookup(a.heap, environment, term.id, limits.inspect) ELSE 0
        /\ global = (Text.packed /\ term.op = "Ref")
  OBVIOUS
<1>2. Expression(a, term, environment) =
        IF bound # 0 THEN [a EXCEPT !.ids = Append(@, bound)]
        ELSE IF global /\ term.name \in DOMAIN globals
             THEN [a EXCEPT !.ids = Append(@, globals[term.name])]
        ELSE Allocate(a, Suspended(term, IF global THEN RootEnvironment ELSE environment))
  BY <1>1 DEF Expression
<1>3. limits.arena \in Nat /\ limits.inspect \in Nat
      /\ \A name \in DOMAIN globals : globals[name] \in InUse(heap.thunks)
  BY SetRight
<1>4. a.ok => Closed(a.heap, Live(a), Scoped(a)) /\ Grows(heap, a.heap)
  BY DEF Allotted, Working, Sound, Live, Scoped
<1>5. CASE bound # 0
  <2>1. a.ok => bound \in Live(a)
    <3> HAVE a.ok
    <3>1. PICK h, L, E : h = a.heap /\ L = Live(a) /\ E = Scoped(a)
      OBVIOUS
    <3>2. E = InUse(h.environments) /\ Closed(h, L, E) /\ environment \in E
      BY <1>4, <3>1 DEF Scoped
    <3>3. Lookup(h, environment, term.id, limits.inspect) \in L \cup {0}
      BY <1>3, <3>2, LookupRight
    <3> QED
      BY <1>1, <1>5, <3>1, <3>3
  <2> QED
    BY <1>2, <1>5, <2>1, SharedGives
<1>6. CASE bound = 0 /\ global /\ term.name \in DOMAIN globals
  <2>1. a.ok => globals[term.name] \in Live(a)
    BY <1>3, <1>4, <1>6 DEF Grows, Live
  <2>2. Expression(a, term, environment) = [a EXCEPT !.ids = Append(@, globals[term.name])]
    BY <1>2, <1>6
  <2> QED
    BY <2>1, <2>2, SharedGives
<1>7. CASE bound = 0 /\ ~(global /\ term.name \in DOMAIN globals)
  <2>1. PICK x : x = IF global THEN RootEnvironment ELSE environment
    OBVIOUS
  <2>2. a.ok => x \in Scoped(a)
    BY <1>4, <2>1 DEF Closed
  <2>3. PICK t : t = Suspended(term, x)
    OBVIOUS
  <2>4. t.kind = "Expression" /\ t.term = term /\ t.environment = x
    BY <2>3 DEF Suspended
  <2>5. a.ok => GoodThunk(t, Live(a), Scoped(a))
    BY <2>2, <2>4 DEF GoodThunk, ThunkKinds
  <2>6. t.kind \in {"Expression", "Application"}
    BY <2>4
  <2>7. Gives(a, Allocate(a, t), fs)
    BY <1>3, <2>5, <2>6, AllocateGives
  <2> QED
    BY <1>2, <1>7, <2>1, <2>3, <2>7
<1> QED
  BY <1>5, <1>6, <1>7

LEMMA ReferenceGives ==
    ASSUME Inv, NEW fs, NEW a, Allotted(a, fs), NEW name, name \in DOMAIN Text.definitions
    PROVE  Gives(a, Reference(a, name), fs)
<1>1. CASE name \in DOMAIN globals
  <2>1. a.ok => globals[name] \in Live(a)
    BY <1>1, SetRight DEF Allotted, Grows, Live
  <2> QED
    BY <1>1, <2>1, SharedGives DEF Reference
<1>2. CASE name \notin DOMAIN globals
  <2>1. Text.definitions[name] \in Terms[program]
    BY SetRight DEF Checked
  <2>2. a.ok => RootEnvironment \in Scoped(a)
    BY DEF Allotted, Working, Sound, Closed, Scoped
  <2>3. Gives(a, Expression(a, Text.definitions[name], RootEnvironment), fs)
    BY <2>1, <2>2, ExpressionGives
  <2> QED
    BY <1>2, <2>3 DEF Reference
<1> QED
  BY <1>1, <1>2

\* Application of two thunks.
LEMMA ApplicationGives ==
    ASSUME Inv, NEW fs, NEW a, Allotted(a, fs), NEW function, NEW argument,
           a.ok => function \in Live(a) /\ argument \in Live(a)
    PROVE  Gives(a, Allocate(a, Application(function, argument)), fs)
<1>1. PICK t : t = Application(function, argument)
  OBVIOUS
<1>2. t.kind = "Application" /\ t.function = function /\ t.argument = argument
  BY <1>1 DEF Application
<1>3. a.ok => GoodThunk(t, Live(a), Scoped(a))
  BY <1>2 DEF GoodThunk, ThunkKinds
<1>4. t.kind \in {"Expression", "Application"} /\ limits.arena \in Nat
  BY <1>2, SetRight
<1> QED
  BY <1>1, <1>3, <1>4, AllocateGives

-----------------------------------------------------------------------------
(***************************************************************************)
(* The loops: all that they allocate is in use at the end.                 *)
(***************************************************************************)
\* The allotment b has n thunks, and all that a had is still in use.
Grown(a, b, n, fs) ==
    /\ Allotted(b, fs)
    /\ b.ok => a.ok /\ Grows(a.heap, b.heap) /\ b.ids \in Seq(Live(b)) /\ Len(b.ids) = n

LEMMA GrownOn ==
    ASSUME NEW fs, NEW a, NEW b, NEW n, n \in Nat, Grown(a, b, n, fs), NEW c, Gives(b, c, fs)
    PROVE  Grown(a, c, n + 1, fs)
<1>1. Allotted(c, fs) /\ IsList(b.ids)
  BY DEF Grown, Gives, Allotted
<1>2. ASSUME c.ok
      PROVE  a.ok /\ Grows(a.heap, c.heap) /\ c.ids \in Seq(Live(c)) /\ Len(c.ids) = n + 1
  <2>1. /\ b.ok /\ Grows(b.heap, c.heap) /\ Last(c.ids) \in Live(c)
        /\ c.ids = Append(b.ids, Last(c.ids)) /\ Len(c.ids) = Len(b.ids) + 1
    BY <1>1, <1>2, GivesLast
  <2>2. a.ok /\ Grows(a.heap, b.heap) /\ b.ids \in Seq(Live(b)) /\ Len(b.ids) = n
    BY <2>1 DEF Grown
  <2>3. b.ids \in Seq(Live(c))
    BY <2>1, <2>2, SeqGrows DEF Grows, Live
  <2>4. Append(b.ids, Last(c.ids)) \in Seq(Live(c))
    BY <2>1, <2>3, AppendProperties
  <2> QED
    BY <2>1, <2>2, <2>4, GrowsOn
<1> QED
  BY <1>1, <1>2 DEF Grown

LEMMA GrownLast ==
    ASSUME NEW fs, NEW a, NEW b, NEW n, n \in Nat, n >= 1, Grown(a, b, n, fs), b.ok
    PROVE  Last(b.ids) \in Live(b) /\ Head(b.ids) \in Live(b)
<1>1. b.ids \in Seq(Live(b)) /\ Len(b.ids) = n
  BY DEF Grown
<1>2. n \in 1..Len(b.ids) /\ 1 \in 1..Len(b.ids) /\ b.ids # <<>>
  BY <1>1, EmptySeq
<1>3. b.ids[n] \in Live(b) /\ b.ids[1] \in Live(b)
  BY <1>1, <1>2, ElementOfSeq
<1>4. Head(b.ids) = b.ids[1]
  BY <1>1, <1>2, HeadTailProperties
<1> QED
  BY <1>1, <1>3, <1>4 DEF Last

LEMMA ExpressionsGive ==
    ASSUME Inv, NEW fs, NEW a, Allotted(a, fs), a.ids = <<>>, NEW terms, terms \in Seq(Terms[program]),
           NEW environment, a.ok => environment \in Scoped(a)
    PROVE  Grown(a, Expressions(a, terms, environment), Len(terms), fs)
<1>1. Len(terms) \in Nat /\ \A k \in 1..Len(terms) : terms[k] \in Terms[program]
  BY LenProperties, ElementOfSeq
<1>2. PICK f : /\ f[0] = a
               /\ \A k \in 1..Len(terms) : f[k] = Expression(f[k - 1], terms[k], environment)
               /\ Expressions(a, terms, environment) = f[Len(terms)]
  BY <1>1, ExpressionsAre
<1> DEFINE S == {m \in Nat : m <= Len(terms) => Grown(a, f[m], m, fs)}
<1>3. 0 \in S
  <2>1. Grows(a.heap, a.heap)
    BY DEF Grows
  <2>2. Grown(a, a, 0, fs)
    BY <2>1, EmptySeq DEF Grown
  <2> QED
    BY <1>2, <2>2
<1>4. ASSUME NEW m \in Nat, m \in S PROVE m + 1 \in S
  <2>1. CASE m + 1 <= Len(terms)
    <3>1. PICK b, c : b = f[m] /\ c = f[m + 1]
      OBVIOUS
    <3>2. m + 1 \in 1..Len(terms) /\ (m + 1) - 1 = m /\ Grown(a, b, m, fs)
      BY <1>1, <1>4, <2>1, <3>1
    <3>3. c = Expression(b, terms[m + 1], environment) /\ terms[m + 1] \in Terms[program]
      BY <1>1, <1>2, <3>1, <3>2
    <3>4. Allotted(b, fs) /\ (b.ok => environment \in Scoped(b))
      BY <3>2 DEF Grown, Grows, Scoped
    <3>5. Gives(b, c, fs)
      BY <3>3, <3>4, ExpressionGives
    <3>6. Grown(a, c, m + 1, fs)
      BY <3>2, <3>5, GrownOn
    <3> QED
      BY <3>1, <3>6
  <2> QED
    BY <2>1
<1>5. Len(terms) \in S
  <2> HIDE DEF S
  <2>1. Nat \subseteq S
    BY <1>3, <1>4, SetInduction
  <2> QED
    BY <1>1, <2>1
<1> QED
  BY <1>1, <1>2, <1>5

LEMMA ApplicationsGive ==
    ASSUME Inv, NEW fs, NEW a, Allotted(a, fs), NEW id, a.ids = <<id>>, id \in Live(a), a.ok,
           NEW args, args \in Seq(Live(a))
    PROVE  Grown(a, Applications(a, args), Len(args) + 1, fs)
<1>1. Len(args) \in Nat /\ \A k \in 1..Len(args) : args[k] \in Live(a)
  BY LenProperties, ElementOfSeq
<1>2. PICK f : /\ f[0] = a
               /\ \A k \in 1..Len(args) :
                    f[k] = Allocate(f[k - 1], Application(Last(f[k - 1].ids), args[k]))
               /\ Applications(a, args) = f[Len(args)]
  BY <1>1, ApplicationsAre
<1> DEFINE S == {m \in Nat : m <= Len(args) => Grown(a, f[m], m + 1, fs)}
<1>3. 0 \in S
  <2>1. Grows(a.heap, a.heap)
    BY DEF Grows
  <2>2. <<id>> \in Seq(Live(a)) /\ Len(<<id>>) = 1
    OBVIOUS
  <2>3. Grown(a, a, 1, fs)
    BY <2>1, <2>2 DEF Grown
  <2> QED
    BY <1>2, <2>3
<1>4. ASSUME NEW m \in Nat, m \in S PROVE m + 1 \in S
  <2>1. CASE m + 1 <= Len(args)
    <3>1. PICK b, c : b = f[m] /\ c = f[m + 1]
      OBVIOUS
    <3>2. m + 1 \in 1..Len(args) /\ (m + 1) - 1 = m /\ Grown(a, b, m + 1, fs)
          /\ m + 1 \in Nat /\ m + 1 >= 1
      BY <1>1, <1>4, <2>1, <3>1
    <3>3. c = Allocate(b, Application(Last(b.ids), args[m + 1])) /\ args[m + 1] \in Live(a)
      BY <1>1, <1>2, <3>1, <3>2
    <3>4. Allotted(b, fs) /\ (b.ok => args[m + 1] \in Live(b) /\ Last(b.ids) \in Live(b))
      BY <3>2, <3>3, GrownLast DEF Grown, Grows, Live
    <3>5. Gives(b, c, fs)
      BY <3>3, <3>4, ApplicationGives
    <3>6. Grown(a, c, (m + 1) + 1, fs)
      BY <3>2, <3>5, GrownOn
    <3> QED
      BY <3>1, <3>6
  <2> QED
    BY <2>1
<1>5. Len(args) \in S
  <2> HIDE DEF S
  <2>1. Nat \subseteq S
    BY <1>3, <1>4, SetInduction
  <2> QED
    BY <1>1, <2>1
<1> QED
  BY <1>1, <1>2, <1>5

\* The heap as it is.
LEMMA SameAllotted ==
    ASSUME Inv, NEW fs, Working(heap, fs), NEW ids, IsList(ids)
    PROVE  /\ Allotted(Allotment(heap, ids), fs)
           /\ Allotment(heap, ids).heap = heap /\ Allotment(heap, ids).ids = ids
           /\ Allotment(heap, ids).ok = TRUE
           /\ Live(Allotment(heap, ids)) = InUse(heap.thunks)
           /\ Scoped(Allotment(heap, ids)) = InUse(heap.environments)
<1>1. Grows(heap, heap)
  BY DEF Grows
<1>2. PICK a : a = Allotment(heap, ids)
  OBVIOUS
<1>3. a = [heap |-> heap, ids |-> ids, ok |-> TRUE]
  BY <1>2 DEF Allotment
<1>4. a.heap = heap /\ a.ids = ids /\ a.ok = TRUE
  BY <1>3
<1> QED
  BY <1>1, <1>2, <1>3, <1>4 DEF Allotted, Live, Scoped

LEMMA EnteredGives ==
    ASSUME Inv
    PROVE  \E n \in Nat : n >= 1 /\ Grown(Same, Entered, n, frames)
<1>1. PICK args : args = Text.arguments
  OBVIOUS
<1>2. args \in Seq(Terms[program]) /\ Text.entry \in DOMAIN Text.definitions
  BY <1>1, SetRight DEF Checked
<1>3. Len(args) \in Nat /\ \A k \in 1..Len(args) : args[k] \in Terms[program]
  BY <1>2, LenProperties, ElementOfSeq
<1>4. PICK f : /\ f[0] = Reference(Same, Text.entry)
               /\ \A k \in 1..Len(args) : f[k] = Applied(f[k - 1], args[k])
               /\ Entered = f[Len(args)]
  BY <1>1, <1>3, EnteredIs
<1>5. PICK a : a = Same
  OBVIOUS
<1>6. Allotted(a, frames) /\ a.ids = <<>> /\ a.heap = heap /\ a.ok
  BY <1>5, SetRight, SameAllotted, ListEmpty DEF Same
<1> DEFINE S == {m \in Nat : m <= Len(args) => Grown(a, f[m], 2 * m + 1, frames)}
<1>7. 0 \in S
  <2>1. Grows(a.heap, a.heap)
    BY DEF Grows
  <2>2. Grown(a, a, 0, frames)
    BY <1>6, <2>1, EmptySeq DEF Grown
  <2>3. Gives(a, f[0], frames)
    BY <1>2, <1>4, <1>5, <1>6, ReferenceGives
  <2>4. Grown(a, f[0], 0 + 1, frames)
    BY <2>2, <2>3, GrownOn
  <2>5. 0 + 1 = 2 * 0 + 1
    OBVIOUS
  <2> QED
    BY <2>4, <2>5
<1>8. ASSUME NEW m \in Nat, m \in S PROVE m + 1 \in S
  <2>1. CASE m + 1 <= Len(args)
    <3>1. PICK b, c, d, n : b = f[m] /\ c = Expression(b, args[m + 1], RootEnvironment)
                            /\ d = f[m + 1] /\ n = 2 * m + 1
      OBVIOUS
    <3>2. m + 1 \in 1..Len(args) /\ (m + 1) - 1 = m /\ Grown(a, b, n, frames)
          /\ n \in Nat /\ n >= 1 /\ n + 1 \in Nat /\ n + 1 >= 1 /\ (n + 1) + 1 = 2 * (m + 1) + 1
      BY <1>3, <1>8, <2>1, <3>1
    <3>3. d = Allocate(c, Application(Last(b.ids), Last(c.ids))) /\ args[m + 1] \in Terms[program]
      BY <1>3, <1>4, <3>1, <3>2 DEF Applied
    <3>4. Allotted(b, frames) /\ (b.ok => RootEnvironment \in Scoped(b))
      BY <3>2 DEF Grown, Allotted, Working, Sound, Closed, Scoped
    <3>5. Gives(b, c, frames)
      BY <3>1, <3>3, <3>4, ExpressionGives
    <3>6. Grown(a, c, n + 1, frames)
      BY <3>2, <3>5, GrownOn
    <3>7. Allotted(c, frames) /\ (c.ok => Last(b.ids) \in Live(c) /\ Last(c.ids) \in Live(c))
      <4>1. c.ok => b.ok /\ Grows(b.heap, c.heap) /\ Last(c.ids) \in Live(c)
        BY <3>2, <3>5, <3>6, GrownLast DEF Gives
      <4>2. b.ok => Last(b.ids) \in Live(b)
        BY <3>2, GrownLast
      <4> QED
        BY <3>6, <4>1, <4>2 DEF Grown, Grows, Live
    <3>8. Gives(c, d, frames)
      BY <3>3, <3>7, ApplicationGives
    <3>9. Grown(a, d, (n + 1) + 1, frames)
      BY <3>2, <3>6, <3>8, GrownOn
    <3> QED
      BY <3>1, <3>2, <3>9
  <2> QED
    BY <2>1
<1>9. Len(args) \in S
  <2> HIDE DEF S
  <2>1. Nat \subseteq S
    BY <1>7, <1>8, SetInduction
  <2> QED
    BY <1>3, <2>1
<1>10. 2 * Len(args) + 1 \in Nat /\ 2 * Len(args) + 1 >= 1
  BY <1>3
<1> QED
  BY <1>3, <1>4, <1>5, <1>9, <1>10

-----------------------------------------------------------------------------
(***************************************************************************)
(* Steps: the program and the limits stay, so what is good stays good.     *)
(***************************************************************************)
LEMMA WorkingNext ==
    ASSUME program' = program, limits' = limits, Working(heap', frames')
    PROVE  Working(heap, frames)'
<1>1. Text' = Text
  BY DEF Text
<1>2. PICK L, E : L = InUse(heap'.thunks) /\ E = InUse(heap'.environments)
  OBVIOUS
<1>3. /\ Shape(heap') /\ heap'.debt \in Nat
      /\ Arena(heap'.thunks, heap'.freeThunks)
      /\ Arena(heap'.environments, heap'.freeEnvironments)
      /\ Closed(heap', L, E) /\ Holes(heap'.thunks, frames') /\ IsList(frames')
      /\ \A k \in DOMAIN frames' : GoodFrame(frames'[k], L, E)
  BY <1>2 DEF Working, Sound
<1>4. Arena(heap.thunks, heap.freeThunks)' /\ Arena(heap.environments, heap.freeEnvironments)'
  BY <1>3 DEF Arena
<1>5. ASSUME NEW id \in DOMAIN heap'.thunks PROVE GoodThunk(heap.thunks[id], L, E)'
  <2>1. GoodThunk(heap'.thunks[id], L, E)
    BY <1>3 DEF Closed
  <2> QED
    BY <1>1, <2>1 DEF GoodThunk, GoodValue
<1>6. ASSUME NEW e \in DOMAIN heap'.environments PROVE GoodScope(heap.environments[e], L, E)'
  <2>1. GoodScope(heap'.environments[e], L, E)
    BY <1>3 DEF Closed
  <2> QED
    BY <2>1 DEF GoodScope
<1>7. ASSUME NEW k \in DOMAIN frames' PROVE GoodFrame(frames[k], L, E)'
  <2>1. GoodFrame(frames'[k], L, E)
    BY <1>3
  <2> QED
    BY <1>1, <2>1 DEF GoodFrame, GoodValue
<1>8. Closed(heap, L, E)'
  BY <1>3, <1>5, <1>6 DEF Closed
<1>9. Sound(heap)'
  BY <1>2, <1>3, <1>4, <1>8 DEF Sound
<1> QED
  BY <1>2, <1>3, <1>7, <1>9 DEF Working

LEMMA InvNext ==
    ASSUME program' = program, limits' = limits, Bounded', Working(heap', frames'),
           NEW L, NEW E, L = InUse(heap'.thunks), E = InUse(heap'.environments),
           \A name \in DOMAIN globals' : globals'[name] \in L,
           current' \in L \cup {0}, pc' \in {"safe", "inspect", "read"} => current' \in L,
           pc' \in {"return", "answer"} => GoodValue(value', L, E),
           pc' # "failed" => roots' \in Seq(L) /\ Reading(roots', reading')
    PROVE  Inv'
<1>1. Text' = Text
  BY DEF Text
<1>2. Working(heap, frames)'
  BY WorkingNext
<1>3. pc' \in {"return", "answer"} => GoodValue(value, L, E)'
  BY <1>1 DEF GoodValue
<1>4. Held(InUse(heap.thunks), InUse(heap.environments))'
  BY <1>3 DEF Held
<1> QED
  BY <1>2, <1>4 DEF Inv

LEMMA FailStep ==
    ASSUME Inv, NEW reason, Fail(reason)
    PROVE  Inv'
<1>1. /\ program' = program /\ limits' = limits /\ heap' = heap /\ globals' = globals
      /\ frames' = frames /\ current' = current /\ nodes' = nodes /\ roots' = <<>>
      /\ pc' = "failed"
  BY DEF Fail
<1>2. <<>> \in Seq(Nat) /\ Len(<<>>) = 0 /\ limits.arena \in Nat
  BY SetRight, EmptySeq
<1>3. Bounded'
  BY <1>1, <1>2 DEF Inv, Bounded, Stages
<1>4. Working(heap', frames')
  BY <1>1 DEF Inv
<1>5. PICK L, E : L = InUse(heap'.thunks) /\ E = InUse(heap'.environments)
  OBVIOUS
<1>6. Held(L, E)
  BY <1>1, <1>5 DEF Inv
<1>7. /\ \A name \in DOMAIN globals' : globals'[name] \in L
      /\ current' \in L \cup {0}
  BY <1>1, <1>6 DEF Held
<1> QED
  BY <1>1, <1>3, <1>4, <1>5, <1>7, InvNext

\* What a force or a return of it leaves alone.
LEMMA HeldNext ==
    ASSUME Inv, pc # "failed", UNCHANGED <<program, limits, roots, reading, nodes>>,
           Grows(heap, heap'), Working(heap', frames'), Len(frames') <= limits.frames,
           pc' \in Stages \ {"start", "read", "answer", "built"},
           NEW L, NEW E, L = InUse(heap'.thunks), E = InUse(heap'.environments),
           globals' = globals \/ \A name \in DOMAIN globals' : globals'[name] \in L,
           current' \in L \cup {0}, pc' \in {"safe", "inspect"} => current' \in L,
           pc' = "return" => GoodValue(value', L, E)
    PROVE  Inv'
<1>1. Bounded'
  BY DEF Inv, Bounded, Stages
<1>2. Held(InUse(heap.thunks), InUse(heap.environments))
  BY DEF Inv
<1>3. Held(L, E)
  BY <1>2, HeldGrows DEF Grows
<1>4. \A name \in DOMAIN globals' : globals'[name] \in L
  BY <1>3 DEF Held
<1>5. roots' \in Seq(L) /\ Reading(roots', reading')
  BY <1>3 DEF Held
<1>6. program' = program /\ limits' = limits /\ pc' # "answer" /\ pc' # "read"
  OBVIOUS
<1> QED
  BY <1>1, <1>4, <1>5, <1>6, InvNext

LEMMA DemandStep ==
    ASSUME Inv, pc # "failed", NEW a, NEW fs, NEW id, Demand(a, fs, id),
           a.ok => Working(a.heap, fs) /\ Grows(heap, a.heap) /\ id \in Live(a)
    PROVE  Inv'
<1>1. CASE a.ok /\ Len(fs) <= limits.frames
  <2>1. /\ heap' = a.heap /\ frames' = fs /\ current' = id /\ pc' = "safe"
        /\ UNCHANGED <<program, limits, globals, roots, reading, nodes>>
    BY <1>1 DEF Demand, settled
  <2>2. PICK L, E : L = InUse(heap'.thunks) /\ E = InUse(heap'.environments)
    OBVIOUS
  <2>3. /\ Working(heap', frames') /\ Grows(heap, heap') /\ current' \in L
        /\ Len(frames') <= limits.frames
    BY <1>1, <2>1, <2>2 DEF Live
  <2>4. pc' \in Stages \ {"start", "read", "answer", "built"} /\ pc' # "return"
    BY <2>1 DEF Stages
  <2> QED
    BY <2>1, <2>2, <2>3, <2>4, HeldNext
<1>2. CASE ~(a.ok /\ Len(fs) <= limits.frames)
  BY <1>2, FailStep DEF Demand
<1> QED
  BY <1>1, <1>2

LEMMA ReturnStep ==
    ASSUME Inv, pc # "failed", NEW a, NEW fs, NEW v, Return(a, fs, v),
           a.ok => Working(a.heap, fs) /\ Grows(heap, a.heap) /\ GoodValue(v, Live(a), Scoped(a))
    PROVE  Inv'
<1>1. CASE a.ok /\ Len(fs) <= limits.frames
  <2>1. /\ heap' = a.heap /\ frames' = fs /\ value' = v /\ pc' = "return" /\ current' = current
        /\ UNCHANGED <<program, limits, globals, roots, reading, nodes>>
    BY <1>1 DEF Return, settled
  <2>2. PICK L, E : L = InUse(heap'.thunks) /\ E = InUse(heap'.environments)
    OBVIOUS
  <2>3. /\ Working(heap', frames') /\ Grows(heap, heap') /\ GoodValue(value', L, E)
        /\ Len(frames') <= limits.frames
    BY <1>1, <2>1, <2>2 DEF Live, Scoped
  <2>4. current' \in L \cup {0}
    BY <2>1, <2>2, <2>3 DEF Inv, Held, Grows
  <2>5. pc' \in Stages \ {"start", "read", "answer", "built"} /\ pc' \notin {"safe", "inspect"}
    BY <2>1 DEF Stages
  <2> QED
    BY <2>1, <2>2, <2>3, <2>4, <2>5, HeldNext
<1>2. CASE ~(a.ok /\ Len(fs) <= limits.frames)
  BY <1>2, FailStep DEF Return
<1> QED
  BY <1>1, <1>2

-----------------------------------------------------------------------------
(***************************************************************************)
(* The frames change.                                                      *)
(***************************************************************************)
LEMMA FramePushed ==
    ASSUME NEW h, NEW fs, Working(h, fs), NEW f,
           GoodFrame(f, InUse(h.thunks), InUse(h.environments)),
           f.kind \notin {"Update", "CompleteConstructorChain"}
    PROVE  Working(h, Append(fs, f))
<1>1. PICK gs : gs = Append(fs, f)
  OBVIOUS
<1>2. IsList(fs) /\ Holes(h.thunks, fs) /\ Sound(h)
  BY DEF Working
<1>3. /\ IsList(gs) /\ gs[Len(fs) + 1] = f
      /\ \A k \in DOMAIN fs : gs[k] = fs[k]
      /\ \A k \in DOMAIN gs : k \in DOMAIN fs \/ k = Len(fs) + 1
  BY <1>1, <1>2, ListAppend
<1>4. Alike(fs, gs)
  BY <1>1, <1>2, PushAlike
<1>5. SameHoles(h.thunks, h.thunks)
  BY DEF SameHoles
<1>6. Holes(h.thunks, gs)
  BY <1>2, <1>4, <1>5, HolesSame
<1>7. \A k \in DOMAIN gs : GoodFrame(gs[k], InUse(h.thunks), InUse(h.environments))
  BY <1>3 DEF Working
<1> QED
  BY <1>1, <1>2, <1>3, <1>6, <1>7 DEF Working

LEMMA FramePopped ==
    ASSUME NEW h, NEW fs, Working(h, fs), fs # <<>>
    PROVE  /\ GoodFrame(Last(fs), InUse(h.thunks), InUse(h.environments))
           /\ IsList(Front(fs))
           /\ \A k \in DOMAIN Front(fs) :
                 GoodFrame(Front(fs)[k], InUse(h.thunks), InUse(h.environments))
           /\ Last(fs).kind \notin {"Update", "CompleteConstructorChain"} => Working(h, Front(fs))
<1>1. PICK gs : gs = Front(fs)
  OBVIOUS
<1>2. IsList(fs) /\ Holes(h.thunks, fs) /\ Sound(h)
  BY DEF Working
<1>3. /\ IsList(gs) /\ DOMAIN gs = 1..(Len(fs) - 1)
      /\ \A k \in 1..(Len(fs) - 1) : k \in DOMAIN fs /\ gs[k] = fs[k]
      /\ Last(fs) = fs[Len(fs)] /\ Len(fs) \in DOMAIN fs
  BY <1>1, <1>2, ListFront
<1>4. \A k \in DOMAIN gs : GoodFrame(gs[k], InUse(h.thunks), InUse(h.environments))
  BY <1>3 DEF Working
<1>5. GoodFrame(Last(fs), InUse(h.thunks), InUse(h.environments))
  BY <1>3 DEF Working
<1>6. ASSUME Last(fs).kind \notin {"Update", "CompleteConstructorChain"} PROVE Working(h, gs)
  <2>1. EachOnce(fs, "Update") /\ EachOnce(fs, "CompleteConstructorChain")
    BY <1>2 DEF Holes
  <2>2. Alike(fs, gs)
    BY <1>1, <1>2, <1>6, <2>1, PopAlike
  <2>3. SameHoles(h.thunks, h.thunks)
    BY DEF SameHoles
  <2>4. Holes(h.thunks, gs)
    BY <1>2, <2>2, <2>3, HolesSame
  <2> QED
    BY <1>2, <1>3, <1>4, <2>4 DEF Working
<1> QED
  BY <1>1, <1>3, <1>4, <1>5, <1>6

-----------------------------------------------------------------------------
(***************************************************************************)
(* Inspection.                                                             *)
(***************************************************************************)
LEMMA InspectedRight ==
    ASSUME Inv, pc = "inspect"
    PROVE  /\ current \in InUse(heap.thunks) /\ current \in DOMAIN heap.thunks
           /\ GoodThunk(Thunk, InUse(heap.thunks), InUse(heap.environments))
           /\ Thunk.kind # "Vacant" /\ IsList(heap.thunks)
           /\ Working(heap, frames) /\ Sound(heap)
<1>1. current \in InUse(heap.thunks)
  BY DEF Inv, Held
<1>2. current \in DOMAIN heap.thunks /\ Thunk.kind # "Vacant"
  BY <1>1 DEF InUse, Thunk
<1>3. Working(heap, frames) /\ Sound(heap) /\ IsList(heap.thunks)
  BY DEF Inv, Working, Sound, Arena
<1>4. GoodThunk(Thunk, InUse(heap.thunks), InUse(heap.environments))
  BY <1>2, <1>3 DEF Sound, Closed, Thunk
<1> QED
  BY <1>1, <1>2, <1>3, <1>4

\* The thunk becomes a black hole, or an alias of the one that is updated.
LEMMA BlackenedRight ==
    ASSUME Inv, pc = "inspect", Thunk.kind \in {"Expression", "Application"}
    PROVE  /\ Allotted(Blackened, Updating) /\ Blackened.ok /\ Blackened.ids = <<>>
           /\ Working(Blackened.heap, Updating) /\ Grows(heap, Blackened.heap)
           /\ Live(Blackened) = InUse(heap.thunks)
           /\ Scoped(Blackened) = InUse(heap.environments)
<1>1. /\ current \in InUse(heap.thunks) /\ current \in DOMAIN heap.thunks
      /\ IsList(heap.thunks) /\ Working(heap, frames) /\ Sound(heap)
  BY InspectedRight
<1>2. PICK L, E, old, fs : /\ L = InUse(heap.thunks) /\ E = InUse(heap.environments)
                           /\ old = heap.thunks /\ fs = Updating
  OBVIOUS
<1>3. IsList(frames) /\ Holes(old, frames) /\ \A k \in DOMAIN frames : GoodFrame(frames[k], L, E)
  BY <1>1, <1>2 DEF Working
<1>4. PICK t : t = IF Shares THEN Alias(Last(frames).id) ELSE Evaluating
  OBVIOUS
<1>5. PICK k : k = [heap EXCEPT !.thunks[current] = t]
  OBVIOUS
<1>6. PICK a : a = Blackened
  OBVIOUS
<1>7. a = [heap |-> k, ids |-> <<>>, ok |-> TRUE]
  BY <1>4, <1>5, <1>6 DEF Blackened, Allotment
<1>8. a.heap = k /\ a.ids = <<>> /\ a.ok = TRUE
  BY <1>7
<1>9. old[current].kind \notin {"Evaluating", "Pending"}
  BY <1>2 DEF Thunk
<1>10. GoodThunk(t, L, E) /\ t.kind # "Vacant"
  <2>1. CASE Shares
    <3>1. Last(frames).id \in L
      <4>1. Last(frames) = frames[Len(frames)] /\ Len(frames) \in DOMAIN frames
        BY <1>3, <2>1, ListFront DEF Shares
      <4> QED
        BY <1>3, <2>1, <4>1 DEF Shares, GoodFrame
    <3>2. t.kind = "Alias" /\ t.target = Last(frames).id
      BY <1>4, <2>1 DEF Alias
    <3> QED
      BY <3>1, <3>2 DEF GoodThunk, ThunkKinds
  <2>2. CASE ~Shares
    <3>1. t.kind = "Evaluating"
      BY <1>4, <2>2 DEF Evaluating
    <3> QED
      BY <3>1 DEF GoodThunk, ThunkKinds
  <2> QED
    BY <2>1, <2>2
<1>11. /\ Sound(k) /\ k.thunks = [old EXCEPT ![current] = t]
       /\ InUse(k.thunks) = L /\ InUse(k.environments) = E
  BY <1>1, <1>2, <1>5, <1>10, PutThunk
<1>12. IsList(fs) /\ Holes(k.thunks, fs) /\ \A j \in DOMAIN fs : GoodFrame(fs[j], L, E)
  <2>1. CASE Shares
    <3>1. fs = frames /\ t.kind = "Alias"
      BY <1>2, <1>4, <2>1 DEF Updating, Alias
    <3>2. PICK new : new = k.thunks
      OBVIOUS
    <3>3. /\ DOMAIN new = DOMAIN old /\ new[current] = t
          /\ \A j \in DOMAIN old : j # current => new[j] = old[j]
      BY <1>1, <1>2, <1>11, <3>2, ListExcept
    <3>4. Beside(old, new, current)
      BY <1>1, <1>2, <3>3 DEF Beside
    <3>5. new[current].kind \notin {"Evaluating", "Pending"}
      BY <3>1, <3>3
    <3>6. SameHoles(old, new)
      BY <1>9, <3>4, <3>5, OtherHoles
    <3>7. Alike(frames, frames)
      BY DEF Alike
    <3>8. Holes(new, frames)
      BY <1>3, <3>6, <3>7, HolesSame
    <3> QED
      BY <1>3, <3>1, <3>2, <3>8
  <2>2. CASE ~Shares
    <3>1. fs = Append(frames, UpdateFrame(current)) /\ t = Evaluating
      BY <1>2, <1>4, <2>2 DEF Updating
    <3>2. Holes([old EXCEPT ![current] = Evaluating], Append(frames, UpdateFrame(current)))
      BY <1>1, <1>2, <1>3, <1>9, HolesBlacken
    <3>3. PICK f : f = UpdateFrame(current)
      OBVIOUS
    <3>4. GoodFrame(f, L, E)
      BY <1>1, <1>2, <3>3 DEF GoodFrame, UpdateFrame
    <3>5. /\ IsList(fs) /\ fs[Len(frames) + 1] = f
          /\ \A j \in DOMAIN frames : fs[j] = frames[j]
          /\ \A j \in DOMAIN fs : j \in DOMAIN frames \/ j = Len(frames) + 1
      BY <1>3, <3>1, <3>3, ListAppend
    <3>6. \A j \in DOMAIN fs : GoodFrame(fs[j], L, E)
      BY <1>3, <3>4, <3>5
    <3> QED
      BY <1>11, <3>1, <3>2, <3>5, <3>6
  <2> QED
    BY <2>1, <2>2
<1>13. Working(k, fs) /\ Grows(heap, k)
  BY <1>2, <1>11, <1>12 DEF Working, Grows
<1>14. Live(a) = L /\ Scoped(a) = E
  BY <1>8, <1>11 DEF Live, Scoped
<1>15. Allotted(a, fs)
  BY <1>7, <1>8, <1>13, ListEmpty DEF Allotted
<1> QED
  BY <1>2, <1>6, <1>8, <1>13, <1>14, <1>15

\* What an expression has.
LEMMA ExpressionRight ==
    ASSUME Inv, NEW op, Evaluates(op)
    PROVE  /\ pc = "inspect" /\ Thunk.kind = "Expression" /\ Thunk.term.op = op
           /\ Thunk.term \in Terms[program]
           /\ Formed(Thunk.term, Terms[program], DOMAIN Text.definitions)
           /\ Thunk.environment \in InUse(heap.environments)
           /\ Allotted(Blackened, Updating) /\ Blackened.ok /\ Blackened.ids = <<>>
           /\ Working(Blackened.heap, Updating) /\ Grows(heap, Blackened.heap)
           /\ Thunk.environment \in Scoped(Blackened)
           /\ Live(Blackened) = InUse(heap.thunks)
           /\ Scoped(Blackened) = InUse(heap.environments)
<1>1. pc = "inspect" /\ Thunk.kind = "Expression" /\ Thunk.term.op = op
  BY DEF Evaluates, Inspects
<1>2. GoodThunk(Thunk, InUse(heap.thunks), InUse(heap.environments))
  BY <1>1, InspectedRight
<1>3. Thunk.term \in Terms[program] /\ Thunk.environment \in InUse(heap.environments)
  BY <1>1, <1>2 DEF GoodThunk
<1>4. Formed(Thunk.term, Terms[program], DOMAIN Text.definitions)
  BY <1>3, SetRight DEF Checked
<1>5. Thunk.kind \in {"Expression", "Application"}
  BY <1>1
<1> QED
  BY <1>1, <1>3, <1>4, <1>5, BlackenedRight

LEMMA InspectReadyStep ==
    ASSUME Inv, InspectReady
    PROVE  Inv'
<1>1. pc = "inspect" /\ Thunk.kind = "Ready" /\ Return(Same, frames, Thunk.value)
  BY DEF InspectReady, Inspects
<1>2. GoodValue(Thunk.value, InUse(heap.thunks), InUse(heap.environments))
  BY <1>1, InspectedRight DEF GoodThunk
<1>3. PICK a : a = Same
  OBVIOUS
<1>4. /\ Allotted(a, frames) /\ a.heap = heap /\ a.ok
      /\ Live(a) = InUse(heap.thunks) /\ Scoped(a) = InUse(heap.environments)
  BY <1>3, SetRight, SameAllotted, ListEmpty DEF Same
<1>5. Working(a.heap, frames) /\ Grows(heap, a.heap)
  BY <1>4 DEF Allotted
<1> QED
  BY <1>1, <1>2, <1>3, <1>4, <1>5, ReturnStep

LEMMA InspectAliasStep ==
    ASSUME Inv, InspectAlias
    PROVE  Inv'
<1>1. pc = "inspect" /\ Thunk.kind = "Alias" /\ Demand(Same, frames, Thunk.target)
  BY DEF InspectAlias, Inspects
<1>2. Thunk.target \in InUse(heap.thunks)
  BY <1>1, InspectedRight DEF GoodThunk
<1>3. PICK a : a = Same
  OBVIOUS
<1>4. Allotted(a, frames) /\ a.heap = heap /\ a.ok /\ Live(a) = InUse(heap.thunks)
  BY <1>3, SetRight, SameAllotted, ListEmpty DEF Same
<1>5. Working(a.heap, frames) /\ Grows(heap, a.heap)
  BY <1>4 DEF Allotted
<1> QED
  BY <1>1, <1>2, <1>3, <1>4, <1>5, DemandStep

LEMMA InspectBlackHoleStep ==
    ASSUME Inv, InspectBlackHole
    PROVE  Inv'
  BY FailStep DEF InspectBlackHole

\* A frame with one thunk.
LEMMA ApplyFrameGood ==
    ASSUME NEW L, NEW E, NEW id \in L
    PROVE  /\ GoodFrame(ApplyFrame(id), L, E) /\ GoodFrame(CallFrame(id), L, E)
           /\ ApplyFrame(id).kind \notin {"Update", "CompleteConstructorChain"}
           /\ CallFrame(id).kind \notin {"Update", "CompleteConstructorChain"}
  BY DEF GoodFrame, ApplyFrame, CallFrame

LEMMA InspectApplicationStep ==
    ASSUME Inv, InspectApplication
    PROVE  Inv'
<1>1. /\ pc = "inspect" /\ Thunk.kind = "Application"
      /\ Demand(Blackened, Append(Updating, ApplyFrame(Thunk.argument)), Thunk.function)
  BY DEF InspectApplication, Inspects
<1>2. Thunk.function \in InUse(heap.thunks) /\ Thunk.argument \in InUse(heap.thunks)
  BY <1>1, InspectedRight DEF GoodThunk
<1>3. PICK a, fs, f : a = Blackened /\ fs = Updating /\ f = ApplyFrame(Thunk.argument)
  OBVIOUS
<1>4. /\ a.ok /\ Working(a.heap, fs) /\ Grows(heap, a.heap) /\ Live(a) = InUse(heap.thunks)
      /\ Scoped(a) = InUse(heap.environments)
  BY <1>1, <1>3, BlackenedRight
<1>5. GoodFrame(f, Live(a), Scoped(a)) /\ f.kind \notin {"Update", "CompleteConstructorChain"}
  BY <1>2, <1>3, <1>4, ApplyFrameGood
<1>6. Working(a.heap, Append(fs, f))
  BY <1>4, <1>5, FramePushed DEF Live, Scoped
<1> QED
  BY <1>1, <1>2, <1>3, <1>4, <1>6, DemandStep

LEMMA EvaluateVarStep ==
    ASSUME Inv, EvaluateVar
    PROVE  Inv'
<1>1. Evaluates("Var")
  BY DEF EvaluateVar
<1>2. PICK bound : /\ bound = Lookup(heap, Thunk.environment, Thunk.term.id, Len(heap.environments))
                   /\ IF bound = 0 THEN Fail("unbound") ELSE Demand(Blackened, Updating, bound)
  BY DEF EvaluateVar
<1>3. PICK a, fs : a = Blackened /\ fs = Updating
  OBVIOUS
<1>4. /\ a.ok /\ Working(a.heap, fs) /\ Grows(heap, a.heap) /\ Live(a) = InUse(heap.thunks)
      /\ Thunk.environment \in InUse(heap.environments) /\ pc = "inspect"
  BY <1>1, <1>3, ExpressionRight
<1>5. PICK h, L, E, e, n : /\ h = heap /\ L = InUse(heap.thunks) /\ E = InUse(heap.environments)
                           /\ e = Thunk.environment /\ n = Len(heap.environments)
  OBVIOUS
<1>6. Closed(h, L, E) /\ E = InUse(h.environments) /\ e \in E /\ n \in Nat
  BY <1>4, <1>5, InspectedRight, ListIs DEF Sound, Arena
<1>7. Lookup(h, e, Thunk.term.id, n) \in L \cup {0}
  BY <1>6, LookupRight
<1>8. CASE bound = 0
  BY <1>2, <1>8, FailStep
<1>9. CASE bound # 0
  <2>1. bound \in Live(a)
    BY <1>2, <1>4, <1>5, <1>7, <1>9
  <2> QED
    BY <1>2, <1>3, <1>4, <1>9, <2>1, DemandStep
<1> QED
  BY <1>8, <1>9

LEMMA KnownRight ==
    ASSUME NEW name, NEW id, NEW L, id \in L, \A n \in DOMAIN globals : globals[n] \in L
    PROVE  \A n \in DOMAIN Known(name, id) : Known(name, id)[n] \in L
  BY DEF Known

LEMMA EvaluateRefStep ==
    ASSUME Inv, EvaluateRef
    PROVE  Inv'
<1>1. Evaluates("Ref")
  BY DEF EvaluateRef
<1>2. PICK name, a, fs : name = Thunk.term.name /\ a = Reference(Blackened, name) /\ fs = Updating
  OBVIOUS
<1>3. /\ Allotted(Blackened, fs) /\ Blackened.ids = <<>> /\ pc = "inspect"
      /\ name \in DOMAIN Text.definitions
  BY <1>1, <1>2, ExpressionRight DEF Formed
<1>4. Gives(Blackened, a, fs)
  BY <1>2, <1>3, ReferenceGives
<1>5. CASE a.ok /\ Len(fs) <= limits.frames
  <2>1. /\ heap' = a.heap /\ frames' = fs /\ globals' = Known(name, Last(a.ids))
        /\ current' = Last(a.ids) /\ pc' = "safe"
        /\ UNCHANGED <<program, limits, roots, reading, nodes>>
    BY <1>2, <1>5 DEF EvaluateRef, settled
  <2>2. Last(a.ids) \in Live(a)
    BY <1>3, <1>4, <1>5, ListEmpty, GivesLast
  <2>3. Working(a.heap, fs) /\ Grows(heap, a.heap)
    BY <1>4, <1>5 DEF Gives, Allotted
  <2>4. PICK L, E : L = InUse(heap'.thunks) /\ E = InUse(heap'.environments)
    OBVIOUS
  <2>5. current' \in L /\ Last(a.ids) \in L
    BY <2>1, <2>2, <2>4 DEF Live
  <2>6. \A n \in DOMAIN globals : globals[n] \in L
    BY <2>1, <2>3, <2>4, SetRight DEF Grows
  <2>7. \A n \in DOMAIN globals' : globals'[n] \in L
    BY <2>1, <2>5, <2>6, KnownRight
  <2>8. pc' \in Stages \ {"start", "read", "answer", "built"} /\ pc' # "return"
    BY <2>1 DEF Stages
  <2>9. Working(heap', frames') /\ Grows(heap, heap') /\ Len(frames') <= limits.frames
    BY <1>5, <2>1, <2>3
  <2> QED
    BY <1>3, <2>1, <2>4, <2>5, <2>7, <2>8, <2>9, HeldNext
<1>6. CASE ~(a.ok /\ Len(fs) <= limits.frames)
  BY <1>2, <1>6, FailStep DEF EvaluateRef
<1> QED
  BY <1>5, <1>6

LEMMA EvaluateLamStep ==
    ASSUME Inv, EvaluateLam
    PROVE  Inv'
<1>1. PICK a, fs, v : /\ a = Blackened /\ fs = Updating
                      /\ v = Closure(Thunk.term.id, Thunk.term.body, Thunk.environment)
  OBVIOUS
<1>2. Evaluates("Lam") /\ Return(a, fs, v)
  BY <1>1 DEF EvaluateLam
<1>3. /\ Working(a.heap, fs) /\ Grows(heap, a.heap) /\ pc = "inspect"
      /\ Thunk.environment \in Scoped(a) /\ Thunk.term.body \in Terms[program]
  BY <1>1, <1>2, ExpressionRight DEF Formed
<1>4. GoodValue(v, Live(a), Scoped(a))
  BY <1>1, <1>3 DEF Closure, GoodValue
<1> QED
  BY <1>2, <1>3, <1>4, ReturnStep

\* Two expressions beside a black hole.
LEMMA TwoGive ==
    ASSUME Inv, NEW op, Evaluates(op), NEW s, NEW t, s \in Terms[program], t \in Terms[program],
           NEW a, a = Expressions(Blackened, <<s, t>>, Thunk.environment), a.ok
    PROVE  /\ Working(a.heap, Updating) /\ Grows(heap, a.heap)
           /\ Head(a.ids) \in Live(a) /\ Last(a.ids) \in Live(a)
<1>1. PICK b, fs, e : b = Blackened /\ fs = Updating /\ e = Thunk.environment
  OBVIOUS
<1>2. Allotted(b, fs) /\ b.ids = <<>> /\ b.ok /\ e \in Scoped(b)
  BY <1>1, ExpressionRight
<1>3. PICK terms : terms = <<s, t>>
  OBVIOUS
<1>4. terms \in Seq(Terms[program]) /\ Len(terms) = 2
  <2>1. PICK X : X = Terms[program]
    OBVIOUS
  <2>2. s \in X /\ t \in X
    BY <2>1
  <2>3. <<s, t>> \in Seq(X)
    BY <2>2
  <2> QED
    BY <1>3, <2>1, <2>3
<1>5. Grown(b, Expressions(b, terms, e), Len(terms), fs)
  BY <1>2, <1>4, ExpressionsGive
<1>6. Grown(b, a, 2, fs)
  BY <1>1, <1>3, <1>4, <1>5
<1>7. Last(a.ids) \in Live(a) /\ Head(a.ids) \in Live(a)
  BY <1>6, GrownLast
<1> QED
  BY <1>1, <1>6, <1>7 DEF Grown, Allotted

LEMMA EvaluateAppStep ==
    ASSUME Inv, EvaluateApp
    PROVE  Inv'
<1>1. PICK a, fs, f :
        /\ a = Expressions(Blackened, <<Thunk.term.argument, Thunk.term.function>>, Thunk.environment)
        /\ fs = Updating /\ f = ApplyFrame(Head(a.ids))
  OBVIOUS
<1>2. Evaluates("App") /\ Demand(a, Append(fs, f), Last(a.ids))
  BY <1>1 DEF EvaluateApp
<1>3. pc = "inspect" /\ Thunk.term.argument \in Terms[program] /\ Thunk.term.function \in Terms[program]
  BY <1>2, ExpressionRight DEF Formed
<1>4. a.ok => /\ Working(a.heap, fs) /\ Grows(heap, a.heap)
              /\ Head(a.ids) \in Live(a) /\ Last(a.ids) \in Live(a)
  BY <1>1, <1>2, <1>3, TwoGive
<1>5. a.ok => Working(a.heap, Append(fs, f))
  <2> HAVE a.ok
  <2>1. GoodFrame(f, Live(a), Scoped(a)) /\ f.kind \notin {"Update", "CompleteConstructorChain"}
    BY <1>1, <1>4, ApplyFrameGood
  <2> QED
    BY <1>4, <2>1, FramePushed DEF Live, Scoped
<1> QED
  BY <1>2, <1>3, <1>4, <1>5, DemandStep

LEMMA EvaluateMatStep ==
    ASSUME Inv, EvaluateMat
    PROVE  Inv'
<1>1. PICK a, fs, v :
        /\ a = Expressions(Blackened, <<Thunk.term.arm, Thunk.term.fallback>>, Thunk.environment)
        /\ fs = Updating /\ v = Matcher(Thunk.term.constructor, Head(a.ids), Last(a.ids))
  OBVIOUS
<1>2. Evaluates("Mat") /\ Return(a, fs, v)
  BY <1>1 DEF EvaluateMat
<1>3. pc = "inspect" /\ Thunk.term.arm \in Terms[program] /\ Thunk.term.fallback \in Terms[program]
  BY <1>2, ExpressionRight DEF Formed
<1>4. a.ok => /\ Working(a.heap, fs) /\ Grows(heap, a.heap)
              /\ Head(a.ids) \in Live(a) /\ Last(a.ids) \in Live(a)
  BY <1>1, <1>2, <1>3, TwoGive
<1>5. a.ok => GoodValue(v, Live(a), Scoped(a))
  BY <1>1, <1>4 DEF Matcher, GoodValue
<1> QED
  BY <1>2, <1>3, <1>4, <1>5, ReturnStep

LEMMA EvaluateLetStep ==
    ASSUME Inv, EvaluateLet
    PROVE  Inv'
<1>1. PICK a, e, ids, s, b, c, fs :
        /\ e = Thunk.environment /\ ids = Thunk.term.ids
        /\ a = Expressions(Blackened, Thunk.term.values, e)
        /\ s = Scope(e, ids, a.ids)
        /\ b = AllocateScope(a, s)
        /\ c = Expression(b, Thunk.term.body, Last(b.ids))
        /\ fs = Updating
  OBVIOUS
<1>2. Evaluates("Let") /\ Demand(c, fs, Last(c.ids))
  BY <1>1 DEF EvaluateLet
<1>3. PICK values : values = Thunk.term.values
  OBVIOUS
<1>4. /\ pc = "inspect" /\ values \in Seq(Terms[program]) /\ Thunk.term.body \in Terms[program]
      /\ DOMAIN ids = DOMAIN values /\ Allotted(Blackened, fs) /\ Blackened.ids = <<>>
      /\ e \in Scoped(Blackened)
  BY <1>1, <1>2, <1>3, ExpressionRight DEF Formed
<1>5. Grown(Blackened, a, Len(values), fs)
  BY <1>1, <1>3, <1>4, ExpressionsGive
<1>6. s.kind = "Scope" /\ s.parent = e /\ s.ids = ids /\ s.thunks = a.ids
  BY <1>1 DEF Scope
<1>7. a.ok => GoodScope(s, Live(a), Scoped(a))
  <2> HAVE a.ok
  <2>1. a.ids \in Seq(Live(a)) /\ Len(a.ids) = Len(values) /\ Grows(Blackened.heap, a.heap)
    BY <1>5 DEF Grown
  <2>2. DOMAIN a.ids = DOMAIN values
    BY <1>4, <2>1, LenProperties
  <2>3. e \in Scoped(a)
    BY <1>4, <2>1 DEF Grows, Scoped
  <2> QED
    BY <1>4, <1>6, <2>1, <2>2, <2>3 DEF GoodScope
<1>8. Allotted(a, fs) /\ limits.arena \in Nat
  BY <1>5, SetRight DEF Grown
<1>9. /\ Allotted(b, fs)
      /\ b.ok => a.ok /\ Grows(a.heap, b.heap) /\ Last(b.ids) \in Scoped(b)
  BY <1>1, <1>6, <1>7, <1>8, AllocateScopeGives
<1>10. Gives(b, c, fs)
  BY <1>1, <1>4, <1>9, ExpressionGives
<1>11. c.ok => Working(c.heap, fs) /\ Grows(heap, c.heap) /\ Last(c.ids) \in Live(c)
  BY <1>9, <1>10, GivesLast DEF Gives, Allotted
<1> QED
  BY <1>2, <1>4, <1>11, DemandStep

LEMMA EvaluateAnnStep ==
    ASSUME Inv, EvaluateAnn
    PROVE  Inv'
<1>1. PICK a, fs : a = Expression(Blackened, Thunk.term.body, Thunk.environment) /\ fs = Updating
  OBVIOUS
<1>2. Evaluates("Ann") /\ Demand(a, fs, Last(a.ids))
  BY <1>1 DEF EvaluateAnn
<1>3. /\ pc = "inspect" /\ Thunk.term.body \in Terms[program] /\ Allotted(Blackened, fs)
      /\ Thunk.environment \in Scoped(Blackened)
  BY <1>1, <1>2, ExpressionRight DEF Formed
<1>4. Gives(Blackened, a, fs)
  BY <1>1, <1>3, ExpressionGives
<1>5. a.ok => Working(a.heap, fs) /\ Grows(heap, a.heap) /\ Last(a.ids) \in Live(a)
  BY <1>3, <1>4, GivesLast DEF Gives, Allotted
<1> QED
  BY <1>2, <1>3, <1>5, DemandStep

LEMMA EvaluateAtomStep ==
    ASSUME Inv, EvaluateAtom
    PROVE  Inv'
<1>1. PICK op : Evaluates(op)
  BY DEF EvaluateAtom
<1>2. PICK a, fs, v : /\ a = Blackened /\ fs = Updating
                      /\ v = IF Thunk.term.op = "Efq" THEN Impossible ELSE Erased
  OBVIOUS
<1>3. Return(a, fs, v)
  BY <1>2 DEF EvaluateAtom
<1>4. Working(a.heap, fs) /\ Grows(heap, a.heap) /\ pc = "inspect"
  BY <1>1, <1>2, ExpressionRight
<1>5. GoodValue(v, Live(a), Scoped(a))
  BY <1>2 DEF Impossible, Erased, GoodValue
<1> QED
  BY <1>3, <1>4, <1>5, ReturnStep

\* The fields of a constructor.
LEMMA FieldsGive ==
    ASSUME Inv, Evaluates("Ctr")
    PROVE  /\ pc = "inspect" /\ Grown(Blackened, Fields, Len(Thunk.term.args), Updating)
           /\ Thunk.term.args \in Seq(Terms[program])
           /\ Fields.ok => /\ Working(Fields.heap, Updating) /\ Grows(heap, Fields.heap)
                           /\ Grows(Blackened.heap, Fields.heap)
                           /\ Fields.ids \in Seq(Live(Fields))
<1>1. PICK args, fs : args = Thunk.term.args /\ fs = Updating
  OBVIOUS
<1>2. /\ pc = "inspect" /\ args \in Seq(Terms[program]) /\ Allotted(Blackened, fs)
      /\ Blackened.ids = <<>> /\ Thunk.environment \in Scoped(Blackened)
  BY <1>1, ExpressionRight DEF Formed
<1>3. Grown(Blackened, Expressions(Blackened, args, Thunk.environment), Len(args), fs)
  BY <1>2, ExpressionsGive
<1>4. Grown(Blackened, Fields, Len(args), fs)
  BY <1>1, <1>3 DEF Fields
<1> QED
  BY <1>1, <1>2, <1>4 DEF Grown, Allotted

LEMMA EvaluateCtrStep ==
    ASSUME Inv, EvaluateCtr
    PROVE  Inv'
<1>1. PICK a, fs, v : /\ a = Fields /\ fs = Updating
                      /\ v = Constructor(Thunk.term.name, Fields.ids)
  OBVIOUS
<1>2. Evaluates("Ctr") /\ Return(a, fs, v)
  BY <1>1 DEF EvaluateCtr
<1>3. pc = "inspect"
  BY <1>2, FieldsGive
<1>4. a.ok => Working(a.heap, fs) /\ Grows(heap, a.heap) /\ a.ids \in Seq(Live(a))
  BY <1>1, <1>2, FieldsGive
<1>5. v.kind = "Constructor" /\ v.fields = a.ids
  BY <1>1 DEF Constructor
<1>6. a.ok => GoodValue(v, Live(a), Scoped(a))
  BY <1>4, <1>5 DEF GoodValue
<1> QED
  BY <1>2, <1>3, <1>4, <1>6, ReturnStep

-----------------------------------------------------------------------------
(***************************************************************************)
(* A constructor joins a chain.                                            *)
(***************************************************************************)
LEMMA ListEqual ==
    ASSUME NEW s, IsList(s), NEW t, IsList(t), Len(s) = Len(t), \A k \in 1..Len(s) : s[k] = t[k]
    PROVE  s = t
<1>1. PICK X : s \in Seq(X)
  BY DEF IsList
<1>2. PICK Y : t \in Seq(Y)
  BY DEF IsList
<1>3. s = [k \in 1..Len(s) |-> s[k]]
  <2>1. s \in [1..Len(s) -> X]
    BY <1>1, LenProperties
  <2> QED
    BY <2>1
<1>4. t = [k \in 1..Len(t) |-> t[k]]
  <2>1. t \in [1..Len(t) -> Y]
    BY <1>2, LenProperties
  <2> QED
    BY <2>1
<1> QED
  BY <1>3, <1>4

LEMMA FrontSub ==
    ASSUME NEW s, IsList(s), NEW m \in 1..Len(s)
    PROVE  /\ Front(SubSeq(s, 1, m)) = SubSeq(s, 1, m - 1)
           /\ Last(SubSeq(s, 1, m)) = s[m] /\ SubSeq(s, 1, m) # <<>>
<1>1. PICK t, u : t = SubSeq(s, 1, m) /\ u = SubSeq(s, 1, m - 1)
  OBVIOUS
<1>2. Len(s) \in Nat /\ m \in 0..Len(s) /\ m - 1 \in 0..Len(s) /\ m # 0
  BY ListIs
<1>3. IsList(t) /\ Len(t) = m /\ \A k \in 1..m : t[k] = s[k]
  BY <1>1, <1>2, ListSub
<1>4. IsList(u) /\ Len(u) = m - 1 /\ \A k \in 1..(m - 1) : u[k] = s[k]
  BY <1>1, <1>2, ListSub
<1>5. t # <<>>
  BY <1>2, <1>3, ListEmpty
<1>6. PICK r : r = Front(t)
  OBVIOUS
<1>7. IsList(r) /\ Len(r) = m - 1 /\ \A k \in 1..(m - 1) : r[k] = t[k]
  BY <1>3, <1>5, <1>6, ListFront
<1>8. \A k \in 1..(m - 1) : r[k] = u[k]
  BY <1>2, <1>3, <1>4, <1>7
<1>9. r = u
  BY <1>4, <1>7, <1>8, ListEqual
<1>10. Last(t) = s[m]
  BY <1>2, <1>3 DEF Last
<1> QED
  BY <1>1, <1>5, <1>6, <1>9, <1>10

LEMMA SubAll ==
    ASSUME NEW s, IsList(s)
    PROVE  SubSeq(s, 1, Len(s)) = s
<1>1. PICK t : t = SubSeq(s, 1, Len(s))
  OBVIOUS
<1>2. Len(s) \in Nat /\ Len(s) \in 0..Len(s)
  BY ListIs
<1>3. IsList(t) /\ Len(t) = Len(s) /\ \A k \in 1..Len(s) : t[k] = s[k]
  BY <1>1, <1>2, ListSub
<1> QED
  BY <1>1, <1>3, ListEqual

LEMMA ConcatTwo ==
    ASSUME NEW s, IsList(s), NEW x, NEW y
    PROVE  s \o <<x, y>> = Append(Append(s, x), y)
<1>1. PICK X : s \in Seq(X)
  BY DEF IsList
<1>2. PICK Y : Y = X \cup {x, y}
  OBVIOUS
<1>3. s \in Seq(Y) /\ x \in Y /\ y \in Y
  BY <1>1, <1>2
<1>4. PICK r : r = s \o <<x, y>>
  OBVIOUS
<1>5. <<x, y>> \in Seq(Y) /\ Len(<<x, y>>) = 2 /\ <<x, y>>[1] = x /\ <<x, y>>[2] = y
  BY <1>3
<1>6. /\ r \in Seq(Y) /\ Len(r) = Len(s) + 2 /\ Len(s) \in Nat
      /\ \A i \in 1..Len(s) : r[i] = s[i]
      /\ r[Len(s) + 1] = x /\ r[Len(s) + 2] = y
  <2>1. PICK e : e = <<x, y>>
    OBVIOUS
  <2>2. e \in Seq(Y) /\ Len(e) = 2 /\ e[1] = x /\ e[2] = y /\ r = s \o e /\ Len(s) \in Nat
    BY <1>3, <1>4, <1>5, <2>1, LenProperties
  <2>3. /\ r \in Seq(Y) /\ Len(r) = Len(s) + 2
        /\ \A i \in 1..Len(r) : r[i] = IF i <= Len(s) THEN s[i] ELSE e[i - Len(s)]
    <3>1. /\ s \o e \in Seq(Y) /\ Len(s \o e) = Len(s) + Len(e)
          /\ \A i \in 1..Len(s) + Len(e) :
                (s \o e)[i] = IF i <= Len(s) THEN s[i] ELSE e[i - Len(s)]
      BY <1>3, <2>2, ConcatProperties
    <3> QED
      BY <2>2, <3>1
  <2>4. Len(s) + 1 \in 1..Len(r) /\ Len(s) + 2 \in 1..Len(r)
        /\ (Len(s) + 1) - Len(s) = 1 /\ (Len(s) + 2) - Len(s) = 2
    BY <2>2, <2>3
  <2>5. r[Len(s) + 1] = e[1] /\ r[Len(s) + 2] = e[2]
    BY <2>2, <2>3, <2>4
  <2>6. \A i \in 1..Len(s) : r[i] = s[i]
    BY <2>2, <2>3
  <2> QED
    BY <2>2, <2>3, <2>5, <2>6
<1>7. PICK a, b : a = Append(s, x) /\ b = Append(a, y)
  OBVIOUS
<1>8. IsList(a) /\ Len(a) = Len(s) + 1 /\ a[Len(s) + 1] = x /\ \A k \in DOMAIN s : a[k] = s[k]
      /\ DOMAIN a = 1..(Len(s) + 1)
  BY <1>7, ListAppend
<1>9. IsList(b) /\ Len(b) = Len(a) + 1 /\ b[Len(a) + 1] = y /\ \A k \in DOMAIN a : b[k] = a[k]
  BY <1>7, <1>8, ListAppend
<1>10. IsList(r) /\ DOMAIN s = 1..Len(s)
  BY <1>6, ListIs DEF IsList
<1>11. ASSUME NEW k \in 1..Len(r) PROVE r[k] = b[k]
  <2>1. k \in 1..Len(s) \/ k = Len(s) + 1 \/ k = Len(s) + 2
    BY <1>6
  <2>2. CASE k \in 1..Len(s)
    <3>1. k \in DOMAIN a /\ k \in DOMAIN s
      BY <1>6, <1>8, <1>10, <2>2
    <3> QED
      BY <1>6, <1>8, <1>9, <2>2, <3>1
  <2>3. CASE k = Len(s) + 1
    <3>1. k \in DOMAIN a
      BY <1>6, <1>8, <2>3
    <3> QED
      BY <1>6, <1>8, <1>9, <2>3, <3>1
  <2>4. CASE k = Len(s) + 2
    <3>1. k = Len(a) + 1
      BY <1>6, <1>8, <2>4
    <3> QED
      BY <1>6, <1>9, <2>4, <3>1
  <2> QED
    BY <2>1, <2>2, <2>3, <2>4
<1>12. Len(r) = Len(b)
  BY <1>6, <1>8, <1>9
<1>13. r = b
  BY <1>9, <1>10, <1>11, <1>12, ListEqual
<1> QED
  BY <1>4, <1>7, <1>13

\* The update u of the outer constructor becomes a chain; the chain p goes.
LEMMA ShortenedNames ==
    ASSUME NEW fs, IsList(fs), NEW gs, gs = Shortened(fs), Compressible(fs),
           EachOnce(fs, "Update"), EachOnce(fs, "CompleteConstructorChain"),
           NEW u, u = fs[Len(fs) - 2].id, u \notin Heads(fs), 0 \notin Heads(fs),
           NEW p, p = IF HasParent(fs) THEN fs[Len(fs) - 3].id ELSE 0
    PROVE  /\ u \in Updates(fs) /\ p \in Heads(fs) \cup {0}
           /\ Updates(gs) = Updates(fs) \ {u}
           /\ Heads(gs) = (Heads(fs) \ {p}) \cup {u}
           /\ EachOnce(gs, "Update") /\ EachOnce(gs, "CompleteConstructorChain")
           /\ IsList(gs)
           /\ \A k \in DOMAIN gs : gs[k] = ChainFrame(u) \/ \E j \in DOMAIN fs : gs[k] = fs[j]
<1> DEFINE U == "Update"
           C == "CompleteConstructorChain"
           Both(s) == EachOnce(s, U) /\ EachOnce(s, C)
<1>1. PICK n : n = Len(fs)
  OBVIOUS
<1>2. n \in Nat /\ n >= 3 /\ DOMAIN fs = 1..n
  BY <1>1, ListIs DEF Compressible
<1>3. PICK z, c, o : z = fs[n] /\ c = fs[n - 1] /\ o = fs[n - 2]
  OBVIOUS
<1>4. z.kind = U /\ c.kind = "Constructor" /\ o.kind = U /\ u = o.id
  BY <1>1, <1>3 DEF Compressible
<1>5. PICK f1, f2, f3 : /\ f1 = SubSeq(fs, 1, n - 1) /\ f2 = SubSeq(fs, 1, n - 2)
                        /\ f3 = SubSeq(fs, 1, n - 3)
  OBVIOUS
<1>6. n \in 1..Len(fs) /\ n - 1 \in 1..Len(fs) /\ n - 2 \in 1..Len(fs)
      /\ n - 1 \in 0..Len(fs) /\ n - 2 \in 0..Len(fs) /\ n - 3 \in 0..Len(fs)
      /\ (n - 1) - 1 = n - 2 /\ (n - 2) - 1 = n - 3
  BY <1>1, <1>2
<1>7. f1 = Front(fs) /\ z = Last(fs) /\ fs # <<>>
  BY ZenonT(60), <1>1, <1>3, <1>5, <1>6, FrontSub, SubAll
<1>8. f2 = Front(f1) /\ c = Last(f1) /\ f1 # <<>> /\ IsList(f1)
  BY <1>3, <1>5, <1>6, FrontSub, ListSub
<1>9. f3 = Front(f2) /\ o = Last(f2) /\ f2 # <<>> /\ IsList(f2) /\ IsList(f3)
  BY ZenonT(60), <1>3, <1>5, <1>6, FrontSub, ListSub
<1>10. /\ Names(f1, U) = Names(fs, U) \ {z.id} /\ z.id \in Names(fs, U)
       /\ Names(f1, C) = Names(fs, C) /\ Both(f1)
  <2>1. z.kind # C
    BY <1>4
  <2> QED
    BY <1>4, <1>7, <2>1, PopNames
<1>11. Names(f2, U) = Names(f1, U) /\ Names(f2, C) = Names(f1, C) /\ Both(f2)
  <2>1. c.kind # C /\ c.kind # U
    BY <1>4
  <2> QED
    BY <1>8, <1>10, <2>1, PopNames
<1>12. /\ Names(f3, U) = Names(f2, U) \ {u} /\ u \in Names(f2, U)
       /\ Names(f3, C) = Names(f2, C) /\ Both(f3)
  <2>1. o.kind # C
    BY <1>4
  <2> QED
    BY <1>4, <1>9, <1>11, <2>1, PopNames
<1>13. PICK f4 : f4 = SubSeq(fs, 1, IF HasParent(fs) THEN n - 4 ELSE n - 3)
  OBVIOUS
<1>14. /\ Names(f4, U) = Names(f3, U) /\ Names(f4, C) = Names(f3, C) \ {p} /\ Both(f4)
       /\ p \in Names(fs, C) \cup {0} /\ IsList(f4)
       /\ \A k \in DOMAIN f4 : k \in DOMAIN fs /\ f4[k] = fs[k]
  <2>1. CASE HasParent(fs)
    <3>1. n >= 4 /\ fs[n - 3].kind = C /\ p = fs[n - 3].id
      BY <1>1, <2>1 DEF HasParent
    <3>2. n - 3 \in 1..Len(fs) /\ n - 4 \in 0..Len(fs) /\ (n - 3) - 1 = n - 4
      BY <1>1, <1>2, <3>1
    <3>3. f4 = SubSeq(fs, 1, n - 4)
      BY <1>13, <2>1
    <3>4. f4 = Front(f3) /\ Last(f3) = fs[n - 3] /\ f3 # <<>>
      BY <1>5, <3>2, <3>3, FrontSub
    <3>5. fs[n - 3].kind # U
      BY <3>1
    <3>6. /\ Names(f4, U) = Names(f3, U) /\ Names(f4, C) = Names(f3, C) \ {p} /\ Both(f4)
          /\ p \in Names(f3, C)
      BY <1>9, <1>12, <3>1, <3>4, <3>5, PopNames
    <3>7. IsList(f4) /\ \A k \in DOMAIN f4 : k \in DOMAIN fs /\ f4[k] = fs[k]
      BY <3>2, <3>3, ListSub
    <3> QED
      BY <1>10, <1>11, <1>12, <3>6, <3>7
  <2>2. CASE ~HasParent(fs)
    <3>1. f4 = f3 /\ p = 0
      BY <1>5, <1>13, <2>2
    <3>2. 0 \notin Names(f3, C)
      BY <1>10, <1>11, <1>12, NamesAre
    <3>3. IsList(f4) /\ \A k \in DOMAIN f4 : k \in DOMAIN fs /\ f4[k] = fs[k]
      BY <1>5, <1>6, <3>1, ListSub
    <3> QED
      BY <1>12, <3>1, <3>2, <3>3
  <2> QED
    BY <2>1, <2>2
<1>15. PICK x, f5 : x = ChainFrame(u) /\ f5 = Append(f4, x)
  OBVIOUS
<1>16. x.kind = C /\ x.id = u
  BY <1>15 DEF ChainFrame
<1>17. gs = Append(f5, z)
  <2>1. gs = f4 \o <<ChainFrame(o.id), z>>
    BY <1>1, <1>3, <1>13 DEF Shortened
  <2> QED
    BY <1>4, <1>14, <1>15, <2>1, ConcatTwo
<1>18. /\ IsList(f5) /\ f5[Len(f4) + 1] = x
       /\ \A k \in DOMAIN f4 : f5[k] = f4[k]
       /\ \A k \in DOMAIN f5 : k \in DOMAIN f4 \/ k = Len(f4) + 1
  BY <1>14, <1>15, ListAppend
<1>19. u \notin Names(f4, C)
  <2>1. u \notin Names(fs, C)
    BY NamesAre
  <2> QED
    BY <1>10, <1>11, <1>12, <1>14, <2>1
<1>20. Names(f5, C) = Names(f4, C) \cup {u} /\ EachOnce(f5, C)
  BY <1>14, <1>15, <1>16, <1>19, PushNames
<1>21. Names(f5, U) = Names(f4, U) /\ EachOnce(f5, U)
  <2>1. x.kind # U
    BY <1>16
  <2> QED
    BY <1>14, <1>15, <2>1, PushNames
<1>22. z.id \notin Names(f5, U)
  BY <1>10, <1>11, <1>12, <1>14, <1>21
<1>23. Names(gs, U) = Names(f5, U) \cup {z.id} /\ EachOnce(gs, U)
  <2>1. z.kind = U /\ IsList(f5) /\ EachOnce(f5, U)
    BY <1>4, <1>18, <1>21
  <2> HIDE DEF U
  <2>2. Names(Append(f5, z), U) = Names(f5, U) \cup {z.id} /\ EachOnce(Append(f5, z), U)
    BY <1>22, <2>1, PushNames
  <2> QED
    BY <1>17, <2>2
<1>24. Names(gs, C) = Names(f5, C) /\ EachOnce(gs, C)
  <2>1. z.kind # C
    BY <1>4
  <2> QED
    BY <1>17, <1>18, <1>20, <2>1, PushNames
<1>25. Names(gs, U) = Names(fs, U) \ {u} /\ u \in Names(fs, U)
  BY <1>10, <1>11, <1>12, <1>14, <1>21, <1>23
<1>26. Names(gs, C) = (Names(fs, C) \ {p}) \cup {u}
  BY <1>10, <1>11, <1>12, <1>14, <1>20, <1>24
<1>27. /\ IsList(gs) /\ gs[Len(f5) + 1] = z
       /\ \A k \in DOMAIN f5 : gs[k] = f5[k]
       /\ \A k \in DOMAIN gs : k \in DOMAIN f5 \/ k = Len(f5) + 1
  BY <1>17, <1>18, ListAppend
<1>28. ASSUME NEW k \in DOMAIN gs PROVE gs[k] = x \/ \E j \in DOMAIN fs : gs[k] = fs[j]
  <2>1. CASE k = Len(f5) + 1
    BY <1>2, <1>3, <1>27, <2>1
  <2>2. CASE k \in DOMAIN f5
    BY <1>14, <1>18, <1>27, <2>2
  <2> QED
    BY <1>27, <2>1, <2>2
<1> QED
  BY <1>14, <1>15, <1>23, <1>24, <1>25, <1>26, <1>27, <1>28, NamesAre

LEMMA LinkedRight ==
    ASSUME NEW h, NEW fs, Working(h, fs), Compressible(fs), NEW k, k = Linked(h, fs)
    PROVE  /\ Working(k, Shortened(fs))
           /\ InUse(k.thunks) = InUse(h.thunks) /\ InUse(k.environments) = InUse(h.environments)
<1>1. PICK old, gs, n : old = h.thunks /\ gs = Shortened(fs) /\ n = Len(fs)
  OBVIOUS
<1>2. PICK L, E : L = InUse(h.thunks) /\ E = InUse(h.environments)
  OBVIOUS
<1>3. /\ Sound(h) /\ Holes(old, fs) /\ IsList(fs) /\ IsList(old)
      /\ \A j \in DOMAIN fs : GoodFrame(fs[j], L, E)
  BY <1>1, <1>2 DEF Working, Sound, Arena
<1>4. n \in Nat /\ n >= 3 /\ DOMAIN fs = 1..n
  BY <1>1, <1>3, ListIs DEF Compressible
<1>5. PICK u, c, p : /\ u = fs[n - 2].id /\ c = fs[n - 1]
                     /\ p = IF HasParent(fs) THEN fs[n - 3].id ELSE 0
  OBVIOUS
<1>6. PICK t : t = PendingConstructor(c.name, c.fields, p)
  OBVIOUS
<1>7. k = [h EXCEPT !.thunks[u] = t]
  BY <1>1, <1>5, <1>6 DEF Linked
<1>8. n - 2 \in DOMAIN fs /\ n - 1 \in DOMAIN fs
  BY <1>4
<1>9. u \in L /\ c.fields \in Seq(L) /\ fs[n - 2].kind = "Update"
  <2>1. fs[n - 2].kind = "Update" /\ c.kind = "Constructor"
    BY <1>1, <1>5 DEF Compressible
  <2>2. GoodFrame(fs[n - 2], L, E) /\ GoodFrame(c, L, E)
    BY <1>3, <1>5, <1>8
  <2> QED
    BY <1>5, <2>1, <2>2 DEF GoodFrame
<1>10. p \in L \cup {0}
  <2>1. CASE HasParent(fs)
    <3>1. n >= 4 /\ fs[n - 3].kind = "CompleteConstructorChain" /\ p = fs[n - 3].id
      BY <1>1, <1>5, <2>1 DEF HasParent
    <3>2. GoodFrame(fs[n - 3], L, E)
      BY <1>3, <1>4, <3>1
    <3> QED
      BY <3>1, <3>2 DEF GoodFrame
  <2> QED
    BY <1>5, <2>1
<1>11. GoodThunk(t, L, E) /\ t.kind # "Vacant"
  BY <1>6, <1>9, <1>10 DEF GoodThunk, ThunkKinds, PendingConstructor
<1>12. /\ Sound(k) /\ k.thunks = [old EXCEPT ![u] = t]
       /\ InUse(k.thunks) = L /\ InUse(k.environments) = E
  BY SMTT(30), <1>1, <1>2, <1>3, <1>7, <1>9, <1>11, PutThunk
<1>13. u \in Updates(fs)
  BY <1>5, <1>8, <1>9 DEF Updates, FramesOf
<1>14. u \notin Heads(fs) /\ 0 \notin Heads(fs)
  <2>1. old[u].kind = "Evaluating"
    BY <1>3, <1>13 DEF Holes
  <2>2. Heads(fs) \subseteq PendingIn(old)
    BY <1>3 DEF Holes
  <2>3. 0 \notin DOMAIN old
    BY <1>3, ListIs
  <2> QED
    BY <2>1, <2>2, <2>3 DEF PendingIn
<1>15. EachOnce(fs, "Update") /\ EachOnce(fs, "CompleteConstructorChain")
  BY <1>3 DEF Holes
<1>16. /\ u \in Updates(fs) /\ p \in Heads(fs) \cup {0}
       /\ Updates(gs) = Updates(fs) \ {u}
       /\ Heads(gs) = (Heads(fs) \ {p}) \cup {u}
       /\ EachOnce(gs, "Update") /\ EachOnce(gs, "CompleteConstructorChain")
       /\ IsList(gs)
       /\ \A j \in DOMAIN gs : gs[j] = ChainFrame(u) \/ \E i \in DOMAIN fs : gs[j] = fs[i]
  <2>1. u = fs[Len(fs) - 2].id /\ p = IF HasParent(fs) THEN fs[Len(fs) - 3].id ELSE 0
    BY <1>1, <1>5
  <2> QED
    BY <1>1, <1>3, <1>14, <1>15, <2>1, ShortenedNames
<1>17. Holes(k.thunks, gs)
  BY <1>3, <1>6, <1>12, <1>16, HolesLink
<1>18. GoodFrame(ChainFrame(u), L, E)
  BY <1>9 DEF GoodFrame, ChainFrame
<1>19. \A j \in DOMAIN gs : GoodFrame(gs[j], L, E)
  BY <1>3, <1>16, <1>18
<1> QED
  BY <1>1, <1>2, <1>12, <1>16, <1>17, <1>19 DEF Working

LEMMA EvaluateStrictCtrStep ==
    ASSUME Inv, EvaluateStrictCtr
    PROVE  Inv'
<1>1. PICK a, fs, f : a = Fields /\ fs = Updating /\ f = ConstructorFrame(Thunk.term.name, a.ids, 1)
  OBVIOUS
<1>2. Evaluates("Ctr") /\ ByValue
  BY DEF EvaluateStrictCtr
<1>3. pc = "inspect" /\ Grown(Blackened, a, Len(Thunk.term.args), fs)
      /\ Thunk.term.args \in Seq(Terms[program])
  BY <1>1, <1>2, FieldsGive
<1>4. a.ok => Working(a.heap, fs) /\ Grows(heap, a.heap) /\ a.ids \in Seq(Live(a))
  BY <1>1, <1>2, FieldsGive
<1>5. a.ok => Head(a.ids) \in Live(a) /\ Len(a.ids) >= 1 /\ Len(a.ids) \in Nat
  <2> HAVE a.ok
  <2>1. PICK args, n : args = Thunk.term.args /\ n = Len(args)
    OBVIOUS
  <2>2. n \in Nat /\ n >= 1
    <3>1. args # <<>> /\ args \in Seq(Terms[program])
      BY <1>2, <1>3, <2>1 DEF ByValue
    <3>2. n # 0 /\ n \in Nat
      BY <2>1, <3>1, EmptySeq, LenProperties
    <3> QED
      BY <3>2
  <2>3. Head(a.ids) \in Live(a)
    BY <1>3, <2>1, <2>2, GrownLast
  <2> QED
    BY <1>3, <2>1, <2>2, <2>3 DEF Grown
<1>6. f.kind = "Constructor" /\ f.fields = a.ids /\ f.next = 1
      /\ f = ConstructorFrame(f.name, f.fields, f.next)
  BY <1>1 DEF ConstructorFrame
<1>7. f.kind \notin {"Update", "CompleteConstructorChain"}
  BY <1>6
<1>8. a.ok => GoodFrame(f, Live(a), Scoped(a))
  BY <1>4, <1>5, <1>6 DEF GoodFrame
<1>9. CASE ~Compressible(fs)
  <2>1. Demand(a, Append(fs, f), Head(a.ids))
    BY <1>1, <1>9 DEF EvaluateStrictCtr
  <2>2. a.ok => Working(a.heap, Append(fs, f))
    BY <1>4, <1>7, <1>8, FramePushed DEF Live, Scoped
  <2> QED
    BY <1>3, <1>4, <1>5, <2>1, <2>2, DemandStep
<1>10. CASE Compressible(fs)
  <2>1. PICK b, gs, k : b = [a EXCEPT !.heap = Linked(@, fs)] /\ gs = Shortened(fs)
                        /\ k = Linked(a.heap, fs)
    OBVIOUS
  <2>2. Demand(b, Append(gs, f), Head(a.ids))
    BY <1>1, <1>10, <2>1 DEF EvaluateStrictCtr
  <2>3. a = [heap |-> a.heap, ids |-> a.ids, ok |-> a.ok]
    BY <1>3 DEF Grown, Allotted
  <2>4. b = [heap |-> k, ids |-> a.ids, ok |-> a.ok]
    BY <2>1, <2>3
  <2>5. b.heap = k /\ b.ok = a.ok
    BY <2>4
  <2>6. a.ok => /\ Working(k, gs) /\ InUse(k.thunks) = InUse(a.heap.thunks)
                /\ InUse(k.environments) = InUse(a.heap.environments)
    BY <1>4, <1>10, <2>1, LinkedRight
  <2>7. a.ok => Grows(heap, k)
    BY <1>4, <2>6 DEF Grows
  <2>8. a.ok => Working(k, Append(gs, f))
    BY <1>7, <1>8, <2>6, FramePushed DEF Live, Scoped
  <2>9. b.ok => Working(b.heap, Append(gs, f)) /\ Grows(heap, b.heap) /\ Head(a.ids) \in Live(b)
    BY <1>5, <2>5, <2>6, <2>7, <2>8 DEF Live
  <2> QED
    BY <1>3, <2>2, <2>9, DemandStep
<1> QED
  BY <1>9, <1>10

-----------------------------------------------------------------------------
(***************************************************************************)
(* The value returns to a frame.                                           *)
(***************************************************************************)
LEMMA ReturnedRight ==
    ASSUME Inv, NEW kinds, Returns(kinds)
    PROVE  /\ pc = "return" /\ frames # <<>> /\ Top.kind \in kinds
           /\ Working(heap, frames) /\ Holes(heap.thunks, frames) /\ Sound(heap)
           /\ IsList(heap.thunks) /\ IsList(frames) /\ IsList(Rest)
           /\ GoodFrame(Top, InUse(heap.thunks), InUse(heap.environments))
           /\ GoodValue(value, InUse(heap.thunks), InUse(heap.environments))
           /\ \A k \in DOMAIN Rest :
                GoodFrame(Rest[k], InUse(heap.thunks), InUse(heap.environments))
           /\ Top.kind \notin {"Update", "CompleteConstructorChain"} => Working(heap, Rest)
<1>1. pc = "return" /\ frames # <<>> /\ Top.kind \in kinds
  BY DEF Returns
<1>2. Working(heap, frames) /\ GoodValue(value, InUse(heap.thunks), InUse(heap.environments))
  BY <1>1 DEF Inv, Held
<1>3. IsList(heap.thunks) /\ IsList(frames) /\ Holes(heap.thunks, frames) /\ Sound(heap)
  BY <1>2 DEF Working, Sound, Arena
<1> QED
  BY <1>1, <1>2, <1>3, FramePopped DEF Top, Rest

\* The heap as it is, and the frames below the innermost.
LEMMA RestAllotted ==
    ASSUME Inv, NEW fs, Working(heap, fs), NEW a, a = Same
    PROVE  /\ Allotted(a, fs) /\ a.heap = heap /\ a.ids = <<>> /\ a.ok
           /\ Working(a.heap, fs) /\ Grows(heap, a.heap)
           /\ Live(a) = InUse(heap.thunks) /\ Scoped(a) = InUse(heap.environments)
<1>1. Grows(heap, heap)
  BY DEF Grows
<1> QED
  BY <1>1, SameAllotted, ListEmpty DEF Same

LEMMA ReturnAnswerStep ==
    ASSUME Inv, ReturnAnswer
    PROVE  Inv'
<1>1. /\ pc = "return" /\ frames = <<>> /\ pc' = "answer"
      /\ UNCHANGED <<program, limits, heap, globals, roots, frames, current, value, reading, nodes>>
  BY DEF ReturnAnswer, settled
<1>2. Bounded'
  BY <1>1 DEF Inv, Bounded, Stages
<1>3. PICK L, E : L = InUse(heap'.thunks) /\ E = InUse(heap'.environments)
  OBVIOUS
<1>4. Held(L, E) /\ Working(heap', frames')
  BY <1>1, <1>3 DEF Inv
<1>5. /\ \A name \in DOMAIN globals' : globals'[name] \in L
      /\ current' \in L \cup {0} /\ pc' \notin {"safe", "inspect", "read"}
      /\ GoodValue(value', L, E)
      /\ roots' \in Seq(L) /\ Reading(roots', reading')
  BY <1>1, <1>4 DEF Held
<1> QED
  BY <1>1, <1>2, <1>3, <1>4, <1>5, InvNext

LEMMA ReturnUpdateStep ==
    ASSUME Inv, ReturnUpdate
    PROVE  Inv'
<1>1. PICK id, old, k, a : /\ id = Top.id /\ old = heap.thunks
                           /\ k = [heap EXCEPT !.thunks[id] = Ready(value)]
                           /\ a = Allotment(k, <<>>)
  OBVIOUS
<1>2. Returns({"Update"}) /\ Return(a, Rest, value)
  BY <1>1 DEF ReturnUpdate
<1>3. PICK L, E : L = InUse(heap.thunks) /\ E = InUse(heap.environments)
  OBVIOUS
<1>4. /\ pc = "return" /\ frames # <<>> /\ Top.kind = "Update"
      /\ Holes(old, frames) /\ Sound(heap) /\ IsList(old) /\ IsList(frames) /\ IsList(Rest)
      /\ GoodFrame(Top, L, E) /\ GoodValue(value, L, E)
      /\ \A j \in DOMAIN Rest : GoodFrame(Rest[j], L, E)
  BY <1>1, <1>2, <1>3, ReturnedRight
<1>5. Holes([old EXCEPT ![id] = Ready(value)], Rest)
  BY <1>1, <1>4, HolesUpdated DEF Top, Rest
<1>6. id \in L
  BY <1>1, <1>4 DEF GoodFrame
<1>7. PICK t : t = Ready(value)
  OBVIOUS
<1>8. GoodThunk(t, L, E) /\ t.kind # "Vacant"
  BY <1>4, <1>7 DEF GoodThunk, ThunkKinds, Ready
<1>9. /\ Sound(k) /\ k.thunks = [old EXCEPT ![id] = t]
      /\ InUse(k.thunks) = L /\ InUse(k.environments) = E
  BY <1>1, <1>3, <1>4, <1>6, <1>7, <1>8, PutThunk
<1>10. Working(k, Rest) /\ Grows(heap, k)
  BY <1>3, <1>4, <1>5, <1>7, <1>9 DEF Working, Grows
<1>11. a.heap = k
  BY <1>1 DEF Allotment
<1>12. GoodValue(value, Live(a), Scoped(a))
  BY <1>4, <1>9, <1>11 DEF Live, Scoped
<1> QED
  BY <1>2, <1>4, <1>10, <1>11, <1>12, ReturnStep

LEMMA ReturnArgumentStep ==
    ASSUME Inv, ReturnArgument
    PROVE  Inv'
<1>1. PICK a, f : a = Same /\ f = ResumeFrame(value, Top.id)
  OBVIOUS
<1>2. Returns({"Apply"}) /\ Demand(a, Append(Rest, f), Top.id)
  BY <1>1 DEF ReturnArgument
<1>3. PICK L, E : L = InUse(heap.thunks) /\ E = InUse(heap.environments)
  OBVIOUS
<1>4. /\ pc = "return" /\ Top.kind = "Apply" /\ GoodFrame(Top, L, E) /\ GoodValue(value, L, E)
      /\ Working(heap, Rest)
  BY <1>2, <1>3, ReturnedRight
<1>5. Top.id \in L
  BY <1>4 DEF GoodFrame
<1>6. GoodFrame(f, L, E) /\ f.kind \notin {"Update", "CompleteConstructorChain"}
  BY <1>1, <1>4, <1>5 DEF GoodFrame, ResumeFrame
<1>7. Working(heap, Append(Rest, f))
  BY <1>3, <1>4, <1>6, FramePushed
<1>8. Working(a.heap, Append(Rest, f)) /\ Grows(heap, a.heap) /\ Live(a) = L
  BY <1>1, <1>3, <1>7, RestAllotted
<1> QED
  BY <1>2, <1>4, <1>5, <1>8, DemandStep

LEMMA ReturnResumeStep ==
    ASSUME Inv, ReturnResume
    PROVE  Inv'
<1>1. PICK a, f, v : a = Same /\ f = CallFrame(Top.argument) /\ v = Top.function
  OBVIOUS
<1>2. Returns({"ResumeCall"}) /\ Return(a, Append(Rest, f), v)
  BY <1>1 DEF ReturnResume
<1>3. PICK L, E : L = InUse(heap.thunks) /\ E = InUse(heap.environments)
  OBVIOUS
<1>4. pc = "return" /\ Top.kind = "ResumeCall" /\ GoodFrame(Top, L, E) /\ Working(heap, Rest)
  BY <1>2, <1>3, ReturnedRight
<1>5. Top.argument \in L /\ GoodValue(v, L, E)
  BY <1>1, <1>4 DEF GoodFrame
<1>6. GoodFrame(f, L, E) /\ f.kind \notin {"Update", "CompleteConstructorChain"}
  BY <1>1, <1>5, ApplyFrameGood
<1>7. Working(heap, Append(Rest, f))
  BY <1>3, <1>4, <1>6, FramePushed
<1>8. Working(a.heap, Append(Rest, f)) /\ Grows(heap, a.heap) /\ Live(a) = L /\ Scoped(a) = E
  BY <1>1, <1>3, <1>7, RestAllotted
<1> QED
  BY <1>2, <1>4, <1>5, <1>8, ReturnStep

LEMMA ReturnFieldStep ==
    ASSUME Inv, ReturnField
    PROVE  Inv'
<1>1. PICK a, f : a = Same /\ f = [Top EXCEPT !.next = @ + 1]
  OBVIOUS
<1>2. Returns({"Constructor"}) /\ Demand(a, Append(Rest, f), Top.fields[Top.next + 1])
      /\ Top.next < Len(Top.fields)
  BY <1>1 DEF ReturnField
<1>3. PICK L, E : L = InUse(heap.thunks) /\ E = InUse(heap.environments)
  OBVIOUS
<1>4. pc = "return" /\ Top.kind = "Constructor" /\ GoodFrame(Top, L, E) /\ Working(heap, Rest)
  BY <1>2, <1>3, ReturnedRight
<1>5. PICK name, fields, next : name = Top.name /\ fields = Top.fields /\ next = Top.next
  OBVIOUS
<1>6. fields \in Seq(L) /\ next \in 1..Len(fields) /\ Top = ConstructorFrame(name, fields, next)
  BY <1>4, <1>5 DEF GoodFrame
<1>7. next + 1 \in 1..Len(fields) /\ fields[next + 1] \in L
  <2>1. Len(fields) \in Nat /\ next < Len(fields)
    BY <1>2, <1>5, <1>6, LenProperties
  <2>2. next + 1 \in 1..Len(fields)
    BY <1>6, <2>1
  <2> QED
    BY <1>6, <2>2, ElementOfSeq
<1>8. f = ConstructorFrame(name, fields, next + 1)
  BY <1>1, <1>6 DEF ConstructorFrame
<1>9. f.kind = "Constructor" /\ f.name = name /\ f.fields = fields /\ f.next = next + 1
  BY <1>8 DEF ConstructorFrame
<1>10. GoodFrame(f, L, E) /\ f.kind \notin {"Update", "CompleteConstructorChain"}
  BY <1>6, <1>7, <1>8, <1>9 DEF GoodFrame
<1>11. Working(heap, Append(Rest, f))
  BY <1>3, <1>4, <1>10, FramePushed
<1>12. Working(a.heap, Append(Rest, f)) /\ Grows(heap, a.heap) /\ Live(a) = L
  BY <1>1, <1>3, <1>11, RestAllotted
<1> QED
  BY <1>2, <1>4, <1>5, <1>7, <1>12, DemandStep

LEMMA ReturnConstructorStep ==
    ASSUME Inv, ReturnConstructor
    PROVE  Inv'
<1>1. PICK a, v : a = Same /\ v = Constructor(Top.name, Top.fields)
  OBVIOUS
<1>2. Returns({"Constructor"}) /\ Return(a, Rest, v)
  BY <1>1 DEF ReturnConstructor
<1>3. PICK L, E : L = InUse(heap.thunks) /\ E = InUse(heap.environments)
  OBVIOUS
<1>4. pc = "return" /\ Top.kind = "Constructor" /\ GoodFrame(Top, L, E) /\ Working(heap, Rest)
  BY <1>2, <1>3, ReturnedRight
<1>5. GoodValue(v, L, E)
  BY <1>1, <1>4 DEF GoodFrame, GoodValue, Constructor
<1>6. Working(a.heap, Rest) /\ Grows(heap, a.heap) /\ Live(a) = L /\ Scoped(a) = E
  BY <1>1, <1>3, <1>4, RestAllotted
<1> QED
  BY <1>2, <1>4, <1>5, <1>6, ReturnStep

\* The heap with another thunk in one slot.
Put(h, id, t) == [h EXCEPT !.thunks[id] = t]

LEMMA PutRight ==
    ASSUME NEW h, Sound(h), NEW id \in InUse(h.thunks), NEW t, t.kind # "Vacant",
           GoodThunk(t, InUse(h.thunks), InUse(h.environments))
    PROVE  /\ Sound(Put(h, id, t))
           /\ InUse(Put(h, id, t).thunks) = InUse(h.thunks)
           /\ InUse(Put(h, id, t).environments) = InUse(h.environments)
  BY PutThunk DEF Put

\* A chain that is not on the frames yet is pushed.
LEMMA ChainPushed ==
    ASSUME NEW fs, IsList(fs), NEW f, f.kind = "CompleteConstructorChain",
           EachOnce(fs, "Update"), EachOnce(fs, "CompleteConstructorChain"),
           f.id \notin Names(fs, "CompleteConstructorChain"), NEW L, NEW E, GoodFrame(f, L, E),
           \A j \in DOMAIN fs : GoodFrame(fs[j], L, E)
    PROVE  /\ Names(Append(fs, f), "Update") = Names(fs, "Update")
           /\ EachOnce(Append(fs, f), "Update")
           /\ Names(Append(fs, f), "CompleteConstructorChain") =
                Names(fs, "CompleteConstructorChain") \cup {f.id}
           /\ EachOnce(Append(fs, f), "CompleteConstructorChain")
           /\ IsList(Append(fs, f))
           /\ \A j \in DOMAIN Append(fs, f) : GoodFrame(Append(fs, f)[j], L, E)
<1>1. PICK U, C : U = "Update" /\ C = "CompleteConstructorChain"
  OBVIOUS
<1>2. f.kind = C /\ f.kind # U
  BY <1>1
<1>3. Names(Append(fs, f), U) = Names(fs, U) /\ EachOnce(Append(fs, f), U)
  BY <1>1, <1>2, PushNames
<1>4. Names(Append(fs, f), C) = Names(fs, C) \cup {f.id} /\ EachOnce(Append(fs, f), C)
  <2>1. EachOnce(fs, C) /\ f.id \notin Names(fs, C)
    BY <1>1
  <2> QED
    BY <1>2, <2>1, PushNames
<1>5. PICK gs, n : gs = Append(fs, f) /\ n = Len(fs) + 1
  OBVIOUS
<1>6. /\ IsList(gs) /\ gs[n] = f
      /\ \A j \in DOMAIN fs : gs[j] = fs[j]
      /\ \A j \in DOMAIN gs : j \in DOMAIN fs \/ j = n
  BY <1>5, ListAppend
<1>7. \A j \in DOMAIN gs : GoodFrame(gs[j], L, E)
  BY <1>6
<1> QED
  BY <1>1, <1>3, <1>4, <1>5, <1>6, <1>7

\* The head of a chain is finished, and the next one becomes the head.
Unchains(h, fs, id, p, v, gs, t, k) ==
    /\ Working(h, fs) /\ fs # <<>> /\ Last(fs).kind = "CompleteConstructorChain"
    /\ id = Last(fs).id /\ p = h.thunks[id].parent
    /\ GoodValue(v, InUse(h.thunks), InUse(h.environments))
    /\ p = 0 => gs = Front(fs)
    /\ p # 0 => gs = Append(Front(fs), ChainFrame(p))
    /\ t = Ready(v) /\ k = Put(h, id, t)

LEMMA UnchainedRight ==
    ASSUME NEW h, NEW fs, NEW id, NEW p, NEW v, NEW gs, NEW t, NEW k,
           Unchains(h, fs, id, p, v, gs, t, k)
    PROVE  /\ Working(k, gs) /\ InUse(k.thunks) = InUse(h.thunks)
           /\ InUse(k.environments) = InUse(h.environments)
<1> USE DEF Unchains
<1> DEFINE U == "Update"
           C == "CompleteConstructorChain"
<1>1. PICK old, L, E, rest : /\ old = h.thunks /\ L = InUse(h.thunks)
                             /\ E = InUse(h.environments) /\ rest = Front(fs)
  OBVIOUS
<1>2. /\ Sound(h) /\ Holes(old, fs) /\ IsList(fs) /\ IsList(old)
      /\ GoodFrame(Last(fs), L, E) /\ IsList(rest)
      /\ \A j \in DOMAIN rest : GoodFrame(rest[j], L, E)
  BY <1>1, FramePopped DEF Working, Sound, Arena
<1>3. EachOnce(fs, U) /\ EachOnce(fs, C)
  BY <1>2 DEF Holes
<1>4. Names(rest, C) = Names(fs, C) \ {id} /\ id \in Names(fs, C) /\ EachOnce(rest, C)
  BY <1>1, <1>2, <1>3, PopNames
<1>5. Names(rest, U) = Names(fs, U) /\ EachOnce(rest, U)
  <2>1. Last(fs).kind # U
    OBVIOUS
  <2> QED
    BY <1>1, <1>2, <1>3, <2>1, PopNames
<1>6. id \in Heads(fs) /\ id \in L
  BY <1>2, <1>4, NamesAre DEF GoodFrame
<1>7. id \in DOMAIN old /\ old[id].kind = "Pending"
  BY <1>2, <1>6 DEF Holes, PendingIn
<1>8. p \in L \cup {0}
  <2>1. GoodThunk(old[id], L, E)
    BY <1>1, <1>2, <1>7 DEF Sound, Closed
  <2> QED
    BY <1>1, <1>7, <2>1 DEF GoodThunk
<1>10. GoodThunk(t, L, E) /\ t.kind # "Vacant"
  BY <1>1 DEF GoodThunk, ThunkKinds, Ready
<1>11. /\ Sound(k) /\ k.thunks = [old EXCEPT ![id] = t]
       /\ InUse(k.thunks) = L /\ InUse(k.environments) = E
  <2>1. id \in InUse(h.thunks) /\ GoodThunk(t, InUse(h.thunks), InUse(h.environments))
    BY <1>1, <1>6, <1>10
  <2>2. PICK m : m = Put(h, id, t)
    OBVIOUS
  <2>3. /\ Sound(m) /\ InUse(m.thunks) = InUse(h.thunks)
        /\ InUse(m.environments) = InUse(h.environments)
    BY <1>2, <1>10, <2>1, <2>2, PutRight
  <2>4. m.thunks = [h.thunks EXCEPT ![id] = t]
    BY <1>2, <2>2 DEF Sound, Shape, Put
  <2> QED
    BY <1>1, <2>2, <2>3, <2>4
<1>12. /\ Names(gs, U) = Names(fs, U) /\ EachOnce(gs, U)
       /\ Names(gs, C) = (Names(fs, C) \ {id}) \cup ({p} \ {0}) /\ EachOnce(gs, C)
       /\ IsList(gs) /\ \A j \in DOMAIN gs : GoodFrame(gs[j], L, E)
  <2>1. CASE p = 0
    <3>1. gs = rest /\ {p} \ {0} = {}
      BY <1>1, <2>1
    <3> QED
      BY <1>2, <1>4, <1>5, <3>1
  <2>2. CASE p # 0
    <3>1. PICK f : f = ChainFrame(p)
      OBVIOUS
    <3>2. f.kind = "CompleteConstructorChain" /\ f.id = p /\ gs = Append(rest, f)
      BY <1>1, <2>2, <3>1 DEF ChainFrame
    <3>3. p \notin Heads(fs)
      <4>1. old[id].parent # 0
        BY <1>1, <2>2
      <4> QED
        BY <1>1, <1>2, <1>6, <4>1, ParentNoHead
    <3>4. f.id \notin Names(rest, "CompleteConstructorChain")
      BY <1>4, <3>2, <3>3, NamesAre
    <3>5. GoodFrame(f, L, E)
      BY <1>8, <2>2, <3>1 DEF GoodFrame, ChainFrame
    <3>6. PICK hs : hs = Append(rest, f)
      OBVIOUS
    <3>7. /\ Names(hs, "Update") = Names(rest, "Update") /\ EachOnce(hs, "Update")
          /\ Names(hs, "CompleteConstructorChain") = Names(rest, "CompleteConstructorChain") \cup {f.id}
          /\ EachOnce(hs, "CompleteConstructorChain")
          /\ IsList(hs) /\ \A j \in DOMAIN hs : GoodFrame(hs[j], L, E)
      <4>1. EachOnce(rest, "Update") /\ EachOnce(rest, "CompleteConstructorChain")
        BY <1>4, <1>5
      <4> QED
        BY <1>2, <3>2, <3>4, <3>5, <3>6, <4>1, ChainPushed
    <3>8. gs = hs /\ {p} \ {0} = {f.id}
      BY <2>2, <3>2, <3>6
    <3> QED
      BY <1>4, <1>5, <3>7, <3>8
  <2> QED
    BY <2>1, <2>2
<1>13. /\ Updates(gs) = Updates(fs) /\ EachOnce(gs, U) /\ EachOnce(gs, C)
       /\ Heads(gs) = (Heads(fs) \ {id}) \cup ({p} \ {0})
  BY <1>12, NamesAre
<1>14. Holes([old EXCEPT ![id] = Ready(v)], gs)
  <2>1. p = old[id].parent
    BY <1>1
  <2> QED
    BY <1>2, <1>6, <1>13, <2>1, HolesUnlink
<1> QED
  BY <1>1, <1>11, <1>12, <1>14 DEF Working

LEMMA ReturnChainStep ==
    ASSUME Inv, ReturnChain
    PROVE  Inv'
<1>1. PICK id, pending, v, k, a, p, gs :
        /\ id = Top.id /\ pending = heap.thunks[id] /\ p = pending.parent
        /\ v = Constructor(pending.name, pending.fields)
        /\ k = [heap EXCEPT !.thunks[id] = Ready(v)] /\ a = Allotment(k, <<>>)
        /\ gs = IF p = 0 THEN Rest ELSE Append(Rest, ChainFrame(p))
  OBVIOUS
<1>2. /\ Returns({"CompleteConstructorChain"})
      /\ IF pending.kind # "Pending" THEN Fail("invalid chain") ELSE Return(a, gs, v)
  BY <1>1 DEF ReturnChain
<1>3. PICK L, E : L = InUse(heap.thunks) /\ E = InUse(heap.environments)
  OBVIOUS
<1>4. /\ pc = "return" /\ frames # <<>> /\ Top.kind = "CompleteConstructorChain"
      /\ Working(heap, frames) /\ Sound(heap) /\ GoodFrame(Top, L, E)
  <2>1. PICK kinds : kinds = {"CompleteConstructorChain"}
    OBVIOUS
  <2>2. Returns(kinds)
    BY <1>2, <2>1
  <2>3. /\ pc = "return" /\ frames # <<>> /\ Top.kind \in kinds
        /\ Working(heap, frames) /\ Sound(heap)
        /\ GoodFrame(Top, InUse(heap.thunks), InUse(heap.environments))
    BY <2>2, ReturnedRight
  <2> QED
    BY <1>3, <2>1, <2>3
<1>5. CASE pending.kind # "Pending"
  BY <1>2, <1>5, FailStep
<1>6. CASE pending.kind = "Pending"
  <2>1. id \in L /\ id \in DOMAIN heap.thunks
    BY <1>1, <1>3, <1>4 DEF GoodFrame, InUse
  <2>2. GoodThunk(pending, L, E)
    BY <1>1, <1>3, <1>4, <2>1 DEF Sound, Closed
  <2>3. GoodValue(v, L, E)
    BY <1>1, <1>6, <2>2 DEF GoodThunk, GoodValue, Constructor
  <2>4. Working(k, gs) /\ InUse(k.thunks) = L /\ InUse(k.environments) = E
    <3>1. PICK h, fs : h = heap /\ fs = frames
      OBVIOUS
    <3>2. /\ Working(h, fs) /\ fs # <<>> /\ Last(fs).kind = "CompleteConstructorChain"
          /\ id = Last(fs).id /\ p = h.thunks[id].parent
      BY <1>1, <1>4, <3>1 DEF Top
    <3>3. GoodValue(v, InUse(h.thunks), InUse(h.environments))
      BY <1>3, <2>3, <3>1
    <3>4. /\ p = 0 => gs = Front(fs)
          /\ p # 0 => gs = Append(Front(fs), ChainFrame(p))
      BY <1>1, <3>1 DEF Rest
    <3>5. PICK t : t = Ready(v)
      OBVIOUS
    <3>6. k = Put(h, id, t)
      BY <1>1, <3>1, <3>5 DEF Put
    <3>7. /\ Working(k, gs) /\ InUse(k.thunks) = InUse(h.thunks)
          /\ InUse(k.environments) = InUse(h.environments)
      <4>1. Unchains(h, fs, id, p, v, gs, t, k)
        BY <3>2, <3>3, <3>4, <3>5, <3>6 DEF Unchains
      <4> QED
        BY <4>1, UnchainedRight
    <3> QED
      BY <1>3, <3>1, <3>7
  <2>5. a.heap = k /\ Grows(heap, k)
    BY <1>1, <1>3, <2>4 DEF Allotment, Grows
  <2>6. Live(a) = L /\ Scoped(a) = E
    BY <2>4, <2>5 DEF Live, Scoped
  <2> QED
    BY <1>2, <1>4, <1>6, <2>3, <2>4, <2>5, <2>6, ReturnStep
<1> QED
  BY <1>5, <1>6

\* What a call has.
LEMMA CallRight ==
    ASSUME Inv, Calls
    PROVE  /\ pc = "return" /\ Working(heap, Rest) /\ Top.id \in InUse(heap.thunks)
           /\ GoodValue(value, InUse(heap.thunks), InUse(heap.environments))
<1>1. Returns({"Apply", "Call"})
  BY DEF Calls
<1>2. PICK kinds : kinds = {"Apply", "Call"}
  OBVIOUS
<1>3. /\ pc = "return" /\ Top.kind \in kinds
      /\ GoodFrame(Top, InUse(heap.thunks), InUse(heap.environments))
      /\ GoodValue(value, InUse(heap.thunks), InUse(heap.environments))
      /\ Top.kind \notin {"Update", "CompleteConstructorChain"} => Working(heap, Rest)
  BY <1>1, <1>2, ReturnedRight
<1> QED
  BY <1>2, <1>3 DEF GoodFrame

LEMMA CallClosureStep ==
    ASSUME Inv, CallClosure
    PROVE  Inv'
<1>1. PICK s, a, b, o :
        /\ o = Same /\ s = Scope(value.environment, <<value.binder>>, <<Top.id>>)
        /\ a = AllocateScope(o, s) /\ b = Expression(a, value.body, Last(a.ids))
  OBVIOUS
<1>2. Calls /\ value.kind = "Closure" /\ Demand(b, Rest, Last(b.ids))
  BY <1>1 DEF CallClosure
<1>3. PICK L, E : L = InUse(heap.thunks) /\ E = InUse(heap.environments)
  OBVIOUS
<1>4. pc = "return" /\ Working(heap, Rest) /\ Top.id \in L /\ GoodValue(value, L, E)
  BY <1>2, <1>3, CallRight
<1>5. value.environment \in E /\ value.body \in Terms[program]
  BY <1>2, <1>4 DEF GoodValue
<1>6. Allotted(o, Rest) /\ o.ok /\ Live(o) = L /\ Scoped(o) = E /\ limits.arena \in Nat
  BY <1>1, <1>3, <1>4, RestAllotted, SetRight
<1>7. s.kind = "Scope" /\ GoodScope(s, L, E)
  <2>1. s.kind = "Scope" /\ s.parent = value.environment
        /\ s.ids = <<value.binder>> /\ s.thunks = <<Top.id>>
    BY <1>1 DEF Scope
  <2>2. <<Top.id>> \in Seq(L)
    BY <1>4
  <2>3. DOMAIN <<Top.id>> = DOMAIN <<value.binder>>
    OBVIOUS
  <2> QED
    BY <1>5, <2>1, <2>2, <2>3 DEF GoodScope
<1>8. Allotted(a, Rest) /\ (a.ok => o.ok /\ Grows(o.heap, a.heap) /\ Last(a.ids) \in Scoped(a))
  BY <1>1, <1>6, <1>7, AllocateScopeGives
<1>9. Gives(a, b, Rest)
  BY <1>1, <1>5, <1>8, ExpressionGives
<1>10. b.ok => Working(b.heap, Rest) /\ Grows(heap, b.heap) /\ Last(b.ids) \in Live(b)
  BY <1>8, <1>9, GivesLast DEF Gives, Allotted
<1> QED
  BY <1>2, <1>4, <1>10, DemandStep

LEMMA CallMatchStep ==
    ASSUME Inv, CallMatch
    PROVE  Inv'
<1>1. Calls
  BY DEF CallMatch
<1>2. CASE value.kind # "Match"
  BY <1>2, FailStep DEF CallMatch
<1>3. CASE value.kind = "Match"
  <2>1. PICK a, f : a = Same /\ f = MatchFrame(value, Top.id)
    OBVIOUS
  <2>2. Demand(a, Append(Rest, f), Top.id)
    BY <1>3, <2>1 DEF CallMatch
  <2>3. PICK L, E : L = InUse(heap.thunks) /\ E = InUse(heap.environments)
    OBVIOUS
  <2>4. pc = "return" /\ Working(heap, Rest) /\ Top.id \in L /\ GoodValue(value, L, E)
    BY <1>1, <2>3, CallRight
  <2>5. GoodFrame(f, L, E) /\ f.kind \notin {"Update", "CompleteConstructorChain"}
    BY <1>3, <2>1, <2>4 DEF GoodFrame, GoodValue, MatchFrame
  <2>6. Working(heap, Append(Rest, f))
    BY <2>3, <2>4, <2>5, FramePushed
  <2>7. Working(a.heap, Append(Rest, f)) /\ Grows(heap, a.heap) /\ Live(a) = L
    BY <2>1, <2>3, <2>6, RestAllotted
  <2> QED
    BY <2>2, <2>4, <2>7, DemandStep
<1> QED
  BY <1>2, <1>3

LEMMA ReturnMatchStep ==
    ASSUME Inv, ReturnMatch
    PROVE  Inv'
<1>1. Returns({"Match"})
  BY DEF ReturnMatch
<1>2. PICK L, E : L = InUse(heap.thunks) /\ E = InUse(heap.environments)
  OBVIOUS
<1>3. /\ pc = "return" /\ Top.kind = "Match" /\ GoodFrame(Top, L, E) /\ GoodValue(value, L, E)
      /\ Working(heap, Rest)
  BY <1>1, <1>2, ReturnedRight
<1>4. Top.arm \in L /\ Top.fallback \in L /\ Top.argument \in L
  BY <1>3 DEF GoodFrame
<1>5. CASE value.kind # "Constructor"
  BY <1>5, FailStep DEF ReturnMatch
<1>6. CASE value.kind = "Constructor" /\ value.name = Top.constructor
  <2>1. PICK o, a, fields : /\ o = Allotment(heap, <<Top.arm>>) /\ fields = value.fields
                            /\ a = Applications(o, fields)
    OBVIOUS
  <2>2. Demand(a, Rest, Last(a.ids))
    BY <1>6, <2>1 DEF ReturnMatch
  <2>3. IsList(<<Top.arm>>)
    <3>1. <<Top.arm>> \in Seq(L)
      BY <1>4
    <3> QED
      BY <3>1 DEF IsList
  <2>4. /\ Allotted(o, Rest) /\ o.heap = heap /\ o.ids = <<Top.arm>> /\ o.ok /\ Live(o) = L
    BY <1>2, <1>3, <2>1, <2>3, SameAllotted
  <2>5. fields \in Seq(Live(o)) /\ Top.arm \in Live(o)
    BY <1>3, <1>4, <1>6, <2>1, <2>4 DEF GoodValue
  <2>6. PICK n : n = Len(fields) + 1
    OBVIOUS
  <2>7. Grown(o, a, n, Rest) /\ n \in Nat /\ n >= 1
    <3>1. Grown(o, Applications(o, fields), Len(fields) + 1, Rest)
      BY <2>4, <2>5, ApplicationsGive
    <3> QED
      BY <2>1, <2>5, <2>6, <3>1, LenProperties
  <2>8. a.ok => Working(a.heap, Rest) /\ Grows(heap, a.heap) /\ Last(a.ids) \in Live(a)
    BY <2>7, GrownLast DEF Grown, Allotted
  <2> QED
    BY <1>3, <2>2, <2>8, DemandStep
<1>7. CASE value.kind = "Constructor" /\ value.name # Top.constructor
  <2>1. PICK o, a : o = Same /\ a = Allocate(o, Application(Top.fallback, Top.argument))
    OBVIOUS
  <2>2. Demand(a, Rest, Last(a.ids))
    BY <1>7, <2>1 DEF ReturnMatch
  <2>3. Allotted(o, Rest) /\ Live(o) = L
    BY <1>2, <1>3, <2>1, RestAllotted
  <2>4. Gives(o, a, Rest)
    BY <1>4, <2>1, <2>3, ApplicationGives
  <2>5. a.ok => Working(a.heap, Rest) /\ Grows(heap, a.heap) /\ Last(a.ids) \in Live(a)
    BY <2>3, <2>4, GivesLast DEF Gives, Allotted
  <2> QED
    BY <1>3, <2>2, <2>5, DemandStep
<1> QED
  BY <1>5, <1>6, <1>7

-----------------------------------------------------------------------------
(***************************************************************************)
(* An invocation is entered, read out and ends.                            *)
(***************************************************************************)
LEMMA EnterStep ==
    ASSUME Inv, Enter
    PROVE  Inv'
<1>1. CASE ~Entered.ok
  BY <1>1, FailStep DEF Enter
<1>2. CASE Entered.ok
  <2>1. PICK b, id, name : b = Entered /\ id = Head(Entered.ids) /\ name = Text.entry
    OBVIOUS
  <2>2. /\ pc = "start" /\ heap' = b.heap /\ globals' = Known(name, id)
        /\ current' = Last(b.ids) /\ pc' = "read" /\ frames' = frames
        /\ program' = program /\ limits' = limits /\ roots' = roots /\ reading' = reading
        /\ nodes' = nodes
    BY <1>2, <2>1 DEF Enter, settled
  <2>3. PICK n \in Nat : n >= 1 /\ Grown(Same, b, n, frames)
    BY <2>1, EnteredGives
  <2>4. b.ok
    BY <1>2, <2>1
  <2>5. Working(b.heap, frames) /\ Grows(heap, b.heap)
    BY <2>3, <2>4 DEF Grown, Allotted
  <2>6. Last(b.ids) \in Live(b) /\ id \in Live(b)
    BY <2>1, <2>3, <2>4, GrownLast
  <2>7. PICK L, E : L = InUse(heap'.thunks) /\ E = InUse(heap'.environments)
    OBVIOUS
  <2>8. L = Live(b) /\ E = InUse(b.heap.environments)
    BY <2>2, <2>7 DEF Live
  <2>9. Held(L, E)
    <3>1. Held(InUse(heap.thunks), InUse(heap.environments))
      BY DEF Inv
    <3>2. InUse(heap.thunks) \subseteq L /\ InUse(heap.environments) \subseteq E
      BY <2>5, <2>8 DEF Grows, Live
    <3> QED
      BY <3>1, <3>2, HeldGrows
  <2>10. \A x \in DOMAIN globals' : globals'[x] \in L
    <3>1. \A x \in DOMAIN globals : globals[x] \in L
      BY <2>9 DEF Held
    <3>2. id \in L
      BY <2>6, <2>8
    <3> QED
      BY <2>2, <3>1, <3>2, KnownRight
  <2>11. Bounded'
    BY <2>2 DEF Inv, Bounded, Stages
  <2>12. current' \in L /\ pc' = "read" /\ roots' \in Seq(L) /\ Reading(roots', reading')
    BY <2>2, <2>6, <2>8, <2>9 DEF Held
  <2>13. Working(heap', frames')
    BY <2>2, <2>5
  <2>14. program' = program /\ limits' = limits
    BY <2>2
  <2> QED
    BY <2>7, <2>10, <2>11, <2>12, <2>13, <2>14, InvNext
<1> QED
  BY <1>1, <1>2

LEMMA ProceedStep ==
    ASSUME Inv, Proceed
    PROVE  Inv'
<1>1. /\ pc = "safe" /\ pc' = "inspect"
      /\ UNCHANGED <<program, limits, heap, globals, roots, frames, current, reading, nodes>>
  BY DEF Proceed, settled
<1>2. Grows(heap, heap') /\ Working(heap', frames') /\ Len(frames') <= limits.frames
  BY <1>1 DEF Grows, Inv, Bounded
<1>3. PICK L, E : L = InUse(heap'.thunks) /\ E = InUse(heap'.environments)
  OBVIOUS
<1>4. current' \in L
  BY <1>1, <1>3 DEF Inv, Held
<1>5. pc # "failed" /\ pc' \in Stages \ {"start", "read", "answer", "built"} /\ pc' # "return"
  BY <1>1 DEF Stages
<1> QED
  BY <1>1, <1>2, <1>3, <1>4, <1>5, HeldNext

\* The heap and the frames are left alone.
LEMMA ReaderStep ==
    ASSUME Inv, UNCHANGED <<program, limits, heap, globals, frames>>, frames = <<>>,
           pc' \in Stages, pc' \notin {"inspect", "return", "answer", "failed"},
           nodes' \in Nat, nodes' <= limits.nodes,
           roots' \in Seq(InUse(heap.thunks)), Len(roots') <= limits.arena,
           Reading(roots', reading'),
           current' \in InUse(heap.thunks) \cup {0},
           pc' \in {"read", "safe"} => current' \in InUse(heap.thunks)
    PROVE  Inv'
<1>1. PICK L, E : L = InUse(heap'.thunks) /\ E = InUse(heap'.environments)
  OBVIOUS
<1>2. L = InUse(heap.thunks) /\ E = InUse(heap.environments) /\ Held(L, E)
  BY <1>1 DEF Inv
<1>3. roots' \in Seq(Nat)
  BY DEF Reading
<1>4. Bounded'
  BY <1>3 DEF Inv, Bounded
<1>5. Working(heap', frames')
  BY DEF Inv
<1>6. \A name \in DOMAIN globals' : globals'[name] \in L
  BY <1>2 DEF Held
<1>7. /\ current' \in L \cup {0}
      /\ pc' \in {"safe", "inspect", "read"} => current' \in L
      /\ pc' \notin {"return", "answer"} /\ roots' \in Seq(L)
  BY <1>2
<1> QED
  BY <1>1, <1>4, <1>5, <1>6, <1>7, InvNext

LEMMA FinishStep ==
    ASSUME Inv, Finish
    PROVE  Inv'
<1>1. /\ pc = "built" /\ pc' = "done"
      /\ UNCHANGED <<program, limits, heap, globals, roots, frames, current, reading, nodes>>
  BY DEF Finish, settled
<1>2. /\ frames = <<>> /\ nodes \in Nat /\ nodes <= limits.nodes /\ Len(roots) <= limits.arena
      /\ Held(InUse(heap.thunks), InUse(heap.environments))
  BY <1>1 DEF Inv, Bounded
<1>3. /\ roots \in Seq(InUse(heap.thunks)) /\ Reading(roots, reading)
      /\ current \in InUse(heap.thunks) \cup {0}
  BY <1>1, <1>2 DEF Held
<1>4. pc' \in Stages /\ pc' \notin {"safe", "inspect", "return", "answer", "failed", "read"}
  BY <1>1 DEF Stages
<1> QED
  BY <1>1, <1>2, <1>3, <1>4, ReaderStep

LEMMA ReadStep ==
    ASSUME Inv, Read
    PROVE  Inv'
<1>1. CASE Len(reading) > limits.depth \/ nodes >= limits.nodes
  BY <1>1, FailStep DEF Read
<1>2. CASE ~(Len(reading) > limits.depth \/ nodes >= limits.nodes)
  <2>1. /\ pc = "read" /\ pc' = "safe" /\ nodes' = nodes + 1 /\ ~(nodes >= limits.nodes)
        /\ UNCHANGED <<program, limits, heap, globals, roots, frames, current, reading>>
    BY <1>2 DEF Read, readers
  <2>2. /\ frames = <<>> /\ nodes \in Nat /\ Len(roots) <= limits.arena
        /\ Held(InUse(heap.thunks), InUse(heap.environments))
    BY <2>1 DEF Inv, Bounded
  <2>3. nodes' \in Nat /\ nodes' <= limits.nodes
    <3>1. limits.nodes \in Nat
      BY SetRight
    <3> QED
      BY <2>1, <2>2, <3>1
  <2>4. /\ roots \in Seq(InUse(heap.thunks)) /\ Reading(roots, reading)
        /\ current \in InUse(heap.thunks)
    BY <2>1, <2>2 DEF Held
  <2>5. pc' \in Stages
    BY <2>1 DEF Stages
  <2> QED
    BY <2>1, <2>2, <2>3, <2>4, <2>5, ReaderStep
<1> QED
  BY <1>1, <1>2

LEMMA AbortStep ==
    ASSUME Inv, Abort
    PROVE  Inv'
  BY FailStep DEF Abort

LEMMA StutterStep ==
    ASSUME Inv, UNCHANGED machine
    PROVE  Inv'
<1>1. UNCHANGED <<program, limits, heap, globals, roots, frames, current, value, reading, nodes, pc>>
  BY DEF machine
<1>2. PICK L, E : L = InUse(heap'.thunks) /\ E = InUse(heap'.environments)
  OBVIOUS
<1>3. Bounded' /\ Working(heap', frames') /\ Held(L, E)
  BY <1>1, <1>2 DEF Inv, Bounded, Stages
<1>4. /\ \A name \in DOMAIN globals' : globals'[name] \in L
      /\ current' \in L \cup {0}
      /\ pc' \in {"safe", "inspect", "read"} => current' \in L
      /\ pc' \in {"return", "answer"} => GoodValue(value', L, E)
      /\ pc' # "failed" => roots' \in Seq(L) /\ Reading(roots', reading')
  BY <1>1, <1>3 DEF Held
<1> QED
  BY <1>1, <1>2, <1>3, <1>4, InvNext

LEMMA RisesTo ==
    ASSUME NEW m, m \in Nat, NEW from,
           \A j \in 1..(m + 1) : from[j] \in Nat, \A j \in 1..m : from[j] <= from[j + 1],
           NEW k, k \in 1..(m + 1)
    PROVE  from[k] <= from[m + 1]
<1> DEFINE S == {d \in Nat : d <= m => from[(m + 1) - d] <= from[m + 1]}
<1>1. 0 \in S
  BY SMT
<1>2. ASSUME NEW d \in Nat, d \in S PROVE d + 1 \in S
  <2> SUFFICES ASSUME d + 1 <= m PROVE from[(m + 1) - (d + 1)] <= from[m + 1]
    OBVIOUS
  <2>1. PICK j : j = (m + 1) - (d + 1)
    OBVIOUS
  <2>2. j \in 1..m /\ j + 1 = (m + 1) - d /\ j + 1 \in 1..(m + 1) /\ j \in 1..(m + 1)
    BY <2>1
  <2>3. from[j + 1] <= from[m + 1]
    BY <1>2, <2>2
  <2>4. from[j] \in Nat /\ from[j + 1] \in Nat /\ from[m + 1] \in Nat /\ from[j] <= from[j + 1]
    BY <2>2
  <2>5. from[j] <= from[m + 1]
    BY <2>3, <2>4
  <2> QED
    BY <2>1, <2>5
<1> HIDE DEF S
<1>3. Nat \subseteq S
  BY <1>1, <1>2, SetInduction
<1>4. PICK d : d = (m + 1) - k
  OBVIOUS
<1>5. d \in Nat /\ (m + 1) - d = k /\ d <= m
  BY <1>4
<1>6. d \in S
  BY <1>3, <1>5
<1> QED
  BY <1>5, <1>6 DEF S

\* The roots of a constructor begin before the last one, or where all end.
LEMMA OffsetsUp ==
    ASSUME NEW rs, rs \in Seq(Nat), NEW rd, IsList(rd), \A k \in DOMAIN rd : Call(rd[k]),
           NEW from, Offsets(from, rs, rd), NEW m, m = Len(rd)
    PROVE  /\ \A k \in 1..(m + 1) : from[k] <= Len(rs)
           /\ \A k \in 1..m : from[k] <= from[m]
<1>1. m \in Nat /\ Len(rs) \in Nat /\ DOMAIN rd = 1..m
  BY ListIs, LenProperties
<1>2. /\ \A j \in 1..(m + 1) : from[j] \in Nat
      /\ from[m + 1] = Len(rs)
      /\ \A j \in 1..m : from[j] <= from[j + 1]
  <2>1. from \in [1..(m + 1) -> Nat] /\ from[m + 1] = Len(rs)
    BY DEF Offsets
  <2>2. ASSUME NEW j \in 1..m PROVE from[j] <= from[j + 1]
    <3>1. from[j + 1] = from[j] + Len(rd[j].fields) /\ Len(rd[j].fields) \in Nat
      BY <1>1, <2>2, LenProperties DEF Call, Offsets
    <3>2. j \in 1..(m + 1) /\ from[j] \in Nat
      BY SMTT(30), <1>1, <2>1
    <3> QED
      BY <3>1, <3>2
  <2> QED
    BY <2>1, <2>2
<1>3. \A k \in 1..(m + 1) : from[k] <= from[m + 1]
  BY <1>1, <1>2, RisesTo
<1>4. ASSUME NEW k \in 1..m PROVE from[k] <= from[m]
  <2>1. PICK p : p = m - 1
    OBVIOUS
  <2>2. p \in Nat /\ p + 1 = m /\ k \in 1..(p + 1)
    BY <1>1, <1>4, <2>1
  <2>3. \A j \in 1..(p + 1) : from[j] \in Nat
    BY <1>1, <1>2, <2>2
  <2>4. \A j \in 1..p : from[j] <= from[j + 1]
    BY <1>1, <1>2, <2>2
  <2>5. from[k] <= from[p + 1]
    BY <2>2, <2>3, <2>4, RisesTo
  <2> QED
    BY <2>2, <2>5
<1> QED
  BY <1>2, <1>3, <1>4

-----------------------------------------------------------------------------
\* Another constructor is read.
LEMMA ReadingPushed ==
    ASSUME NEW rs, NEW rd, Reading(rs, rd), NEW fields, fields \in Seq(Nat), fields # <<>>,
           NEW c, c = [name |-> c.name, fields |-> fields, args |-> <<>>]
    PROVE  Reading(rs \o fields, Append(rd, c))
<1>1. PICK from : Offsets(from, rs, rd)
  BY DEF Reading
<1>2. PICK m, n, now, more, at :
        /\ m = Len(rd) /\ n = Len(rs) /\ now = rs \o fields /\ more = Append(rd, c)
        /\ at = [k \in 1..(m + 2) |-> IF k = m + 2 THEN n + Len(fields) ELSE from[k]]
  OBVIOUS
<1>3. /\ rs \in Seq(Nat) /\ n \in Nat /\ IsList(rd) /\ m \in Nat /\ DOMAIN rd = 1..m
      /\ \A k \in DOMAIN rd : Call(rd[k])
      /\ Len(fields) \in Nat /\ Len(fields) > 0
  BY <1>2, ListIs, LenProperties, EmptySeq DEF Reading
<1>4. /\ IsList(more) /\ Len(more) = m + 1 /\ DOMAIN more = 1..(m + 1) /\ more[m + 1] = c
      /\ \A k \in 1..m : more[k] = rd[k]
  BY <1>2, <1>3, ListAppend
<1>5. /\ now \in Seq(Nat) /\ Len(now) = n + Len(fields)
      /\ \A k \in 1..n : now[k] = rs[k]
      /\ \A j \in 1..Len(fields) : now[n + j] = fields[j]
  <2>1. /\ now \in Seq(Nat) /\ Len(now) = n + Len(fields)
        /\ \A k \in 1..(n + Len(fields)) : now[k] = IF k <= n THEN rs[k] ELSE fields[k - n]
    BY <1>2, <1>3, ConcatProperties
  <2>2. \A j \in 1..Len(fields) : n + j \in 1..(n + Len(fields)) /\ ~(n + j <= n) /\ (n + j) - n = j
    BY <1>3
  <2>3. \A k \in 1..n : k \in 1..(n + Len(fields)) /\ k <= n
    BY <1>3
  <2> QED
    BY <2>1, <2>2, <2>3
<1>6. Call(c) /\ c.fields = fields
  <2>1. c.fields = fields /\ c.args = <<>>
    OBVIOUS
  <2> QED
    BY <1>3, <2>1, ListEmpty DEF Call
<1>7. \A k \in DOMAIN more : Call(more[k])
  <2>1. \A k \in 1..(m + 1) : k \in 1..m \/ k = m + 1
    BY <1>3
  <2> QED
    BY <1>3, <1>4, <1>6, <2>1
<1>8. /\ from \in [1..(m + 1) -> Nat] /\ from[1] = 0 /\ from[m + 1] = n
      /\ \A k \in 1..m : from[k + 1] = from[k] + Len(rd[k].fields) /\ Part(rs, rd[k], from[k])
  BY <1>1, <1>2, <1>3 DEF Offsets
<1>9. /\ at \in [1..(m + 2) -> Nat] /\ at[1] = 0 /\ at[m + 2] = n + Len(fields)
      /\ \A k \in 1..(m + 1) : at[k] = from[k]
  <2>1. \A k \in 1..(m + 2) : k \in 1..(m + 1) \/ k = m + 2
    BY <1>3
  <2>2. 1 \in 1..(m + 1) /\ m + 2 \in 1..(m + 2) /\ n + Len(fields) \in Nat
    BY <1>3
  <2>3. \A k \in 1..(m + 1) : k \in 1..(m + 2) /\ k # m + 2
    BY <1>3
  <2> QED
    BY <1>2, <1>8, <2>1, <2>2, <2>3
<1>10. ASSUME NEW k \in 1..(m + 1)
       PROVE  at[k + 1] = at[k] + Len(more[k].fields) /\ Part(now, more[k], at[k])
  <2>1. CASE k = m + 1
    <3>1. at[k] = n /\ at[k + 1] = n + Len(fields) /\ more[k] = c
      <4>1. k + 1 = m + 2
        BY <1>3, <2>1
      <4> QED
        BY <1>4, <1>8, <1>9, <2>1, <4>1
    <3>2. Part(now, c, n)
      BY <1>5, <1>6 DEF Part
    <3> QED
      BY <1>6, <3>1, <3>2
  <2>2. CASE k # m + 1
    <3>1. k \in 1..m /\ k + 1 \in 1..(m + 1)
      BY <1>3, <2>2
    <3>2. at[k] = from[k] /\ at[k + 1] = from[k + 1] /\ more[k] = rd[k]
      BY <1>4, <1>9, <3>1
    <3>3. from[k + 1] = from[k] + Len(rd[k].fields) /\ Part(rs, rd[k], from[k])
      BY <1>8, <3>1
    <3>4. from[k + 1] <= n
      <4>1. \A j \in 1..(m + 1) : from[j] <= n
        BY <1>1, <1>2, <1>3, OffsetsUp
      <4> QED
        BY <3>1, <4>1
    <3>5. Len(rd[k].fields) \in Nat /\ from[k] \in Nat
      <4>1. rd[k].fields \in Seq(Nat)
        BY <1>3, <3>1 DEF Call
      <4> QED
        BY <1>8, <3>1, <4>1, LenProperties
    <3>6. \A j \in 1..Len(rd[k].fields) : from[k] + j \in 1..n
      <4>1. PICK q, b : q = Len(rd[k].fields) /\ b = from[k]
        OBVIOUS
      <4>2. q \in Nat /\ b \in Nat /\ n \in Nat /\ b + q <= n
        BY <1>3, <3>3, <3>4, <3>5, <4>1
      <4>3. \A j \in 1..q : b + j \in 1..n
        BY <4>2
      <4> QED
        BY <4>1, <4>3
    <3>7. Part(now, rd[k], from[k])
      BY <1>5, <3>3, <3>6 DEF Part
    <3> QED
      BY <3>2, <3>3, <3>7
  <2> QED
    BY <2>1, <2>2
<1>11. Offsets(at, now, more)
  <2>1. (m + 1) + 1 = m + 2
    BY <1>3
  <2> QED
    BY <1>4, <1>5, <1>9, <1>10, <2>1 DEF Offsets
<1> QED
  BY <1>2, <1>4, <1>5, <1>7, <1>11 DEF Reading

\* The innermost constructor is read on, or it was read.
LEMMA ReadingOn ==
    ASSUME NEW rs, NEW rd, Reading(rs, rd), rd # <<>>, NEW L, rs \in Seq(L), NEW c, c = Last(rd)
    PROVE  /\ Call(c) /\ c.fields \in Seq(L) /\ IsList(Front(rd))
           /\ \A d : Call(d) /\ d.fields = c.fields => Reading(rs, Append(Front(rd), d))
           /\ Len(rs) - Len(c.fields) \in 0..Len(rs)
           /\ Reading(SubSeq(rs, 1, Len(rs) - Len(c.fields)), Front(rd))
<1>1. PICK from : Offsets(from, rs, rd)
  BY DEF Reading
<1>2. PICK m, n, rest, q :
        m = Len(rd) /\ n = Len(rs) /\ rest = Front(rd) /\ q = Len(c.fields)
  OBVIOUS
<1>3. /\ rs \in Seq(Nat) /\ n \in Nat /\ IsList(rd) /\ m \in Nat /\ DOMAIN rd = 1..m
      /\ \A k \in DOMAIN rd : Call(rd[k])
  BY <1>2, ListIs, LenProperties DEF Reading
<1>4. /\ IsList(rest) /\ Len(rest) = m - 1 /\ DOMAIN rest = 1..(m - 1)
      /\ \A k \in 1..(m - 1) : k \in DOMAIN rd /\ rest[k] = rd[k]
      /\ c = rd[m] /\ m \in DOMAIN rd
  BY <1>2, <1>3, ListFront
<1>5. Call(c) /\ q \in Nat
  BY <1>2, <1>3, <1>4, LenProperties DEF Call
<1>6. /\ from \in [1..(m + 1) -> Nat] /\ from[1] = 0 /\ from[m + 1] = n
      /\ \A k \in 1..m : from[k + 1] = from[k] + Len(rd[k].fields) /\ Part(rs, rd[k], from[k])
  BY <1>1, <1>2, <1>3 DEF Offsets
<1>7. from[m] = n - q /\ n - q \in 0..n /\ from[m] \in Nat
  <2>1. m \in 1..m /\ m \in 1..(m + 1)
    BY <1>3, <1>4
  <2>2. n = from[m] + q /\ from[m] \in Nat
    BY <1>2, <1>4, <1>6, <2>1
  <2> QED
    BY <1>3, <1>5, <2>2
<1>8. c.fields \in Seq(L)
  <2>1. \A j \in 1..q : rs[from[m] + j] = c.fields[j]
    BY SMTT(30), <1>2, <1>3, <1>4, <1>6 DEF Part
  <2>2. \A j \in 1..q : from[m] + j \in 1..n
    BY <1>3, <1>5, <1>7
  <2>3. \A j \in 1..q : c.fields[j] \in L
    <3>1. \A i \in 1..n : rs[i] \in L
      BY <1>2, ElementOfSeq
    <3> QED
      BY <2>1, <2>2, <3>1
  <2>4. IsList(c.fields) /\ DOMAIN c.fields = 1..q
    BY <1>2, <1>5, LenProperties DEF Call, IsList
  <2> QED
    BY <2>3, <2>4, ListOf
<1>9. ASSUME NEW d, Call(d), d.fields = c.fields
      PROVE  Reading(rs, Append(rest, d))
  <2>1. PICK now : now = Append(rest, d)
    OBVIOUS
  <2>2. /\ IsList(now) /\ Len(now) = (m - 1) + 1 /\ DOMAIN now = 1..((m - 1) + 1)
        /\ now[(m - 1) + 1] = d /\ \A k \in DOMAIN rest : now[k] = rest[k]
    BY <1>4, <2>1, ListAppend
  <2>3. Len(now) = m /\ DOMAIN now = 1..m /\ now[m] = d /\ \A k \in 1..(m - 1) : now[k] = rd[k]
    <3>1. (m - 1) + 1 = m
      BY <1>3
    <3> QED
      BY <1>4, <2>2, <3>1
  <2>4. \A k \in 1..m : k \in 1..(m - 1) \/ k = m
    BY <1>3
  <2>5. \A k \in 1..m : Call(now[k]) /\ now[k].fields = rd[k].fields
    BY <1>3, <1>4, <1>9, <2>3, <2>4
  <2>6. \A k \in 1..m : from[k + 1] = from[k] + Len(now[k].fields) /\ Part(rs, now[k], from[k])
    <3> SUFFICES ASSUME NEW k \in 1..m
                 PROVE  from[k + 1] = from[k] + Len(now[k].fields) /\ Part(rs, now[k], from[k])
      OBVIOUS
    <3>1. now[k].fields = rd[k].fields
      BY <2>5
    <3>2. from[k + 1] = from[k] + Len(rd[k].fields) /\ Part(rs, rd[k], from[k])
      BY <1>6
    <3> QED
      BY <3>1, <3>2 DEF Part
  <2>7. Offsets(from, rs, now)
    BY <1>2, <1>6, <2>3, <2>6 DEF Offsets
  <2> QED
    BY <1>3, <2>1, <2>2, <2>3, <2>5, <2>7 DEF Reading
<1>10. PICK now, at : now = SubSeq(rs, 1, n - q) /\ at = [k \in 1..m |-> from[k]]
  OBVIOUS
<1>11. now \in Seq(Nat) /\ Len(now) = n - q /\ \A k \in 1..(n - q) : now[k] = rs[k]
  <2>1. IsList(rs) /\ n - q \in 0..Len(rs)
    BY <1>2, <1>3, <1>7 DEF IsList
  <2>2. IsList(now) /\ Len(now) = n - q /\ DOMAIN now = 1..(n - q)
        /\ \A k \in 1..(n - q) : k \in DOMAIN rs /\ now[k] = rs[k]
    BY <1>10, <2>1, ListSub
  <2>3. \A k \in DOMAIN now : now[k] \in Nat
    <3>1. \A i \in DOMAIN rs : rs[i] \in Nat
      BY <1>3, LenProperties
    <3> QED
      BY <2>2, <3>1
  <2> QED
    BY <2>2, <2>3, ListOf
<1>12. \A k \in 1..(m - 1) : at[k + 1] = at[k] + Len(rest[k].fields) /\ Part(now, rest[k], at[k])
  <2> SUFFICES ASSUME NEW k \in 1..(m - 1)
               PROVE  at[k + 1] = at[k] + Len(rest[k].fields) /\ Part(now, rest[k], at[k])
    OBVIOUS
  <2>1. k \in 1..m /\ k + 1 \in 1..m /\ k \in 1..(m + 1) /\ k + 1 \in 1..(m + 1)
    BY <1>3
  <2>2. at[k] = from[k] /\ at[k + 1] = from[k + 1] /\ rest[k] = rd[k]
    BY <1>4, <1>10, <2>1
  <2>3. from[k + 1] = from[k] + Len(rd[k].fields) /\ Part(rs, rd[k], from[k])
    BY <1>6, <2>1
  <2>4. Len(rd[k].fields) \in Nat /\ from[k] \in Nat /\ from[k + 1] \in Nat
    BY <1>3, <1>6, <2>1, LenProperties DEF Call
  <2>5. from[k + 1] <= n - q
    <3>1. from[k + 1] <= from[m]
      BY <1>1, <1>2, <1>3, <2>1, OffsetsUp
    <3> QED
      BY <1>7, <3>1
  <2>6. \A j \in 1..Len(rd[k].fields) : from[k] + j \in 1..(n - q)
    BY <1>3, <1>5, <1>7, <2>3, <2>4, <2>5
  <2>7. Part(now, rd[k], from[k])
    BY <1>11, <2>3, <2>6 DEF Part
  <2> QED
    BY <2>2, <2>3, <2>7
<1>13. Offsets(at, now, rest)
  <2>1. (m - 1) + 1 = m /\ 1 \in 1..m /\ m \in 1..m
    BY <1>3, <1>4
  <2>2. at \in [1..m -> Nat] /\ at[1] = 0 /\ at[m] = n - q
    <3>1. \A k \in 1..m : from[k] \in Nat
      BY <1>3, <1>6
    <3> QED
      BY <1>6, <1>7, <1>10, <2>1, <3>1
  <2> QED
    BY <1>4, <1>11, <1>12, <2>1, <2>2 DEF Offsets
<1>14. Reading(now, rest)
  BY <1>3, <1>4, <1>11, <1>13 DEF Reading
<1> QED
  BY <1>2, <1>4, <1>5, <1>7, <1>8, <1>9, <1>10, <1>14

LEMMA ReadFieldsStep ==
    ASSUME Inv, ReadFields
    PROVE  Inv'
<1>1. PICK L, fields : L = InUse(heap.thunks) /\ fields = value.fields
  OBVIOUS
<1>2. /\ pc = "answer" /\ GoodValue(value, L, InUse(heap.environments))
      /\ roots \in Seq(L) /\ Reading(roots, reading) /\ current \in L \cup {0}
      /\ frames = <<>> /\ nodes \in Nat /\ nodes <= limits.nodes /\ Len(roots) <= limits.arena
  BY <1>1 DEF ReadFields, Inv, Held, Bounded
<1>3. CASE value.kind # "Constructor"
  BY <1>3, FailStep DEF ReadFields
<1>4. CASE value.kind = "Constructor" /\ Len(fields) > limits.arena - Len(roots)
  BY <1>1, <1>4, FailStep DEF ReadFields
<1>5. CASE /\ value.kind = "Constructor" /\ ~(Len(fields) > limits.arena - Len(roots))
           /\ fields = <<>>
  <2>1. /\ pc' = "built"
        /\ UNCHANGED <<program, limits, heap, globals, roots, frames, current, reading, nodes>>
    BY <1>1, <1>5 DEF ReadFields, readers
  <2>2. pc' \in Stages
    BY <2>1 DEF Stages
  <2> QED
    BY <1>1, <1>2, <2>1, <2>2, ReaderStep
<1>6. CASE /\ value.kind = "Constructor" /\ ~(Len(fields) > limits.arena - Len(roots))
           /\ fields # <<>>
  <2>1. PICK c : c = [name |-> value.name, fields |-> fields, args |-> <<>>]
    OBVIOUS
  <2>2. /\ pc' = "read" /\ roots' = roots \o fields /\ reading' = Append(reading, c)
        /\ current' = Head(fields)
        /\ UNCHANGED <<program, limits, heap, globals, frames, nodes>>
    BY <1>1, <1>6, <2>1 DEF ReadFields, readers
  <2>3. fields \in Seq(L)
    BY <1>1, <1>2, <1>6 DEF GoodValue
  <2>4. L \subseteq Nat
    <3>1. IsList(heap.thunks)
      BY DEF Inv, Working, Sound, Arena
    <3>2. \A i \in L : i \in 1..Len(heap.thunks)
      BY <1>1, <3>1, ListIs DEF InUse
    <3> QED
      BY <3>2
  <2>5. fields \in Seq(Nat)
    BY <2>3, <2>4, SeqGrows
  <2>6. Reading(roots', reading')
    <3>1. c = [name |-> c.name, fields |-> fields, args |-> <<>>]
      BY <2>1
    <3> QED
      BY <1>2, <1>6, <2>2, <2>5, <3>1, ReadingPushed
  <2>7. current' \in L
    BY <1>6, <2>2, <2>3, EmptySeq, HeadTailProperties
  <2>8. roots' \in Seq(L) /\ Len(roots') = Len(roots) + Len(fields)
    BY <1>2, <2>2, <2>3, ConcatProperties
  <2>9. Len(roots') <= limits.arena
    <3>1. limits.arena \in Nat /\ Len(roots) \in Nat /\ Len(fields) \in Nat
      BY <1>2, <2>3, SetRight, LenProperties
    <3> QED
      BY <1>6, <2>8, <3>1
  <2>10. pc' \in Stages
    BY <2>2 DEF Stages
  <2> QED
    BY <1>1, <1>2, <2>2, <2>6, <2>7, <2>8, <2>9, <2>10, ReaderStep
<1> QED
  BY <1>3, <1>4, <1>5, <1>6

LEMMA BuiltStep ==
    ASSUME Inv, Built
    PROVE  Inv'
<1>1. PICK L, c, args, rs, rd : /\ L = InUse(heap.thunks) /\ c = Last(reading)
                                /\ args = Append(c.args, output) /\ rs = roots /\ rd = reading
  OBVIOUS
<1>2. /\ pc = "built" /\ reading # <<>>
      /\ roots \in Seq(L) /\ Reading(roots, reading) /\ current \in L \cup {0}
      /\ frames = <<>> /\ nodes \in Nat /\ nodes <= limits.nodes /\ Len(roots) <= limits.arena
  BY <1>1 DEF Built, Inv, Held, Bounded
<1>3. /\ Call(c) /\ c.fields \in Seq(L)
      /\ \A d : Call(d) /\ d.fields = c.fields => Reading(rs, Append(Front(rd), d))
      /\ Len(rs) - Len(c.fields) \in 0..Len(rs)
      /\ Reading(SubSeq(rs, 1, Len(rs) - Len(c.fields)), Front(rd))
  BY <1>1, <1>2, ReadingOn
<1>4. Len(args) = Len(c.args) + 1 /\ IsList(args) /\ Len(c.args) \in Nat /\ Len(c.fields) \in Nat
  BY <1>1, <1>3, ListAppend, ListIs, LenProperties DEF Call
<1>5. CASE Len(args) < Len(c.fields)
  <2>1. PICK d : d = [c EXCEPT !.args = args]
    OBVIOUS
  <2>2. /\ pc' = "read" /\ reading' = Append(Front(reading), d)
        /\ current' = c.fields[Len(args) + 1]
        /\ UNCHANGED <<program, limits, heap, globals, roots, frames, nodes>>
    BY <1>1, <1>5, <2>1 DEF Built, readers
  <2>3. d = [name |-> c.name, fields |-> c.fields, args |-> args]
    BY <1>3, <2>1 DEF Call
  <2>4. d.name = c.name /\ d.fields = c.fields /\ d.args = args
    BY <2>3
  <2>5. Call(d)
    BY <1>3, <1>4, <1>5, <2>3, <2>4 DEF Call
  <2>6. Reading(roots', reading')
    BY <1>1, <1>3, <2>2, <2>4, <2>5
  <2>7. current' \in L
    <3>1. Len(args) + 1 \in 1..Len(c.fields)
      BY <1>4, <1>5
    <3> QED
      BY <1>3, <2>2, <3>1, ElementOfSeq
  <2>8. pc' \in Stages
    BY <2>2 DEF Stages
  <2> QED
    BY <1>1, <1>2, <2>2, <2>6, <2>7, <2>8, ReaderStep
<1>6. CASE ~(Len(args) < Len(c.fields))
  <2>1. PICK now : now = SubSeq(rs, 1, Len(rs) - Len(c.fields))
    OBVIOUS
  <2>2. /\ pc' = pc /\ reading' = Front(reading) /\ roots' = now
        /\ UNCHANGED <<program, limits, heap, globals, frames, current, nodes>>
    BY <1>1, <1>6, <2>1 DEF Built, readers
  <2>3. Reading(roots', reading')
    BY <1>1, <1>3, <2>1, <2>2
  <2>4. IsList(rs) /\ \A k \in DOMAIN rs : rs[k] \in L
    BY <1>1, <1>2, LenProperties DEF IsList
  <2>5. /\ IsList(now) /\ Len(now) = Len(rs) - Len(c.fields)
        /\ \A k \in DOMAIN now : k \in DOMAIN rs /\ now[k] = rs[k]
    <3>1. PICK n : n = Len(rs) - Len(c.fields)
      OBVIOUS
    <3>2. n \in 0..Len(rs) /\ now = SubSeq(rs, 1, n)
      BY <1>3, <2>1, <3>1
    <3>3. /\ IsList(now) /\ Len(now) = n /\ DOMAIN now = 1..n
          /\ \A k \in 1..n : k \in DOMAIN rs /\ now[k] = rs[k]
      BY <2>4, <3>2, ListSub
    <3> QED
      BY <3>1, <3>3
  <2>6. now \in Seq(L)
    BY <2>4, <2>5, ListOf
  <2>7. Len(now) <= limits.arena
    <3>1. limits.arena \in Nat /\ Len(rs) \in Nat
      BY <2>4, SetRight, ListIs
    <3> QED
      BY <1>1, <1>2, <1>4, <2>5, <3>1
  <2>8. pc' \in Stages
    BY <1>2, <2>2 DEF Stages
  <2> QED
    BY <1>1, <1>2, <2>2, <2>3, <2>6, <2>7, <2>8, ReaderStep
<1> QED
  BY <1>5, <1>6

-----------------------------------------------------------------------------
(***************************************************************************)
(* Sweeping.                                                               *)
(***************************************************************************)
Frees(free, tag, marked, k) ==
    /\ IsList(free) /\ \A j \in DOMAIN free : free[j] \in 1..k
    /\ \A i, j \in DOMAIN free : free[i] = free[j] => i = j
    /\ \A id \in 1..k : <<tag, id>> \notin marked <=> \E j \in DOMAIN free : free[j] = id

LEMMA FreeingRight ==
    ASSUME NEW free, NEW tag, NEW marked, NEW k, k \in Nat, Frees(free, tag, marked, k)
    PROVE  Frees(Freeing(tag, marked, free, k + 1), tag, marked, k + 1)
<1>1. \A i \in 1..(k + 1) : i \in 1..k \/ i = k + 1
  OBVIOUS
<1>2. k + 1 \notin 1..k /\ \A i \in 1..k : i \in 1..(k + 1)
  OBVIOUS
<1>3. PICK n : n = k + 1
  OBVIOUS
<1>4. /\ \A i \in 1..n : i \in 1..k \/ i = n
      /\ n \notin 1..k /\ n \in 1..n
      /\ \A i \in 1..k : i \in 1..n
  BY <1>1, <1>2, <1>3
<1>5. CASE <<tag, n>> \in marked
  <2>1. Freeing(tag, marked, free, n) = free
    BY <1>5 DEF Freeing
  <2>2. \A id \in 1..n : <<tag, id>> \notin marked <=> \E j \in DOMAIN free : free[j] = id
    BY <1>4, <1>5 DEF Frees
  <2>3. \A j \in DOMAIN free : free[j] \in 1..n
    BY <1>4 DEF Frees
  <2> QED
    BY <1>3, <2>1, <2>2, <2>3 DEF Frees
<1>6. CASE <<tag, n>> \notin marked
  <2>1. PICK now, l : now = Append(free, n) /\ l = Len(free) + 1
    OBVIOUS
  <2>2. Freeing(tag, marked, free, n) = now
    BY <1>6, <2>1 DEF Freeing
  <2>3. /\ IsList(now) /\ now[l] = n /\ l \in DOMAIN now /\ l \notin DOMAIN free
        /\ \A j \in DOMAIN free : j \in DOMAIN now /\ now[j] = free[j]
        /\ \A j \in DOMAIN now : j \in DOMAIN free \/ j = l
    <3>1. IsList(free)
      BY DEF Frees
    <3>2. Len(free) \in Nat /\ DOMAIN free = 1..Len(free)
      BY <3>1, ListIs
    <3>3. l \in 1..l /\ l \notin 1..Len(free)
      BY <2>1, <3>2
    <3> QED
      BY <2>1, <3>1, <3>2, <3>3, ListAppend
  <2>4. \A j \in DOMAIN now : now[j] \in 1..n
    BY <1>4, <2>3 DEF Frees
  <2>5. \A i, j \in DOMAIN now : now[i] = now[j] => i = j
    BY <1>4, <2>3 DEF Frees
  <2>6. \A id \in 1..n : <<tag, id>> \notin marked <=> \E j \in DOMAIN now : now[j] = id
    BY <1>4, <1>6, <2>3 DEF Frees
  <2> QED
    BY <1>3, <2>2, <2>3, <2>4, <2>5, <2>6 DEF Frees
<1> QED
  BY <1>5, <1>6

LEMMA FreeSlotsRight ==
    ASSUME NEW slots, IsList(slots), NEW tag, NEW marked
    PROVE  Frees(FreeSlots(slots, tag, marked), tag, marked, Len(slots))
<1>1. Len(slots) \in Nat
  BY ListIs
<1>2. PICK f : /\ f[0] = <<>>
               /\ \A k \in 1..Len(slots) : f[k] = Freeing(tag, marked, f[k - 1], k)
               /\ FreeSlots(slots, tag, marked) = f[Len(slots)]
  BY <1>1, FreeSlotsAre
<1> DEFINE S == {k \in Nat : k <= Len(slots) => Frees(f[k], tag, marked, k)}
<1>3. 0 \in S
  BY <1>2, ListEmpty DEF Frees
<1>4. ASSUME NEW k \in Nat, k \in S PROVE k + 1 \in S
  <2> SUFFICES ASSUME k + 1 <= Len(slots) PROVE Frees(f[k + 1], tag, marked, k + 1)
    OBVIOUS
  <2>1. k + 1 \in 1..Len(slots) /\ (k + 1) - 1 = k /\ k <= Len(slots)
    BY <1>1
  <2>2. f[k + 1] = Freeing(tag, marked, f[k], k + 1)
    BY <1>2, <2>1
  <2>3. Frees(f[k], tag, marked, k)
    BY <1>4, <2>1
  <2> QED
    BY <2>2, <2>3, FreeingRight
<1> HIDE DEF S
<1>5. Nat \subseteq S
  BY <1>3, <1>4, SetInduction
<1>6. Len(slots) \in S
  BY <1>1, <1>5
<1> QED
  BY <1>1, <1>2, <1>6 DEF S

LEMMA SweptRight ==
    ASSUME NEW slots, IsList(slots), Len(slots) <= limits.arena, NEW tag, NEW marked,
           \A id \in DOMAIN slots : <<tag, id>> \in marked => slots[id].kind # "Vacant",
           NEW new, new = Swept(slots, tag, marked)
    PROVE  /\ Arena(new, FreeSlots(slots, tag, marked))
           /\ InUse(new) = {id \in DOMAIN slots : <<tag, id>> \in marked}
           /\ DOMAIN new = DOMAIN slots
           /\ \A id \in DOMAIN slots :
                new[id] = IF <<tag, id>> \in marked THEN slots[id] ELSE Vacant
<1>1. PICK n, free : n = Len(slots) /\ free = FreeSlots(slots, tag, marked)
  OBVIOUS
<1>2. n \in Nat /\ DOMAIN slots = 1..n
  BY <1>1, ListIs
<1>3. /\ DOMAIN new = 1..n
      /\ \A id \in 1..n : new[id] = IF <<tag, id>> \in marked THEN slots[id] ELSE Vacant
  BY <1>2 DEF Swept
<1>4. IsList(new) /\ Len(new) = n
  <2>1. PICK X : X = {new[id] : id \in 1..n}
    OBVIOUS
  <2>2. new \in [1..n -> X]
    BY <1>2, <2>1 DEF Swept
  <2>3. new \in Seq(X)
    BY <1>2, <2>2, SeqDef
  <2> QED
    BY <1>2, <1>3, <2>3, LenProperties DEF IsList
<1>5. \A id \in 1..n : id \in InUse(new) <=> <<tag, id>> \in marked
  BY <1>2, <1>3 DEF InUse, Vacant
<1>6. InUse(new) = {id \in 1..n : <<tag, id>> \in marked}
  BY <1>3, <1>5 DEF InUse
<1>7. Frees(free, tag, marked, n)
  BY <1>1, FreeSlotsRight
<1>8. free \in Seq(1..n)
  BY <1>7, ListOf DEF Frees
<1>9. Arena(new, free)
  BY <1>1, <1>3, <1>4, <1>5, <1>7, <1>8 DEF Arena, Frees
<1> QED
  BY <1>1, <1>2, <1>3, <1>6, <1>9

-----------------------------------------------------------------------------
(***************************************************************************)
(* Marking.                                                                *)
(***************************************************************************)
ScopeNames(E) == {<<"scope", e>> : e \in E}
Nodes(L, E) == Thunks(L) \cup ScopeNames(E)
MarkedThunks(L, M) == {id \in L : <<"thunk", id>> \in M}
MarkedScopes(E, M) == {e \in E : <<"scope", e>> \in M}

LEMMA NodesAre ==
    /\ \A L, id : <<"thunk", id>> \in Thunks(L) <=> id \in L
    /\ \A E, e : <<"scope", e>> \in ScopeNames(E) <=> e \in E
    /\ \A L, x : x \in Thunks(L) => \E id \in L : x = <<"thunk", id>>
    /\ \A E, x : x \in ScopeNames(E) => \E e \in E : x = <<"scope", e>>
  BY DEF Thunks, ScopeNames

LEMMA InNodes ==
    ASSUME NEW L, NEW E
    PROVE  /\ \A K : K \subseteq L => Thunks(K) \subseteq Nodes(L, E)
           /\ \A K : K \subseteq E => ScopeNames(K) \subseteq Nodes(L, E)
           /\ \A id : <<"thunk", id>> \in Nodes(L, E) <=> id \in L
           /\ \A e : <<"scope", e>> \in Nodes(L, E) <=> e \in E
  BY DEF Thunks, ScopeNames, Nodes

LEMMA OneScope == \A e : {<<"scope", e>>} = ScopeNames({e})
  BY DEF ScopeNames

LEMMA RangeOf ==
    ASSUME NEW L, NEW s, s \in Seq(L)
    PROVE  Range(s) \subseteq L
  BY LenProperties DEF Range

\* A list of which every thunk is marked.
LEMMA RangeMarked ==
    ASSUME NEW L, NEW M, NEW s, s \in Seq(L), Thunks(Range(s)) \subseteq M
    PROVE  s \in Seq(MarkedThunks(L, M))
<1>1. IsList(s) /\ \A k \in DOMAIN s : s[k] \in L
  BY LenProperties DEF IsList
<1>2. \A k \in DOMAIN s : <<"thunk", s[k]>> \in M
  BY DEF Thunks, Range
<1>3. \A k \in DOMAIN s : s[k] \in MarkedThunks(L, M)
  BY <1>1, <1>2 DEF MarkedThunks
<1> QED
  BY <1>1, <1>3, ListOf

LEMMA ThunksMarked ==
    ASSUME NEW L, NEW M, NEW K, Thunks(K) \subseteq M, NEW id \in K, id \in L
    PROVE  id \in MarkedThunks(L, M)
  BY DEF Thunks, MarkedThunks

LEMMA ValueMarked ==
    ASSUME NEW L, NEW E, NEW v, GoodValue(v, L, E)
    PROVE  /\ ValueNodes(v) \subseteq Nodes(L, E)
           /\ \A M : ValueNodes(v) \subseteq M => GoodValue(v, MarkedThunks(L, M), MarkedScopes(E, M))
<1>1. CASE v.kind = "Constructor"
  <2>1. ValueNodes(v) = Thunks(Range(v.fields)) /\ v.fields \in Seq(L)
    BY <1>1 DEF ValueNodes, GoodValue
  <2>2. Range(v.fields) \subseteq L
    BY <2>1, RangeOf
  <2>3. \A M : ValueNodes(v) \subseteq M => v.fields \in Seq(MarkedThunks(L, M))
    BY <2>1, RangeMarked
  <2> QED
    BY <1>1, <2>1, <2>2, <2>3, InNodes DEF GoodValue
<1>2. CASE v.kind = "Closure"
  <2>1. ValueNodes(v) = {<<"scope", v.environment>>} /\ v.environment \in E /\ v.body \in Terms[program]
    BY <1>2 DEF ValueNodes, GoodValue
  <2>2. <<"scope", v.environment>> \in Nodes(L, E)
    BY <2>1, InNodes
  <2>3. \A M : ValueNodes(v) \subseteq M => v.environment \in MarkedScopes(E, M)
    BY <2>1 DEF MarkedScopes
  <2> QED
    BY <1>2, <2>1, <2>2, <2>3 DEF GoodValue
<1>3. CASE v.kind = "Match"
  <2>1. ValueNodes(v) = Thunks({v.arm, v.fallback}) /\ v.arm \in L /\ v.fallback \in L
    BY <1>3 DEF ValueNodes, GoodValue
  <2>2. {v.arm, v.fallback} \subseteq L
    BY <2>1
  <2>3. \A M : ValueNodes(v) \subseteq M => /\ v.arm \in MarkedThunks(L, M)
                                            /\ v.fallback \in MarkedThunks(L, M)
    BY <2>1, ThunksMarked
  <2>4. ValueNodes(v) \subseteq Nodes(L, E)
    BY <2>1, <2>2, InNodes
  <2>5. \A M : ValueNodes(v) \subseteq M => GoodValue(v, MarkedThunks(L, M), MarkedScopes(E, M))
    BY <1>3, <2>3 DEF GoodValue
  <2> QED
    BY <2>4, <2>5
<1>4. CASE v.kind \in {"Impossible", "Erased"}
  BY <1>4 DEF ValueNodes, GoodValue
<1> QED
  BY <1>1, <1>2, <1>3, <1>4 DEF GoodValue

LEMMA ThunkMarked ==
    ASSUME NEW L, NEW E, NEW t, GoodThunk(t, L, E)
    PROVE  /\ ThunkNodes(t) \subseteq Nodes(L, E)
           /\ \A M : ThunkNodes(t) \subseteq M => GoodThunk(t, MarkedThunks(L, M), MarkedScopes(E, M))
<1>1. CASE t.kind = "Expression"
  <2>1. ThunkNodes(t) = {<<"scope", t.environment>>} /\ t.environment \in E /\ t.term \in Terms[program]
    BY <1>1 DEF ThunkNodes, GoodThunk
  <2>2. ThunkNodes(t) \subseteq Nodes(L, E)
    BY <2>1, InNodes
  <2>3. \A M : ThunkNodes(t) \subseteq M => t.environment \in MarkedScopes(E, M)
    BY <2>1 DEF MarkedScopes
  <2>4. \A M : ThunkNodes(t) \subseteq M => GoodThunk(t, MarkedThunks(L, M), MarkedScopes(E, M))
    BY <1>1, <2>1, <2>3 DEF GoodThunk, ThunkKinds
  <2> QED
    BY <2>2, <2>4
<1>2. CASE t.kind = "Application"
  <2>1. /\ ThunkNodes(t) = Thunks({t.function, t.argument})
        /\ {t.function, t.argument} \subseteq L
    BY <1>2 DEF ThunkNodes, GoodThunk
  <2>2. ThunkNodes(t) \subseteq Nodes(L, E)
    BY <2>1, InNodes
  <2>3. \A M : ThunkNodes(t) \subseteq M => /\ t.function \in MarkedThunks(L, M)
                                            /\ t.argument \in MarkedThunks(L, M)
    BY <2>1, ThunksMarked
  <2>4. \A M : ThunkNodes(t) \subseteq M => GoodThunk(t, MarkedThunks(L, M), MarkedScopes(E, M))
    BY <1>2, <2>3 DEF GoodThunk, ThunkKinds
  <2> QED
    BY <2>2, <2>4
<1>3. CASE t.kind = "Alias"
  <2>1. ThunkNodes(t) = Thunks({t.target}) /\ {t.target} \subseteq L
    BY <1>3 DEF ThunkNodes, GoodThunk
  <2>2. ThunkNodes(t) \subseteq Nodes(L, E)
    BY <2>1, InNodes
  <2>3. \A M : ThunkNodes(t) \subseteq M => t.target \in MarkedThunks(L, M)
    BY <2>1, ThunksMarked
  <2>4. \A M : ThunkNodes(t) \subseteq M => GoodThunk(t, MarkedThunks(L, M), MarkedScopes(E, M))
    BY <1>3, <2>3 DEF GoodThunk, ThunkKinds
  <2> QED
    BY <2>2, <2>4
<1>4. CASE t.kind = "Pending"
  <2>1. /\ ThunkNodes(t) = Thunks(Range(t.fields) \cup ({t.parent} \ {0}))
        /\ t.fields \in Seq(L) /\ t.parent \in L \cup {0}
    BY <1>4 DEF ThunkNodes, GoodThunk
  <2>2. Range(t.fields) \cup ({t.parent} \ {0}) \subseteq L
    BY <2>1, RangeOf
  <2>3. ThunkNodes(t) \subseteq Nodes(L, E)
    BY <2>1, <2>2, InNodes
  <2>4. ASSUME NEW M, ThunkNodes(t) \subseteq M
        PROVE  t.fields \in Seq(MarkedThunks(L, M)) /\ t.parent \in MarkedThunks(L, M) \cup {0}
    <3>1. t.parent # 0 => <<"thunk", t.parent>> \in M
      BY <2>1, <2>4 DEF Thunks
    <3>2. Thunks(Range(t.fields)) \subseteq M
      BY <2>1, <2>4 DEF Thunks
    <3>3. t.parent # 0 => t.parent \in MarkedThunks(L, M)
      BY <2>1, <3>1, <3>2 DEF MarkedThunks
    <3> QED
      BY <2>1, <3>2, <3>3, RangeMarked
  <2>5. \A M : ThunkNodes(t) \subseteq M => GoodThunk(t, MarkedThunks(L, M), MarkedScopes(E, M))
    BY <1>4, <2>4 DEF GoodThunk, ThunkKinds
  <2> QED
    BY <2>3, <2>5
<1>5. CASE t.kind = "Ready"
  <2>1. ThunkNodes(t) = ValueNodes(t.value) /\ GoodValue(t.value, L, E)
    BY <1>5 DEF ThunkNodes, GoodThunk
  <2>2. /\ ThunkNodes(t) \subseteq Nodes(L, E)
        /\ \A M : ThunkNodes(t) \subseteq M =>
              GoodValue(t.value, MarkedThunks(L, M), MarkedScopes(E, M))
    BY <2>1, ValueMarked
  <2>3. \A M : ThunkNodes(t) \subseteq M => GoodThunk(t, MarkedThunks(L, M), MarkedScopes(E, M))
    BY <1>5, <2>2 DEF GoodThunk, ThunkKinds
  <2> QED
    BY <2>2, <2>3
<1>6. CASE t.kind \in {"Vacant", "Evaluating"}
  BY <1>6 DEF ThunkNodes, GoodThunk, ThunkKinds
<1> QED
  BY <1>1, <1>2, <1>3, <1>4, <1>5, <1>6 DEF GoodThunk, ThunkKinds

LEMMA ScopeMarked ==
    ASSUME NEW L, NEW E, NEW s, GoodScope(s, L, E)
    PROVE  /\ ScopeNodes(s) \subseteq Nodes(L, E)
           /\ \A M : ScopeNodes(s) \subseteq M => GoodScope(s, MarkedThunks(L, M), MarkedScopes(E, M))
<1>1. CASE s.kind = "Vacant"
  BY <1>1 DEF ScopeNodes, GoodScope
<1>2. CASE s.kind = "Scope"
  <2>1. /\ s.parent \in E \cup {NoParent} /\ s.thunks \in Seq(L) /\ DOMAIN s.ids = DOMAIN s.thunks
        /\ ScopeNodes(s) = Thunks(Range(s.thunks)) \cup ScopeNames({s.parent} \ {NoParent})
    BY <1>2 DEF ScopeNodes, GoodScope, ScopeNames
  <2>2. Range(s.thunks) \subseteq L /\ {s.parent} \ {NoParent} \subseteq E
    BY <2>1, RangeOf
  <2>3. ScopeNodes(s) \subseteq Nodes(L, E)
    BY <2>1, <2>2, InNodes
  <2>4. ASSUME NEW M, ScopeNodes(s) \subseteq M
        PROVE  s.thunks \in Seq(MarkedThunks(L, M)) /\ s.parent \in MarkedScopes(E, M) \cup {NoParent}
    <3>1. Thunks(Range(s.thunks)) \subseteq M
      BY <2>1, <2>4
    <3>2. s.parent # NoParent => <<"scope", s.parent>> \in M
      BY <2>1, <2>4, NodesAre
    <3> QED
      BY <2>1, <3>1, <3>2, RangeMarked DEF MarkedScopes
  <2>5. \A M : ScopeNodes(s) \subseteq M => GoodScope(s, MarkedThunks(L, M), MarkedScopes(E, M))
    BY <1>2, <2>1, <2>4 DEF GoodScope
  <2> QED
    BY <2>3, <2>5
<1> QED
  BY <1>1, <1>2 DEF GoodScope

LEMMA FrameMarked ==
    ASSUME NEW L, NEW E, NEW f, GoodFrame(f, L, E)
    PROVE  /\ FrameNodes(f) \subseteq Nodes(L, E)
           /\ \A M : FrameNodes(f) \subseteq M => GoodFrame(f, MarkedThunks(L, M), MarkedScopes(E, M))
<1>1. CASE f.kind \in {"Update", "Apply", "Call", "CompleteConstructorChain"}
  <2>1. FrameNodes(f) = Thunks({f.id}) /\ {f.id} \subseteq L
    BY <1>1 DEF FrameNodes, GoodFrame
  <2>2. FrameNodes(f) \subseteq Nodes(L, E)
    BY <2>1, InNodes
  <2>3. \A M : FrameNodes(f) \subseteq M => f.id \in MarkedThunks(L, M)
    BY <2>1, ThunksMarked
  <2>4. \A M : FrameNodes(f) \subseteq M => GoodFrame(f, MarkedThunks(L, M), MarkedScopes(E, M))
    BY <1>1, <2>3 DEF GoodFrame
  <2> QED
    BY <2>2, <2>4
<1>2. CASE f.kind = "ResumeCall"
  <2>1. /\ FrameNodes(f) = ValueNodes(f.function) \cup Thunks({f.argument})
        /\ GoodValue(f.function, L, E) /\ {f.argument} \subseteq L
    BY <1>2 DEF FrameNodes, GoodFrame
  <2>2. Thunks({f.argument}) \subseteq Nodes(L, E) /\ ValueNodes(f.function) \subseteq Nodes(L, E)
    BY <2>1, InNodes, ValueMarked
  <2>3. ASSUME NEW M, FrameNodes(f) \subseteq M
        PROVE  /\ f.argument \in MarkedThunks(L, M)
               /\ GoodValue(f.function, MarkedThunks(L, M), MarkedScopes(E, M))
    <3>1. ValueNodes(f.function) \subseteq M /\ Thunks({f.argument}) \subseteq M
      BY <2>1, <2>3
    <3> QED
      BY <2>1, <3>1, ValueMarked, ThunksMarked
  <2>4. \A M : FrameNodes(f) \subseteq M => GoodFrame(f, MarkedThunks(L, M), MarkedScopes(E, M))
    BY <1>2, <2>3 DEF GoodFrame
  <2> QED
    BY <2>1, <2>2, <2>4
<1>3. CASE f.kind = "Constructor"
  <2>1. /\ FrameNodes(f) = Thunks(Range(f.fields)) /\ f.fields \in Seq(L)
        /\ f = ConstructorFrame(f.name, f.fields, f.next) /\ f.next \in 1..Len(f.fields)
    BY <1>3 DEF FrameNodes, GoodFrame
  <2>2. Range(f.fields) \subseteq L
    BY <2>1, RangeOf
  <2>3. FrameNodes(f) \subseteq Nodes(L, E)
    BY <2>1, <2>2, InNodes
  <2>4. \A M : FrameNodes(f) \subseteq M => f.fields \in Seq(MarkedThunks(L, M))
    BY <2>1, RangeMarked
  <2>5. \A M : FrameNodes(f) \subseteq M => GoodFrame(f, MarkedThunks(L, M), MarkedScopes(E, M))
    BY <1>3, <2>1, <2>4 DEF GoodFrame
  <2> QED
    BY <2>3, <2>5
<1>4. CASE f.kind = "Match"
  <2>1. /\ FrameNodes(f) = Thunks({f.arm, f.fallback, f.argument})
        /\ {f.arm, f.fallback, f.argument} \subseteq L
    BY <1>4 DEF FrameNodes, GoodFrame
  <2>2. FrameNodes(f) \subseteq Nodes(L, E)
    BY <2>1, InNodes
  <2>3. \A M : FrameNodes(f) \subseteq M => /\ f.arm \in MarkedThunks(L, M)
                                            /\ f.fallback \in MarkedThunks(L, M)
                                            /\ f.argument \in MarkedThunks(L, M)
    BY <2>1, ThunksMarked
  <2>4. \A M : FrameNodes(f) \subseteq M => GoodFrame(f, MarkedThunks(L, M), MarkedScopes(E, M))
    BY <1>4, <2>3 DEF GoodFrame
  <2> QED
    BY <2>2, <2>4
<1> QED
  BY <1>1, <1>2, <1>3, <1>4 DEF GoodFrame

-----------------------------------------------------------------------------
\* What follows from a set is among it once it has as many members as there are.
LEMMA Saturates ==
    ASSUME NEW f, NEW n, n \in Nat, \A k \in 1..n : f[k] = Around(f[k - 1]),
           NEW N, IsFiniteSet(N), Cardinality(N) <= n, f[0] \subseteq N,
           \A S : S \subseteq N => Around(S) \subseteq N
    PROVE  f[n] \subseteq N /\ f[0] \subseteq f[n] /\ Around(f[n]) = f[n]
<1>1. \A S : S \subseteq Around(S)
  BY DEF Around
<1>2. \A T : T \subseteq N => /\ IsFiniteSet(T) /\ Cardinality(T) \in Nat
                              /\ Cardinality(N) \in Nat /\ Cardinality(T) <= Cardinality(N)
                              /\ Cardinality(T) = Cardinality(N) => T = N
  BY FS_Subset, FS_CardinalityType
<1> DEFINE Far(k) == /\ f[k] \subseteq N /\ f[0] \subseteq f[k]
                     /\ Around(f[k]) = f[k] \/ Cardinality(f[k]) >= k
           S == {k \in Nat : k <= n => Far(k)}
<1>3. 0 \in S
  BY <1>2
<1>4. ASSUME NEW k \in Nat, k \in S PROVE k + 1 \in S
  <2> SUFFICES ASSUME k + 1 <= n PROVE Far(k + 1)
    OBVIOUS
  <2>1. k + 1 \in 1..n /\ (k + 1) - 1 = k /\ k <= n
    OBVIOUS
  <2>2. Far(k)
    BY <1>4, <2>1
  <2>3. PICK s, t : s = f[k] /\ t = f[k + 1]
    OBVIOUS
  <2>4. t = Around(s)
    BY <2>1, <2>3
  <2>5. s \subseteq N /\ f[0] \subseteq s /\ (Around(s) = s \/ Cardinality(s) >= k)
    BY <2>2, <2>3
  <2>6. t \subseteq N /\ f[0] \subseteq t /\ s \subseteq t
    BY <1>1, <2>4, <2>5
  <2>7. Around(t) = t \/ Cardinality(t) >= k + 1
    <3>1. CASE Around(s) = s
      BY <2>4, <3>1
    <3>2. CASE Around(s) # s
      <4>1. t # s /\ Cardinality(s) >= k
        BY <2>4, <2>5, <3>2
      <4>2. IsFiniteSet(t) /\ Cardinality(t) \in Nat /\ Cardinality(s) \in Nat
        BY <1>2, <2>5, <2>6
      <4>3. Cardinality(s) <= Cardinality(t) /\ (Cardinality(t) = Cardinality(s) => t = s)
        BY <2>6, <4>2, FS_Subset
      <4> QED
        BY <4>1, <4>2, <4>3
    <3> QED
      BY <3>1, <3>2
  <2> QED
    BY <2>3, <2>6, <2>7
<1>5. n \in S
  <2> HIDE DEF S
  <2>1. Nat \subseteq S
    BY <1>3, <1>4, SetInduction
  <2> QED
    BY <2>1
<1>6. PICK t : t = f[n]
  OBVIOUS
<1>7. t \subseteq N /\ f[0] \subseteq t /\ (Around(t) = t \/ Cardinality(t) >= n)
  BY <1>5, <1>6
<1>8. CASE Cardinality(t) >= n
  <2>1. t = N
    BY <1>2, <1>7, <1>8
  <2>2. Around(t) = t
    BY <1>1, <2>1
  <2> QED
    BY <1>6, <1>7, <2>2
<1> QED
  BY <1>6, <1>7, <1>8

\* There are no more thunks and environments than slots.
LEMMA NodesFinite ==
    ASSUME NEW m, m \in Nat, NEW n, n \in Nat, NEW L, L \subseteq 1..m, NEW E, E \subseteq 1..n
    PROVE  IsFiniteSet(Nodes(L, E)) /\ Cardinality(Nodes(L, E)) <= m + n
<1>1. PICK all : all = Nodes(1..m, 1..n)
  OBVIOUS
<1>2. PICK g : g = [i \in 1..(m + n) |-> IF i <= m THEN <<"thunk", i>> ELSE <<"scope", i - m>>]
  OBVIOUS
<1>3. g \in [1..(m + n) -> all]
  <2>1. \A i \in 1..(m + n) : i <= m => i \in 1..m
    OBVIOUS
  <2>2. \A i \in 1..(m + n) : ~(i <= m) => i - m \in 1..n
    OBVIOUS
  <2>3. \A i \in 1..m : <<"thunk", i>> \in all
    BY <1>1, InNodes
  <2>4. \A i \in 1..n : <<"scope", i>> \in all
    BY <1>1, InNodes
  <2> QED
    BY <1>2, <2>1, <2>2, <2>3, <2>4
<1>4. ASSUME NEW x \in all PROVE \E i \in 1..(m + n) : g[i] = x
  <2>1. CASE x \in Thunks(1..m)
    <3>1. PICK i \in 1..m : x = <<"thunk", i>>
      BY <2>1, NodesAre
    <3>2. i \in 1..(m + n) /\ i <= m
      OBVIOUS
    <3> QED
      BY <1>2, <3>1, <3>2
  <2>2. CASE x \in ScopeNames(1..n)
    <3>1. PICK i \in 1..n : x = <<"scope", i>>
      BY <2>2, NodesAre
    <3>2. i + m \in 1..(m + n) /\ ~(i + m <= m) /\ (i + m) - m = i
      OBVIOUS
    <3> QED
      BY <1>2, <3>1, <3>2
  <2> QED
    BY <1>1, <1>4, <2>1, <2>2 DEF Nodes
<1>5. g \in Surjection(1..(m + n), all)
  BY <1>3, <1>4 DEF Surjection
<1>6. IsFiniteSet(1..(m + n)) /\ Cardinality(1..(m + n)) = m + n
  <2>1. m + n \in Nat
    OBVIOUS
  <2> QED
    BY <2>1, FS_Interval
<1>7. IsFiniteSet(all) /\ Cardinality(all) <= m + n
  BY <1>5, <1>6, FS_Surjection
<1>8. Nodes(L, E) \subseteq all
  BY <1>1 DEF Nodes, Thunks, ScopeNames
<1>9. IsFiniteSet(Nodes(L, E)) /\ Cardinality(Nodes(L, E)) <= Cardinality(all)
  BY <1>7, <1>8, FS_Subset
<1>10. Cardinality(all) \in Nat /\ Cardinality(Nodes(L, E)) \in Nat
  BY <1>7, <1>9, FS_CardinalityType
<1> QED
  BY <1>7, <1>9, <1>10

-----------------------------------------------------------------------------
(***************************************************************************)
(* A collection.                                                           *)
(***************************************************************************)
LEMMA RootsAre ==
    ASSUME Inv, pc = "safe", NEW L, L = InUse(heap.thunks), NEW E, E = InUse(heap.environments)
    PROVE  /\ RootNodes \subseteq Nodes(L, E)
           /\ \A M : RootNodes \subseteq M =>
                /\ current \in MarkedThunks(L, M)
                /\ \A name \in DOMAIN globals : globals[name] \in MarkedThunks(L, M)
                /\ roots \in Seq(MarkedThunks(L, M))
                /\ RootEnvironment \in MarkedScopes(E, M)
                /\ \A k \in DOMAIN frames :
                      /\ FrameNodes(frames[k]) \subseteq M
                      /\ GoodFrame(frames[k], MarkedThunks(L, M), MarkedScopes(E, M))
<1>1. /\ current \in L /\ \A name \in DOMAIN globals : globals[name] \in L
      /\ roots \in Seq(L) /\ RootEnvironment \in E
      /\ \A k \in DOMAIN frames : GoodFrame(frames[k], L, E)
  BY DEF Inv, Held, Working, Sound, Closed
<1>2. PICK K, F : /\ K = {current} \cup Range(globals) \cup Range(roots)
                  /\ F = UNION {FrameNodes(frames[k]) : k \in DOMAIN frames}
  OBVIOUS
<1>3. RootNodes = Thunks(K) \cup ScopeNames({RootEnvironment}) \cup F
  BY <1>2, OneScope DEF RootNodes
<1>4. Range(globals) \subseteq L
  BY <1>1 DEF Range
<1>5. K \subseteq L /\ {RootEnvironment} \subseteq E
  BY <1>1, <1>2, <1>4, RangeOf
<1>6. F \subseteq Nodes(L, E)
  BY <1>1, <1>2, FrameMarked
<1>7. RootNodes \subseteq Nodes(L, E)
  BY <1>3, <1>5, <1>6, InNodes
<1>8. ASSUME NEW M, RootNodes \subseteq M
      PROVE  /\ current \in MarkedThunks(L, M)
             /\ \A name \in DOMAIN globals : globals[name] \in MarkedThunks(L, M)
             /\ roots \in Seq(MarkedThunks(L, M))
             /\ RootEnvironment \in MarkedScopes(E, M)
             /\ \A k \in DOMAIN frames :
                   /\ FrameNodes(frames[k]) \subseteq M
                   /\ GoodFrame(frames[k], MarkedThunks(L, M), MarkedScopes(E, M))
  <2>1. \A id \in K : id \in MarkedThunks(L, M)
    <3>1. Thunks(K) \subseteq M
      BY <1>3, <1>8
    <3> QED
      BY <1>5, <3>1, ThunksMarked
  <2>2. current \in K /\ \A name \in DOMAIN globals : globals[name] \in K
    BY <1>2 DEF Range
  <2>3. roots \in Seq(MarkedThunks(L, M))
    <3>1. IsList(roots)
      BY <1>1 DEF IsList
    <3>2. \A k \in DOMAIN roots : roots[k] \in K
      BY <1>2 DEF Range
    <3> QED
      BY <2>1, <3>1, <3>2, ListOf
  <2>4. RootEnvironment \in MarkedScopes(E, M)
    <3>1. <<"scope", RootEnvironment>> \in M
      BY <1>3, <1>8, NodesAre
    <3> QED
      BY <1>1, <3>1 DEF MarkedScopes
  <2>5. ASSUME NEW k \in DOMAIN frames
        PROVE  /\ FrameNodes(frames[k]) \subseteq M
               /\ GoodFrame(frames[k], MarkedThunks(L, M), MarkedScopes(E, M))
    <3>1. FrameNodes(frames[k]) \subseteq M
      BY <1>2, <1>3, <1>8
    <3> QED
      BY <1>1, <3>1, FrameMarked
  <2> QED
    BY <2>1, <2>2, <2>3, <2>4, <2>5
<1> QED
  BY <1>7, <1>8

LEMMA ChildrenAre ==
    ASSUME Sound(heap), NEW L, L = InUse(heap.thunks), NEW E, E = InUse(heap.environments)
    PROVE  \A S : S \subseteq Nodes(L, E) => Around(S) \subseteq Nodes(L, E)
<1>1. ASSUME NEW x \in Nodes(L, E) PROVE Children(x) \subseteq Nodes(L, E)
  <2>1. CASE x \in Thunks(L)
    <3>1. PICK id \in L : x = <<"thunk", id>>
      BY <2>1, NodesAre
    <3>2. Children(x) = ThunkNodes(heap.thunks[id])
      BY <3>1 DEF Children
    <3>3. GoodThunk(heap.thunks[id], L, E)
      BY <3>1 DEF Sound, Closed, InUse
    <3> QED
      BY <3>2, <3>3, ThunkMarked
  <2>2. CASE x \in ScopeNames(E)
    <3>1. PICK e \in E : x = <<"scope", e>>
      BY <2>2, NodesAre
    <3>2. Children(x) = ScopeNodes(heap.environments[e])
      BY <3>1 DEF Children
    <3>3. GoodScope(heap.environments[e], L, E)
      BY <3>1 DEF Sound, Closed, InUse
    <3> QED
      BY <3>2, <3>3, ScopeMarked
  <2> QED
    BY <1>1, <2>1, <2>2 DEF Nodes
<1> QED
  BY <1>1 DEF Around

\* What is marked is in use, and what it refers to is marked.
LEMMA MarkedRight ==
    ASSUME Inv, pc = "safe", NEW L, L = InUse(heap.thunks), NEW E, E = InUse(heap.environments)
    PROVE  /\ RootNodes \subseteq Marked /\ Marked \subseteq Nodes(L, E)
           /\ \A id \in L : <<"thunk", id>> \in Marked => ThunkNodes(heap.thunks[id]) \subseteq Marked
           /\ \A e \in E : <<"scope", e>> \in Marked => ScopeNodes(heap.environments[e]) \subseteq Marked
<1>1. Sound(heap) /\ IsList(heap.thunks) /\ IsList(heap.environments)
  BY DEF Inv, Working, Sound, Arena
<1>2. PICK m, n : m = Len(heap.thunks) /\ n = Len(heap.environments)
  OBVIOUS
<1>3. m \in Nat /\ n \in Nat
  BY <1>1, <1>2, ListIs
<1>4. L \subseteq 1..m /\ E \subseteq 1..n
  BY <1>1, <1>2, ListIs DEF InUse
<1>5. PICK N, rounds : N = Nodes(L, E) /\ rounds = m + n
  OBVIOUS
<1>6. IsFiniteSet(N) /\ Cardinality(N) <= rounds /\ rounds \in Nat
  <2>1. IsFiniteSet(N) /\ Cardinality(N) <= m + n
    BY <1>3, <1>4, <1>5, NodesFinite
  <2> QED
    BY <1>3, <1>5, <2>1
<1>7. PICK f : /\ f[0] = RootNodes
               /\ \A k \in 1..rounds : f[k] = Around(f[k - 1])
               /\ Marked = f[rounds]
  <2>1. rounds = Len(heap.thunks) + Len(heap.environments)
    BY <1>2, <1>5
  <2> QED
    BY <1>6, <2>1, MarkedIs
<1>8. RootNodes \subseteq N /\ \A S : S \subseteq N => Around(S) \subseteq N
  BY <1>1, <1>5, RootsAre, ChildrenAre
<1>9. f[rounds] \subseteq N /\ f[0] \subseteq f[rounds] /\ Around(f[rounds]) = f[rounds]
  BY <1>6, <1>7, <1>8, Saturates
<1>10. PICK M : M = Marked
  OBVIOUS
<1>11. M \subseteq N /\ RootNodes \subseteq M /\ Around(M) = M
  BY <1>7, <1>9, <1>10
<1>12. \A x \in M : Children(x) \subseteq M
  BY <1>11 DEF Around
<1>13. \A id \in L : <<"thunk", id>> \in M => ThunkNodes(heap.thunks[id]) \subseteq M
  <2>1. \A id : Children(<<"thunk", id>>) = ThunkNodes(heap.thunks[id])
    BY DEF Children
  <2> QED
    BY <1>12, <2>1
<1>14. \A e \in E : <<"scope", e>> \in M => ScopeNodes(heap.environments[e]) \subseteq M
  <2>1. \A e : Children(<<"scope", e>>) = ScopeNodes(heap.environments[e])
    BY DEF Children
  <2> QED
    BY <1>12, <2>1
<1> QED
  BY <1>5, <1>10, <1>11, <1>13, <1>14

\* The black holes are marked: their updates and the heads of their chains are on the frames.
LEMMA HolesMarked ==
    ASSUME NEW thunks, NEW fs, Holes(thunks, fs), NEW M,
           \A k \in DOMAIN fs : FrameNodes(fs[k]) \subseteq M,
           \A id \in PendingIn(thunks) : <<"thunk", id>> \in M => ThunkNodes(thunks[id]) \subseteq M
    PROVE  \A id \in Evals(thunks) \cup PendingIn(thunks) : <<"thunk", id>> \in M
<1>1. \A k \in DOMAIN fs : fs[k].kind \in {"Update", "CompleteConstructorChain"} =>
                              <<"thunk", fs[k].id>> \in M
  <2> SUFFICES ASSUME NEW k \in DOMAIN fs, fs[k].kind \in {"Update", "CompleteConstructorChain"}
               PROVE  <<"thunk", fs[k].id>> \in M
    OBVIOUS
  <2>1. FrameNodes(fs[k]) = Thunks({fs[k].id})
    BY DEF FrameNodes
  <2> QED
    BY <2>1, NodesAre
<1>2. \A id \in Evals(thunks) : <<"thunk", id>> \in M
  <2>1. Evals(thunks) = Updates(fs)
    BY DEF Holes, Evals
  <2> QED
    BY <1>1, <2>1 DEF Updates, FramesOf
<1>3. \A head \in Heads(fs) : <<"thunk", head>> \in M
  BY <1>1 DEF Heads, FramesOf
<1>4. PICK S : S = {id \in PendingIn(thunks) : <<"thunk", id>> \in M}
  OBVIOUS
<1>5. Linkage(thunks, S)
  <2> SUFFICES ASSUME NEW id \in S, thunks[id].parent # 0 PROVE thunks[id].parent \in S
    BY DEF Linkage
  <2>1. id \in PendingIn(thunks) /\ ThunkNodes(thunks[id]) \subseteq M
    BY <1>4
  <2>2. thunks[id].parent \in PendingIn(thunks)
    BY <2>1 DEF Holes
  <2>3. ThunkNodes(thunks[id]) = Thunks(Range(thunks[id].fields) \cup ({thunks[id].parent} \ {0}))
    BY <2>1 DEF ThunkNodes, PendingIn
  <2>4. <<"thunk", thunks[id].parent>> \in M
    BY <2>1, <2>3, NodesAre
  <2> QED
    BY <1>4, <2>2, <2>4
<1>6. \A head \in Heads(fs) : ChainFrom(thunks, head) \subseteq S
  <2> SUFFICES ASSUME NEW head \in Heads(fs) PROVE ChainFrom(thunks, head) \subseteq S
    OBVIOUS
  <2>1. head \in S /\ S \subseteq PendingIn(thunks)
    BY <1>3, <1>4 DEF Holes
  <2> QED
    BY <1>5, <2>1, ChainLeast
<1>7. PendingIn(thunks) = UNION {ChainFrom(thunks, head) : head \in Heads(fs)}
  BY DEF Holes
<1> QED
  BY <1>2, <1>4, <1>6, <1>7

\* What a collection keeps is closed, and all that the frames work on.
LEMMA CollectedRight ==
    ASSUME Inv, pc = "safe", NEW M, M = Marked,
           NEW k, k = [thunks |-> Swept(heap.thunks, "thunk", M),
                       environments |-> Swept(heap.environments, "scope", M),
                       freeThunks |-> FreeSlots(heap.thunks, "thunk", M),
                       freeEnvironments |-> FreeSlots(heap.environments, "scope", M), debt |-> 0]
    PROVE  /\ Working(k, frames)
           /\ InUse(k.thunks) = MarkedThunks(InUse(heap.thunks), M)
           /\ InUse(k.environments) = MarkedScopes(InUse(heap.environments), M)
           /\ RootNodes \subseteq M
<1>1. PICK old, olds, new, news, L, E, L2, E2 :
        /\ old = heap.thunks /\ olds = heap.environments
        /\ new = Swept(heap.thunks, "thunk", M) /\ news = Swept(heap.environments, "scope", M)
        /\ L = InUse(heap.thunks) /\ E = InUse(heap.environments)
        /\ L2 = MarkedThunks(L, M) /\ E2 = MarkedScopes(E, M)
  OBVIOUS
<1>2. /\ Arena(old, heap.freeThunks) /\ Arena(olds, heap.freeEnvironments)
      /\ \A id \in DOMAIN old : GoodThunk(old[id], L, E)
      /\ \A e \in DOMAIN olds : GoodScope(olds[e], L, E)
      /\ Holes(old, frames) /\ IsList(frames)
  BY <1>1 DEF Inv, Working, Sound, Closed
<1>3. /\ IsList(old) /\ Len(old) <= limits.arena /\ IsList(olds) /\ Len(olds) <= limits.arena
  BY <1>2 DEF Arena
<1>4. /\ RootNodes \subseteq M /\ M \subseteq Nodes(L, E)
      /\ \A id \in L : <<"thunk", id>> \in M => ThunkNodes(old[id]) \subseteq M
      /\ \A e \in E : <<"scope", e>> \in M => ScopeNodes(olds[e]) \subseteq M
  BY <1>1, MarkedRight
<1>5. /\ RootEnvironment \in E2
      /\ \A j \in DOMAIN frames : FrameNodes(frames[j]) \subseteq M /\ GoodFrame(frames[j], L2, E2)
  BY <1>1, <1>4, RootsAre
<1>6. /\ \A id \in DOMAIN old : <<"thunk", id>> \in M => id \in L /\ old[id].kind # "Vacant"
      /\ \A e \in DOMAIN olds : <<"scope", e>> \in M => e \in E /\ olds[e].kind # "Vacant"
  <2>1. /\ \A id : <<"thunk", id>> \in M => id \in L
        /\ \A e : <<"scope", e>> \in M => e \in E
    BY <1>4, InNodes
  <2> QED
    BY <1>1, <2>1 DEF InUse
<1>7. /\ Arena(new, FreeSlots(old, "thunk", M))
      /\ InUse(new) = {id \in DOMAIN old : <<"thunk", id>> \in M}
      /\ DOMAIN new = DOMAIN old
      /\ \A id \in DOMAIN old : new[id] = IF <<"thunk", id>> \in M THEN old[id] ELSE Vacant
  <2>1. PICK tag : tag = "thunk"
    OBVIOUS
  <2>2. /\ new = Swept(old, tag, M)
        /\ \A id \in DOMAIN old : <<tag, id>> \in M => old[id].kind # "Vacant"
    BY <1>1, <1>6, <2>1
  <2>3. /\ Arena(new, FreeSlots(old, tag, M))
        /\ InUse(new) = {id \in DOMAIN old : <<tag, id>> \in M}
        /\ DOMAIN new = DOMAIN old
        /\ \A id \in DOMAIN old : new[id] = IF <<tag, id>> \in M THEN old[id] ELSE Vacant
    BY <1>3, <2>2, SweptRight
  <2> QED
    BY <2>1, <2>3
<1>8. /\ Arena(news, FreeSlots(olds, "scope", M))
      /\ InUse(news) = {e \in DOMAIN olds : <<"scope", e>> \in M}
      /\ DOMAIN news = DOMAIN olds
      /\ \A e \in DOMAIN olds : news[e] = IF <<"scope", e>> \in M THEN olds[e] ELSE Vacant
  <2>1. PICK tag : tag = "scope"
    OBVIOUS
  <2>2. /\ news = Swept(olds, tag, M)
        /\ \A e \in DOMAIN olds : <<tag, e>> \in M => olds[e].kind # "Vacant"
    BY <1>1, <1>6, <2>1
  <2>3. /\ Arena(news, FreeSlots(olds, tag, M))
        /\ InUse(news) = {e \in DOMAIN olds : <<tag, e>> \in M}
        /\ DOMAIN news = DOMAIN olds
        /\ \A e \in DOMAIN olds : news[e] = IF <<tag, e>> \in M THEN olds[e] ELSE Vacant
    BY <1>3, <2>2, SweptRight
  <2> QED
    BY <2>1, <2>3
<1>9. InUse(new) = L2 /\ InUse(news) = E2
  <2>1. L \subseteq DOMAIN old /\ E \subseteq DOMAIN olds
    BY <1>1 DEF InUse
  <2> QED
    BY <1>1, <1>6, <1>7, <1>8, <2>1 DEF MarkedThunks, MarkedScopes
<1>10. \A id \in DOMAIN new : GoodThunk(new[id], L2, E2)
  <2> SUFFICES ASSUME NEW id \in DOMAIN old PROVE GoodThunk(new[id], L2, E2)
    BY <1>7
  <2>1. CASE <<"thunk", id>> \in M
    <3>1. ThunkNodes(old[id]) \subseteq M /\ GoodThunk(old[id], L, E)
      BY <1>2, <1>4, <1>6, <2>1
    <3>2. GoodThunk(old[id], L2, E2)
      BY <1>1, <3>1, ThunkMarked
    <3> QED
      BY <1>7, <2>1, <3>2
  <2>2. CASE <<"thunk", id>> \notin M
    BY <1>7, <2>2 DEF GoodThunk, ThunkKinds, Vacant
  <2> QED
    BY <2>1, <2>2
<1>11. \A e \in DOMAIN news : GoodScope(news[e], L2, E2)
  <2> SUFFICES ASSUME NEW e \in DOMAIN olds PROVE GoodScope(news[e], L2, E2)
    BY <1>8
  <2>1. CASE <<"scope", e>> \in M
    <3>1. ScopeNodes(olds[e]) \subseteq M /\ GoodScope(olds[e], L, E)
      BY <1>2, <1>4, <1>6, <2>1
    <3>2. GoodScope(olds[e], L2, E2)
      BY <1>1, <3>1, ScopeMarked
    <3> QED
      BY <1>8, <2>1, <3>2
  <2>2. CASE <<"scope", e>> \notin M
    BY <1>8, <2>2 DEF GoodScope, Vacant
  <2> QED
    BY <2>1, <2>2
<1>12. Holes(new, frames)
  <2>1. \A id \in PendingIn(old) : <<"thunk", id>> \in M => ThunkNodes(old[id]) \subseteq M
    BY <1>4, <1>6 DEF PendingIn
  <2>2. \A id \in Evals(old) \cup PendingIn(old) : <<"thunk", id>> \in M
    BY <1>2, <1>5, <2>1, HolesMarked
  <2>3. \A id \in DOMAIN old :
            new[id] = old[id] \/ (new[id].kind = "Vacant" /\ id \notin Evals(old) \cup PendingIn(old))
    <3> SUFFICES ASSUME NEW id \in DOMAIN old
                 PROVE  new[id] = old[id] \/ (/\ new[id].kind = "Vacant"
                                              /\ id \notin Evals(old) \cup PendingIn(old))
      OBVIOUS
    <3>1. CASE <<"thunk", id>> \in M
      BY <1>7, <3>1
    <3>2. CASE <<"thunk", id>> \notin M
      <4>1. id \notin Evals(old) \cup PendingIn(old)
        BY <2>2, <3>2
      <4>2. new[id] = Vacant
        BY <1>7, <3>2
      <4>3. new[id].kind = "Vacant"
        BY <4>2 DEF Vacant
      <4> QED
        BY <4>1, <4>3
    <3> QED
      BY <3>1, <3>2
  <2>4. Evals(new) = Evals(old)
    <3>1. \A id \in DOMAIN old : new[id].kind = "Evaluating" <=> old[id].kind = "Evaluating"
      BY <2>3 DEF Evals
    <3> QED
      BY <1>7, <3>1 DEF Evals
  <2>5. PendingIn(new) = PendingIn(old) /\ \A id \in PendingIn(old) : new[id] = old[id]
    <3>1. \A id \in DOMAIN old : new[id].kind = "Pending" <=> old[id].kind = "Pending"
      BY <2>3 DEF PendingIn
    <3>2. \A id \in PendingIn(old) : id \in DOMAIN old
      BY DEF PendingIn
    <3> QED
      BY <1>7, <2>3, <3>1, <3>2 DEF PendingIn
  <2>6. SameHoles(old, new)
    BY <2>4, <2>5 DEF SameHoles
  <2>7. Alike(frames, frames)
    BY DEF Alike
  <2> QED
    BY <1>2, <2>6, <2>7, HolesSame
<1>13. /\ k.thunks = new /\ k.environments = news /\ k.debt = 0 /\ Shape(k)
       /\ k.freeThunks = FreeSlots(old, "thunk", M)
       /\ k.freeEnvironments = FreeSlots(olds, "scope", M)
  BY <1>1 DEF Shape
<1>14. Closed(k, L2, E2)
  BY <1>5, <1>10, <1>11, <1>13 DEF Closed
<1>15. Sound(k)
  BY <1>7, <1>8, <1>9, <1>13, <1>14 DEF Sound
<1>16. Working(k, frames)
  BY <1>2, <1>5, <1>9, <1>12, <1>13, <1>15 DEF Working
<1> QED
  BY <1>1, <1>4, <1>9, <1>13, <1>16

LEMMA CollectStep ==
    ASSUME Inv, Collect
    PROVE  Inv'
<1>1. PICK M, k : /\ M = Marked
                  /\ k = [thunks |-> Swept(heap.thunks, "thunk", M),
                          environments |-> Swept(heap.environments, "scope", M),
                          freeThunks |-> FreeSlots(heap.thunks, "thunk", M),
                          freeEnvironments |-> FreeSlots(heap.environments, "scope", M), debt |-> 0]
  OBVIOUS
<1>2. CASE \E node \in M : At(node) = Vacant
  BY <1>1, <1>2, FailStep DEF Collect
<1>3. CASE ~\E node \in M : At(node) = Vacant
  <2>1. /\ pc = "safe" /\ pc' = "inspect" /\ heap' = k
        /\ UNCHANGED <<program, limits, globals, roots, frames, current, reading, nodes>>
    BY <1>1, <1>3 DEF Collect, settled
  <2>2. PICK L, E : L = InUse(heap'.thunks) /\ E = InUse(heap'.environments)
    OBVIOUS
  <2>3. /\ Working(k, frames) /\ RootNodes \subseteq M
        /\ L = MarkedThunks(InUse(heap.thunks), M) /\ E = MarkedScopes(InUse(heap.environments), M)
    BY <1>1, <2>1, <2>2, CollectedRight
  <2>4. /\ current \in L /\ \A name \in DOMAIN globals : globals[name] \in L
        /\ roots \in Seq(L)
    BY <2>1, <2>3, RootsAre
  <2>5. Reading(roots, reading)
    BY <2>1 DEF Inv, Held
  <2>6. Bounded'
    BY <2>1 DEF Inv, Bounded, Stages
  <2>7. Working(heap', frames')
    BY <2>1, <2>3
  <2> QED
    BY <2>1, <2>2, <2>4, <2>5, <2>6, <2>7, InvNext
<1> QED
  BY <1>2, <1>3

-----------------------------------------------------------------------------
(***************************************************************************)
(* The invariant holds at first, every step keeps it, and it says what     *)
(* HeapSound says.                                                         *)
(***************************************************************************)
LEMMA FirstScope ==
    ASSUME limits.arena \in Nat, limits.arena >= 1, NEW s, s = Scope(NoParent, <<>>, <<>>)
    PROVE  /\ Arena(<<s>>, <<>>) /\ InUse(<<s>>) = {1} /\ DOMAIN <<s>> = {1} /\ <<s>>[1] = s
           /\ GoodScope(s, {}, {1})
<1>1. PICK slots : slots = <<s>>
  OBVIOUS
<1>2. slots \in Seq({s}) /\ Len(slots) = 1 /\ DOMAIN slots = {1} /\ slots[1] = s
  BY <1>1
<1>3. s.kind = "Scope" /\ s.parent = NoParent /\ s.ids = <<>> /\ s.thunks = <<>>
  BY DEF Scope
<1>4. InUse(slots) = {1}
  BY <1>2, <1>3 DEF InUse
<1>5. <<>> \in Seq(DOMAIN slots) /\ DOMAIN <<>> = {}
  BY EmptySeq
<1>6. Arena(slots, <<>>)
  BY <1>2, <1>4, <1>5 DEF Arena, IsList
<1>7. <<>> \in Seq({})
  BY EmptySeq
<1>8. GoodScope(s, {}, {1})
  BY <1>3, <1>7 DEF GoodScope
<1> QED
  BY <1>1, <1>2, <1>4, <1>6, <1>8

LEMMA InvInit ==
    ASSUME Init
    PROVE  Inv
<1>1. PICK s, slots, none : s = Scope(NoParent, <<>>, <<>>) /\ slots = <<s>> /\ none = <<>>
  OBVIOUS
<1>2. /\ program \in DOMAIN Programs /\ limits \in Limits
      /\ globals = none /\ roots = none /\ frames = none /\ current = 0 /\ reading = none
      /\ nodes = 0 /\ pc = "start"
      /\ heap = [thunks |-> none, environments |-> slots, freeThunks |-> none,
                 freeEnvironments |-> none, debt |-> 0]
  BY <1>1 DEF Init
<1>3. limits.arena \in Nat /\ limits.arena >= 1 /\ limits.frames \in Nat /\ limits.nodes \in Nat
  BY <1>2, LimitAssumption
<1>4. /\ IsList(none) /\ Len(none) = 0 /\ DOMAIN none = {}
      /\ \A X : none \in Seq(X)
  BY <1>1, ListEmpty, EmptySeq
<1>5. /\ Arena(slots, none) /\ InUse(slots) = {1} /\ DOMAIN slots = {1} /\ slots[1] = s
      /\ GoodScope(s, {}, {1})
  BY <1>1, <1>3, FirstScope
<1>6. Arena(none, none) /\ InUse(none) = {}
  BY <1>3, <1>4 DEF Arena, InUse
<1>7. /\ heap.thunks = none /\ heap.environments = slots /\ heap.freeThunks = none
      /\ heap.freeEnvironments = none /\ heap.debt = 0 /\ Shape(heap)
  BY <1>2 DEF Shape
<1>8. Closed(heap, {}, {1})
  BY <1>4, <1>5, <1>7 DEF Closed, RootEnvironment
<1>9. Sound(heap)
  BY <1>5, <1>6, <1>7, <1>8 DEF Sound
<1>10. Holes(none, none)
  <2>1. /\ FramesOf(none, "Update") = {} /\ FramesOf(none, "CompleteConstructorChain") = {}
        /\ PendingIn(none) = {}
    BY <1>4 DEF FramesOf, PendingIn
  <2>2. Updates(none) = {} /\ Heads(none) = {}
    BY <2>1 DEF Updates, Heads
  <2> QED
    BY <1>4, <2>1, <2>2 DEF Holes, EachOnce
<1>11. Working(heap, frames)
  BY <1>2, <1>4, <1>7, <1>9, <1>10 DEF Working
<1>12. Reading(none, none)
  <2>1. PICK from : from = [k \in 1..1 |-> 0]
    OBVIOUS
  <2>2. from \in [1..1 -> Nat] /\ from[1] = 0
    BY <2>1
  <2>3. Offsets(from, none, none)
    BY <1>4, <2>2 DEF Offsets
  <2> QED
    BY <1>4, <2>3 DEF Reading
<1>13. Bounded
  BY <1>2, <1>3, <1>4 DEF Bounded, Stages
<1>14. PICK L, E : L = InUse(heap.thunks) /\ E = InUse(heap.environments)
  OBVIOUS
<1>15. Held(L, E)
  BY <1>2, <1>4, <1>12 DEF Held
<1> QED
  BY <1>11, <1>13, <1>14, <1>15 DEF Inv

LEMMA NextStep ==
    ASSUME Inv, [Next]_machine
    PROVE  Inv'
<1>1. CASE Inspect
  BY <1>1, InspectReadyStep, InspectAliasStep, InspectBlackHoleStep, InspectApplicationStep,
     EvaluateVarStep, EvaluateRefStep, EvaluateLamStep, EvaluateAppStep, EvaluateMatStep,
     EvaluateLetStep, EvaluateAnnStep, EvaluateAtomStep, EvaluateCtrStep, EvaluateStrictCtrStep
     DEF Inspect
<1>2. CASE Resume
  BY <1>2, ReturnAnswerStep, ReturnUpdateStep, ReturnArgumentStep, ReturnResumeStep,
     ReturnFieldStep, ReturnConstructorStep, ReturnChainStep, CallClosureStep, CallMatchStep,
     ReturnMatchStep DEF Resume
<1>3. CASE Enter \/ Proceed \/ Collect \/ Read \/ ReadFields \/ Built \/ Finish
  BY <1>3, EnterStep, ProceedStep, CollectStep, ReadStep, ReadFieldsStep, BuiltStep, FinishStep
<1>4. CASE Abort
  BY <1>4, AbortStep
<1>5. CASE Stopped \/ UNCHANGED machine
  BY <1>5, StutterStep DEF Stopped
<1> QED
  BY <1>1, <1>2, <1>3, <1>4, <1>5 DEF Next, Step

\* In every reachable state the heap of the evaluator is closed over the slots in use, its free
\* lists hold the vacant slots once each, every frame names slots in use, the thunks that are
\* marked as evaluating are those an update frame will overwrite, and the roots are the fields
\* of the constructors being read (runtime/mod.rs, demand.rs, gc.rs).
THEOREM HeapInvariance == Spec => []Inv
<1>1. Init => Inv
  BY InvInit
<1>2. Inv /\ [Next]_machine => Inv'
  BY NextStep
<1> QED
  BY <1>1, <1>2, PTL DEF Spec

-----------------------------------------------------------------------------
LEMMA TypesSound ==
    ASSUME Inv
    PROVE  EvaluatorTypeOK
<1>1. PICK L, E : L = InUse(heap.thunks) /\ E = InUse(heap.environments)
  OBVIOUS
<1>2. Bounded /\ Held(L, E) /\ Closed(heap, L, E) /\ IsList(heap.thunks)
      /\ Len(heap.thunks) <= limits.arena /\ Len(heap.environments) <= limits.arena
  BY <1>1 DEF Inv, Working, Sound, Arena
<1>3. Len(heap.thunks) \in Nat /\ DOMAIN heap.thunks = 1..Len(heap.thunks) /\ L \subseteq DOMAIN heap.thunks
  BY <1>1, <1>2, ListIs DEF InUse
<1>4. \A id \in DOMAIN heap.thunks : heap.thunks[id].kind \in
            {"Vacant", "Expression", "Application", "Alias", "Evaluating", "Pending", "Ready"}
  BY <1>2 DEF Closed, GoodThunk, ThunkKinds
<1>5. \A e \in DOMAIN heap.environments : heap.environments[e].kind \in {"Vacant", "Scope"}
  BY <1>2 DEF Closed, GoodScope
<1>6. Range(globals) \subseteq DOMAIN heap.thunks
  <2>1. \A name \in DOMAIN globals : globals[name] \in DOMAIN heap.thunks
    BY <1>2, <1>3 DEF Held
  <2> QED
    BY <2>1 DEF Range
<1>7. current \in 0..Len(heap.thunks)
  <2>1. current \in L \/ current = 0
    BY <1>2 DEF Held
  <2> QED
    BY <1>3, <2>1
<1>8. /\ program \in DOMAIN Programs /\ limits \in Limits /\ Len(roots) <= limits.arena
      /\ Len(frames) <= limits.frames /\ nodes <= limits.nodes /\ pc \in Stages
  BY <1>2 DEF Bounded
<1> QED
  BY <1>2, <1>4, <1>5, <1>6, <1>7, <1>8 DEF EvaluatorTypeOK, Stages

LEMMA FreeExact ==
    ASSUME NEW slots, NEW free, Arena(slots, free),
           \A id \in DOMAIN slots : slots[id].kind = "Vacant" => slots[id] = Vacant
    PROVE  Range(free) = VacantIn(slots) /\ Len(free) = Cardinality(VacantIn(slots))
<1>1. \A id \in DOMAIN slots : id \in VacantIn(slots) <=> id \notin InUse(slots)
  BY DEF VacantIn, InUse, Vacant
<1>2. /\ free \in Seq(DOMAIN slots)
      /\ \A j, k \in DOMAIN free : free[j] = free[k] => j = k
      /\ \A id \in DOMAIN slots : id \notin InUse(slots) <=> \E k \in DOMAIN free : free[k] = id
  BY DEF Arena
<1>3. PICK n, V : n = Len(free) /\ V = VacantIn(slots)
  OBVIOUS
<1>4. n \in Nat /\ DOMAIN free = 1..n /\ free \in [1..n -> DOMAIN slots]
  BY <1>2, <1>3, LenProperties
<1>5. \A x : x \in V <=> \E k \in DOMAIN free : free[k] = x
  <2>1. V \subseteq DOMAIN slots
    BY <1>3 DEF VacantIn
  <2> QED
    BY <1>1, <1>2, <1>3, <1>4, <2>1
<1>6. Range(free) = V
  BY <1>5 DEF Range
<1>7. free \in Bijection(1..n, V)
  <2>1. free \in [1..n -> V]
    BY <1>4, <1>5
  <2> QED
    BY <1>2, <1>4, <1>5, <2>1 DEF Bijection, Injection, IsInjective, Surjection
<1>8. IsFiniteSet(1..n) /\ Cardinality(1..n) = n
  BY <1>4, FS_Interval
<1>9. Cardinality(V) = n
  <2>1. ExistsBijection(1..n, V)
    BY <1>7 DEF ExistsBijection
  <2> QED
    BY <1>8, <2>1, FS_Bijection
<1> QED
  BY <1>3, <1>6, <1>9

LEMMA FreeSound ==
    ASSUME Inv
    PROVE  FreeListsExact
<1>1. /\ Arena(heap.thunks, heap.freeThunks) /\ Arena(heap.environments, heap.freeEnvironments)
      /\ \A id \in DOMAIN heap.thunks : heap.thunks[id].kind = "Vacant" => heap.thunks[id] = Vacant
      /\ \A e \in DOMAIN heap.environments :
            heap.environments[e].kind = "Vacant" => heap.environments[e] = Vacant
  BY DEF Inv, Working, Sound, Closed, GoodThunk, GoodScope
<1> QED
  BY <1>1, FreeExact DEF FreeListsExact

\* The fields of the constructors that are read are all rooted.
LEMMA ReadingRooted ==
    ASSUME NEW rs, NEW rd, Reading(rs, rd), NEW L, rs \in Seq(L), NEW k \in DOMAIN rd,
           NEW j \in 1..Len(rd[k].fields)
    PROVE  rd[k].fields[j] \in L
<1>1. PICK from : Offsets(from, rs, rd)
  BY DEF Reading
<1>2. PICK m, n, q : m = Len(rd) /\ n = Len(rs) /\ q = Len(rd[k].fields)
  OBVIOUS
<1>3. /\ rs \in Seq(Nat) /\ n \in Nat /\ IsList(rd) /\ m \in Nat /\ DOMAIN rd = 1..m
      /\ \A i \in DOMAIN rd : Call(rd[i])
  BY <1>2, ListIs, LenProperties DEF Reading
<1>4. q \in Nat
  BY <1>2, <1>3, LenProperties DEF Call
<1>5. from[k + 1] <= n
  <2>1. \A i \in 1..(m + 1) : from[i] <= n
    BY <1>1, <1>2, <1>3, OffsetsUp
  <2>2. k + 1 \in 1..(m + 1)
    BY <1>3
  <2> QED
    BY <2>1, <2>2
<1>6. from[k + 1] = from[k] + q /\ rs[from[k] + j] = rd[k].fields[j] /\ from[k] \in Nat
  <2>1. k \in 1..(m + 1)
    BY <1>3
  <2> QED
    BY <1>1, <1>2, <2>1 DEF Offsets, Part
<1>7. from[k] + j \in 1..n
  BY SMTT(30), <1>2, <1>3, <1>4, <1>5, <1>6
<1> QED
  BY <1>2, <1>6, <1>7, ElementOfSeq

LEMMA ClosedSound ==
    ASSUME Inv
    PROVE  HeapClosed
<1> SUFFICES ASSUME pc # "failed",
                    NEW node \in RootNodes \cup Thunks(Unread)
                          \cup (UNION {ThunkNodes(heap.thunks[id]) : id \in DOMAIN heap.thunks})
                          \cup (UNION {ScopeNodes(heap.environments[e]) :
                                       e \in DOMAIN heap.environments})
             PROVE  node = <<"thunk", 0>> \/ At(node) # Vacant
  BY DEF HeapClosed
<1>1. PICK L, E : L = InUse(heap.thunks) /\ E = InUse(heap.environments)
  OBVIOUS
<1>2. /\ current \in L \cup {0} /\ \A name \in DOMAIN globals : globals[name] \in L
      /\ roots \in Seq(L) /\ Reading(roots, reading) /\ Closed(heap, L, E)
      /\ \A k \in DOMAIN frames : GoodFrame(frames[k], L, E)
  BY <1>1 DEF Inv, Held, Working, Sound
<1>3. CASE node \in Nodes(L, E)
  <2>1. CASE node \in Thunks(L)
    <3>1. PICK id \in L : node = <<"thunk", id>>
      BY <2>1, NodesAre
    <3>2. At(node) = heap.thunks[id] /\ heap.thunks[id].kind # "Vacant"
      BY <1>1, <3>1 DEF At, InUse
    <3> QED
      BY <3>2 DEF Vacant
  <2>2. CASE node \in ScopeNames(E)
    <3>1. PICK e \in E : node = <<"scope", e>>
      BY <2>2, NodesAre
    <3>2. At(node) = heap.environments[e] /\ heap.environments[e].kind # "Vacant"
      BY <1>1, <3>1 DEF At, InUse
    <3> QED
      BY <3>2 DEF Vacant
  <2> QED
    BY <1>3, <2>1, <2>2 DEF Nodes
<1>4. CASE node \in RootNodes
  <2>1. \/ node \in Thunks({current} \cup Range(globals) \cup Range(roots))
        \/ node = <<"scope", RootEnvironment>>
        \/ \E k \in DOMAIN frames : node \in FrameNodes(frames[k])
    BY <1>4 DEF RootNodes
  <2>2. CASE node \in Thunks({current} \cup Range(globals) \cup Range(roots))
    <3>1. PICK id \in {current} \cup Range(globals) \cup Range(roots) : node = <<"thunk", id>>
      BY <2>2, NodesAre
    <3>2. Range(globals) \subseteq L
      BY <1>2 DEF Range
    <3>3. Range(roots) \subseteq L
      BY <1>2, RangeOf
    <3>4. id \in L \/ id = 0
      BY <1>2, <3>1, <3>2, <3>3
    <3> QED
      BY <1>3, <3>1, <3>4, InNodes
  <2>3. CASE node = <<"scope", RootEnvironment>>
    <3>1. RootEnvironment \in E
      BY <1>2 DEF Closed
    <3> QED
      BY <1>3, <2>3, <3>1, InNodes
  <2>4. CASE \E k \in DOMAIN frames : node \in FrameNodes(frames[k])
    BY <1>2, <1>3, <2>4, FrameMarked
  <2> QED
    BY <2>1, <2>2, <2>3, <2>4
<1>5. CASE node \in Thunks(Unread)
  <2>1. PICK id \in Unread : node = <<"thunk", id>>
    BY <1>5, NodesAre
  <2>2. PICK k \in DOMAIN reading :
          \E j \in Len(reading[k].args) + 1 .. Len(reading[k].fields) : id = reading[k].fields[j]
    BY <2>1 DEF Unread
  <2>3. PICK j \in Len(reading[k].args) + 1 .. Len(reading[k].fields) : id = reading[k].fields[j]
    BY <2>2
  <2>4. Len(reading[k].args) \in Nat /\ Len(reading[k].fields) \in Nat
    BY <1>2, ListIs, LenProperties DEF Reading, Call
  <2>5. j \in 1..Len(reading[k].fields)
    BY <2>4
  <2>6. id \in L
    BY <1>2, <2>3, <2>5, ReadingRooted
  <2> QED
    BY <1>3, <2>1, <2>6, InNodes
<1>6. CASE node \in UNION {ThunkNodes(heap.thunks[id]) : id \in DOMAIN heap.thunks}
  <2>1. PICK id \in DOMAIN heap.thunks : node \in ThunkNodes(heap.thunks[id])
    BY <1>6
  <2>2. GoodThunk(heap.thunks[id], L, E)
    BY <1>2 DEF Closed
  <2> QED
    BY <1>3, <2>1, <2>2, ThunkMarked
<1>7. CASE node \in UNION {ScopeNodes(heap.environments[e]) : e \in DOMAIN heap.environments}
  <2>1. PICK e \in DOMAIN heap.environments : node \in ScopeNodes(heap.environments[e])
    BY <1>7
  <2>2. GoodScope(heap.environments[e], L, E)
    BY <1>2 DEF Closed
  <2> QED
    BY <1>3, <2>1, <2>2, ScopeMarked
<1>8. \/ node \in RootNodes \/ node \in Thunks(Unread)
      \/ node \in UNION {ThunkNodes(heap.thunks[id]) : id \in DOMAIN heap.thunks}
      \/ node \in UNION {ScopeNodes(heap.environments[e]) : e \in DOMAIN heap.environments}
  OBVIOUS
<1> QED
  BY <1>4, <1>5, <1>6, <1>7, <1>8

LEMMA InvSound ==
    ASSUME Inv
    PROVE  HeapSound
<1>1. Holes(heap.thunks, frames)
  BY DEF Inv, Working
<1> QED
  BY <1>1, TypesSound, FreeSound, ClosedSound DEF HeapSound, BlackHolesExact

\* No collection frees a slot that a frame, a root, a global or a slot in use still reaches, none
\* is left out of the free lists or listed twice, and a thunk is a black hole exactly while its
\* update is due: for every program, every limit and every run (gc.rs, runtime/mod.rs).
THEOREM HeapSoundness == Spec => []HeapSound
<1>1. Inv => HeapSound
  BY InvSound
<1> QED
  BY <1>1, HeapInvariance, PTL
=============================================================================
