---------------------------- MODULE Network_proofs ----------------------------
(***************************************************************************)
(* Every open descriptor has one owner, and every stream carries what was  *)
(* sent on it, for any number of tasks, handles, requests and bytes.       *)
(***************************************************************************)
EXTENDS Network, Positions_proofs, SequenceTheorems

Ops == {"Connect", "Accept", "Recv", "Send", "SendTo"}
Parcel == [res : Nat, handle : Nat, task : Tasks, op : Ops, size : Nat, offset : Nat, base : Nat]
Sockets ==
    [kind : {"listener", "stream", "datagram"},
     phase : {"up", "connecting", "refused", "dead"}, in : Nat, eof : BOOLEAN,
     out : Nat, issued : Nat, wire : Seq(Nat), open : BOOLEAN]
Table(n) == n = [resources |-> n.resources, pending |-> n.pending, next |-> n.next,
                 retained |-> n.retained, fault |-> n.fault]
Map(f, D, T) == DOMAIN f \subseteq D /\ f \in [DOMAIN f -> T]

-----------------------------------------------------------------------------
(***************************************************************************)
(* What a descriptor x promises to its owner.                              *)
(***************************************************************************)
Numbered(x) == x.wire = [i \in 1..Len(x.wire) |-> i]

\* In the table: everything that was to be sent is out, unless the peer is gone.
Quiet(x) == x.phase \in {"up", "dead"} /\ (x.phase = "up" => Len(x.wire) = x.issued)

\* For a request: what is out is what the request counts.
Sends(x, r) ==
    /\ x.phase \in {"up", "dead"}
    /\ r.offset <= r.size /\ x.issued = r.base + r.size
    /\ x.phase = "up" => Len(x.wire) = r.base + r.offset
Carries(x, r) ==
    /\ r.op = "Connect" => (x.phase # "dead" => Len(x.wire) = x.issued)
    /\ r.op = "Send" => Sends(x, r)
    /\ r.op \in {"Accept", "Recv", "SendTo"} => Quiet(x)

\* A connection is answered only after the peer decided.
Decided(x, r) == r.op = "Connect" => x.phase # "connecting"

-----------------------------------------------------------------------------
(***************************************************************************)
(* The tables n, with o the next order, over the descriptors h, while the  *)
(* driver has the descriptors L and the handle b in hand.                  *)
(***************************************************************************)
Typed(n, o, h) ==
    /\ Table(n) /\ n.next \in Nat \ {0} /\ o \in Nat \ {0} /\ n.retained \in Nat
    /\ Map(n.resources, 1..(n.next - 1), DOMAIN h)
    /\ Map(n.pending, 1..(o - 1), Parcel)
    /\ h \in Seq(Sockets)

Counted(n) == n.retained = BytesOf(n.pending) /\ Held(n) <= HandleLimit

\* Owners are open descriptors and no descriptor has two.
InTable(n, d) == \E k \in DOMAIN n.resources : n.resources[k] = d
Parked(n, d) == \E o \in DOMAIN n.pending : n.pending[o].res = d
Single(n, L, h) ==
    /\ L \subseteq DOMAIN h
    /\ \A o \in DOMAIN n.pending : n.pending[o].res \in DOMAIN h
    /\ \A d \in DOMAIN h : h[d].open <=> d \in L \/ InTable(n, d) \/ Parked(n, d)
    /\ \A d \in L : ~InTable(n, d) /\ ~Parked(n, d)
    /\ \A d \in DOMAIN h : ~(InTable(n, d) /\ Parked(n, d))
    /\ \A j, k \in DOMAIN n.resources : n.resources[j] = n.resources[k] => j = k
    /\ \A o, p \in DOMAIN n.pending : n.pending[o].res = n.pending[p].res => o = p

\* The handle of a request was given out and stays free for its resource.
Kept(n, b) == b = NoHandle \/ b \in (1..(n.next - 1)) \ DOMAIN n.resources
Distinct(n, b) ==
    /\ Kept(n, b)
    /\ \A o \in DOMAIN n.pending :
          /\ Kept(n, n.pending[o].handle)
          /\ n.pending[o].handle = NoHandle <=> n.pending[o].op = "Connect"
          /\ n.pending[o].handle = b => b = NoHandle
    /\ \A o, p \in DOMAIN n.pending :
          n.pending[o].handle = n.pending[p].handle /\ n.pending[o].handle # NoHandle => o = p

Flowing(n, h) ==
    /\ \A d \in DOMAIN h : Numbered(h[d])
    /\ \A k \in DOMAIN n.resources : Quiet(h[n.resources[k]])
    /\ \A o \in DOMAIN n.pending : Carries(h[n.pending[o].res], n.pending[o])

Books(n, o, L, b, h) ==
    Typed(n, o, h) /\ Counted(n) /\ Single(n, L, h) /\ Distinct(n, b) /\ Flowing(n, h)

-----------------------------------------------------------------------------
(***************************************************************************)
(* The inductive invariant.                                                *)
(***************************************************************************)
\* A request r at work on the descriptors h.
AtWork(r, h) ==
    /\ r \in Parcel /\ r.res \in DOMAIN h
    /\ r.handle = NoHandle <=> r.op = "Connect"
    /\ Carries(h[r.res], r)
    /\ Decided(h[r.res], r)

\* The orders q that were polled wait to be resumed, each once.
Polled(q, n, h) ==
    /\ q \in Seq(Nat) /\ Increasing(q)
    /\ \A i \in DOMAIN q :
          q[i] \in DOMAIN n.pending /\ Decided(h[n.pending[q[i]].res], n.pending[q[i]])

InHand(a) == {a[k].res : k \in DOMAIN a}
HandleInHand(a) == IF a = <<>> THEN NoHandle ELSE a[1].handle

Duty ==
    /\ running \in Tasks \cup {Nobody} /\ ready \in Seq(Tasks)
    /\ outcome # "internal" /\ net.fault = ""
    /\ running # Nobody => outcome = "running"

Work(a, h) == a = <<>> \/ (a = <<a[1]>> /\ AtWork(a[1], h))

Inv ==
    /\ Duty
    /\ Work(active, host)
    /\ Books(net, order, InHand(active), HandleInHand(active), host)
    /\ Polled(batch, net, host)

-----------------------------------------------------------------------------
(***************************************************************************)
(* Tables with one entry more or less.                                     *)
(***************************************************************************)
\* A table stays a table.
LEMMA WithMap ==
    ASSUME NEW D, NEW T, NEW f, Map(f, D, T), NEW x \in D, NEW v \in T
    PROVE  Map(With(f, x, v), D, T)
  BY DEF With, Map

\* An entry is taken out, the others stay.
LEMMA WithoutRight ==
    ASSUME NEW f, NEW x
    PROVE  /\ DOMAIN Without(f, x) = DOMAIN f \ {x}
           /\ \A y \in DOMAIN f : y # x => Without(f, x)[y] = f[y]
  BY DEF Without

\* A smaller table is a table.
LEMMA WithoutMap ==
    ASSUME NEW D, NEW T, NEW f, Map(f, D, T), NEW x
    PROVE  Map(Without(f, x), D, T)
  BY DEF Without, Map

\* Tables are finite.
LEMMA MapFinite ==
    ASSUME NEW k \in Nat, NEW T, NEW f, Map(f, 1..k, T)
    PROVE  IsFiniteSet(DOMAIN f) /\ Cardinality(DOMAIN f) \in Nat
<1>1. IsFiniteSet(1..k)
  BY FS_Interval
<1>2. DOMAIN f \in SUBSET (1..k)
  BY DEF Map
<1> QED
  BY <1>1, <1>2, FS_Subset, FS_CardinalityType

\* The bytes a set S of parked requests retains, each under its order.
Spread(f, S) == UNION {{o} \X (1..Bytes(f[o])) : o \in S}

\* A request counts a number of bytes.
LEMMA BytesType ==
    ASSUME NEW r \in Parcel
    PROVE  Bytes(r) \in Nat
  BY DEF Parcel, Bytes

\* The bytes of a table can be counted.
LEMMA SpreadFinite ==
    ASSUME NEW k \in Nat, NEW f, Map(f, 1..k, Parcel)
    PROVE  /\ IsFiniteSet(Spread(f, DOMAIN f))
           /\ BytesOf(f) = Cardinality(Spread(f, DOMAIN f)) /\ BytesOf(f) \in Nat
<1> DEFINE S == DOMAIN f
           F == {{o} \X (1..Bytes(f[o])) : o \in S}
           g == [o \in S |-> {o} \X (1..Bytes(f[o]))]
<1>1. g \in Surjection(S, F)
  BY DEF Surjection
<1>2. IsFiniteSet(S)
  BY MapFinite
<1>3. IsFiniteSet(F)
  BY <1>1, <1>2, FS_Surjection
<1>4. ASSUME NEW o \in S PROVE IsFiniteSet({o} \X (1..Bytes(f[o])))
  <2>1. f[o] \in Parcel
    BY DEF Map
  <2>2. IsFiniteSet(1..Bytes(f[o]))
    BY <2>1, BytesType, FS_Interval
  <2>3. IsFiniteSet({o})
    BY FS_Singleton
  <2> QED
    BY <2>2, <2>3, FS_Product
<1>5. \A T \in F : IsFiniteSet(T)
  BY <1>4
<1>6. IsFiniteSet(UNION F)
  BY <1>3, <1>5, FS_UNION
<1> QED
  BY <1>6, FS_CardinalityType DEF Spread, BytesOf

\* The bytes of one request.
LEMMA Block ==
    ASSUME NEW o, NEW n \in Nat
    PROVE  IsFiniteSet({o} \X (1..n)) /\ Cardinality({o} \X (1..n)) = n
<1>1. IsFiniteSet({o}) /\ Cardinality({o}) = 1
  BY FS_Singleton
<1>2. IsFiniteSet(1..n) /\ Cardinality(1..n) = n
  BY FS_Interval
<1>3. /\ IsFiniteSet({o} \X (1..n))
      /\ Cardinality({o} \X (1..n)) = Cardinality({o}) * Cardinality(1..n)
  BY <1>1, <1>2, FS_Product
<1>4. 1 * n = n
  OBVIOUS
<1> QED
  BY <1>1, <1>2, <1>3, <1>4

\* Parking and taking a request changes the retained bytes by its own.
LEMMA BytesLess ==
    ASSUME NEW k \in Nat, NEW f, Map(f, 1..k, Parcel), NEW o \in DOMAIN f
    PROVE  BytesOf(Without(f, o)) = BytesOf(f) - Bytes(f[o])
<1> DEFINE g == Without(f, o)
           A == Spread(f, DOMAIN f)
           B == {o} \X (1..Bytes(f[o]))
           C == Spread(g, DOMAIN g)
<1>1. Map(g, 1..k, Parcel)
  BY WithoutMap
<1>2. IsFiniteSet(A) /\ BytesOf(f) = Cardinality(A) /\ BytesOf(f) \in Nat
  BY SpreadFinite
<1>3. BytesOf(g) = Cardinality(C)
  BY <1>1, SpreadFinite
<1>4. f[o] \in Parcel
  BY DEF Map
<1>5. Cardinality(B) = Bytes(f[o])
  BY <1>4, BytesType, Block
<1>6. DOMAIN g = DOMAIN f \ {o} /\ \A y \in DOMAIN g : g[y] = f[y]
  BY WithoutRight
<1>7. C = A \ B
  <2> HIDE DEF g
  <2>1. \A u : u \in A <=> \E y \in DOMAIN f : u \in {y} \X (1..Bytes(f[y]))
    BY DEF Spread
  <2>2. \A u : u \in C <=> \E y \in DOMAIN g : u \in {y} \X (1..Bytes(g[y]))
    BY DEF Spread
  <2>3. \A u : u \in C <=> \E y \in DOMAIN f : y # o /\ u \in {y} \X (1..Bytes(f[y]))
    BY <1>6, <2>2
  <2> HIDE DEF A, C
  <2>4. \A y : y # o => ({y} \X (1..Bytes(f[y]))) \cap B = {}
    OBVIOUS
  <2>5. \A u : u \in C <=> u \in A \ B
    BY <2>1, <2>3, <2>4
  <2> QED
    BY <2>5
<1>8. A \cap B = B
  BY DEF Spread
<1> HIDE DEF A, B, C, g
<1>9. Cardinality(A \ B) = Cardinality(A) - Cardinality(A \cap B)
  BY <1>2, FS_Difference
<1> QED
  BY <1>2, <1>3, <1>5, <1>7, <1>8, <1>9 DEF g

\* An entry more counts its bytes more.
LEMMA BytesMore ==
    ASSUME NEW k \in Nat, NEW f, Map(f, 1..k, Parcel), NEW o \in 1..k, o \notin DOMAIN f,
           NEW r \in Parcel
    PROVE  BytesOf(With(f, o, r)) = BytesOf(f) + Bytes(r)
<1> DEFINE g == With(f, o, r)
<1>1. Map(g, 1..k, Parcel)
  BY WithMap
<1>2. o \in DOMAIN g /\ g[o] = r
  BY DEF With
<1>3. Without(g, o) = f
  <2>1. DOMAIN Without(g, o) = DOMAIN f
    BY DEF With, Without
  <2>2. f = [y \in DOMAIN f |-> f[y]]
    BY DEF Map
  <2>3. \A y \in DOMAIN f : Without(g, o)[y] = f[y]
    BY DEF With, Without
  <2>4. Without(g, o) = [y \in DOMAIN f |-> f[y]]
    BY <2>1, <2>3 DEF Without
  <2> QED
    BY <2>2, <2>4
<1> HIDE DEF g
<1>4. BytesOf(f) = BytesOf(g) - Bytes(g[o])
  BY <1>1, <1>2, <1>3, BytesLess
<1>5. BytesOf(g) \in Nat /\ BytesOf(f) \in Nat /\ Bytes(r) \in Nat
  BY <1>1, SpreadFinite, BytesType
<1> QED
  BY <1>2, <1>4, <1>5 DEF g
-----------------------------------------------------------------------------
(***************************************************************************)
(* The operations on the tables.                                           *)
(***************************************************************************)
\* A table with another map of resources, of parked requests or another handle.
LEMMA TableFields ==
    ASSUME NEW n, Table(n)
    PROVE  /\ \A v : /\ [n EXCEPT !.resources = v]
                          = [resources |-> v, pending |-> n.pending, next |-> n.next,
                             retained |-> n.retained, fault |-> n.fault]
                     /\ [n EXCEPT !.next = v]
                          = [resources |-> n.resources, pending |-> n.pending, next |-> v,
                             retained |-> n.retained, fault |-> n.fault]
                     /\ Faulty(n, v)
                          = [resources |-> n.resources, pending |-> n.pending, next |-> n.next,
                             retained |-> n.retained, fault |-> v]
           /\ \A v, w : [n EXCEPT !.pending = v, !.retained = w]
                          = [resources |-> n.resources, pending |-> v, next |-> n.next,
                             retained |-> w, fault |-> n.fault]
<1> DEFINE R(a, b, c, w, e) == [resources |-> a, pending |-> b, next |-> c, retained |-> w, fault |-> e]
<1>1. n = R(n.resources, n.pending, n.next, n.retained, n.fault)
  BY DEF Table
<1>2. \A a, b, c, w, e, v : [R(a, b, c, w, e) EXCEPT !.resources = v] = R(v, b, c, w, e)
  OBVIOUS
<1>3. \A a, b, c, w, e, v : [R(a, b, c, w, e) EXCEPT !.next = v] = R(a, b, v, w, e)
  OBVIOUS
<1>4. \A a, b, c, w, e, v : [R(a, b, c, w, e) EXCEPT !.fault = v] = R(a, b, c, w, v)
  OBVIOUS
<1>5. \A a, b, c, w, e, v : [R(a, b, c, w, e) EXCEPT !.pending = v] = R(a, v, c, w, e)
  OBVIOUS
<1>10. \A a, b, c, w, e, v : [R(a, b, c, w, e) EXCEPT !.retained = v] = R(a, b, c, v, e)
  OBVIOUS
<1> HIDE DEF R
<1>6. \A v : [n EXCEPT !.resources = v] = R(v, n.pending, n.next, n.retained, n.fault)
  BY <1>1, <1>2
<1>7. \A v : [n EXCEPT !.next = v] = R(n.resources, n.pending, v, n.retained, n.fault)
  BY <1>1, <1>3
<1>8. \A v : [n EXCEPT !.fault = v] = R(n.resources, n.pending, n.next, n.retained, v)
  BY <1>1, <1>4
<1>9. \A v, w : [n EXCEPT !.pending = v, !.retained = w] = R(n.resources, v, n.next, w, n.fault)
  <2> TAKE v, w
  <2>1. PICK m : m = [n EXCEPT !.pending = v]
    OBVIOUS
  <2>2. m = R(n.resources, v, n.next, n.retained, n.fault)
    BY <1>1, <1>5, <2>1
  <2>3. [m EXCEPT !.retained = w] = R(n.resources, v, n.next, w, n.fault)
    BY <1>10, <2>2
  <2>4. [n EXCEPT !.pending = v, !.retained = w] = [[n EXCEPT !.pending = v] EXCEPT !.retained = w]
    OBVIOUS
  <2> QED
    BY <2>1, <2>3, <2>4
<1> QED
  BY <1>6, <1>7, <1>8, <1>9 DEF R, Faulty

\* The table m has the resources f, the parked requests p, the next handle k and
\* the retained bytes w.
Has(m, f, p, k, w) ==
    m = [resources |-> f, pending |-> p, next |-> k, retained |-> w, fault |-> ""]

\* The fields of a table whose parts are known.
LEMMA HasFields ==
    ASSUME NEW m, NEW f, NEW p, NEW k, NEW w, Has(m, f, p, k, w)
    PROVE  /\ m.resources = f /\ m.pending = p /\ m.next = k /\ m.retained = w
           /\ m.fault = "" /\ Table(m)
  BY DEF Has, Table

\* A resource is put back under its handle, unless the limit is reached.
LEMMA RestoreCases ==
    ASSUME NEW n, Table(n), n.fault = "", NEW k, k \notin DOMAIN n.resources, NEW d
    PROVE  \/ Restore(n, k, d).fault = "limit"
           \/ /\ ~(Held(n) >= HandleLimit)
              /\ Has(Restore(n, k, d), With(n.resources, k, d), n.pending, n.next, n.retained)
<1>1. CASE Held(n) >= HandleLimit
  <2>1. Restore(n, k, d) = Faulty(n, "limit")
    BY <1>1 DEF Restore
  <2>2. Faulty(n, "limit").fault = "limit"
    BY DEF Faulty, Table
  <2> QED
    BY <2>1, <2>2
<1>2. CASE ~(Held(n) >= HandleLimit)
  <2>1. Restore(n, k, d) = [n EXCEPT !.resources = With(@, k, d)]
    BY <1>2 DEF Restore
  <2> QED
    BY <1>2, <2>1, TableFields DEF Has
<1> QED
  BY <1>1, <1>2

\* A new resource takes the next handle, unless the limit is reached.
LEMMA InsertCases ==
    ASSUME NEW n, Table(n), n.fault = "", NEW d, n.next \notin DOMAIN n.resources
    PROVE  \/ Insert(n, d).fault = "limit"
           \/ /\ ~(Held(n) >= HandleLimit)
              /\ Has(Insert(n, d), With(n.resources, n.next, d), n.pending, n.next + 1, n.retained)
<1> DEFINE m == [n EXCEPT !.next = @ + 1]
<1>1. Has(m, n.resources, n.pending, n.next + 1, n.retained)
  BY ZenonT(60), TableFields DEF Has
<1> HIDE DEF m
<1>2. /\ m.resources = n.resources /\ m.pending = n.pending /\ m.next = n.next + 1
      /\ m.retained = n.retained /\ m.fault = "" /\ Table(m)
  BY <1>1 DEF Has, Table
<1>3. Insert(n, d) = Restore(m, n.next, d)
  BY DEF Insert, m
<1>4. Held(m) = Held(n)
  BY <1>2 DEF Held
<1>5. \/ Restore(m, n.next, d).fault = "limit"
      \/ /\ ~(Held(m) >= HandleLimit)
         /\ Has(Restore(m, n.next, d), With(m.resources, n.next, d), m.pending, m.next, m.retained)
  BY <1>2, RestoreCases
<1> QED
  BY <1>2, <1>3, <1>4, <1>5

\* A request takes the next order, unless the limit is reached.
LEMMA ParkCases ==
    ASSUME NEW n, Table(n), n.fault = "", NEW r, order \notin DOMAIN n.pending
    PROVE  \/ Park(n, r).fault = "limit"
           \/ /\ ~(Held(n) >= HandleLimit)
              /\ Has(Park(n, r), n.resources, With(n.pending, order, r), n.next, n.retained + Bytes(r))
<1>0. Faulty(n, "limit").fault = "limit"
  BY DEF Faulty, Table
<1>1. CASE Held(n) >= HandleLimit
  BY <1>0, <1>1 DEF Park
<1>2. CASE ~(Held(n) >= HandleLimit) /\ n.retained + Bytes(r) > RetainedLimit
  BY <1>0, <1>2 DEF Park
<1>3. CASE ~(Held(n) >= HandleLimit) /\ ~(n.retained + Bytes(r) > RetainedLimit)
  <2>1. Park(n, r) = [n EXCEPT !.pending = With(@, order, r), !.retained = @ + Bytes(r)]
    BY <1>3 DEF Park
  <2>2. PICK v, w : v = With(n.pending, order, r) /\ w = n.retained + Bytes(r)
    OBVIOUS
  <2>3. Park(n, r) = [n EXCEPT !.pending = v, !.retained = w]
    BY <2>1, <2>2
  <2>4. Has(Park(n, r), n.resources, v, n.next, w)
    BY <2>3, TableFields DEF Has
  <2> QED
    BY <1>3, <2>2, <2>4
<1> QED
  BY <1>1, <1>2, <1>3

\* A parked request is taken out with its bytes.
LEMMA TakePendingHas ==
    ASSUME NEW n, Table(n), n.fault = "", NEW o \in DOMAIN n.pending
    PROVE  Has(TakePending(n, o), n.resources, Without(n.pending, o), n.next,
               n.retained - Bytes(n.pending[o]))
  BY ZenonT(60), TableFields DEF TakePending, Has
-----------------------------------------------------------------------------
(***************************************************************************)
(* The books before and after an operation.                                *)
(***************************************************************************)
\* The numbers below the next one.
LEMMA Below ==
    ASSUME NEW z \in Nat \ {0}
    PROVE  /\ z - 1 \in Nat /\ (z + 1) - 1 = z /\ z + 1 \in Nat \ {0}
           /\ z \notin 1..(z - 1) /\ z \in 1..z /\ 1..(z - 1) \subseteq 1..z
           /\ \A k \in 1..(z - 1) : k \in Nat \ {0}
<1>1. z - 1 \in Nat /\ (z + 1) - 1 = z /\ z + 1 \in Nat \ {0} /\ ~(z <= z - 1) /\ 1 <= z
  OBVIOUS
<1> QED
  BY <1>1

\* A sum that the provers need at once.
LEMMA NatSum ==
    ASSUME NEW a \in Nat, NEW b \in Nat
    PROVE  a + b \in Nat
  OBVIOUS

\* One entry more below the limit, or one less.
LEMMA Room ==
    ASSUME NEW a \in Nat, NEW b \in Nat, NEW l \in Nat
    PROVE  /\ ~(a + b >= l) => a + (b + 1) <= l
           /\ a + b <= l => a + (b - 1) <= l /\ (a - 1) + b <= l
  OBVIOUS

\* The numbers of the books.
LEMMA BooksParts ==
    ASSUME NEW n, NEW o, NEW L, NEW b, NEW h, Books(n, o, L, b, h)
    PROVE  /\ Table(n) /\ n.next \in Nat \ {0} /\ o \in Nat \ {0}
           /\ n.next - 1 \in Nat /\ o - 1 \in Nat
           /\ IsFiniteSet(DOMAIN n.resources) /\ IsFiniteSet(DOMAIN n.pending)
           /\ Cardinality(DOMAIN n.resources) \in Nat /\ Cardinality(DOMAIN n.pending) \in Nat
           /\ Held(n) \in Nat
<1>1. /\ Table(n) /\ n.next \in Nat \ {0} /\ o \in Nat \ {0}
      /\ Map(n.resources, 1..(n.next - 1), DOMAIN h) /\ Map(n.pending, 1..(o - 1), Parcel)
  BY DEF Books, Typed
<1>2. n.next - 1 \in Nat /\ o - 1 \in Nat
  BY <1>1
<1>3. IsFiniteSet(DOMAIN n.resources) /\ Cardinality(DOMAIN n.resources) \in Nat
  BY <1>1, <1>2, MapFinite
<1>4. IsFiniteSet(DOMAIN n.pending) /\ Cardinality(DOMAIN n.pending) \in Nat
  BY <1>1, <1>2, MapFinite
<1> QED
  BY <1>1, <1>2, <1>3, <1>4 DEF Held

\* The handle k is free for a resource, and the books go on with b in hand.
Free(n, k, b) ==
    /\ k \in (1..(n.next - 1)) \ DOMAIN n.resources
    /\ \A p \in DOMAIN n.pending : n.pending[p].handle # k
    /\ Kept(n, b) /\ b # k
    /\ \A p \in DOMAIN n.pending : n.pending[p].handle = b => b = NoHandle

\* A descriptor d in hand goes into the table.
LEMMA BooksAdd ==
    ASSUME NEW n, NEW o, NEW L, NEW c, NEW h, Books(n, o, L, c, h),
           NEW k, NEW b, Free(n, k, b), NEW d \in L, Quiet(h[d]),
           ~(Held(n) >= HandleLimit),
           NEW m, Has(m, With(n.resources, k, d), n.pending, n.next, n.retained)
    PROVE  Books(m, o, L \ {d}, b, h)
<1> DEFINE f == n.resources
           g == m.resources
<1>0. /\ m.resources = With(f, k, d) /\ m.pending = n.pending /\ m.next = n.next
      /\ m.retained = n.retained /\ m.fault = "" /\ Table(m)
  BY DEF Has, Table
<1>1. Typed(n, o, h) /\ Counted(n) /\ Single(n, L, h) /\ Distinct(n, c) /\ Flowing(n, h)
  BY DEF Books
<1>2. k \in (1..(n.next - 1)) \ DOMAIN f
  BY DEF Free
<1>3. d \in DOMAIN h
  BY <1>1 DEF Single
<1>4. /\ DOMAIN g = DOMAIN f \cup {k} /\ g[k] = d
      /\ \A j \in DOMAIN f : g[j] = f[j]
  BY <1>0, <1>2 DEF With
<1>5. Typed(m, o, h)
  <2>1. Map(g, 1..(m.next - 1), DOMAIN h)
    BY <1>0, <1>1, <1>2, <1>3, WithMap DEF Typed
  <2> QED
    BY <1>0, <1>1, <2>1 DEF Typed
<1>6. Counted(m)
  <2>1. Cardinality(DOMAIN g) = Cardinality(DOMAIN f) + 1
    BY <1>2, <1>4, BooksParts, FS_AddElement
  <2>2. Held(m) = Cardinality(DOMAIN f) + 1 + Cardinality(DOMAIN n.pending)
    BY <1>0, <2>1 DEF Held
  <2>3. Held(n) = Cardinality(DOMAIN f) + Cardinality(DOMAIN n.pending)
    BY DEF Held
  <2>4. /\ Cardinality(DOMAIN f) \in Nat /\ Cardinality(DOMAIN n.pending) \in Nat
        /\ HandleLimit \in Nat /\ ~(Held(n) >= HandleLimit)
    BY BooksParts, NetworkAssumption
  <2>5. Held(m) <= HandleLimit
    BY <2>2, <2>3, <2>4
  <2> QED
    BY <1>0, <1>1, <2>5 DEF Counted
<1>7. Single(m, L \ {d}, h)
  <2>1. \A x : InTable(m, x) <=> InTable(n, x) \/ x = d
    BY <1>4 DEF InTable
  <2>2. \A x : Parked(m, x) <=> Parked(n, x)
    BY <1>0 DEF Parked
  <2>3. ~InTable(n, d) /\ ~Parked(n, d)
    BY <1>1 DEF Single
  <2>4. \A j \in DOMAIN f : f[j] # d
    BY <2>3 DEF InTable
  <2>5. \A i, j \in DOMAIN g : g[i] = g[j] => i = j
    <3>1. \A i, j \in DOMAIN f : f[i] = f[j] => i = j
      BY <1>1 DEF Single
    <3> QED
      BY <1>4, <2>4, <3>1
  <2>6. \A x \in DOMAIN h : h[x].open <=> x \in L \ {d} \/ InTable(m, x) \/ Parked(m, x)
    BY <1>1, <2>1, <2>2 DEF Single
  <2> QED
    BY <1>0, <1>1, <2>1, <2>2, <2>3, <2>5, <2>6 DEF Single
<1>8. Distinct(m, b)
  <2>1. \A x : Kept(n, x) /\ x # k => Kept(m, x)
    BY <1>0, <1>4 DEF Kept
  <2>2. \A p \in DOMAIN n.pending : n.pending[p].handle # k
    BY DEF Free
  <2> QED
    BY <1>0, <1>1, <2>1, <2>2 DEF Distinct, Free
<1>9. Flowing(m, h)
  BY <1>0, <1>1, <1>4 DEF Flowing
<1> QED
  BY <1>5, <1>6, <1>7, <1>8, <1>9 DEF Books

\* The handle in hand may be forgotten.
LEMMA BooksForget ==
    ASSUME NEW n, NEW o, NEW L, NEW c, NEW h, Books(n, o, L, c, h)
    PROVE  Books(n, o, L, NoHandle, h)
  BY DEF Books, Distinct, Kept

\* A resource that a request held goes back under its handle.
LEMMA BooksRestore ==
    ASSUME NEW n, NEW o, NEW L, NEW b, NEW h, Books(n, o, L, b, h), n.fault = "",
           b # NoHandle, NEW d \in L, Quiet(h[d])
    PROVE  /\ Restore(n, b, d).fault \in {"", "limit"}
           /\ Restore(n, b, d).fault = "" =>
                 /\ Books(Restore(n, b, d), o, L \ {d}, NoHandle, h)
                 /\ Restore(n, b, d).pending = n.pending
<1>1. Free(n, b, NoHandle)
  BY DEF Free, Books, Distinct, Kept
<1>2. Table(n) /\ b \notin DOMAIN n.resources
  BY BooksParts DEF Books, Distinct, Kept
<1> DEFINE m == Restore(n, b, d)
<1>3. \/ m.fault = "limit"
      \/ /\ ~(Held(n) >= HandleLimit)
         /\ Has(m, With(n.resources, b, d), n.pending, n.next, n.retained)
  BY <1>2, RestoreCases
<1> HIDE DEF m
<1>4. CASE m.fault = "limit"
  BY <1>4 DEF m
<1>5. CASE /\ ~(Held(n) >= HandleLimit)
           /\ Has(m, With(n.resources, b, d), n.pending, n.next, n.retained)
  <2>1. Books(m, o, L \ {d}, NoHandle, h)
    BY <1>1, <1>5, BooksAdd
  <2>2. m.fault = "" /\ m.pending = n.pending
    BY <1>5 DEF Has
  <2> QED
    BY <2>1, <2>2 DEF m
<1> QED
  BY <1>3, <1>4, <1>5

\* A new resource goes into the table under a new handle.
LEMMA BooksInsert ==
    ASSUME NEW n, NEW o, NEW L, NEW b, NEW h, Books(n, o, L, b, h), n.fault = "",
           NEW d \in L, Quiet(h[d])
    PROVE  /\ Insert(n, d).fault \in {"", "limit"}
           /\ Insert(n, d).fault = "" =>
                 /\ Books(Insert(n, d), o, L \ {d}, b, h)
                 /\ Insert(n, d).pending = n.pending
<1>0. Typed(n, o, h) /\ Counted(n) /\ Single(n, L, h) /\ Distinct(n, b) /\ Flowing(n, h)
  BY DEF Books
<1>1. Table(n) /\ n.next \in Nat \ {0} /\ DOMAIN n.resources \subseteq 1..(n.next - 1)
  BY <1>0 DEF Typed, Map
<1>a. PICK z \in Nat \ {0} : z = n.next
  BY <1>1
<1>b. /\ z \notin 1..(z - 1) /\ 1..(z - 1) \subseteq 1..((z + 1) - 1) /\ z \in 1..((z + 1) - 1)
      /\ z + 1 \in Nat \ {0}
  BY Below
<1>2. n.next \notin DOMAIN n.resources
  BY <1>1, <1>a, <1>b
<1> DEFINE m == Insert(n, d)
<1>3. \/ m.fault = "limit"
      \/ /\ ~(Held(n) >= HandleLimit)
         /\ Has(m, With(n.resources, n.next, d), n.pending, n.next + 1, n.retained)
  BY <1>1, <1>2, InsertCases
<1> HIDE DEF m
<1>4. CASE m.fault = "limit"
  BY <1>4 DEF m
<1>5. CASE /\ ~(Held(n) >= HandleLimit)
           /\ Has(m, With(n.resources, n.next, d), n.pending, n.next + 1, n.retained)
  <2>1. PICK w : w = [resources |-> n.resources, pending |-> n.pending, next |-> n.next + 1,
                      retained |-> n.retained, fault |-> ""]
    OBVIOUS
  <2>2. /\ w.resources = n.resources /\ w.pending = n.pending /\ w.next = n.next + 1
        /\ w.retained = n.retained /\ w.fault = "" /\ Table(w)
    BY <2>1 DEF Table
  <2>3. 1..(n.next - 1) \subseteq 1..(w.next - 1) /\ w.next \in Nat \ {0}
    BY <1>a, <1>b, <2>2
  <2>4. Typed(w, o, h)
    <3>1. Map(w.resources, 1..(w.next - 1), DOMAIN h)
      BY <1>0, <2>2, <2>3 DEF Typed, Map
    <3> QED
      BY <1>0, <2>2, <2>3, <3>1 DEF Typed
  <2>5. \A x : Kept(n, x) => Kept(w, x)
    BY <2>2, <2>3 DEF Kept
  <2>6. Distinct(w, b)
    BY <1>0, <2>2, <2>5 DEF Distinct
  <2>7. Counted(w)
    BY <1>0, <2>2 DEF Counted, Held
  <2>8. Single(w, L, h)
    <3>1. \A x : (InTable(w, x) <=> InTable(n, x)) /\ (Parked(w, x) <=> Parked(n, x))
      BY <2>2 DEF InTable, Parked
    <3> QED
      BY <1>0, <2>2, <3>1 DEF Single
  <2>9. Flowing(w, h)
    BY <1>0, <2>2 DEF Flowing
  <2>10. Books(w, o, L, b, h)
    BY <2>4, <2>6, <2>7, <2>8, <2>9 DEF Books
  <2>11. n.next \in (1..(w.next - 1)) \ DOMAIN w.resources /\ n.next \notin 1..(n.next - 1)
    BY <1>2, <1>a, <1>b, <2>2
  <2>12. \A x : Kept(n, x) => x # n.next
    BY <1>1, <2>11 DEF Kept, NoHandle
  <2>13. Free(w, n.next, b)
    BY <1>0, <2>2, <2>5, <2>11, <2>12 DEF Free, Distinct
  <2>14. Held(w) = Held(n)
    BY <2>2 DEF Held
  <2>15. PICK k : k = n.next
    OBVIOUS
  <2>16. Has(m, With(w.resources, k, d), w.pending, w.next, w.retained)
    BY <1>5, <2>2, <2>15
  <2>17. Books(m, o, L \ {d}, b, h)
    BY <1>5, <2>10, <2>13, <2>14, <2>15, <2>16, BooksAdd
  <2>18. m.fault = "" /\ m.pending = n.pending
    BY <1>5 DEF Has
  <2> QED
    BY <2>17, <2>18 DEF m
<1> QED
  BY <1>3, <1>4, <1>5

\* A request takes its resource out of the table.
LEMMA BooksTaken ==
    ASSUME Books(net, order, {}, NoHandle, host), net.fault = "", NEW k \in DOMAIN net.resources
    PROVE  /\ Books(Taken(k), order, {net.resources[k]}, k, host)
           /\ Taken(k).pending = net.pending /\ Taken(k).fault = ""
           /\ Taken(k).next = net.next
           /\ k \in Nat \ {NoHandle} /\ net.resources[k] \in DOMAIN host
           /\ Quiet(host[net.resources[k]])
<1> DEFINE f == net.resources
           d == f[k]
           m == Taken(k)
           g == m.resources
<1>1. /\ Typed(net, order, host) /\ Counted(net) /\ Single(net, {}, host)
      /\ Distinct(net, NoHandle) /\ Flowing(net, host)
  BY DEF Books
<1>0. Table(net) /\ Map(f, 1..(net.next - 1), DOMAIN host)
  BY <1>1 DEF Typed
<1>2. /\ m.resources = Without(f, k) /\ m.pending = net.pending /\ m.next = net.next
      /\ m.retained = net.retained /\ m.fault = "" /\ Table(m)
  <2>1. m = [resources |-> Without(f, k), pending |-> net.pending, next |-> net.next,
             retained |-> net.retained, fault |-> net.fault]
    BY <1>0, TableFields DEF Taken
  <2>2. Has(m, Without(f, k), net.pending, net.next, net.retained)
    BY <2>1 DEF Has
  <2> HIDE DEF m
  <2> QED
    BY <2>2 DEF Has, Table
<1>3. d \in DOMAIN host /\ Quiet(host[d])
  BY <1>0, <1>1 DEF Map, Flowing
<1> HIDE DEF m
<1>4. DOMAIN g = DOMAIN f \ {k} /\ \A j \in DOMAIN g : g[j] = f[j]
  BY <1>2 DEF Without
<1>5. Typed(m, order, host)
  <2>1. Map(g, 1..(m.next - 1), DOMAIN host)
    BY <1>0, <1>2, WithoutMap
  <2> QED
    BY <1>1, <1>2, <2>1 DEF Typed
<1>6. Counted(m)
  <2>1. Cardinality(DOMAIN g) = Cardinality(DOMAIN f) - 1
    BY <1>4, BooksParts, FS_RemoveElement
  <2>2. Held(m) = (Cardinality(DOMAIN f) - 1) + Cardinality(DOMAIN net.pending)
    BY <1>2, <2>1 DEF Held
  <2>3. Held(net) = Cardinality(DOMAIN f) + Cardinality(DOMAIN net.pending)
    BY DEF Held
  <2>4. /\ Cardinality(DOMAIN f) \in Nat /\ Cardinality(DOMAIN net.pending) \in Nat
        /\ HandleLimit \in Nat
    BY BooksParts, NetworkAssumption
  <2>5. Held(net) <= HandleLimit
    BY <1>1 DEF Counted
  <2>6. Held(m) <= HandleLimit
    BY <2>2, <2>3, <2>4, <2>5, Room
  <2> QED
    BY <1>1, <1>2, <2>6 DEF Counted
<1>7. Single(m, {d}, host)
  <2>1. \A i, j \in DOMAIN f : f[i] = f[j] => i = j
    BY <1>1 DEF Single
  <2>2. \A x : InTable(m, x) <=> InTable(net, x) /\ x # d
    BY <1>4, <2>1 DEF InTable
  <2>3. InTable(net, d)
    BY DEF InTable
  <2>4. \A x : Parked(m, x) <=> Parked(net, x)
    BY <1>2 DEF Parked
  <2>5. ~Parked(net, d)
    BY <1>1, <1>3, <2>3 DEF Single
  <2>6. \A i, j \in DOMAIN g : g[i] = g[j] => i = j
    BY <1>4, <2>1
  <2>7. \A x \in DOMAIN host : host[x].open <=> x \in {d} \/ InTable(m, x) \/ Parked(m, x)
    BY <1>1, <2>2, <2>3, <2>4 DEF Single
  <2> QED
    BY <1>1, <1>2, <1>3, <2>2, <2>4, <2>5, <2>6, <2>7 DEF Single
<1>8. Distinct(m, k)
  <2>1. \A x : Kept(net, x) => Kept(m, x)
    BY <1>2, <1>4 DEF Kept
  <2>2. k \in 1..(net.next - 1)
    BY <1>0 DEF Map
  <2>3. Kept(m, k)
    BY <1>2, <1>4, <2>2 DEF Kept
  <2>4. \A p \in DOMAIN net.pending : net.pending[p].handle = k => k = NoHandle
    BY <1>1 DEF Distinct, Kept
  <2> QED
    BY <1>1, <1>2, <2>1, <2>3, <2>4 DEF Distinct
<1>9. Flowing(m, host)
  BY <1>1, <1>2, <1>4 DEF Flowing
<1>10. k \in Nat \ {NoHandle}
  <2>1. k \in 1..(net.next - 1)
    BY <1>0 DEF Map
  <2>2. net.next \in Nat \ {0}
    BY BooksParts
  <2> QED
    BY <2>1, <2>2, Below DEF NoHandle
<1> QED
  BY <1>2, <1>3, <1>5, <1>6, <1>7, <1>8, <1>9, <1>10 DEF Books, m

\* A request r on the descriptors h fits the driver's hands.
Ready(r, h) ==
    /\ r \in Parcel /\ r.res \in DOMAIN h
    /\ r.handle = NoHandle <=> r.op = "Connect"
    /\ Carries(h[r.res], r)

\* A request is parked under the next order.
LEMMA BooksPark ==
    ASSUME NEW n, NEW h, NEW r, Books(n, order, {r.res}, r.handle, h), n.fault = "", Ready(r, h)
    PROVE  /\ Park(n, r).fault \in {"", "limit"}
           /\ Park(n, r).fault = "" =>
                 /\ Books(Park(n, r), order + 1, {}, NoHandle, h)
                 /\ \A o \in DOMAIN n.pending :
                       o \in DOMAIN Park(n, r).pending /\ Park(n, r).pending[o] = n.pending[o]
<1> DEFINE q == n.pending
           m == Park(n, r)
           p == m.pending
           d == r.res
<1>1. /\ Typed(n, order, h) /\ Counted(n) /\ Single(n, {d}, h)
      /\ Distinct(n, r.handle) /\ Flowing(n, h)
  BY DEF Books
<1>2. Table(n) /\ order \in Nat \ {0} /\ Map(q, 1..(order - 1), Parcel)
  BY <1>1 DEF Typed
<1>3. order \notin 1..(order - 1) /\ 1..(order - 1) \subseteq 1..((order + 1) - 1)
      /\ order \in 1..((order + 1) - 1) /\ order + 1 \in Nat \ {0} /\ (order + 1) - 1 \in Nat
  BY <1>2, Below
<1>4. order \notin DOMAIN q
  BY <1>2, <1>3 DEF Map
<1>5. \/ m.fault = "limit"
      \/ /\ ~(Held(n) >= HandleLimit)
         /\ Has(m, n.resources, With(q, order, r), n.next, n.retained + Bytes(r))
  BY <1>2, <1>4, ParkCases
<1> HIDE DEF m
<1>6. CASE m.fault = "limit"
  BY <1>6 DEF m
<1>7. CASE /\ ~(Held(n) >= HandleLimit)
           /\ Has(m, n.resources, With(q, order, r), n.next, n.retained + Bytes(r))
  <2>1. /\ m.resources = n.resources /\ p = With(q, order, r) /\ m.next = n.next
        /\ m.retained = n.retained + Bytes(r) /\ m.fault = "" /\ Table(m)
    BY <1>7 DEF Has, Table
  <2>2. /\ DOMAIN p = DOMAIN q \cup {order} /\ p[order] = r
        /\ \A o \in DOMAIN q : p[o] = q[o]
    BY <1>4, <2>1 DEF With
  <2>3. r \in Parcel /\ d \in DOMAIN h /\ (r.handle = NoHandle <=> r.op = "Connect")
        /\ Carries(h[d], r)
    BY DEF Ready
  <2>4. Map(q, 1..((order + 1) - 1), Parcel)
    BY <1>2, <1>3 DEF Map
  <2>5. Typed(m, order + 1, h)
    <3>1. Map(p, 1..((order + 1) - 1), Parcel)
      BY <1>3, <2>1, <2>3, <2>4, WithMap
    <3>2. n.retained + Bytes(r) \in Nat
      <4>1. n.retained \in Nat /\ Bytes(r) \in Nat
        BY <1>1, <2>3, BytesType DEF Typed
      <4> QED
        BY <4>1, NatSum, Zenon
    <3> QED
      BY <1>1, <1>3, <2>1, <3>1, <3>2 DEF Typed
  <2>6. Counted(m)
    <3>1. Cardinality(DOMAIN p) = Cardinality(DOMAIN q) + 1
      BY <1>4, <2>2, BooksParts, FS_AddElement
    <3>2. Held(m) = Cardinality(DOMAIN n.resources) + (Cardinality(DOMAIN q) + 1)
      BY <2>1, <3>1 DEF Held
    <3>3. Held(n) = Cardinality(DOMAIN n.resources) + Cardinality(DOMAIN q)
      BY DEF Held
    <3>4. /\ Cardinality(DOMAIN n.resources) \in Nat /\ Cardinality(DOMAIN q) \in Nat
          /\ HandleLimit \in Nat
      BY BooksParts, NetworkAssumption
    <3>5. Held(m) <= HandleLimit
      BY <1>7, <3>2, <3>3, <3>4, Room
    <3>6. BytesOf(With(q, order, r)) = BytesOf(q) + Bytes(r)
      <4>1. PICK k \in Nat : k = (order + 1) - 1
        BY <1>3
      <4>2. Map(q, 1..k, Parcel) /\ order \in 1..k
        BY <1>3, <2>4, <4>1
      <4> QED
        BY <1>4, <2>3, <4>2, BytesMore
    <3> QED
      BY <1>1, <2>1, <3>5, <3>6 DEF Counted
  <2>7. Single(m, {}, h)
    <3>1. \A x : InTable(m, x) <=> InTable(n, x)
      BY <2>1 DEF InTable
    <3>2. \A x : Parked(m, x) <=> Parked(n, x) \/ x = d
      BY <2>2 DEF Parked
    <3>3. ~InTable(n, d) /\ ~Parked(n, d)
      BY <1>1 DEF Single
    <3>4. \A o \in DOMAIN q : q[o].res # d
      BY <3>3 DEF Parked
    <3>5. \A i, j \in DOMAIN p : p[i].res = p[j].res => i = j
      <4>1. \A i, j \in DOMAIN q : q[i].res = q[j].res => i = j
        BY <1>1 DEF Single
      <4> QED
        BY <2>2, <3>4, <4>1
    <3>6. \A x \in DOMAIN h : h[x].open <=> x \in {} \/ InTable(m, x) \/ Parked(m, x)
      BY <1>1, <3>1, <3>2 DEF Single
    <3>7. \A o \in DOMAIN p : p[o].res \in DOMAIN h
      BY <1>1, <2>2, <2>3 DEF Single
    <3> QED
      BY <1>1, <2>1, <3>1, <3>2, <3>3, <3>5, <3>6, <3>7 DEF Single
  <2>8. Distinct(m, NoHandle)
    <3>1. \A x : Kept(n, x) => Kept(m, x)
      BY <2>1 DEF Kept
    <3>2. \A o \in DOMAIN q : q[o].handle = r.handle => r.handle = NoHandle
      BY <1>1 DEF Distinct
    <3>3. \A i, j \in DOMAIN p : p[i].handle = p[j].handle /\ p[i].handle # NoHandle => i = j
      <4>1. \A i, j \in DOMAIN q : q[i].handle = q[j].handle /\ q[i].handle # NoHandle => i = j
        BY <1>1 DEF Distinct
      <4> QED
        BY <2>2, <3>2, <4>1
    <3>4. Kept(m, NoHandle)
      BY DEF Kept
    <3>5. \A o \in DOMAIN p : Kept(m, p[o].handle) /\ (p[o].handle = NoHandle <=> p[o].op = "Connect")
      BY <1>1, <2>2, <2>3, <3>1 DEF Distinct
    <3> QED
      BY <3>3, <3>4, <3>5 DEF Distinct
  <2>9. Flowing(m, h)
    BY <1>1, <2>1, <2>2, <2>3 DEF Flowing
  <2>10. Books(m, order + 1, {}, NoHandle, h)
    BY <2>5, <2>6, <2>7, <2>8, <2>9 DEF Books
  <2> QED
    BY <2>1, <2>2, <2>10 DEF m
<1> QED
  BY <1>5, <1>6, <1>7

\* A parked request is taken to be worked on.
LEMMA BooksTakePending ==
    ASSUME Books(net, order, {}, NoHandle, host), net.fault = "", NEW k \in DOMAIN net.pending
    PROVE  LET m == TakePending(net, k)
               r == net.pending[k]
           IN  /\ Books(m, order, {r.res}, r.handle, host)
               /\ m.fault = "" /\ Ready(r, host)
               /\ DOMAIN m.pending = DOMAIN net.pending \ {k}
               /\ \A o \in DOMAIN m.pending : m.pending[o] = net.pending[o]
<1> DEFINE q == net.pending
           r == q[k]
           m == TakePending(net, k)
           p == m.pending
           d == r.res
<1>1. /\ Typed(net, order, host) /\ Counted(net) /\ Single(net, {}, host)
      /\ Distinct(net, NoHandle) /\ Flowing(net, host)
  BY DEF Books
<1>2. Table(net) /\ Map(q, 1..(order - 1), Parcel) /\ order - 1 \in Nat
  BY <1>1, BooksParts DEF Typed
<1>3. r \in Parcel /\ Bytes(r) \in Nat
  BY <1>2, BytesType DEF Map
<1>4. Has(m, net.resources, Without(q, k), net.next, net.retained - Bytes(r))
  BY <1>2, TakePendingHas
<1>5. d \in DOMAIN host /\ Carries(host[d], r) /\ (r.handle = NoHandle <=> r.op = "Connect")
  BY <1>1 DEF Single, Flowing, Distinct
<1> HIDE DEF m
<1>6. /\ m.resources = net.resources /\ p = Without(q, k) /\ m.next = net.next
      /\ m.retained = net.retained - Bytes(r) /\ m.fault = "" /\ Table(m)
  BY <1>4 DEF Has, Table
<1>7. DOMAIN p = DOMAIN q \ {k} /\ \A o \in DOMAIN p : p[o] = q[o]
  BY <1>6 DEF Without
<1> HIDE DEF r
<1>8. BytesOf(p) = BytesOf(q) - Bytes(r)
  BY <1>2, <1>6, BytesLess DEF r
<1>9. Map(p, 1..(order - 1), Parcel)
  BY <1>2, <1>6, WithoutMap
<1>10. net.retained - Bytes(r) = BytesOf(p) /\ BytesOf(p) \in Nat
  BY <1>1, <1>2, <1>8, <1>9, SpreadFinite DEF Counted
<1>11. Typed(m, order, host)
  BY <1>1, <1>6, <1>9, <1>10 DEF Typed
<1>12. Counted(m)
  <2>1. Cardinality(DOMAIN p) = Cardinality(DOMAIN q) - 1
    BY <1>7, BooksParts, FS_RemoveElement
  <2>2. Held(m) = Cardinality(DOMAIN net.resources) + (Cardinality(DOMAIN q) - 1)
    BY <1>6, <2>1 DEF Held
  <2>3. Held(net) = Cardinality(DOMAIN net.resources) + Cardinality(DOMAIN q)
    BY DEF Held
  <2>4. /\ Cardinality(DOMAIN net.resources) \in Nat /\ Cardinality(DOMAIN q) \in Nat
        /\ HandleLimit \in Nat
    BY BooksParts, NetworkAssumption
  <2>5. Held(net) <= HandleLimit
    BY <1>1 DEF Counted
  <2>6. Held(m) <= HandleLimit
    BY <2>2, <2>3, <2>4, <2>5, Room
  <2> QED
    BY <1>6, <1>10, <2>6 DEF Counted
<1>13. Single(m, {d}, host)
  <2>1. \A i, j \in DOMAIN q : q[i].res = q[j].res => i = j
    BY <1>1 DEF Single
  <2>2. \A x : Parked(m, x) <=> Parked(net, x) /\ x # d
    BY <1>7, <2>1 DEF Parked, r
  <2>3. Parked(net, d)
    BY DEF Parked, r
  <2>4. \A x : InTable(m, x) <=> InTable(net, x)
    BY <1>6 DEF InTable
  <2>5. ~InTable(net, d)
    BY <1>1, <1>5, <2>3 DEF Single
  <2>6. \A i, j \in DOMAIN p : p[i].res = p[j].res => i = j
    BY <1>7, <2>1
  <2>7. \A x \in DOMAIN host : host[x].open <=> x \in {d} \/ InTable(m, x) \/ Parked(m, x)
    BY <1>1, <2>2, <2>3, <2>4 DEF Single
  <2>8. \A o \in DOMAIN p : p[o].res \in DOMAIN host
    BY <1>1, <1>7 DEF Single
  <2> QED
    BY ZenonT(60), <1>1, <1>5, <1>6, <2>2, <2>4, <2>5, <2>6, <2>7, <2>8 DEF Single
<1>14. Distinct(m, r.handle)
  <2>1. \A x : Kept(net, x) => Kept(m, x)
    BY <1>6 DEF Kept
  <2>2. Kept(m, r.handle)
    BY <1>1, <2>1 DEF Distinct, r
  <2>3. \A o \in DOMAIN p : p[o].handle = r.handle => r.handle = NoHandle
    BY <1>1, <1>7 DEF Distinct, r
  <2> QED
    BY <1>1, <1>7, <2>1, <2>2, <2>3 DEF Distinct
<1>15. Flowing(m, host)
  BY <1>1, <1>6, <1>7 DEF Flowing
<1>16. Books(m, order, {d}, r.handle, host) /\ Ready(r, host)
  BY <1>3, <1>5, <1>11, <1>12, <1>13, <1>14, <1>15 DEF Books, Ready
<1> QED
  BY <1>6, <1>7, <1>16 DEF m, r

\* A host call or a peer changes a descriptor x into y and breaks no promise.
Kin(x, y) ==
    /\ y \in Sockets
    /\ y.wire = x.wire /\ y.issued = x.issued /\ y.open = x.open
    /\ \/ y.phase = x.phase
       \/ x.phase = "up" /\ y.phase = "dead"
       \/ x.phase = "connecting" /\ y.phase \in {"up", "refused"}

\* A change of that kind keeps what the descriptor promises.
LEMMA KinKeeps ==
    ASSUME NEW x, NEW y, Kin(x, y)
    PROVE  /\ Numbered(x) => Numbered(y)
           /\ Quiet(x) => Quiet(y)
           /\ \A r : Decided(x, r) => Decided(y, r)
           /\ \A r : r.op \in Ops /\ Carries(x, r) => Carries(y, r)
<1>1. /\ y.wire = x.wire /\ y.issued = x.issued /\ y.open = x.open
      /\ \/ y.phase = x.phase
         \/ x.phase = "up" /\ y.phase = "dead"
         \/ x.phase = "connecting" /\ y.phase \in {"up", "refused"}
  BY DEF Kin
<1>2. Numbered(x) => Numbered(y)
  BY <1>1 DEF Numbered
<1>3. Quiet(x) => Quiet(y)
  BY <1>1 DEF Quiet
<1>4. \A r : Decided(x, r) => Decided(y, r)
  BY <1>1 DEF Decided
<1>5. \A r : Sends(x, r) => Sends(y, r)
  BY <1>1 DEF Sends
<1>6. x.phase # "dead" /\ Len(x.wire) = x.issued => Len(y.wire) = y.issued
  BY <1>1
<1>7. y.phase # "dead" => x.phase # "dead"
  BY <1>1
<1>8. \A r : r.op \in Ops /\ Carries(x, r) => Carries(y, r)
  BY <1>1, <1>3, <1>5, <1>7 DEF Carries, Ops
<1> QED
  BY <1>2, <1>3, <1>4, <1>8

\* What a parked request is.
LEMMA ParkedParcel ==
    ASSUME NEW n, NEW o, NEW L, NEW b, NEW h, Books(n, o, L, b, h), NEW p \in DOMAIN n.pending
    PROVE  n.pending[p] \in Parcel /\ n.pending[p].op \in Ops /\ n.pending[p].res \in DOMAIN h
<1>1. n.pending[p] \in Parcel
  BY DEF Books, Typed, Map
<1>2. n.pending[p].op \in Ops
  BY <1>1 DEF Parcel
<1> QED
  BY <1>1, <1>2 DEF Books, Single

\* The descriptors h with y at d.
LEMMA HostWith ==
    ASSUME NEW h \in Seq(Sockets), NEW d \in DOMAIN h, NEW y \in Sockets
    PROVE  /\ [h EXCEPT ![d] = y] \in Seq(Sockets)
           /\ DOMAIN [h EXCEPT ![d] = y] = DOMAIN h
           /\ [h EXCEPT ![d] = y][d] = y
           /\ \A c \in DOMAIN h : c # d => [h EXCEPT ![d] = y][c] = h[c]
<1>1. [h EXCEPT ![d] = y] \in Seq(Sockets)
  <2>1. DOMAIN h = 1..Len(h) /\ Len(h) \in Nat /\ h \in [1..Len(h) -> Sockets]
    BY LenProperties
  <2>2. [h EXCEPT ![d] = y] \in [1..Len(h) -> Sockets]
    BY <2>1
  <2> QED
    BY <2>1, <2>2
<1> QED
  BY <1>1

\* Every descriptor is one.
LEMMA SocketOf ==
    ASSUME NEW h \in Seq(Sockets)
    PROVE  \A c \in DOMAIN h : h[c] \in Sockets
  OBVIOUS

\* Any change of that kind leaves the books in order.
LEMMA BooksKin ==
    ASSUME NEW n, NEW o, NEW L, NEW b, NEW h, Books(n, o, L, b, h),
           NEW d \in DOMAIN h, NEW y, Kin(h[d], y)
    PROVE  Books(n, o, L, b, [h EXCEPT ![d] = y])
<1>1. Typed(n, o, h) /\ Counted(n) /\ Single(n, L, h) /\ Distinct(n, b) /\ Flowing(n, h)
  BY DEF Books
<1>2. PICK g : g = [h EXCEPT ![d] = y]
  OBVIOUS
<1>3. y \in Sockets /\ h \in Seq(Sockets) /\ y.open = h[d].open
  BY <1>1 DEF Kin, Typed
<1>4. /\ g \in Seq(Sockets) /\ DOMAIN g = DOMAIN h /\ g[d] = y
      /\ \A c \in DOMAIN h : c # d => g[c] = h[c]
  BY <1>2, <1>3, HostWith
<1>5. \A c \in DOMAIN h : g[c].open = h[c].open
  BY <1>3, <1>4
<1>6. Typed(n, o, g)
  BY <1>1, <1>4 DEF Typed
<1>7. Single(n, L, g)
  BY <1>1, <1>4, <1>5 DEF Single
<1>8. Flowing(n, g)
  <2>1. \A c \in DOMAIN g : Numbered(g[c])
    BY <1>1, <1>4, KinKeeps DEF Flowing
  <2>2. \A k \in DOMAIN n.resources : Quiet(g[n.resources[k]])
    <3>1. \A k \in DOMAIN n.resources : n.resources[k] \in DOMAIN h
      BY <1>1 DEF Typed, Map
    <3> QED
      BY <1>1, <1>4, <3>1, KinKeeps DEF Flowing
  <2>3. \A p \in DOMAIN n.pending : Carries(g[n.pending[p].res], n.pending[p])
    <3>1. \A p \in DOMAIN n.pending : n.pending[p].res \in DOMAIN h /\ n.pending[p].op \in Ops
      BY ParkedParcel
    <3> QED
      BY <1>1, <1>4, <3>1, KinKeeps DEF Flowing
  <2> QED
    BY <2>1, <2>2, <2>3 DEF Flowing
<1> QED
  BY <1>1, <1>2, <1>6, <1>7, <1>8 DEF Books

\* The owner of a descriptor may write on it.
LEMMA BooksWrite ==
    ASSUME NEW n, NEW o, NEW L, NEW b, NEW h, Books(n, o, L, b, h),
           NEW d \in L, NEW y \in Sockets, y.open = h[d].open, Numbered(y)
    PROVE  Books(n, o, L, b, [h EXCEPT ![d] = y]) /\ d \in DOMAIN h
<1>1. Typed(n, o, h) /\ Counted(n) /\ Single(n, L, h) /\ Distinct(n, b) /\ Flowing(n, h)
  BY DEF Books
<1>2. PICK g : g = [h EXCEPT ![d] = y]
  OBVIOUS
<1>3. d \in DOMAIN h /\ h \in Seq(Sockets)
  BY <1>1 DEF Typed, Single
<1>4. /\ g \in Seq(Sockets) /\ DOMAIN g = DOMAIN h /\ g[d] = y
      /\ \A c \in DOMAIN h : c # d => g[c] = h[c]
  BY <1>2, <1>3, HostWith
<1>5. \A c \in DOMAIN h : g[c].open = h[c].open
  BY <1>4
<1>6. Typed(n, o, g)
  BY <1>1, <1>4 DEF Typed
<1>7. Single(n, L, g)
  BY <1>1, <1>4, <1>5 DEF Single
<1>8. Flowing(n, g)
  <2>0. ~InTable(n, d) /\ ~Parked(n, d)
    BY <1>1 DEF Single
  <2>1. \A c \in DOMAIN g : Numbered(g[c])
    BY <1>1, <1>4 DEF Flowing
  <2>2. \A k \in DOMAIN n.resources : Quiet(g[n.resources[k]])
    <3>1. \A k \in DOMAIN n.resources : n.resources[k] \in DOMAIN h /\ n.resources[k] # d
      BY <1>1, <2>0 DEF Typed, Map, InTable
    <3> QED
      BY <1>1, <1>4, <3>1 DEF Flowing
  <2>3. \A p \in DOMAIN n.pending : Carries(g[n.pending[p].res], n.pending[p])
    <3>1. \A p \in DOMAIN n.pending : n.pending[p].res \in DOMAIN h /\ n.pending[p].res # d
      BY <2>0, ParkedParcel DEF Parked
    <3> QED
      BY <1>1, <1>4, <3>1 DEF Flowing
  <2> QED
    BY <2>1, <2>2, <2>3 DEF Flowing
<1> QED
  BY <1>1, <1>2, <1>3, <1>6, <1>7, <1>8 DEF Books

\* The owner of a descriptor may close it.
LEMMA BooksClose ==
    ASSUME NEW n, NEW o, NEW L, NEW b, NEW h, Books(n, o, L, b, h), NEW d \in L
    PROVE  Books(n, o, L \ {d}, b, Close(h, d))
<1>1. Typed(n, o, h) /\ Counted(n) /\ Single(n, L, h) /\ Distinct(n, b) /\ Flowing(n, h)
  BY DEF Books
<1>2. PICK y : y = Closed(h[d])
  OBVIOUS
<1>3. d \in DOMAIN h /\ h \in Seq(Sockets)
  BY <1>1 DEF Typed, Single
<1>4. h[d] \in Sockets
  BY <1>3
<1>5. y \in Sockets /\ y.open = FALSE /\ y.wire = h[d].wire
  BY <1>2, <1>4 DEF Closed, Sockets
<1>6. PICK g : g = [h EXCEPT ![d] = y]
  OBVIOUS
<1>7. g = Close(h, d)
  BY <1>2, <1>3, <1>6 DEF Close
<1>8. /\ g \in Seq(Sockets) /\ DOMAIN g = DOMAIN h /\ g[d] = y
      /\ \A c \in DOMAIN h : c # d => g[c] = h[c]
  BY <1>3, <1>5, <1>6, HostWith
<1>9. ~InTable(n, d) /\ ~Parked(n, d)
  BY <1>1 DEF Single
<1>10. Typed(n, o, g)
  BY <1>1, <1>8 DEF Typed
<1>11. Single(n, L \ {d}, g)
  <2>1. ASSUME NEW x \in DOMAIN g
        PROVE  g[x].open <=> x \in L \ {d} \/ InTable(n, x) \/ Parked(n, x)
    <3>1. CASE x = d
      BY <1>5, <1>8, <1>9, <3>1
    <3>2. CASE x # d
      BY <1>1, <1>8, <3>2 DEF Single
    <3> QED
      BY <3>1, <3>2
  <2> QED
    BY <1>1, <1>8, <2>1 DEF Single
<1>12. Flowing(n, g)
  <2>1. \A c \in DOMAIN g : Numbered(g[c])
    BY <1>1, <1>3, <1>5, <1>8 DEF Flowing, Numbered
  <2>2. \A k \in DOMAIN n.resources : Quiet(g[n.resources[k]])
    <3>1. \A k \in DOMAIN n.resources : n.resources[k] \in DOMAIN h /\ n.resources[k] # d
      BY <1>1, <1>9 DEF Typed, Map, InTable
    <3> QED
      BY <1>1, <1>8, <3>1 DEF Flowing
  <2>3. \A p \in DOMAIN n.pending : Carries(g[n.pending[p].res], n.pending[p])
    <3>1. \A p \in DOMAIN n.pending : n.pending[p].res \in DOMAIN h /\ n.pending[p].res # d
      BY <1>9, ParkedParcel DEF Parked
    <3> QED
      BY <1>1, <1>8, <3>1 DEF Flowing
  <2> QED
    BY <2>1, <2>2, <2>3 DEF Flowing
<1> QED
  BY <1>1, <1>7, <1>10, <1>11, <1>12 DEF Books

\* A new descriptor is in the driver's hands.
NewSocket(x) == x \in Sockets /\ x.open = TRUE /\ x.wire = <<>> /\ x.issued = 0

Opens(h, x, e, g, L, M) ==
    NewSocket(x) /\ e = Len(h) + 1 /\ g = Append(h, x) /\ M = L \cup {e}
Opening(h, x, e, g) ==
    /\ g[e] = x /\ Len(g) = e
    /\ DOMAIN g = DOMAIN h \cup {e} /\ e \notin DOMAIN h
    /\ \A c \in DOMAIN h : g[c] = h[c]

\* A descriptor is opened, into the hand of the driver.
LEMMA BooksOpen ==
    ASSUME NEW n, NEW o, NEW L, NEW b, NEW h, Books(n, o, L, b, h),
           NEW x, NEW e, NEW g, NEW M, Opens(h, x, e, g, L, M)
    PROVE  Books(n, o, M, b, g) /\ Opening(h, x, e, g)
<1>0. NewSocket(x) /\ e = Len(h) + 1 /\ g = Append(h, x) /\ M = L \cup {e}
  BY DEF Opens
<1>1. Typed(n, o, h) /\ Counted(n) /\ Single(n, L, h) /\ Distinct(n, b) /\ Flowing(n, h)
  BY DEF Books
<1>2. h \in Seq(Sockets) /\ x \in Sockets /\ x.open = TRUE /\ x.wire = <<>>
  BY <1>0, <1>1 DEF Typed, NewSocket
<1>3. /\ g \in Seq(Sockets) /\ g[e] = x /\ DOMAIN g = DOMAIN h \cup {e} /\ e \notin DOMAIN h
      /\ Len(g) = e /\ \A c \in DOMAIN h : g[c] = h[c]
  <2>1. Len(h) \in Nat /\ DOMAIN h = 1..Len(h)
    BY <1>2, LenProperties
  <2>2. /\ g \in Seq(Sockets) /\ Len(g) = e /\ g[e] = x
        /\ \A i \in 1..Len(h) : g[i] = h[i]
    BY <1>0, <1>2, AppendProperties
  <2>3. DOMAIN g = 1..e
    BY <2>2, LenProperties
  <2>4. 1..e = (1..Len(h)) \cup {e} /\ e \notin 1..Len(h)
    BY <1>0, <2>1
  <2> QED
    BY <2>1, <2>2, <2>3, <2>4
<1>4. DOMAIN h \subseteq DOMAIN g
  BY <1>3
<1>5. \A k \in DOMAIN n.resources : n.resources[k] \in DOMAIN h
  BY <1>1 DEF Typed, Map
<1>6. \A p \in DOMAIN n.pending : n.pending[p].res \in DOMAIN h
  BY <1>1 DEF Single
<1>7. ~InTable(n, e) /\ ~Parked(n, e)
  BY <1>3, <1>5, <1>6 DEF InTable, Parked
<1>8. Typed(n, o, g)
  <2>1. Map(n.resources, 1..(n.next - 1), DOMAIN g)
    BY <1>1, <1>4 DEF Typed, Map
  <2> QED
    BY <1>1, <1>3, <2>1 DEF Typed
<1>9. Single(n, L \cup {e}, g)
  <2>1. ASSUME NEW c \in DOMAIN g
        PROVE  g[c].open <=> c \in L \cup {e} \/ InTable(n, c) \/ Parked(n, c)
    <3>1. CASE c = e
      BY <1>2, <1>3, <3>1
    <3>2. CASE c # e
      BY <1>1, <1>3, <3>2 DEF Single
    <3> QED
      BY <3>1, <3>2
  <2>2. \A c \in DOMAIN g : ~(InTable(n, c) /\ Parked(n, c))
    BY <1>1, <1>3, <1>7 DEF Single
  <2>3. \A c \in L \cup {e} : c \in DOMAIN g /\ ~InTable(n, c) /\ ~Parked(n, c)
    BY <1>1, <1>3, <1>7 DEF Single
  <2> QED
    BY <1>1, <1>4, <2>1, <2>2, <2>3 DEF Single
<1>10. Flowing(n, g)
  <2>1. Numbered(x)
    <3>1. Len(x.wire) = 0 /\ 1..0 = {}
      BY <1>2
    <3> QED
      BY <1>2, <3>1 DEF Numbered
  <2>2. \A c \in DOMAIN g : Numbered(g[c])
    BY <1>1, <1>3, <2>1 DEF Flowing
  <2> QED
    BY <1>1, <1>3, <1>5, <1>6, <2>2 DEF Flowing
<1> QED
  BY <1>0, <1>1, <1>3, <1>8, <1>9, <1>10 DEF Books, Opening
-----------------------------------------------------------------------------
(***************************************************************************)
(* What every step has in common.                                          *)
(***************************************************************************)
LEMMA Hands ==
    /\ InHand(<<>>) = {} /\ HandleInHand(<<>>) = NoHandle
    /\ \A r : /\ InHand(<<r>>) = {r.res} /\ HandleInHand(<<r>>) = r.handle
              /\ <<r>>[1] = r /\ <<r>> # <<>>
<1>1. DOMAIN <<>> = {}
  OBVIOUS
<1>2. InHand(<<>>) = {} /\ HandleInHand(<<>>) = NoHandle
  BY <1>1 DEF InHand, HandleInHand
<1>3. \A r : DOMAIN <<r>> = {1} /\ <<r>>[1] = r /\ <<r>> # <<>>
  OBVIOUS
<1>4. \A r : InHand(<<r>>) = {r.res} /\ HandleInHand(<<r>>) = r.handle
  BY <1>3 DEF InHand, HandleInHand
<1> QED
  BY <1>2, <1>3, <1>4

\* Without a request at work the driver's hands are empty.
LEMMA EmptyHands ==
    ASSUME Inv, active = <<>>
    PROVE  Books(net, order, {}, NoHandle, host) /\ net.fault = ""
  BY Hands DEF Inv, Duty

\* No descriptor starts to connect again.
Later(h, g) ==
    \A c \in DOMAIN h :
        c \in DOMAIN g /\ (h[c].phase # "connecting" => g[c].phase # "connecting")
Grows(n, m) ==
    \A o \in DOMAIN n.pending : o \in DOMAIN m.pending /\ m.pending[o] = n.pending[o]

\* What was polled stays to be resumed while requests are only added.
LEMMA PolledLater ==
    ASSUME NEW q, NEW n, NEW o, NEW L, NEW b, NEW h, Books(n, o, L, b, h), Polled(q, n, h),
           NEW m, Grows(n, m), NEW g, Later(h, g)
    PROVE  Polled(q, m, g)
<1>1. /\ q \in Seq(Nat) /\ Increasing(q)
      /\ \A i \in DOMAIN q :
            q[i] \in DOMAIN n.pending /\ Decided(h[n.pending[q[i]].res], n.pending[q[i]])
  BY DEF Polled
<1>2. ASSUME NEW i \in DOMAIN q
      PROVE  q[i] \in DOMAIN m.pending /\ Decided(g[m.pending[q[i]].res], m.pending[q[i]])
  <2>1. PICK r : r = n.pending[q[i]]
    OBVIOUS
  <2>2. q[i] \in DOMAIN m.pending /\ m.pending[q[i]] = r
    BY <1>1, <2>1 DEF Grows
  <2>3. r.res \in DOMAIN h /\ Decided(h[r.res], r)
    BY <1>1, <2>1, ParkedParcel
  <2>4. Decided(g[r.res], r)
    BY <2>3 DEF Decided, Later
  <2> QED
    BY <2>2, <2>4
<1> QED
  BY <1>1, <1>2 DEF Polled

\* The same requests are no fewer.
LEMMA GrowsSame ==
    ASSUME NEW n, NEW m, m.pending = n.pending
    PROVE  Grows(n, m)
  BY DEF Grows

\* Nothing changes.
LEMMA LaterSame == \A h : Later(h, h)
  BY DEF Later

\* A step of a descriptor goes forward.
LEMMA LaterKin ==
    ASSUME NEW h \in Seq(Sockets), NEW d \in DOMAIN h, NEW y, Kin(h[d], y)
    PROVE  Later(h, [h EXCEPT ![d] = y])
<1>1. y \in Sockets /\ (h[d].phase # "connecting" => y.phase # "connecting")
  BY DEF Kin
<1>2. PICK g : g = [h EXCEPT ![d] = y]
  OBVIOUS
<1>3. DOMAIN g = DOMAIN h /\ g[d] = y /\ \A c \in DOMAIN h : c # d => g[c] = h[c]
  BY <1>1, <1>2, HostWith
<1>4. Later(h, g)
  BY <1>1, <1>3 DEF Later
<1> QED
  BY <1>2, <1>4

\* So does closing it.
LEMMA LaterClose ==
    ASSUME NEW h \in Seq(Sockets), NEW d \in DOMAIN h
    PROVE  Later(h, Close(h, d))
<1>1. \A c \in DOMAIN h : h[c] \in Sockets
  BY SocketOf
<1>2. \A x \in Sockets : Closed(x).phase = x.phase
  BY DEF Closed, Sockets
<1>3. PICK g : g = Close(h, d)
  OBVIOUS
<1>4. DOMAIN g = DOMAIN h /\ \A c \in DOMAIN h : g[c].phase = h[c].phase
  BY <1>1, <1>2, <1>3 DEF Close
<1> QED
  BY <1>3, <1>4 DEF Later

\* Empty tables over closed descriptors.
LEMMA NoBooks ==
    ASSUME NEW n, n = State, NEW o \in Nat \ {0}, NEW g \in Seq(Sockets),
           \A d \in DOMAIN g : g[d].open = FALSE /\ Numbered(g[d])
    PROVE  Books(n, o, {}, NoHandle, g) /\ Polled(<<>>, n, g)
<1>1. /\ n.resources = Empty /\ n.pending = Empty /\ n.next = 1 /\ n.retained = 0 /\ n.fault = ""
      /\ Table(n)
  BY DEF State, Table
<1>2. DOMAIN Empty = {}
  BY DEF Empty
<1>3. Typed(n, o, g)
  <2>1. \A D, T : Map(Empty, D, T)
    BY DEF Map, Empty
  <2>2. Map(n.resources, 1..(n.next - 1), DOMAIN g) /\ Map(n.pending, 1..(o - 1), Parcel)
    BY <1>1, <2>1
  <2>3. 1 \in Nat \ {0} /\ 0 \in Nat
    OBVIOUS
  <2>4. n.next \in Nat \ {0} /\ n.retained \in Nat
    BY <1>1, <2>3, Zenon
  <2> QED
    BY <1>1, <2>2, <2>4 DEF Typed
<1>4. Counted(n)
  <2>1. Held(n) = 0
    <3>1. DOMAIN n.resources = {} /\ DOMAIN n.pending = {}
      BY <1>1, <1>2
    <3>2. Cardinality({}) = 0 /\ 0 + 0 = 0
      BY FS_EmptySet
    <3> QED
      BY <3>1, <3>2 DEF Held
  <2>2. BytesOf(Empty) = 0
    <3>1. UNION {{k} \X (1..Bytes(Empty[k])) : k \in DOMAIN Empty} = {}
      BY <1>2
    <3> QED
      BY <3>1, FS_EmptySet DEF BytesOf
  <2>3. 0 <= HandleLimit
    BY NetworkAssumption
  <2>4. n.retained = BytesOf(n.pending) /\ Held(n) <= HandleLimit
    BY <1>1, <2>1, <2>2, <2>3
  <2> QED
    BY <2>4 DEF Counted
<1>5. Single(n, {}, g) /\ Distinct(n, NoHandle) /\ Flowing(n, g)
  BY <1>1, <1>2 DEF Single, Distinct, Flowing, InTable, Parked, Kept
<1>6. Polled(<<>>, n, g)
  BY DEF Polled, Increasing
<1> QED
  BY <1>3, <1>4, <1>5, <1>6 DEF Books

\* The program stops: the tables are dropped and every descriptor is closed.
LEMMA EndsKeeps ==
    ASSUME Inv, NEW how \in {"limit", "misuse", "done"}, Ends(how)
    PROVE  Inv'
<1>1. /\ outcome' = how /\ net' = State /\ ready' = <<>> /\ running' = Nobody
      /\ active' = <<>> /\ batch' = <<>> /\ order' = order
  BY DEF Ends
<1>2. PICK g : g = [d \in DOMAIN host |-> Closed(host[d])]
  OBVIOUS
<1>3. host' = g
  BY <1>2 DEF Ends
<1>4. host \in Seq(Sockets) /\ order \in Nat \ {0} /\ \A d \in DOMAIN host : Numbered(host[d])
  BY DEF Inv, Books, Typed, Flowing
<1>5. g \in Seq(Sockets) /\ DOMAIN g = DOMAIN host
  <2>1. DOMAIN host = 1..Len(host) /\ Len(host) \in Nat
    BY <1>4, LenProperties
  <2>2. \A d \in DOMAIN host : host[d] \in Sockets
    BY <1>4, SocketOf
  <2>3. \A x \in Sockets : Closed(x) \in Sockets
    BY DEF Closed, Sockets
  <2>4. g \in [1..Len(host) -> Sockets]
    BY <1>2, <2>1, <2>2, <2>3
  <2> QED
    BY <2>1, <2>4
<1>6. \A d \in DOMAIN g : g[d].open = FALSE /\ Numbered(g[d])
  <2>1. \A d \in DOMAIN host : host[d] \in Sockets
    BY <1>4, SocketOf
  <2>2. \A x \in Sockets : Closed(x).open = FALSE /\ Closed(x).wire = x.wire
    BY DEF Closed, Sockets
  <2> QED
    BY <1>2, <1>4, <2>1, <2>2 DEF Numbered
<1>7. PICK n : n = State
  OBVIOUS
<1>8. Books(n, order, {}, NoHandle, g) /\ Polled(<<>>, n, g)
  BY <1>4, <1>5, <1>6, <1>7, NoBooks
<1>9. Duty'
  <2>1. net' = n
    BY <1>1, <1>7
  <2>2. n.fault = ""
    BY <1>7 DEF State
  <2>3. <<>> \in Seq(Tasks)
    OBVIOUS
  <2> QED
    BY <1>1, <2>1, <2>2, <2>3, NetworkAssumption DEF Duty
<1> QED
  BY <1>1, <1>3, <1>7, <1>8, <1>9, Hands DEF Inv, Work

\* A request that is answered at once.
LEMMA AnsweredKeeps ==
    ASSUME Inv, active = <<>>, NEW n, NEW h, NEW answer, Answered(n, h, answer),
           n.fault \in {"", "limit"},
           n.fault = "" => Books(n, order, {}, NoHandle, h) /\ Polled(batch, n, h)
    PROVE  Inv'
<1>1. CASE n.fault = ""
  <2>1. /\ net' = n /\ host' = h
        /\ UNCHANGED <<order, ready, running, active, batch, outcome>>
    BY <1>1 DEF Answered
  <2>2. Duty'
    BY <1>1, <2>1 DEF Inv, Duty
  <2>3. Work(active, host)' /\ Books(n, order, {}, NoHandle, h) /\ Polled(batch, n, h)
    BY <1>1, <2>1 DEF Work
  <2> QED
    BY <2>1, <2>2, <2>3, Hands DEF Inv
<1>2. CASE n.fault = "limit"
  <2>1. Ends("limit")
    BY <1>2 DEF Answered
  <2> QED
    BY <2>1, EndsKeeps
<1> QED
  BY <1>1, <1>2

\* A request that waits for its descriptor.
LEMMA ParkKeeps ==
    ASSUME Inv, NEW n, NEW r, NEW h, ParkNetwork(n, r, h), n.fault = "",
           Books(n, order, {r.res}, r.handle, h), Ready(r, h), Polled(batch, n, h)
    PROVE  Inv'
<1> DEFINE m == Park(n, r)
<1>1. /\ m.fault \in {"", "limit"}
      /\ m.fault = "" => Books(m, order + 1, {}, NoHandle, h) /\ Grows(n, m)
  BY BooksPark DEF Grows
<1>2. IF m.fault # "" THEN Ends(m.fault)
      ELSE /\ net' = m /\ host' = h /\ order' = order + 1
           /\ running' = Nobody /\ active' = <<>>
           /\ UNCHANGED <<ready, batch, answers, events, outcome>>
  BY DEF ParkNetwork
<1> HIDE DEF m
<1>3. CASE m.fault = ""
  <2>1. /\ net' = m /\ host' = h /\ order' = order + 1
        /\ running' = Nobody /\ active' = <<>> /\ UNCHANGED <<ready, batch, outcome>>
    BY <1>2, <1>3
  <2>2. Polled(batch, m, h)
    BY <1>1, <1>3, PolledLater, LaterSame
  <2>3. Duty'
    BY <1>3, <2>1 DEF Inv, Duty
  <2> QED
    BY <1>1, <1>3, <2>1, <2>2, <2>3, Hands DEF Inv, Work
<1>4. CASE m.fault = "limit"
  <2>1. Ends("limit")
    BY <1>2, <1>4
  <2> QED
    BY <2>1, EndsKeeps
<1> QED
  BY <1>1, <1>3, <1>4

\* A request that goes on at once.
LEMMA AdvancesKeeps ==
    ASSUME Inv, NEW n, NEW r, NEW h, Advances(n, r, h), n.fault = "",
           Books(n, order, {r.res}, r.handle, h), AtWork(r, h), Polled(batch, n, h)
    PROVE  Inv'
<1>1. /\ net' = n /\ host' = h /\ active' = <<r>>
      /\ UNCHANGED <<order, ready, running, batch, outcome>>
  BY DEF Advances
<1>2. Duty'
  BY <1>1 DEF Inv, Duty
<1>3. PICK a : a = <<r>>
  OBVIOUS
<1>4. InHand(a) = {r.res} /\ HandleInHand(a) = r.handle /\ a[1] = r /\ a = <<a[1]>>
  BY <1>3, Hands
<1>5. Work(a, h)
  BY <1>4 DEF Work
<1> QED
  BY <1>1, <1>2, <1>3, <1>4, <1>5 DEF Inv
-----------------------------------------------------------------------------
(***************************************************************************)
(* The requests of a program.                                              *)
(***************************************************************************)
LEMMA NewDescriptor ==
    ASSUME NEW kind \in {"listener", "stream", "datagram"}, NEW phase \in {"up", "connecting"}
    PROVE  LET x == Descriptor(kind, phase)
           IN  /\ NewSocket(x) /\ x.phase = phase /\ Len(x.wire) = x.issued
               /\ phase = "up" => Quiet(x)
<1> DEFINE x == Descriptor(kind, phase)
<1>1. x \in Sockets
  <2>1. <<>> \in Seq(Nat) /\ 0 \in Nat
    OBVIOUS
  <2> QED
    BY <2>1 DEF Descriptor, Sockets
<1>2. /\ x.open = TRUE /\ x.wire = <<>> /\ x.issued = 0 /\ x.phase = phase
  BY DEF Descriptor
<1>3. Len(<<>>) = 0
  OBVIOUS
<1> HIDE DEF x
<1>4. Len(x.wire) = x.issued
  BY <1>2, <1>3
<1> QED
  BY <1>1, <1>2, <1>4 DEF NewSocket, Quiet, x

\* What a running program's request starts from.
LEMMA AsksParts ==
    ASSUME Inv, Asks
    PROVE  /\ running \in Tasks /\ active = <<>> /\ net.fault = ""
           /\ Books(net, order, {}, NoHandle, host) /\ Polled(batch, net, host)
           /\ host \in Seq(Sockets)
<1>1. running \in Tasks /\ active = <<>> /\ Polled(batch, net, host)
  BY DEF Asks, Inv, Duty
<1> QED
  BY <1>1, EmptyHands DEF Books, Typed

\* A new descriptor with the request that made it.
LEMMA OpenedBooks ==
    ASSUME Inv, Asks, NEW kind \in {"listener", "stream", "datagram"},
           NEW phase \in {"up", "connecting"}
    PROVE  LET h == Opened(kind, phase)
           IN  /\ Books(net, order, {Fresh}, NoHandle, h)
               /\ Later(host, h) /\ Polled(batch, net, h) /\ Fresh \in DOMAIN h /\ Fresh \in Nat
               /\ h[Fresh] = Descriptor(kind, phase)
<1>x. PICK x : x = Descriptor(kind, phase)
  OBVIOUS
<1>h. PICK h : h = Opened(kind, phase)
  OBVIOUS
<1>1. NewSocket(x) /\ x.phase = phase
  BY <1>x, NewDescriptor
<1>2. h = Append(host, x)
  BY <1>x, <1>h DEF Opened
<1>a. PICK e : e = Len(host) + 1
  OBVIOUS
<1>b. Fresh = e
  BY <1>a DEF Fresh
<1>c. /\ Books(net, order, {} \cup {e}, NoHandle, h) /\ h[e] = x
      /\ DOMAIN h = DOMAIN host \cup {e} /\ \A c \in DOMAIN host : h[c] = host[c]
  <2>1. Books(net, order, {}, NoHandle, host)
    BY AsksParts
  <2>2. PICK L, M, g : L = {} /\ M = L \cup {e} /\ g = h
    OBVIOUS
  <2>3. Books(net, order, L, NoHandle, host)
    BY <2>1, <2>2
  <2>4. Opens(host, x, e, g, L, M)
    BY <1>1, <1>2, <1>a, <2>2 DEF Opens
  <2>5. Books(net, order, M, NoHandle, g) /\ Opening(host, x, e, g)
    BY <2>3, <2>4, BooksOpen
  <2> QED
    BY <2>2, <2>5 DEF Opening
<1>3. /\ Books(net, order, {} \cup {Fresh}, NoHandle, h) /\ h[Fresh] = x
      /\ DOMAIN h = DOMAIN host \cup {Fresh} /\ \A c \in DOMAIN host : h[c] = host[c]
  BY <1>b, <1>c
<1>4. {} \cup {Fresh} = {Fresh}
  OBVIOUS
<1>5. Later(host, h)
  BY <1>3 DEF Later
<1>6. Polled(batch, net, h)
  BY <1>5, AsksParts, PolledLater, GrowsSame
<1>7. Fresh \in Nat
  <2>1. Len(host) \in Nat
    BY AsksParts, LenProperties
  <2>2. Len(host) + 1 \in Nat
    BY <2>1, NatSum, 1 \in Nat, Zenon
  <2> QED
    BY <2>2 DEF Fresh
<1> QED
  BY <1>x, <1>h, <1>3, <1>4, <1>5, <1>6, <1>7

\* An opened resource goes into the table.
LEMMA InsertOpened ==
    ASSUME Inv, Asks, NEW kind \in {"listener", "stream", "datagram"},
           Answered(Insert(net, Fresh), Opened(kind, "up"), "done")
    PROVE  Inv'
<1>1. PICK h : h = Opened(kind, "up")
  OBVIOUS
<1>2. /\ Books(net, order, {Fresh}, NoHandle, h)
      /\ Later(host, h) /\ Polled(batch, net, h)
      /\ h[Fresh] = Descriptor(kind, "up")
  BY <1>1, OpenedBooks
<1>3. Quiet(h[Fresh])
  BY <1>2, NewDescriptor
<1>4. PICK m : m = Insert(net, Fresh)
  OBVIOUS
<1>5. /\ m.fault \in {"", "limit"}
      /\ m.fault = "" => Books(m, order, {Fresh} \ {Fresh}, NoHandle, h) /\ m.pending = net.pending
  BY <1>2, <1>3, <1>4, AsksParts, BooksInsert
<1>6. {Fresh} \ {Fresh} = {}
  OBVIOUS
<1>7. m.fault = "" => Polled(batch, m, h)
  BY <1>2, <1>5, PolledLater, GrowsSame, LaterSame
<1>8. Answered(m, h, "done")
  BY <1>1, <1>4
<1> QED
  BY <1>5, <1>6, <1>7, <1>8, AsksParts, AnsweredKeeps

\* A request that the host refuses.
LEMMA FailsKeeps ==
    ASSUME Inv, Asks, Answered(net, host, "fail")
    PROVE  Inv'
  BY AsksParts, AnsweredKeeps

\* tcp_listen and udp_bind.
LEMMA OpenResourceKeeps ==
    ASSUME Inv, OpenResource
    PROVE  Inv'
<1>1. CASE Answered(net, host, "fail")
  BY <1>1, FailsKeeps DEF OpenResource
<1>2. CASE \E kind \in {"listener", "datagram"} :
              Answered(Insert(net, Fresh), Opened(kind, "up"), "done")
  <2>1. Asks
    BY DEF OpenResource
  <2> QED
    BY <1>2, <2>1, InsertOpened
<1> QED
  BY <1>1, <1>2 DEF OpenResource

\* A new request.
LEMMA RequestParcel ==
    ASSUME NEW d \in Nat, NEW k \in Nat, NEW t \in Tasks, NEW op \in Ops, NEW size \in Nat,
           NEW r, r = Request(d, k, t, op, size)
    PROVE  /\ r \in Parcel /\ r.res = d /\ r.handle = k /\ r.op = op /\ r.size = size
           /\ r.offset = 0 /\ r.base = 0
  BY DEF Request, Parcel

\* tcp_connect: refused, connected at once, or parked until writable.
LEMMA TcpConnectKeeps ==
    ASSUME Inv, TcpConnect
    PROVE  Inv'
<1>0. Asks
  BY DEF TcpConnect
<1>1. CASE Answered(net, host, "fail")
  BY <1>0, <1>1, FailsKeeps
<1>2. CASE Answered(Insert(net, Fresh), Opened("stream", "up"), "done")
  BY <1>0, <1>2, InsertOpened
<1>3. CASE ParkNetwork(net, Request(Fresh, NoHandle, running, "Connect", 0),
                       Opened("stream", "connecting"))
  <2>1. PICK h : h = Opened("stream", "connecting")
    OBVIOUS
  <2>2. /\ Books(net, order, {Fresh}, NoHandle, h)
        /\ Later(host, h) /\ Polled(batch, net, h) /\ Fresh \in DOMAIN h /\ Fresh \in Nat
        /\ h[Fresh] = Descriptor("stream", "connecting")
    BY <1>0, <2>1, OpenedBooks
  <2>3. PICK r : r = Request(Fresh, NoHandle, running, "Connect", 0)
    OBVIOUS
  <2>a. NoHandle \in Nat /\ 0 \in Nat /\ "Connect" \in Ops /\ running \in Tasks
    BY <1>0, AsksParts DEF NoHandle, Ops
  <2>4. r \in Parcel /\ r.res = Fresh /\ r.handle = NoHandle /\ r.op = "Connect"
    BY <2>2, <2>3, <2>a, RequestParcel
  <2>5. Len(h[Fresh].wire) = h[Fresh].issued
    BY <2>2, NewDescriptor
  <2>6. Ready(r, h)
    BY <2>2, <2>4, <2>5 DEF Ready, Carries
  <2>7. ParkNetwork(net, r, h)
    BY <1>3, <2>1, <2>3
  <2> QED
    BY <1>0, <2>2, <2>4, <2>6, <2>7, AsksParts, ParkKeeps
<1> QED
  BY <1>1, <1>2, <1>3 DEF TcpConnect

\* A handle that is not in the table stops the program.
LEMMA StaleHandleKeeps ==
    ASSUME Inv, StaleHandle
    PROVE  Inv'
  BY EndsKeeps DEF StaleHandle

\* A request that takes the resource of the handle k.
LEMMA TakenParts ==
    ASSUME Inv, NEW k, OnResource(k)
    PROVE  /\ Books(Taken(k), order, {net.resources[k]}, k, host)
           /\ Taken(k).fault = "" /\ k \in Nat \ {NoHandle}
           /\ net.resources[k] \in DOMAIN host /\ net.resources[k] \in Nat
           /\ Quiet(host[net.resources[k]]) /\ Polled(batch, Taken(k), host)
           /\ Taken(k).pending = net.pending
           /\ running \in Tasks /\ active = <<>> /\ host \in Seq(Sockets)
<1>1. Asks /\ k \in DOMAIN net.resources
  BY DEF OnResource
<1>2. /\ Books(Taken(k), order, {net.resources[k]}, k, host)
      /\ Taken(k).pending = net.pending /\ Taken(k).fault = ""
      /\ k \in Nat \ {NoHandle} /\ net.resources[k] \in DOMAIN host
      /\ Quiet(host[net.resources[k]])
  BY <1>1, AsksParts, BooksTaken
<1>3. Polled(batch, Taken(k), host)
  BY <1>1, <1>2, AsksParts, PolledLater, GrowsSame, LaterSame
<1>4. net.resources[k] \in Nat
  <2>1. host \in Seq(Sockets)
    BY <1>1, AsksParts
  <2>2. DOMAIN host = 1..Len(host) /\ Len(host) \in Nat
    BY <2>1, LenProperties
  <2>3. \A l \in Nat : 1..l \subseteq Nat
    OBVIOUS
  <2> QED
    BY <1>2, <2>2, <2>3, Zenon
<1> QED
  BY <1>1, <1>2, <1>3, <1>4, AsksParts

\* A request that is parked with the resource.
LEMMA ParkTaken ==
    ASSUME Inv, NEW k, OnResource(k), NEW op \in {"Accept", "Recv"}, NEW size \in Nat,
           ParkNetwork(Taken(k), Request(net.resources[k], k, running, op, size), host)
    PROVE  Inv'
<1>1. PICK r : r = Request(net.resources[k], k, running, op, size)
  OBVIOUS
<1>2. r \in Parcel /\ r.res = net.resources[k] /\ r.handle = k /\ r.op = op
  <2>1. net.resources[k] \in Nat /\ k \in Nat /\ running \in Tasks /\ op \in Ops
    BY TakenParts DEF Ops
  <2> QED
    BY <1>1, <2>1, RequestParcel
<1>3. Ready(r, host)
  BY <1>2, TakenParts DEF Ready, Carries
<1>4. PICK m : m = Taken(k)
  OBVIOUS
<1>5. /\ Books(m, order, {r.res}, r.handle, host) /\ m.fault = "" /\ Polled(batch, m, host)
      /\ ParkNetwork(m, r, host)
  BY <1>1, <1>2, <1>4, TakenParts
<1> QED
  BY <1>3, <1>5, ParkKeeps

\* tcp_accept.
LEMMA TcpAcceptKeeps ==
    ASSUME Inv, NEW k, TcpAccept(k)
    PROVE  Inv'
  BY ParkTaken DEF TcpAccept

\* tcp_recv.
LEMMA TcpRecvKeeps ==
    ASSUME Inv, NEW k, NEW max \in Sizes, TcpRecv(k, max)
    PROVE  Inv'
<1>1. OnResource(k) /\ max \in Nat
  BY NetworkAssumption DEF TcpRecv
<1>2. CASE max > TransferLimit
  BY <1>2, EndsKeeps DEF TcpRecv
<1>3. CASE ~(max > TransferLimit)
  <2>1. ParkNetwork(Taken(k), Request(net.resources[k], k, running, "Recv", max), host)
    BY <1>3 DEF TcpRecv
  <2> QED
    BY <1>1, <2>1, ParkTaken
<1> QED
  BY <1>2, <1>3

\* udp_send_to.
LEMMA UdpSendToKeeps ==
    ASSUME Inv, NEW k, NEW size \in Sizes, UdpSendTo(k, size)
    PROVE  Inv'
<1>1. OnResource(k) /\ size \in Nat
  BY NetworkAssumption DEF UdpSendTo
<1>2. PICK r : r = Request(net.resources[k], k, running, "SendTo", size)
  OBVIOUS
<1>3. r \in Parcel /\ r.res = net.resources[k] /\ r.handle = k /\ r.op = "SendTo"
  <2>1. net.resources[k] \in Nat /\ k \in Nat /\ running \in Tasks /\ "SendTo" \in Ops
    BY <1>1, TakenParts DEF Ops
  <2> QED
    BY <1>1, <1>2, <2>1, RequestParcel
<1>4. AtWork(r, host)
  BY <1>1, <1>3, TakenParts DEF AtWork, Carries, Decided
<1>5. PICK m : m = Taken(k)
  OBVIOUS
<1>6. /\ Books(m, order, {r.res}, r.handle, host) /\ m.fault = "" /\ Polled(batch, m, host)
      /\ Advances(m, r, host)
  BY <1>1, <1>2, <1>3, <1>5, TakenParts DEF UdpSendTo
<1> QED
  BY <1>4, <1>6, AdvancesKeeps

\* network_close.
LEMMA CloseHandleKeeps ==
    ASSUME Inv, NEW k, CloseHandle(k)
    PROVE  Inv'
<1>1. OnResource(k)
  BY DEF CloseHandle
<1>2. PICK m, d, h : m = Taken(k) /\ d = net.resources[k] /\ h = Close(host, d)
  OBVIOUS
<1>3. /\ Books(m, order, {d}, k, host) /\ m.fault = "" /\ Polled(batch, m, host)
      /\ d \in DOMAIN host /\ host \in Seq(Sockets)
  BY <1>1, <1>2, TakenParts
<1>4. Books(m, order, {d} \ {d}, k, h)
  BY <1>2, <1>3, BooksClose
<1>5. {d} \ {d} = {}
  OBVIOUS
<1>6. Books(m, order, {}, NoHandle, h)
  BY <1>4, <1>5, BooksForget
<1>7. Later(host, h)
  BY <1>2, <1>3, LaterClose
<1>8. Polled(batch, m, h)
  BY <1>3, <1>7, PolledLater, GrowsSame
<1>9. Answered(m, h, "done")
  BY <1>2 DEF CloseHandle
<1>10. active = <<>>
  BY <1>1, TakenParts
<1> QED
  BY <1>3, <1>6, <1>8, <1>9, <1>10, AnsweredKeeps
-----------------------------------------------------------------------------
(***************************************************************************)
(* What a call of the host does to the descriptor.                         *)
(***************************************************************************)
LEMMA MinRight ==
    ASSUME NEW a \in Nat, NEW b \in Nat
    PROVE  Min({a, b}) \in Nat /\ Min({a, b}) <= a /\ Min({a, b}) <= b
<1>1. \E x \in {a, b} : \A y \in {a, b} : x <= y
  OBVIOUS
<1>2. Min({a, b}) \in {a, b} /\ \A y \in {a, b} : Min({a, b}) <= y
  BY <1>1 DEF Min
<1> QED
  BY <1>2

\* A count up to the smaller of two numbers can be taken from both.
LEMMA CountRight ==
    ASSUME NEW a \in Nat, NEW b \in Nat, NEW k \in 1..Min({a, b})
    PROVE  k \in Nat /\ k <= a /\ k <= b /\ a - k \in Nat /\ b - k \in Nat
<1>1. Min({a, b}) \in Nat /\ Min({a, b}) <= a /\ Min({a, b}) <= b
  BY MinRight
<1> HIDE DEF Min
<1> PICK m \in Nat : m = Min({a, b})
  BY <1>1
<1> QED
  BY <1>1

\* The fields of a descriptor.
LEMMA SocketFields ==
    ASSUME NEW x \in Sockets
    PROVE  /\ x.in \in Nat /\ x.out \in Nat /\ x.issued \in Nat /\ x.wire \in Seq(Nat)
           /\ x.open \in BOOLEAN /\ x.phase \in {"up", "connecting", "refused", "dead"}
  BY DEF Sockets

\* The buffers of a descriptor change, and its phase only forward.
LEMMA KinChanges ==
    ASSUME NEW x \in Sockets, NEW v \in Nat
    PROVE  /\ Kin(x, [x EXCEPT !.in = v]) /\ Kin(x, [x EXCEPT !.out = v])
           /\ Kin(x, [x EXCEPT !.eof = TRUE])
           /\ x.phase = "up" => Kin(x, [x EXCEPT !.phase = "dead"])
           /\ x.phase = "connecting" =>
                 \A p \in {"up", "refused"} : Kin(x, [x EXCEPT !.phase = p])
<1>1. Kin(x, [x EXCEPT !.in = v])
  BY DEF Kin, Sockets
<1>2. Kin(x, [x EXCEPT !.out = v])
  BY DEF Kin, Sockets
<1>3. Kin(x, [x EXCEPT !.eof = TRUE])
  BY DEF Kin, Sockets
<1>4. x.phase = "up" => Kin(x, [x EXCEPT !.phase = "dead"])
  BY DEF Kin, Sockets
<1>5. ASSUME x.phase = "connecting", NEW p \in {"up", "refused"}
      PROVE  Kin(x, [x EXCEPT !.phase = p])
  BY <1>5 DEF Kin, Sockets
<1> QED
  BY <1>1, <1>2, <1>3, <1>4, <1>5

\* g is h, or differs from it by such a change at d.
KinStep(h, d, g) == g = h \/ \E y : Kin(h[d], y) /\ g = [h EXCEPT ![d] = y]
Keeping(x, y) ==
    /\ Quiet(x) => Quiet(y)
    /\ \A r : Decided(x, r) => Decided(y, r)
    /\ \A r : r.op \in Ops /\ Carries(x, r) => Carries(y, r)

\* A step of one descriptor, if there is one.
LEMMA BooksKinStep ==
    ASSUME NEW n, NEW o, NEW L, NEW b, NEW h, Books(n, o, L, b, h),
           NEW d \in DOMAIN h, NEW g, KinStep(h, d, g)
    PROVE  /\ Books(n, o, L, b, g) /\ Later(h, g) /\ Keeping(h[d], g[d])
           /\ DOMAIN g = DOMAIN h
<1>1. CASE g = h
  BY <1>1, LaterSame DEF Keeping
<1>2. CASE \E y : Kin(h[d], y) /\ g = [h EXCEPT ![d] = y]
  <2>1. PICK y : Kin(h[d], y) /\ g = [h EXCEPT ![d] = y]
    BY <1>2
  <2>2. h \in Seq(Sockets) /\ y \in Sockets
    BY <2>1 DEF Books, Typed, Kin
  <2>3. Books(n, o, L, b, g)
    BY <2>1, BooksKin
  <2>4. Later(h, g)
    BY <2>1, <2>2, LaterKin
  <2>5. DOMAIN g = DOMAIN h /\ g[d] = y
    BY <2>1, <2>2, HostWith
  <2>6. Keeping(h[d], y)
    BY <2>1, KinKeeps DEF Keeping
  <2> QED
    BY <2>3, <2>4, <2>5, <2>6
<1> QED
  BY <1>1, <1>2 DEF KinStep

\* Fields of the outcome of a call.
LEMMA StepFields ==
    \A h, result, count :
        /\ Step(h, result, count).host = h /\ Step(h, result, count).result = result
        /\ Step(h, result, count).count = count
  BY DEF Step

\* Bytes are taken from the buffer of a descriptor.
LEMMA KinInStep ==
    ASSUME host \in Seq(Sockets), NEW d \in DOMAIN host, NEW k \in Nat, k <= host[d].in
    PROVE  KinStep(host, d, [host EXCEPT ![d].in = @ - k])
<1>1. host[d] \in Sockets
  BY SocketOf
<1>2. PICK v \in Nat : v = host[d].in
  BY <1>1, SocketFields
<1>3. v - k \in Nat
  BY <1>2
<1>4. Kin(host[d], [host[d] EXCEPT !.in = v - k])
  BY <1>1, <1>3, KinChanges
<1>5. [host EXCEPT ![d].in = @ - k] = [host EXCEPT ![d] = [host[d] EXCEPT !.in = v - k]]
  BY <1>2
<1> QED
  BY <1>4, <1>5 DEF KinStep

\* Reading takes bytes that are there.
LEMMA RecvRight ==
    ASSUME host \in Seq(Sockets), NEW d \in DOMAIN host, NEW max \in Nat,
           NEW step \in RecvStep(d, max)
    PROVE  KinStep(host, d, step.host) /\ step.result \in {"err", "ok", "wait"}
<1>0. \A result, count : LET s == Step(host, result, count)
                         IN  KinStep(host, d, s.host) /\ s.result = result
  BY StepFields DEF KinStep
<1>1. CASE Broken(d)
  BY <1>0, <1>1 DEF RecvStep
<1>2. CASE ~Broken(d) /\ (max = 0 \/ (host[d].in = 0 /\ host[d].eof))
  BY <1>0, <1>2 DEF RecvStep
<1>3. CASE ~Broken(d) /\ ~(max = 0 \/ (host[d].in = 0 /\ host[d].eof)) /\ host[d].in = 0
  BY <1>0, <1>3 DEF RecvStep
<1>4. CASE ~Broken(d) /\ ~(max = 0 \/ (host[d].in = 0 /\ host[d].eof)) /\ host[d].in # 0
  <2>1. PICK k \in 1..Min({host[d].in, max}) :
             step = Step([host EXCEPT ![d].in = @ - k], "ok", k)
    BY <1>4 DEF RecvStep
  <2>2. PICK v \in Nat : v = host[d].in
    BY SocketOf, SocketFields
  <2>3. k \in Nat /\ k <= host[d].in
    BY <2>1, <2>2, CountRight
  <2>4. KinStep(host, d, [host EXCEPT ![d].in = @ - k])
    BY <2>3, KinInStep
  <2>5. PICK g : g = [host EXCEPT ![d].in = @ - k]
    OBVIOUS
  <2>6. step = Step(g, "ok", k) /\ KinStep(host, d, g)
    BY <2>1, <2>4, <2>5
  <2> QED
    BY <2>6, StepFields
<1> QED
  BY <1>1, <1>2, <1>3, <1>4

\* A datagram goes out whole or not at all.
LEMMA SendToRight ==
    ASSUME host \in Seq(Sockets), NEW d \in DOMAIN host, NEW size, NEW step \in SendToStep(d, size)
    PROVE  KinStep(host, d, step.host) /\ step.result \in {"err", "ok", "wait"}
<1>0. \A result, count : LET s == Step(host, result, count)
                         IN  KinStep(host, d, s.host) /\ s.result = result
  BY StepFields DEF KinStep
<1>1. CASE step = Step(host, "err", 0)
  BY <1>0, <1>1
<1>2. CASE step = Step(host, "wait", 0)
  BY <1>0, <1>2
<1>3. CASE step = Step([host EXCEPT ![d].out = @ + 1], "ok", size)
  <2>1. host[d] \in Sockets
    BY SocketOf
  <2>2. PICK v \in Nat : v = host[d].out
    BY <2>1, SocketFields
  <2>3. v + 1 \in Nat
    OBVIOUS
  <2>4. Kin(host[d], [host[d] EXCEPT !.out = v + 1])
    BY <2>1, <2>3, KinChanges
  <2>5. [host EXCEPT ![d].out = @ + 1] = [host EXCEPT ![d] = [host[d] EXCEPT !.out = v + 1]]
    BY <2>2
  <2>6. PICK g : g = [host EXCEPT ![d].out = @ + 1]
    OBVIOUS
  <2>7. KinStep(host, d, g)
    BY <2>4, <2>5, <2>6 DEF KinStep
  <2> QED
    BY <1>3, <2>6, <2>7, StepFields
<1> QED
  BY <1>1, <1>2, <1>3 DEF SendToStep

\* What is written goes on from the last byte.
GoesOn(w, c, k, v) ==
    /\ w \in Seq(Nat) /\ w = [i \in 1..Len(w) |-> i] /\ Len(w) = c
    /\ v = w \o [i \in 1..k |-> c + i]

\* The next bytes of a stream go on where the last ended.
LEMMA WireMore ==
    ASSUME NEW w, NEW c \in Nat, NEW k \in Nat, NEW v, GoesOn(w, c, k, v)
    PROVE  v \in Seq(Nat) /\ Len(v) = c + k /\ v = [i \in 1..Len(v) |-> i]
<1>0. PICK u : u = [i \in 1..k |-> c + i]
  OBVIOUS
<1>1. /\ w \in Seq(Nat) /\ w = [i \in 1..Len(w) |-> i] /\ Len(w) = c /\ v = w \o u
  BY <1>0 DEF GoesOn
<1>2. u \in [1..k -> Nat]
  BY <1>0
<1>3. u \in Seq(Nat) /\ Len(u) = k
  BY <1>2
<1>4. /\ w \o u \in Seq(Nat) /\ Len(w \o u) = Len(w) + Len(u)
      /\ \A i \in 1..(Len(w) + Len(u)) :
            (w \o u)[i] = IF i <= Len(w) THEN w[i] ELSE u[i - Len(w)]
  BY ZenonT(60), <1>1, <1>3, ConcatProperties
<1>5. v \in Seq(Nat) /\ Len(v) = c + k
  BY <1>1, <1>3, <1>4
<1>6. \A i \in 1..Len(v) : v[i] = IF i <= c THEN w[i] ELSE u[i - c]
  BY <1>1, <1>3, <1>4, <1>5
<1>7. \A i \in 1..Len(v) : v[i] = i
  <2> TAKE i \in 1..Len(v)
  <2>1. i \in Nat /\ 1 <= i /\ i <= c + k
    BY <1>5
  <2>2. CASE i <= c
    <3>1. i \in 1..c
      BY <2>1, <2>2
    <3>2. w[i] = i
      BY <1>1, <3>1
    <3> QED
      BY <1>6, <2>2, <3>2
  <2>3. CASE ~(i <= c)
    <3>1. i - c \in 1..k /\ c + (i - c) = i
      BY <2>1, <2>3
    <3>2. u[i - c] = i
      BY <1>0, <3>1
    <3> QED
      BY <1>6, <2>3, <3>2
  <2> QED
    BY <2>2, <2>3
<1>8. v = [i \in DOMAIN v |-> v[i]] /\ DOMAIN v = 1..Len(v)
  BY <1>5
<1> QED
  BY <1>5, <1>7, <1>8

\* A descriptor after k bytes were written.
LEMMA WrittenRight ==
    ASSUME host \in Seq(Sockets), NEW d \in DOMAIN host, NEW c \in Nat, NEW k \in Nat,
           Numbered(host[d]), Len(host[d].wire) = c
    PROVE  \E y : /\ Written(d, c, k) = [host EXCEPT ![d] = y]
                  /\ y \in Sockets /\ Numbered(y) /\ Len(y.wire) = c + k
                  /\ y.open = host[d].open /\ y.phase = host[d].phase
                  /\ y.issued = host[d].issued
<1>1. PICK x : x = host[d]
  OBVIOUS
<1>2. x \in Sockets
  BY <1>1, SocketOf
<1>3. x.out \in Nat /\ x.wire \in Seq(Nat) /\ Len(x.wire) = c
  BY <1>1, <1>2, SocketFields
<1>4. PICK w, v : w = x.wire /\ v = w \o [i \in 1..k |-> c + i]
  OBVIOUS
<1>5. v \in Seq(Nat) /\ Len(v) = c + k /\ v = [i \in 1..Len(v) |-> i]
  <2>1. GoesOn(w, c, k, v)
    BY <1>1, <1>3, <1>4 DEF Numbered, GoesOn
  <2> QED
    BY <2>1, WireMore
<1>6. PICK l : l = x.out + k
  OBVIOUS
<1>7. l \in Nat
  BY <1>3, <1>6, NatSum
<1>8. PICK z, y : z = [x EXCEPT !.out = l] /\ y = [z EXCEPT !.wire = v]
  OBVIOUS
<1>9. z \in Sockets /\ z.wire = x.wire /\ z.open = x.open /\ z.phase = x.phase /\ z.issued = x.issued
  BY <1>2, <1>7, <1>8 DEF Sockets
<1>10. y \in Sockets /\ y.wire = v /\ y.open = x.open /\ y.phase = x.phase /\ y.issued = x.issued
  BY <1>5, <1>8, <1>9 DEF Sockets
<1>11. PICK g : g = [host EXCEPT ![d].out = @ + k]
  OBVIOUS
<1>12. g = [host EXCEPT ![d] = z]
  BY <1>1, <1>6, <1>8, <1>11
<1>13. g[d] = z
  BY <1>12
<1>14. Written(d, c, k) = [g EXCEPT ![d].wire = @ \o [i \in 1..k |-> c + i]]
  BY <1>11 DEF Written
<1>15. [g EXCEPT ![d].wire = @ \o [i \in 1..k |-> c + i]] = [g EXCEPT ![d] = y]
  BY <1>4, <1>8, <1>9, <1>13
<1>16. [g EXCEPT ![d] = y] = [host EXCEPT ![d] = y]
  BY <1>12
<1>17. Numbered(y) /\ Len(y.wire) = c + k
  BY <1>5, <1>10 DEF Numbered
<1> QED
  BY <1>1, <1>10, <1>14, <1>15, <1>16, <1>17
-----------------------------------------------------------------------------
(***************************************************************************)
(* The request at work.                                                    *)
(***************************************************************************)
\* A table m over the descriptors g that the driver can go on with, if any.
Final(m, g) ==
    /\ m.fault \in {"", "limit"}
    /\ m.fault = "" => Books(m, order, {}, NoHandle, g) /\ Polled(batch, m, g)

\* The books while the request r works on the descriptors g.
Busy(r, g) ==
    /\ Books(net, order, {r.res}, r.handle, g) /\ Polled(batch, net, g)
    /\ net.fault = "" /\ r \in Parcel /\ r.res \in DOMAIN g
    /\ r.handle = NoHandle <=> r.op = "Connect"

\* The request at work has an open descriptor and its promises.
LEMMA WorkParts ==
    ASSUME Inv, active # <<>>
    PROVE  Busy(active[1], host) /\ AtWork(active[1], host) /\ host \in Seq(Sockets)
<1>1. active = <<active[1]>> /\ AtWork(active[1], host)
  BY DEF Inv, Work
<1>2. PICK r : r = active[1]
  OBVIOUS
<1>3. active = <<r>>
  BY <1>1, <1>2
<1>4. InHand(active) = {r.res} /\ HandleInHand(active) = r.handle
  BY <1>3, Hands
<1>5. Books(net, order, {r.res}, r.handle, host) /\ Polled(batch, net, host) /\ net.fault = ""
  BY <1>4 DEF Inv, Duty
<1>6. host \in Seq(Sockets)
  BY <1>5 DEF Books, Typed
<1> QED
  BY <1>1, <1>2, <1>5, <1>6 DEF Busy, AtWork

\* The resource of an answered request goes back.
LEMMA GivenBack ==
    ASSUME NEW n, NEW r, NEW g, Books(n, order, {r.res}, r.handle, g), n.fault = "",
           Polled(batch, n, g), r.handle # NoHandle, Quiet(g[r.res])
    PROVE  Final(Restore(n, r.handle, r.res), g)
<1>1. PICK d, L : d = r.res /\ L = {r.res}
  OBVIOUS
<1>2. PICK m : m = Restore(n, r.handle, d)
  OBVIOUS
<1>3. /\ m.fault \in {"", "limit"}
      /\ m.fault = "" => Books(m, order, L \ {d}, NoHandle, g) /\ m.pending = n.pending
  BY <1>1, <1>2, BooksRestore
<1>4. L \ {d} = {}
  BY <1>1
<1>5. m.fault = "" => Polled(batch, m, g)
  BY <1>3, PolledLater, GrowsSame, LaterSame
<1> QED
  BY <1>1, <1>2, <1>3, <1>4, <1>5 DEF Final

\* The running task or a waiting one is answered.
LEMMA AnswerKeeps ==
    ASSUME Inv, NEW r \in Parcel, NEW step, AnswerTo(r, step),
           Final(Settled(r, step), HostAfter(r, step))
    PROVE  Inv'
<1>1. PICK m, g : m = Settled(r, step) /\ g = HostAfter(r, step)
  OBVIOUS
<1>2. IF m.fault # "" THEN Ends(m.fault)
      ELSE /\ net' = m /\ host' = g /\ active' = <<>>
           /\ answers' = [answers EXCEPT ![r.task] = step.result]
           /\ ready' = IF running = Nobody THEN Append(ready, r.task) ELSE ready
           /\ UNCHANGED <<order, running, batch, events, outcome>>
  BY <1>1 DEF AnswerTo
<1>3. Final(m, g)
  BY <1>1
<1>4. CASE m.fault = ""
  <2>1. /\ net' = m /\ host' = g /\ active' = <<>>
        /\ ready' = IF running = Nobody THEN Append(ready, r.task) ELSE ready
        /\ UNCHANGED <<order, running, batch, outcome>>
    BY <1>2, <1>4
  <2>2. ready' \in Seq(Tasks)
    <3>1. r.task \in Tasks /\ ready \in Seq(Tasks)
      BY DEF Parcel, Inv, Duty
    <3>2. PICK t : t = r.task
      OBVIOUS
    <3>3. Append(ready, t) \in Seq(Tasks)
      BY <3>1, <3>2, AppendProperties
    <3> QED
      BY <2>1, <3>1, <3>2, <3>3
  <2>3. Duty'
    BY <1>4, <2>1, <2>2 DEF Inv, Duty
  <2>4. Books(m, order, {}, NoHandle, g) /\ Polled(batch, m, g)
    BY <1>3, <1>4 DEF Final
  <2> QED
    BY <2>1, <2>3, <2>4, Hands DEF Inv, Work
<1>5. CASE m.fault = "limit"
  <2>1. Ends("limit")
    BY <1>2, <1>5
  <2> QED
    BY <2>1, EndsKeeps
<1> QED
  BY <1>3, <1>4, <1>5 DEF Final

\* What a step of the host may lead to.
Outcome(r, step) ==
    /\ step.result = "wait" => Busy(r, step.host) /\ Carries(step.host[r.res], r)
    /\ step.result = "some" => Busy(Sent(r, step.count), step.host)
                                 /\ AtWork(Sent(r, step.count), step.host)
    /\ step.result \notin {"wait", "some"} => Final(Settled(r, step), HostAfter(r, step))

\* A call that only changes buffers.
LEMMA KinBusy ==
    ASSUME NEW r, Busy(r, host), AtWork(r, host), NEW g, KinStep(host, r.res, g)
    PROVE  Busy(r, g) /\ Carries(g[r.res], r) /\ Later(host, g)
<1>1. /\ Books(net, order, {r.res}, r.handle, host) /\ Polled(batch, net, host)
      /\ net.fault = "" /\ r \in Parcel /\ r.res \in DOMAIN host
      /\ r.handle = NoHandle <=> r.op = "Connect"
  BY DEF Busy
<1>2. PICK d, L, b : d = r.res /\ L = {r.res} /\ b = r.handle
  OBVIOUS
<1>3. Books(net, order, L, b, host) /\ d \in DOMAIN host /\ KinStep(host, d, g)
  BY <1>1, <1>2
<1>4. Books(net, order, L, b, g) /\ Later(host, g) /\ Keeping(host[d], g[d]) /\ DOMAIN g = DOMAIN host
  BY <1>3, BooksKinStep
<1>5. Polled(batch, net, g)
  BY <1>1, <1>3, <1>4, PolledLater, GrowsSame
<1>6. r.op \in Ops
  BY <1>1 DEF Parcel
<1>7. Carries(g[d], r)
  BY <1>2, <1>4, <1>6 DEF AtWork, Keeping
<1> QED
  BY <1>1, <1>2, <1>4, <1>5, <1>7 DEF Busy

\* An operation that does not send has one of the outcomes.
LEMMA KinOutcome ==
    ASSUME NEW r, Busy(r, host), AtWork(r, host), r.op \in {"Accept", "Recv", "SendTo"},
           NEW step, KinStep(host, r.res, step.host), step.result \in {"wait", "err", "ok"},
           r.op = "Accept" => step.result # "ok"
    PROVE  Outcome(r, step)
<1>1. PICK g : g = step.host
  OBVIOUS
<1>2. Busy(r, g) /\ Carries(g[r.res], r)
  BY <1>1, KinBusy
<1>3. r.handle # NoHandle /\ Quiet(g[r.res])
  BY <1>2 DEF Busy, Carries
<1>4. Final(Restore(net, r.handle, r.res), g)
  BY <1>2, <1>3, GivenBack DEF Busy
<1>5. HostAfter(r, step) = g
  BY <1>1 DEF HostAfter
<1>6. step.result # "wait" => Settled(r, step) = Restore(net, r.handle, r.res)
  BY DEF Settled
<1> QED
  BY <1>1, <1>2, <1>4, <1>5, <1>6 DEF Outcome

\* A connection was made or refused.
LEMMA ConnectOutcome ==
    ASSUME NEW r, Busy(r, host), AtWork(r, host), r.op = "Connect",
           NEW step \in FinishConnect(r.res)
    PROVE  Outcome(r, step)
<1>0. step.host = host /\ step.result = IF Broken(r.res) THEN "err" ELSE "ok"
  BY StepFields DEF FinishConnect
<1>1. PICK d, L, x : d = r.res /\ L = {r.res} /\ x = host[d]
  OBVIOUS
<1>2. /\ Books(net, order, L, NoHandle, host) /\ d \in L /\ Polled(batch, net, host)
      /\ net.fault = "" /\ d \in DOMAIN host /\ host \in Seq(Sockets)
  BY <1>1 DEF Busy, Books, Typed
<1>3. L \ {d} = {}
  BY <1>1
<1>4. CASE Broken(r.res)
  <2>1. PICK h : h = Close(host, d)
    OBVIOUS
  <2>2. Books(net, order, L \ {d}, NoHandle, h)
    BY <1>2, <2>1, BooksClose
  <2>3. Later(host, h)
    BY <1>2, <2>1, LaterClose
  <2>4. Polled(batch, net, h)
    BY <1>2, <2>3, PolledLater, GrowsSame
  <2>5. Final(net, h)
    BY <1>2, <1>3, <2>2, <2>4 DEF Final
  <2>6. Settled(r, step) = net /\ HostAfter(r, step) = h
    BY <1>0, <1>1, <1>4, <2>1 DEF Settled, HostAfter
  <2> QED
    BY <1>0, <1>4, <2>5, <2>6 DEF Outcome
<1>5. CASE ~Broken(r.res)
  <2>1. x.phase \in {"up", "connecting", "refused", "dead"}
    BY <1>1, <1>2, SocketOf, SocketFields
  <2>2. x.phase = "up" /\ Len(x.wire) = x.issued
    BY <1>1, <1>5, <2>1 DEF AtWork, Decided, Carries, Broken
  <2>3. Quiet(host[d])
    BY <1>1, <2>2 DEF Quiet
  <2>4. PICK m : m = Insert(net, d)
    OBVIOUS
  <2>5. /\ m.fault \in {"", "limit"}
        /\ m.fault = "" => Books(m, order, L \ {d}, NoHandle, host) /\ m.pending = net.pending
    BY <1>2, <2>3, <2>4, BooksInsert
  <2>6. m.fault = "" => Polled(batch, m, host)
    BY <1>2, <2>5, PolledLater, GrowsSame, LaterSame
  <2>7. Final(m, host)
    BY <1>3, <2>5, <2>6 DEF Final
  <2>8. Settled(r, step) = m /\ HostAfter(r, step) = host
    BY <1>0, <1>1, <1>5, <2>4 DEF Settled, HostAfter
  <2> QED
    BY <1>0, <1>5, <2>7, <2>8 DEF Outcome
<1> QED
  BY <1>4, <1>5

\* A listener with a new connection.
LEMMA AcceptOutcome ==
    ASSUME NEW r, Busy(r, host), AtWork(r, host), r.op = "Accept", host \in Seq(Sockets),
           NEW step \in AcceptStep(r.res)
    PROVE  Outcome(r, step)
<1>1. r.res \in DOMAIN host
  BY DEF Busy
<1>2. PICK d : d = r.res
  OBVIOUS
<1>3. CASE host[d].in = 0
  <2>1. step = Step(host, "wait", 0)
    BY <1>2, <1>3 DEF AcceptStep
  <2>2. step.host = host /\ step.result = "wait"
    BY <2>1, StepFields
  <2> QED
    BY <2>2, KinOutcome DEF KinStep
<1>4. CASE host[d].in # 0
  <2>1. PICK g : g = [host EXCEPT ![d].in = @ - 1]
    OBVIOUS
  <2>2. KinStep(host, d, g)
    <3>1. PICK v \in Nat : v = host[d].in
      BY <1>1, <1>2, SocketOf, SocketFields
    <3>2. 1 <= host[d].in /\ 1 \in Nat
      BY <1>4, <3>1
    <3> QED
      BY <1>1, <1>2, <2>1, <3>2, KinInStep
  <2>3. \/ step = Step(Append(g, Descriptor("stream", "up")), "ok", 0)
        \/ step = Step(g, "err", 0)
    BY <1>2, <1>4, <2>1 DEF AcceptStep
  <2>4. CASE step = Step(g, "err", 0)
    <3>1. step.host = g /\ step.result = "err"
      BY <2>4, StepFields
    <3> QED
      BY <1>2, <2>2, <3>1, KinOutcome
  <2>5. CASE step = Step(Append(g, Descriptor("stream", "up")), "ok", 0)
    <3>1. PICK x, h, e : x = Descriptor("stream", "up") /\ h = Append(g, x) /\ e = Len(g) + 1
      OBVIOUS
    <3>2. step.host = h /\ step.result = "ok"
      <4>1. step = Step(h, "ok", 0)
        BY <2>5, <3>1
      <4> QED
        BY <4>1, StepFields
    <3>3. NewSocket(x) /\ Quiet(x)
      BY <3>1, NewDescriptor
    <3>4. Busy(r, g) /\ Carries(g[r.res], r)
      BY <1>2, <2>2, KinBusy
    <3>5. PICK L, M, b : L = {r.res} /\ M = L \cup {e} /\ b = r.handle
      OBVIOUS
    <3>6. /\ Books(net, order, L, b, g) /\ Polled(batch, net, g) /\ net.fault = ""
          /\ d \in DOMAIN g /\ b # NoHandle /\ Quiet(g[d])
      BY <1>2, <3>4, <3>5 DEF Busy, Carries
    <3>7. Opens(g, x, e, h, L, M)
      BY <3>1, <3>3, <3>5 DEF Opens
    <3>8. Books(net, order, M, b, h) /\ Opening(g, x, e, h)
      BY <3>6, <3>7, BooksOpen
    <3>9. /\ h[e] = x /\ Len(h) = e /\ d \in DOMAIN h /\ h[d] = g[d] /\ d # e
          /\ Later(g, h)
      BY <3>6, <3>8 DEF Opening, Later
    <3>10. M \ {e} = {r.res} /\ e \in M
      BY <1>2, <3>5, <3>9
    <3>11. PICK n : n = Insert(net, e)
      OBVIOUS
    <3>12. /\ n.fault \in {"", "limit"}
           /\ n.fault = "" => Books(n, order, M \ {e}, b, h) /\ n.pending = net.pending
      BY <3>3, <3>6, <3>8, <3>9, <3>10, <3>11, BooksInsert
    <3>13. Polled(batch, net, h)
      BY <3>6, <3>9, PolledLater, GrowsSame
    <3>14. Final(Restore(n, r.handle, r.res), h)
      <4>1. CASE n.fault = ""
        <5>1. Books(n, order, {r.res}, r.handle, h) /\ n.pending = net.pending
          BY <3>5, <3>10, <3>12, <4>1
        <5>2. Polled(batch, n, h)
          BY <3>8, <3>13, <5>1, PolledLater, GrowsSame, LaterSame
        <5> QED
          BY <1>2, <3>5, <3>6, <3>9, <4>1, <5>1, <5>2, GivenBack
      <4>2. CASE n.fault = "limit"
        <5>1. Restore(n, r.handle, r.res) = n
          BY <4>2 DEF Restore
        <5> QED
          BY <4>2, <5>1 DEF Final
      <4> QED
        BY <3>12, <4>1, <4>2
    <3>15. HostAfter(r, step) = h /\ Settled(r, step) = Restore(n, r.handle, r.res)
      BY <3>2, <3>9, <3>11 DEF HostAfter, Settled
    <3> QED
      BY <3>2, <3>14, <3>15 DEF Outcome
  <2> QED
    BY <2>3, <2>4, <2>5
<1> QED
  BY <1>3, <1>4

\* A stream writes what the buffer takes of the rest.
LEMMA SendOutcome ==
    ASSUME NEW r, Busy(r, host), AtWork(r, host), r.op = "Send", host \in Seq(Sockets),
           NEW step \in SendStep(r.res, r.base + r.offset, r.size - r.offset), r.offset # r.size
    PROVE  Outcome(r, step)
<1>1. PICK d, x, L, h : d = r.res /\ x = host[d] /\ L = {r.res} /\ h = r.handle
  OBVIOUS
<1>2. /\ Books(net, order, L, h, host) /\ Polled(batch, net, host) /\ net.fault = ""
      /\ d \in DOMAIN host /\ r \in Parcel /\ h # NoHandle /\ x \in Sockets
      /\ Sends(x, r) /\ Carries(x, r)
  BY <1>1, SocketOf DEF Busy, AtWork, Carries
<1>3. PICK a \in Nat, b \in Nat, c \in Nat : a = r.base /\ b = r.offset /\ c = r.size
  BY <1>2 DEF Parcel
<1>4. PICK q : q = a + b
  OBVIOUS
<1>5. q \in Nat /\ b <= c /\ x.issued = a + c
  <2>1. q \in Nat
    BY <1>4
  <2>2. r.offset <= r.size /\ x.issued = r.base + r.size
    BY <1>2 DEF Sends
  <2> QED
    BY <1>3, <2>1, <2>2
<1>6. CASE Broken(r.res)
  <2>1. step = Step(host, "err", 0)
    BY <1>6 DEF SendStep
  <2>2. step.host = host /\ step.result = "err"
    BY <2>1, StepFields
  <2>3. x.phase = "dead"
    BY <1>1, <1>2, <1>6 DEF Sends, Broken
  <2>4. Quiet(host[d])
    BY <1>1, <2>3 DEF Quiet
  <2>5. Final(Restore(net, r.handle, r.res), host)
    BY <1>1, <1>2, <2>4, GivenBack
  <2>6. HostAfter(r, step) = host /\ Settled(r, step) = Restore(net, r.handle, r.res)
    BY <2>2 DEF HostAfter, Settled
  <2> QED
    BY <2>2, <2>5, <2>6 DEF Outcome
<1>7. CASE ~Broken(r.res) /\ host[d].out >= Buffer
  <2>1. step = Step(host, "wait", 0)
    BY <1>1, <1>7 DEF SendStep
  <2>2. step.host = host /\ step.result = "wait"
    BY <2>1, StepFields
  <2> QED
    BY <2>2 DEF Outcome, AtWork
<1>8. CASE ~Broken(r.res) /\ ~(host[d].out >= Buffer)
  <2>1. PICK k \in 1..Min({Buffer - host[d].out, r.size - r.offset}) :
             step = Step(Written(d, r.base + r.offset, k), "some", k)
    BY <1>1, <1>8 DEF SendStep
  <2>2. Buffer - host[d].out \in Nat /\ r.size - r.offset \in Nat
    <3>1. PICK v \in Nat : v = host[d].out
      BY <1>1, <1>2, SocketFields
    <3>2. PICK u \in Nat : u = Buffer
      BY NetworkAssumption
    <3>3. u - v \in Nat
      BY <1>8, <3>1, <3>2
    <3>4. c - b \in Nat
      BY <1>5
    <3> QED
      BY <1>3, <3>1, <3>2, <3>3, <3>4
  <2>3. k \in Nat /\ k <= c - b
    <3>1. PICK u \in Nat, w \in Nat : u = Buffer - host[d].out /\ w = r.size - r.offset
      BY <2>2
    <3>2. k \in 1..Min({u, w})
      BY <2>1, <3>1
    <3>3. k \in Nat /\ k <= w
      BY <3>2, CountRight
    <3> QED
      BY <1>3, <3>1, <3>3
  <2>4. x.phase = "up" /\ Len(x.wire) = q
    BY <1>1, <1>2, <1>3, <1>4, <1>8 DEF Sends, Broken
  <2>5. Numbered(host[d])
    BY <1>1, <1>2 DEF Books, Flowing
  <2>6. PICK y : /\ Written(d, q, k) = [host EXCEPT ![d] = y]
                 /\ y \in Sockets /\ Numbered(y) /\ Len(y.wire) = q + k
                 /\ y.open = host[d].open /\ y.phase = host[d].phase
                 /\ y.issued = host[d].issued
    <3>1. Len(host[d].wire) = q
      BY <1>1, <2>4
    <3> QED
      BY <1>2, <1>5, <2>3, <2>5, <3>1, WrittenRight
  <2>7. PICK g : g = [host EXCEPT ![d] = y]
    OBVIOUS
  <2>8. step.host = g /\ step.result = "some" /\ step.count = k
    <3>1. Written(d, r.base + r.offset, k) = g
      BY <1>3, <1>4, <2>6, <2>7
    <3>2. step = Step(g, "some", k)
      BY <2>1, <3>1
    <3> QED
      BY <3>2, StepFields
  <2>9. DOMAIN g = DOMAIN host /\ g[d] = y /\ \A z \in DOMAIN host : z # d => g[z] = host[z]
    BY <1>2, <2>6, <2>7, HostWith
  <2>10. d \in L
    BY <1>1
  <2>11. Books(net, order, L, h, g)
    BY <1>2, <2>6, <2>7, <2>10, BooksWrite
  <2>12. Later(host, g)
    BY <2>6, <2>9 DEF Later
  <2>13. Polled(batch, net, g)
    BY <1>2, <2>12, PolledLater, GrowsSame
  <2>14. PICK s : s = Sent(r, k)
    OBVIOUS
  <2>15. /\ s \in Parcel /\ s.res = d /\ s.handle = h /\ s.op = "Send"
         /\ s.size = c /\ s.base = a /\ s.offset = b + k
    <3>1. b + k \in Nat
      BY <2>3
    <3>2. PICK v : v = b + k
      OBVIOUS
    <3>3. s = [r EXCEPT !.offset = v]
      BY <1>3, <2>14, <3>2 DEF Sent
    <3>4. v \in Nat
      BY <3>1, <3>2
    <3> QED
      BY <1>1, <1>2, <1>3, <3>2, <3>3, <3>4 DEF Parcel
  <2>16. b + k <= c /\ a + (b + k) = q + k
    BY <1>4, <2>3
  <2>17. Sends(y, s)
    BY <1>1, <1>5, <2>4, <2>6, <2>15, <2>16 DEF Sends
  <2>18. AtWork(s, g)
    BY <1>2, <2>9, <2>15, <2>17 DEF AtWork, Carries, Decided
  <2>19. Busy(s, g)
    BY <1>1, <1>2, <2>9, <2>11, <2>13, <2>15 DEF Busy
  <2> QED
    BY <2>8, <2>14, <2>18, <2>19 DEF Outcome
<1> QED
  BY <1>1, <1>6, <1>7, <1>8

\* All of it is out.
LEMMA SentOutcome ==
    ASSUME NEW r, Busy(r, host), AtWork(r, host), r.op = "Send",
           NEW step \in {Step(host, "ok", 0)}, r.offset = r.size
    PROVE  Outcome(r, step)
<1>1. step.host = host /\ step.result = "ok"
  BY StepFields
<1>2. PICK x : x = host[r.res]
  OBVIOUS
<1>3. Sends(x, r) /\ r \in Parcel
  BY <1>2 DEF AtWork, Carries
<1>4. x.phase \in {"up", "dead"} /\ (x.phase = "up" => Len(x.wire) = x.issued)
  BY <1>3 DEF Sends
<1>5. Quiet(host[r.res])
  BY <1>2, <1>4 DEF Quiet
<1>6. Final(Restore(net, r.handle, r.res), host)
  BY <1>5, GivenBack DEF Busy
<1>7. HostAfter(r, step) = host /\ Settled(r, step) = Restore(net, r.handle, r.res)
  BY <1>1 DEF HostAfter, Settled
<1> QED
  BY <1>1, <1>6, <1>7 DEF Outcome

\* So has every attempt of a request.
LEMMA StepsOutcome ==
    ASSUME NEW r, Busy(r, host), AtWork(r, host), host \in Seq(Sockets), NEW step \in Steps(r)
    PROVE  Outcome(r, step)
<1>1. r \in Parcel /\ r.res \in DOMAIN host
  BY DEF Busy
<1>2. r.op \in Ops /\ r.size \in Nat
  BY <1>1 DEF Parcel
<1>3. CASE r.op = "Connect"
  BY <1>3, ConnectOutcome DEF Steps
<1>4. CASE r.op = "Accept"
  <2>1. step \in AcceptStep(r.res)
    BY <1>4 DEF Steps
  <2> QED
    BY <1>4, <2>1, AcceptOutcome
<1>5. CASE r.op = "Recv"
  <2>1. step \in RecvStep(r.res, r.size)
    BY <1>5 DEF Steps
  <2>2. KinStep(host, r.res, step.host) /\ step.result \in {"err", "ok", "wait"}
    BY <1>1, <1>2, <2>1, RecvRight
  <2> QED
    BY <1>5, <2>2, KinOutcome
<1>6. CASE r.op = "SendTo"
  <2>1. step \in SendToStep(r.res, r.size)
    BY <1>6 DEF Steps
  <2>2. KinStep(host, r.res, step.host) /\ step.result \in {"err", "ok", "wait"}
    BY <1>1, <2>1, SendToRight
  <2> QED
    BY <1>6, <2>2, KinOutcome
<1>7. CASE r.op = "Send"
  <2>1. step \in IF r.offset = r.size THEN {Step(host, "ok", 0)}
                 ELSE SendStep(r.res, r.base + r.offset, r.size - r.offset)
    BY <1>7 DEF Steps
  <2>2. CASE r.offset = r.size
    BY <1>7, <2>1, <2>2, SentOutcome
  <2>3. CASE r.offset # r.size
    BY <1>7, <2>1, <2>3, SendOutcome
  <2> QED
    BY <2>2, <2>3
<1> QED
  BY <1>2, <1>3, <1>4, <1>5, <1>6, <1>7 DEF Ops

\* advance_network: an attempt, then wait, an error or the result.
LEMMA AdvanceKeeps ==
    ASSUME Inv, Advance
    PROVE  Inv'
<1>1. PICK r : r = active[1]
  OBVIOUS
<1>2. active # <<>>
  BY DEF Advance
<1>3. PICK step \in Steps(r) :
          CASE step.result = "wait" -> ParkNetwork(net, r, step.host)
            [] step.result = "some" -> Advances(net, Sent(r, step.count), step.host)
            [] OTHER -> AnswerTo(r, step)
  BY <1>1 DEF Advance
<1>4. Busy(r, host) /\ AtWork(r, host) /\ host \in Seq(Sockets)
  BY <1>1, <1>2, WorkParts
<1>5. Outcome(r, step)
  BY <1>4, StepsOutcome
<1>6. CASE step.result = "wait"
  <2>1. PICK g : g = step.host
    OBVIOUS
  <2>2. ParkNetwork(net, r, g)
    BY <1>3, <1>6, <2>1
  <2>3. Busy(r, g) /\ Carries(g[r.res], r)
    BY <1>5, <1>6, <2>1 DEF Outcome
  <2>4. Ready(r, g)
    BY <2>3 DEF Busy, Ready
  <2> QED
    BY <2>2, <2>3, <2>4, ParkKeeps DEF Busy
<1>7. CASE step.result = "some"
  <2>1. PICK g, s : g = step.host /\ s = Sent(r, step.count)
    OBVIOUS
  <2>2. Advances(net, s, g)
    BY <1>3, <1>7, <2>1
  <2>3. Busy(s, g) /\ AtWork(s, g)
    BY <1>5, <1>7, <2>1 DEF Outcome
  <2> QED
    BY <2>2, <2>3, AdvancesKeeps DEF Busy
<1>8. CASE step.result # "wait" /\ step.result # "some"
  <2>1. AnswerTo(r, step)
    BY <1>3, <1>8
  <2>2. Final(Settled(r, step), HostAfter(r, step))
    BY <1>5, <1>8 DEF Outcome
  <2> QED
    BY <1>4, <2>1, <2>2, AnswerKeeps DEF AtWork
<1> QED
  BY <1>6, <1>7, <1>8
-----------------------------------------------------------------------------
(***************************************************************************)
(* The other steps.                                                        *)
(***************************************************************************)
\* A send takes the stream and counts its bytes as issued.
LEMMA TcpSendKeeps ==
    ASSUME Inv, NEW k, NEW size \in Sizes, TcpSend(k, size)
    PROVE  Inv'
<1>1. OnResource(k) /\ size \in Nat
  BY NetworkAssumption DEF TcpSend
<1>2. PICK d, m, x : d = net.resources[k] /\ m = Taken(k) /\ x = host[d]
  OBVIOUS
<1>3. PICK L : L = {d}
  OBVIOUS
<1>4. /\ Books(m, order, L, k, host) /\ m.fault = "" /\ k \in Nat \ {NoHandle}
      /\ d \in DOMAIN host /\ d \in Nat /\ Quiet(x) /\ Polled(batch, m, host)
      /\ running \in Tasks /\ host \in Seq(Sockets) /\ d \in L
  BY <1>1, <1>2, <1>3, TakenParts
<1>5. x \in Sockets /\ x.issued \in Nat /\ x.wire \in Seq(Nat)
  BY <1>2, <1>4, SocketOf, SocketFields
<1>6. PICK i : i = x.issued + size
  OBVIOUS
<1>7. i \in Nat
  BY <1>1, <1>5, <1>6, NatSum
<1>8. PICK y : y = [x EXCEPT !.issued = i]
  OBVIOUS
<1>9. /\ y \in Sockets /\ y.wire = x.wire /\ y.phase = x.phase /\ y.open = x.open
      /\ y.issued = i
  BY <1>5, <1>7, <1>8 DEF Sockets
<1>10. PICK g : g = [host EXCEPT ![d] = y]
  OBVIOUS
<1>11. g = [host EXCEPT ![d].issued = @ + size]
  BY <1>2, <1>6, <1>8, <1>10
<1>12. DOMAIN g = DOMAIN host /\ g[d] = y /\ \A c \in DOMAIN host : c # d => g[c] = host[c]
  BY <1>4, <1>9, <1>10, HostWith
<1>13. Numbered(y)
  <2>1. Numbered(x)
    BY <1>2, <1>4 DEF Books, Flowing
  <2> QED
    BY <1>9, <2>1 DEF Numbered
<1>14. Books(m, order, L, k, g)
  BY <1>2, <1>4, <1>9, <1>10, <1>13, BooksWrite
<1>15. Later(host, g)
  BY <1>2, <1>9, <1>12 DEF Later
<1>16. Polled(batch, m, g)
  BY <1>4, <1>15, PolledLater, GrowsSame
<1>17. PICK s, r : s = Request(d, k, running, "Send", size) /\ r = [s EXCEPT !.base = x.issued]
  OBVIOUS
<1>18. /\ s \in Parcel /\ s.res = d /\ s.handle = k /\ s.op = "Send" /\ s.size = size
       /\ s.offset = 0
  <2>1. "Send" \in Ops /\ k \in Nat /\ d \in Nat /\ running \in Tasks /\ size \in Nat
    BY <1>1, <1>4 DEF Ops
  <2>2. s = Request(d, k, running, "Send", size)
    BY <1>17
  <2> QED
    BY <2>1, <2>2, RequestParcel
<1>19. /\ r \in Parcel /\ r.res = d /\ r.handle = k /\ r.op = "Send" /\ r.size = size
       /\ r.offset = 0 /\ r.base = x.issued
  BY <1>5, <1>17, <1>18 DEF Parcel
<1>20. Sends(y, r)
  <2>1. PICK a \in Nat : a = x.issued
    BY <1>5
  <2>2. a + 0 = a /\ 0 <= size
    BY <1>1, <2>1
  <2>3. x.phase \in {"up", "dead"} /\ (x.phase = "up" => Len(x.wire) = a)
    BY <1>4, <2>1 DEF Quiet
  <2> QED
    BY <1>6, <1>9, <1>19, <2>1, <2>2, <2>3 DEF Sends
<1>21. AtWork(r, g)
  BY <1>4, <1>12, <1>19, <1>20 DEF AtWork, Carries, Decided
<1>22. Advances(m, r, g)
  <2>1. LET e == net.resources[k]
            q == [Request(e, k, running, "Send", size) EXCEPT !.base = host[e].issued]
        IN  Advances(Taken(k), q, [host EXCEPT ![e].issued = @ + size])
    BY DEF TcpSend
  <2> QED
    BY <1>2, <1>11, <1>17, <2>1
<1>23. Books(m, order, {r.res}, r.handle, g)
  BY <1>3, <1>14, <1>19
<1> QED
  BY <1>4, <1>16, <1>21, <1>22, <1>23, AdvancesKeeps

\* udp_poll: answered at once, with or without a datagram.
LEMMA UdpPollKeeps ==
    ASSUME Inv, NEW k, NEW max \in Sizes, UdpPoll(k, max)
    PROVE  Inv'
<1>1. OnResource(k) /\ max \in Nat
  BY NetworkAssumption DEF UdpPoll
<1>2. CASE max > TransferLimit
  BY <1>2, EndsKeeps DEF UdpPoll
<1>3. CASE ~(max > TransferLimit)
  <2>1. PICK d, m, L : d = net.resources[k] /\ m = Taken(k) /\ L = {d}
    OBVIOUS
  <2>2. PICK step \in RecvStep(d, max) : Answered(Restore(m, k, d), step.host, step.result)
    BY <1>3, <2>1 DEF UdpPoll
  <2>3. /\ Books(m, order, L, k, host) /\ m.fault = "" /\ k \in Nat \ {NoHandle}
        /\ d \in DOMAIN host /\ Quiet(host[d]) /\ Polled(batch, m, host)
        /\ host \in Seq(Sockets) /\ d \in L /\ active = <<>>
    BY <1>1, <2>1, TakenParts
  <2>4. PICK g, answer : g = step.host /\ answer = step.result
    OBVIOUS
  <2>5. KinStep(host, d, g)
    BY <1>1, <2>2, <2>3, <2>4, RecvRight
  <2>6. Books(m, order, L, k, g) /\ Later(host, g) /\ Keeping(host[d], g[d])
    BY <2>3, <2>5, BooksKinStep
  <2>7. Polled(batch, m, g) /\ Quiet(g[d])
    BY <2>3, <2>6, PolledLater, GrowsSame DEF Keeping
  <2>8. PICK n : n = Restore(m, k, d)
    OBVIOUS
  <2>9. /\ n.fault \in {"", "limit"}
        /\ n.fault = "" => Books(n, order, L \ {d}, NoHandle, g) /\ n.pending = m.pending
    BY <2>3, <2>6, <2>7, <2>8, BooksRestore
  <2>10. L \ {d} = {}
    BY <2>1
  <2>11. n.fault = "" => Polled(batch, n, g)
    BY <2>6, <2>7, <2>9, PolledLater, GrowsSame, LaterSame
  <2>12. Answered(n, g, answer)
    BY <2>2, <2>4, <2>8
  <2> QED
    BY <2>3, <2>9, <2>10, <2>11, <2>12, AnsweredKeeps
<1> QED
  BY <1>2, <1>3

\* Every request of a task.
LEMMA RequestsKeep ==
    ASSUME Inv, Requests
    PROVE  Inv'
<1>1. CASE OpenResource \/ TcpConnect \/ StaleHandle
  BY <1>1, OpenResourceKeeps, TcpConnectKeeps, StaleHandleKeeps
<1>2. CASE \E k \in Handles : TcpAccept(k) \/ CloseHandle(k)
  BY <1>2, TcpAcceptKeeps, CloseHandleKeeps
<1>3. CASE \E k \in Handles, size \in Sizes :
              TcpRecv(k, size) \/ TcpSend(k, size) \/ UdpSendTo(k, size) \/ UdpPoll(k, size)
  BY <1>3, TcpRecvKeeps, TcpSendKeeps, UdpSendToKeeps, UdpPollKeeps
<1> QED
  BY <1>1, <1>2, <1>3 DEF Requests

\* A ready task runs.
LEMMA DispatchKeeps ==
    ASSUME Inv, Dispatch
    PROVE  Inv'
<1>1. /\ running' = Head(ready) /\ ready' = Tail(ready) /\ ready # <<>> /\ outcome = "running"
      /\ UNCHANGED <<net, order, active, batch, host, outcome>>
  BY DEF Dispatch
<1>2. Head(ready) \in Tasks /\ Tail(ready) \in Seq(Tasks)
  <2>1. ready \in Seq(Tasks)
    BY DEF Inv, Duty
  <2> QED
    BY <1>1, <2>1, HeadTailProperties
<1>3. Duty'
  BY <1>1, <1>2 DEF Inv, Duty
<1>4. Work(active, host)'
  BY <1>1 DEF Inv, Work
<1> QED
  BY <1>1, <1>3, <1>4 DEF Inv

\* A task returns.
LEMMA TaskEndsKeeps ==
    ASSUME Inv, TaskEnds
    PROVE  Inv'
<1>1. /\ running' = Nobody /\ UNCHANGED <<net, order, ready, active, batch, host, outcome>>
  BY DEF TaskEnds
<1>2. Duty'
  BY <1>1 DEF Inv, Duty
<1>3. Work(active, host)'
  BY <1>1 DEF Inv, Work
<1> QED
  BY <1>1, <1>2, <1>3 DEF Inv

\* A task spawns its successor and returns.
LEMMA SpawnsSuccessorKeeps ==
    ASSUME Inv, SpawnsSuccessor
    PROVE  Inv'
<1>1. CASE Ends("limit")
  BY <1>1, EndsKeeps
<1>2. CASE /\ ready' = Append(ready, running) /\ running' = Nobody
           /\ UNCHANGED <<net, order, active, batch, host, answers, events, outcome>>
  <2>1. running \in Tasks /\ ready \in Seq(Tasks)
    BY DEF SpawnsSuccessor, Inv, Duty
  <2>2. Append(ready, running) \in Seq(Tasks)
    BY <2>1, AppendProperties
  <2>3. Duty'
    BY <1>2, <2>2 DEF Inv, Duty
  <2>4. Work(active, host)'
    BY <1>2 DEF Inv, Work
  <2> QED
    BY <1>2, <2>3, <2>4 DEF Inv
<1> QED
  BY <1>1, <1>2 DEF SpawnsSuccessor

\* Without a ready task the poller is asked once, for every parked request.
LEMMA PollKeeps ==
    ASSUME Inv, Poll
    PROVE  Inv'
<1>1. /\ active = <<>> /\ batch' = Ascending(ReadyOrders)
      /\ UNCHANGED <<net, order, ready, running, active, host, outcome>>
  BY DEF Poll, Idle
<1>2. Duty'
  BY <1>1 DEF Inv, Duty
<1>3. Work(active, host)'
  BY <1>1 DEF Inv, Work
<1>4. Books(net, order, {}, NoHandle, host)
  BY <1>1, EmptyHands
<1>5. IsFiniteSet(DOMAIN net.pending) /\ DOMAIN net.pending \subseteq Nat
  <2>1. DOMAIN net.pending \subseteq 1..(order - 1) /\ order - 1 \in Nat
    BY <1>4, BooksParts DEF Books, Typed, Map
  <2>2. \A l \in Nat : 1..l \subseteq Nat
    OBVIOUS
  <2> QED
    BY <1>4, <2>1, <2>2, BooksParts, Zenon
<1>6. PICK S : S = ReadyOrders
  OBVIOUS
<1>7. S \subseteq DOMAIN net.pending /\ \A o \in S : ReadyOrder(o)
  BY <1>6 DEF ReadyOrders
<1>8. IsFiniteSet(S) /\ S \subseteq Int /\ S \subseteq Nat
  <2>1. IsFiniteSet(S)
    BY <1>5, <1>7, FS_Subset
  <2>2. S \subseteq Nat
    BY <1>5, <1>7
  <2> QED
    BY <2>1, <2>2
<1>9. PICK q : q = Ascending(S)
  OBVIOUS
<1>10. Cardinality(S) \in Nat /\ q \in [1..Cardinality(S) -> S] /\ Increasing(q)
  BY <1>8, <1>9, AscendingRight
<1>11. q \in Seq(Nat)
  <2>1. PICK l \in Nat : l = Cardinality(S)
    BY <1>10
  <2>2. q \in [1..l -> Nat]
    BY <1>8, <1>10, <2>1
  <2> QED
    BY <2>2
<1>12. ASSUME NEW o \in S PROVE Decided(host[net.pending[o].res], net.pending[o])
  <2>1. PICK r, x : r = net.pending[o] /\ x = host[r.res]
    OBVIOUS
  <2>2. r.op = "Connect" => Writable(x)
    BY <1>7, <2>1 DEF ReadyOrder, Interest
  <2> QED
    BY <2>1, <2>2 DEF Decided, Writable
<1>13. \A i \in DOMAIN q : q[i] \in S
  BY <1>10
<1>14. Polled(q, net, host)
  BY <1>7, <1>10, <1>11, <1>12, <1>13 DEF Polled
<1>15. batch' = q
  BY <1>1, <1>6, <1>9
<1>16. Books(net, order, InHand(active), HandleInHand(active), host)
  BY DEF Inv
<1> QED
  BY <1>1, <1>2, <1>3, <1>14, <1>15, <1>16 DEF Inv

\* The first request that was polled is resumed.
LEMMA ResumeNetworkKeeps ==
    ASSUME Inv, ResumeNetwork
    PROVE  Inv'
<1>1. batch # <<>> /\ active = <<>>
  BY DEF ResumeNetwork
<1>2. PICK k, m, r : k = Head(batch) /\ m = TakePending(net, k) /\ r = net.pending[k]
  OBVIOUS
<1>3. Books(net, order, {}, NoHandle, host) /\ net.fault = "" /\ Polled(batch, net, host)
  BY <1>1, EmptyHands DEF Inv
<1>4. PICK q : q = Tail(batch)
  OBVIOUS
<1>5. PICK l \in Nat : l = Len(batch)
  BY <1>3, LenProperties DEF Polled
<1>6. /\ batch \in Seq(Nat) /\ DOMAIN batch = 1..l /\ l # 0 /\ batch[1] = k
      /\ q \in Seq(Nat) /\ DOMAIN q = 1..(l - 1) /\ \A i \in 1..(l - 1) : q[i] = batch[i + 1]
  <2>1. batch \in Seq(Nat)
    BY <1>3 DEF Polled
  <2>2. l # 0
    BY <1>1, <1>5, <2>1, EmptySeq
  <2>3. /\ q \in Seq(Nat) /\ Len(q) = l - 1 /\ \A i \in 1..(l - 1) : q[i] = batch[i + 1]
        /\ k = batch[1]
    BY <1>1, <1>2, <1>4, <1>5, <2>1
  <2> QED
    BY <1>5, <2>1, <2>2, <2>3, LenProperties
<1>7. k \in DOMAIN net.pending /\ Decided(host[r.res], r)
  <2>1. 1 \in DOMAIN batch
    BY <1>6
  <2>2. batch[1] \in DOMAIN net.pending
        /\ Decided(host[net.pending[batch[1]].res], net.pending[batch[1]])
    BY <1>3, <2>1 DEF Polled
  <2> QED
    BY <1>2, <1>6, <2>2
<1>8. /\ Books(m, order, {r.res}, r.handle, host)
      /\ m.fault = "" /\ Ready(r, host)
      /\ DOMAIN m.pending = DOMAIN net.pending \ {k}
      /\ \A o \in DOMAIN m.pending : m.pending[o] = net.pending[o]
  BY <1>2, <1>3, <1>7, BooksTakePending
<1>9. /\ net' = m /\ active' = <<r>> /\ batch' = q
      /\ UNCHANGED <<order, ready, running, host, outcome>>
  BY <1>2, <1>4, <1>8 DEF ResumeNetwork
<1>10. \A i, j \in 1..l : i < j => batch[i] < batch[j]
  BY <1>3, <1>6 DEF Polled, Increasing
<1>11. Increasing(q)
  <2> SUFFICES ASSUME NEW i \in 1..(l - 1), NEW j \in 1..(l - 1), i < j PROVE q[i] < q[j]
    BY <1>6 DEF Increasing
  <2>1. i + 1 \in 1..l /\ j + 1 \in 1..l /\ i + 1 < j + 1
    OBVIOUS
  <2>2. batch[i + 1] < batch[j + 1]
    BY <1>10, <2>1
  <2> QED
    BY <1>6, <2>2
<1>12. \A i \in 1..(l - 1) : i + 1 \in 1..l /\ q[i] = batch[i + 1] /\ q[i] # k
  <2> TAKE i \in 1..(l - 1)
  <2>1. i + 1 \in 1..l /\ 1 \in 1..l /\ 1 < i + 1
    OBVIOUS
  <2>2. batch[1] < batch[i + 1]
    BY <1>10, <2>1
  <2>3. batch[1] \in Nat
    BY <1>6, <2>1
  <2> QED
    BY <1>6, <2>1, <2>2, <2>3
<1>13. Polled(q, m, host)
  <2>1. ASSUME NEW i \in DOMAIN q
        PROVE  q[i] \in DOMAIN m.pending /\ Decided(host[m.pending[q[i]].res], m.pending[q[i]])
    <3>1. PICK j \in DOMAIN batch : q[i] = batch[j] /\ q[i] # k
      BY <1>6, <1>12
    <3>2. PICK o : o = batch[j]
      OBVIOUS
    <3>3. o \in DOMAIN net.pending /\ Decided(host[net.pending[o].res], net.pending[o])
      BY <1>3, <3>2 DEF Polled
    <3>4. o \in DOMAIN m.pending /\ m.pending[o] = net.pending[o]
      BY <1>8, <3>1, <3>2, <3>3
    <3> QED
      BY <3>1, <3>2, <3>3, <3>4
  <2> QED
    BY <1>6, <1>11, <2>1 DEF Polled
<1>14. AtWork(r, host)
  BY <1>7, <1>8 DEF AtWork, Ready
<1>15. PICK a : a = <<r>>
  OBVIOUS
<1>16. InHand(a) = {r.res} /\ HandleInHand(a) = r.handle /\ a[1] = r /\ a = <<a[1]>>
  BY <1>15, Hands
<1>17. Work(a, host)
  BY <1>14, <1>16 DEF Work
<1>18. Duty'
  BY <1>8, <1>9 DEF Inv, Duty
<1> QED
  BY <1>8, <1>9, <1>13, <1>15, <1>16, <1>17, <1>18 DEF Inv

\* No task and no request is left.
LEMMA FinishedKeeps ==
    ASSUME Inv, Finished
    PROVE  Inv'
  BY EndsKeeps DEF Finished

\* A peer fills, empties, shuts, resets or makes a connection.
LEMMA PeerStep ==
    ASSUME host \in Seq(Sockets), NEW d \in DOMAIN host,
           PeerWrites(d) \/ PeerReads(d) \/ PeerShuts(d) \/ PeerResets(d) \/ PeerLeaves(d)
             \/ PeerConnects(d)
    PROVE  \E y : Kin(host[d], y) /\ Peer(d, y)
<1>1. PICK x : x = host[d]
  OBVIOUS
<1>2. x \in Sockets
  BY <1>1, SocketOf
<1>3. PICK v \in Nat : v = x.in
  BY <1>2, SocketFields
<1>4. v + 1 \in Nat /\ 0 \in Nat
  OBVIOUS
<1>5. CASE PeerWrites(d)
  <2>1. Kin(x, [x EXCEPT !.in = v + 1])
    BY <1>2, <1>4, KinChanges
  <2> QED
    BY <1>1, <1>3, <1>5, <2>1 DEF PeerWrites
<1>6. CASE PeerReads(d)
  <2>1. Kin(x, [x EXCEPT !.out = 0])
    BY <1>2, <1>4, KinChanges
  <2> QED
    BY <1>1, <1>6, <2>1 DEF PeerReads
<1>7. CASE PeerShuts(d)
  <2>1. Kin(x, [x EXCEPT !.eof = TRUE])
    BY <1>2, <1>4, KinChanges
  <2> QED
    BY <1>1, <1>7, <2>1 DEF PeerShuts
<1>8. CASE PeerResets(d)
  <2>1. Kin(x, [x EXCEPT !.phase = "dead"])
    BY <1>1, <1>2, <1>4, <1>8, KinChanges DEF PeerResets
  <2> QED
    BY <1>1, <1>8, <2>1 DEF PeerResets
<1>9. CASE PeerLeaves(d)
  <2>1. v - 1 \in Nat
    BY <1>1, <1>3, <1>9 DEF PeerLeaves
  <2>2. Kin(x, [x EXCEPT !.in = v - 1])
    BY <1>2, <2>1, KinChanges
  <2> QED
    BY <1>1, <1>3, <1>9, <2>2 DEF PeerLeaves
<1>10. CASE PeerConnects(d)
  <2>1. PICK phase \in {"up", "refused"} : Peer(d, [host[d] EXCEPT !.phase = phase])
    BY <1>10 DEF PeerConnects
  <2>2. Kin(x, [x EXCEPT !.phase = phase])
    BY <1>1, <1>2, <1>4, <1>10, KinChanges DEF PeerConnects
  <2> QED
    BY <1>1, <2>1, <2>2
<1> QED
  BY <1>5, <1>6, <1>7, <1>8, <1>9, <1>10

\* Every move of a peer.
LEMMA PeersKeep ==
    ASSUME Inv, Peers
    PROVE  Inv'
<1>1. PICK d \in DOMAIN host : PeerWrites(d) \/ PeerReads(d) \/ PeerShuts(d) \/ PeerResets(d)
                                 \/ PeerLeaves(d) \/ PeerConnects(d)
  BY DEF Peers
<1>2. PICK L, b : L = InHand(active) /\ b = HandleInHand(active)
  OBVIOUS
<1>3. Books(net, order, L, b, host) /\ Polled(batch, net, host) /\ host \in Seq(Sockets)
  BY <1>2 DEF Inv, Books, Typed
<1>4. PICK y : Kin(host[d], y) /\ Peer(d, y)
  BY <1>1, <1>3, PeerStep
<1>5. PICK g : g = [host EXCEPT ![d] = y]
  OBVIOUS
<1>6. /\ host' = g /\ UNCHANGED <<net, order, ready, running, active, batch, outcome>>
  BY <1>4, <1>5 DEF Peer
<1>7. KinStep(host, d, g)
  BY <1>4, <1>5 DEF KinStep
<1>8. Books(net, order, L, b, g) /\ Later(host, g) /\ Keeping(host[d], g[d]) /\ DOMAIN g = DOMAIN host
  BY <1>1, <1>3, <1>7, BooksKinStep
<1>9. Polled(batch, net, g)
  BY <1>3, <1>8, PolledLater, GrowsSame
<1>10. Duty'
  BY <1>6 DEF Inv, Duty
<1>11. Work(active, g)
  <2>1. CASE active = <<>>
    BY <2>1 DEF Work
  <2>2. CASE active # <<>>
    <3>1. PICK r : r = active[1]
      OBVIOUS
    <3>2. active = <<active[1]>> /\ AtWork(r, host)
      BY <2>2, <3>1 DEF Inv, Work
    <3>3. r.op \in Ops /\ r.res \in DOMAIN host
      BY <3>2 DEF AtWork, Parcel
    <3>4. \A c \in DOMAIN host : c # d => g[c] = host[c]
      BY <1>5
    <3>5. Carries(g[r.res], r) /\ Decided(g[r.res], r)
      <4>1. CASE r.res = d
        BY <1>8, <3>2, <3>3, <4>1 DEF AtWork, Keeping
      <4>2. CASE r.res # d
        BY <3>2, <3>3, <3>4, <4>2 DEF AtWork
      <4> QED
        BY <4>1, <4>2
    <3>6. AtWork(r, g)
      BY <1>8, <3>2, <3>5 DEF AtWork
    <3> QED
      BY <3>1, <3>2, <3>6 DEF Work
  <2> QED
    BY <2>1, <2>2
<1> QED
  BY <1>2, <1>6, <1>8, <1>9, <1>10, <1>11 DEF Inv
-----------------------------------------------------------------------------
(***************************************************************************)
(* The theorems.                                                           *)
(***************************************************************************)
LEMMA InitInv ==
    ASSUME Init
    PROVE  Inv
<1>1. /\ net = State /\ order = 1 /\ running = Nobody /\ active = <<>> /\ batch = <<>>
      /\ host = <<>> /\ outcome = "running" /\ ready \in SetToSeqs(Tasks)
  BY DEF Init
<1>2. ready \in Seq(Tasks)
  <2>1. PICK l : l = Cardinality(Tasks)
    OBVIOUS
  <2>2. l \in Nat
    BY <2>1, NetworkAssumption, FS_CardinalityType
  <2>3. ready \in [1..l -> Tasks]
    BY <1>1, <2>1 DEF SetToSeqs
  <2> QED
    BY <2>2, <2>3
<1>3. Duty
  BY <1>1, <1>2 DEF Duty, State
<1>4. Books(net, order, {}, NoHandle, host) /\ Polled(batch, net, host)
  <2>1. PICK n : n = State
    OBVIOUS
  <2>2. host \in Seq(Sockets) /\ DOMAIN host = {} /\ 1 \in Nat \ {0}
    BY <1>1
  <2>3. Books(n, 1, {}, NoHandle, host) /\ Polled(<<>>, n, host)
    BY <2>1, <2>2, NoBooks
  <2> QED
    BY <1>1, <2>1, <2>3
<1> QED
  BY <1>1, <1>3, <1>4, Hands DEF Inv, Work

\* Every step.
LEMMA NextKeeps ==
    ASSUME Inv, [Next]_vars
    PROVE  Inv'
<1>1. CASE Dispatch
  BY <1>1, DispatchKeeps
<1>2. CASE Requests
  BY <1>2, RequestsKeep
<1>3. CASE TaskEnds
  BY <1>3, TaskEndsKeeps
<1>4. CASE Advance
  BY <1>4, AdvanceKeeps
<1>5. CASE Poll
  BY <1>5, PollKeeps
<1>6. CASE ResumeNetwork
  BY <1>6, ResumeNetworkKeeps
<1>7. CASE Finished
  BY <1>7, FinishedKeeps
<1>8. CASE Peers
  BY <1>8, PeersKeep
<1>9. CASE SpawnsSuccessor
  BY <1>9, SpawnsSuccessorKeeps
<1>10. CASE UNCHANGED vars
  <2>1. UNCHANGED <<net, order, ready, running, active, batch, host, outcome>>
    BY <1>10 DEF vars
  <2>2. Duty'
    BY <2>1 DEF Inv, Duty
  <2>3. Work(active, host)'
    BY <2>1 DEF Inv, Work
  <2> QED
    BY <2>1, <2>2, <2>3 DEF Inv
<1> QED
  BY <1>1, <1>2, <1>3, <1>4, <1>5, <1>6, <1>7, <1>8, <1>9, <1>10 DEF Next, Turn, Driver

\* The inductive invariant holds in every state: the tables, the requests and the
\* descriptors of State and of the host agree after every call of the driver and
\* every move of a peer.
THEOREM InvHolds == Spec => []Inv
<1>1. Init => Inv
  BY InitInv
<1>2. Inv /\ [Next]_vars => Inv'
  BY NextKeeps
<1> QED
  BY <1>1, <1>2, PTL DEF Spec

\* A set with at most one element of a kind.
LEMMA OneOrNone ==
    ASSUME NEW S, NEW yes \in BOOLEAN, yes <=> S # {},
           \A x, y \in S : x = y
    PROVE  Cardinality(S) = IF yes THEN 1 ELSE 0
<1>1. CASE yes
  <2>1. PICK x : x \in S
    BY <1>1
  <2>2. S = {x}
    BY <2>1
  <2> QED
    BY <1>1, <2>2, FS_Singleton
<1>2. CASE ~yes
  <2>1. S = {}
    BY <1>2
  <2> QED
    BY <1>2, <2>1, FS_EmptySet
<1> QED
  BY <1>1, <1>2

\* The books give the ownership.
LEMMA InvOwned ==
    ASSUME Inv
    PROVE  DescriptorsOwned
<1>1. PICK L, b : L = InHand(active) /\ b = HandleInHand(active)
  OBVIOUS
<1>2. Books(net, order, L, b, host) /\ outcome # "internal"
  BY <1>1 DEF Inv, Duty
<1>3. Counted(net) /\ Single(net, L, host) /\ Typed(net, order, host)
  BY <1>2 DEF Books
<1>4. ASSUME NEW d \in DOMAIN host
      PROVE  Cardinality({k \in DOMAIN net.resources : net.resources[k] = d})
               + Cardinality({o \in DOMAIN net.pending : net.pending[o].res = d})
               + Cardinality({k \in DOMAIN active : active[k].res = d})
                 = IF host[d].open THEN 1 ELSE 0
  <2>1. PICK A, B, C : /\ A = {k \in DOMAIN net.resources : net.resources[k] = d}
                       /\ B = {o \in DOMAIN net.pending : net.pending[o].res = d}
                       /\ C = {k \in DOMAIN active : active[k].res = d}
    OBVIOUS
  <2>2. Cardinality(A) = IF InTable(net, d) THEN 1 ELSE 0
    <3>1. \A x, y \in A : x = y
      BY <1>3, <2>1 DEF Single
    <3>2. InTable(net, d) <=> A # {}
      BY <2>1 DEF InTable
    <3>3. InTable(net, d) \in BOOLEAN
      BY DEF InTable
    <3> QED
      BY <3>1, <3>2, <3>3, OneOrNone
  <2>3. Cardinality(B) = IF Parked(net, d) THEN 1 ELSE 0
    <3>1. \A x, y \in B : x = y
      BY <1>3, <2>1 DEF Single
    <3>2. Parked(net, d) <=> B # {}
      BY <2>1 DEF Parked
    <3>3. Parked(net, d) \in BOOLEAN
      BY DEF Parked
    <3> QED
      BY <3>1, <3>2, <3>3, OneOrNone
  <2>4. Cardinality(C) = IF d \in L THEN 1 ELSE 0
    <3>1. \A x, y \in DOMAIN active : x = y
      <4>1. CASE active = <<>>
        BY <4>1
      <4>2. CASE active # <<>>
        <5>1. PICK r : r = active[1]
          OBVIOUS
        <5>2. active = <<r>>
          BY <4>2, <5>1 DEF Inv, Work
        <5>3. DOMAIN active = {1}
          BY <5>2
        <5> QED
          BY <5>3
      <4> QED
        BY <4>1, <4>2
    <3>2. \A x, y \in C : x = y
      BY <2>1, <3>1
    <3>3. d \in L <=> C # {}
      BY <1>1, <2>1 DEF InHand
    <3>4. (d \in L) \in BOOLEAN
      OBVIOUS
    <3> QED
      BY <3>2, <3>3, <3>4, OneOrNone
  <2>5. host[d].open \in BOOLEAN
    BY <1>3, SocketOf, SocketFields DEF Typed
  <2>6. Cardinality(A) + Cardinality(B) + Cardinality(C) = IF host[d].open THEN 1 ELSE 0
    <3>1. CASE d \in L
      <4>1. ~InTable(net, d) /\ ~Parked(net, d) /\ host[d].open
        BY <1>3, <3>1 DEF Single
      <4> QED
        BY <2>2, <2>3, <2>4, <3>1, <4>1
    <3>2. CASE d \notin L /\ InTable(net, d)
      <4>1. ~Parked(net, d) /\ host[d].open
        BY <1>3, <3>2 DEF Single
      <4> QED
        BY <2>2, <2>3, <2>4, <3>2, <4>1
    <3>3. CASE d \notin L /\ ~InTable(net, d)
      <4>1. host[d].open <=> Parked(net, d)
        BY <1>3, <3>3 DEF Single
      <4> QED
        BY <2>2, <2>3, <2>4, <3>3, <4>1
    <3> QED
      BY <3>1, <3>2, <3>3
  <2> QED
    BY <2>1, <2>6
<1> QED
  BY <1>2, <1>3, <1>4 DEF DescriptorsOwned, Counted

\* Every open descriptor is owned by the table, a parked request or the request at
\* work, and by one of them: `State' never leaks a socket, never hands it to two
\* requests and never meets the errors it calls internal.
THEOREM DescriptorsOwnedHolds == Spec => []DescriptorsOwned
<1>1. Inv => DescriptorsOwned
  BY InvOwned
<1> QED
  BY <1>1, InvHolds, PTL

\* The books give the streams.
LEMMA InvExact ==
    ASSUME Inv
    PROVE  StreamExact
<1>1. PICK L, b : L = InHand(active) /\ b = HandleInHand(active)
  OBVIOUS
<1>2. Books(net, order, L, b, host)
  BY <1>1 DEF Inv
<1>3. Single(net, L, host) /\ Typed(net, order, host) /\ Flowing(net, host)
  BY <1>2 DEF Books
<1>4. ASSUME NEW r \in Parcel, NEW x, Carries(x, r), x.phase # "dead",
             x.issued \in Nat, Len(x.wire) \in Nat, Len(x.wire) < x.issued
      PROVE  r.op = "Send" /\ r.offset < r.size
  <2>1. r.op \in Ops
    BY DEF Parcel
  <2>2. Len(x.wire) # x.issued
    BY <1>4
  <2>3. ~(r.op = "Connect")
    BY <1>4, <2>2 DEF Carries
  <2>4. ~(r.op \in {"Accept", "Recv", "SendTo"})
    BY <1>4, <2>2 DEF Carries, Quiet
  <2>5. r.op = "Send"
    BY <2>1, <2>3, <2>4 DEF Ops
  <2>6. PICK i \in Nat, j \in Nat, k \in Nat : i = r.base /\ j = r.offset /\ k = r.size
    BY DEF Parcel
  <2>7. x.issued = i + k /\ Len(x.wire) = i + j
    BY <1>4, <2>5, <2>6 DEF Carries, Sends
  <2>8. j < k
    BY <1>4, <2>6, <2>7
  <2> QED
    BY <2>5, <2>6, <2>8
<1>5. ASSUME NEW d \in DOMAIN host
      PROVE  /\ host[d].wire = [i \in 1..Len(host[d].wire) |-> i]
             /\ Len(host[d].wire) < host[d].issued =>
                  \/ ~host[d].open \/ host[d].phase = "dead"
                  \/ \E r \in Waiting : r.res = d /\ r.op = "Send" /\ r.offset < r.size
  <2>1. host[d].wire = [i \in 1..Len(host[d].wire) |-> i]
    BY <1>3 DEF Flowing, Numbered
  <2>2. ASSUME Len(host[d].wire) < host[d].issued, host[d].open, host[d].phase # "dead"
        PROVE  \E r \in Waiting : r.res = d /\ r.op = "Send" /\ r.offset < r.size
    <3>1. PICK x : x = host[d]
      OBVIOUS
    <3>2. x.issued \in Nat /\ Len(x.wire) \in Nat
      <4>1. x \in Sockets
        BY <1>3, <3>1, SocketOf DEF Typed
      <4>2. x.issued \in Nat /\ x.wire \in Seq(Nat)
        BY <4>1, SocketFields
      <4> QED
        BY <4>2, LenProperties
    <3>3. d \in L \/ InTable(net, d) \/ Parked(net, d)
      BY <1>3, <2>2 DEF Single
    <3>4. CASE d \in L
      <4>1. PICK k \in DOMAIN active : active[k].res = d
        BY <1>1, <3>4 DEF InHand
      <4>2. PICK r : r = active[1]
        OBVIOUS
      <4>3. active = <<r>> /\ AtWork(r, host)
        BY <4>1, <4>2 DEF Inv, Work
      <4>4. k = 1
        BY <4>1, <4>3
      <4>5. r.res = d /\ r \in Parcel /\ Carries(x, r)
        BY <3>1, <4>1, <4>2, <4>3, <4>4 DEF AtWork
      <4>6. r \in Waiting
        BY <4>1, <4>2, <4>4 DEF Waiting, Range
      <4> QED
        BY <1>4, <2>2, <3>1, <3>2, <4>5, <4>6
    <3>5. CASE InTable(net, d)
      <4>1. Quiet(x)
        BY <1>3, <3>1, <3>5 DEF Flowing, InTable
      <4> QED
        BY <2>2, <3>1, <3>2, <4>1 DEF Quiet
    <3>6. CASE Parked(net, d)
      <4>1. PICK o \in DOMAIN net.pending : net.pending[o].res = d
        BY <3>6 DEF Parked
      <4>2. PICK r : r = net.pending[o]
        OBVIOUS
      <4>3. r \in Parcel
        BY <1>2, <4>2, ParkedParcel
      <4>4. r.res = d /\ Carries(x, r) /\ r \in Waiting
        BY <1>3, <3>1, <4>1, <4>2 DEF Flowing, Waiting
      <4> QED
        BY <1>4, <2>2, <3>1, <3>2, <4>3, <4>4
    <3> QED
      BY <3>3, <3>4, <3>5, <3>6
  <2> QED
    BY <2>1, <2>2
<1> QED
  BY <1>5 DEF StreamExact

\* On every stream the bytes of tcp_send are out once each and in order, across
\* partial writes, waits and peers, and none is missing when no send is under way.
THEOREM StreamExactHolds == Spec => []StreamExact
<1>1. Inv => StreamExact
  BY InvExact
<1> QED
  BY <1>1, InvHolds, PTL
=============================================================================
