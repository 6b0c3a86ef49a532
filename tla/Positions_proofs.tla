-------------------------- MODULE Positions_proofs --------------------------
(***************************************************************************)
(* Lemmas about the part of a sequence at some of its positions.           *)
(***************************************************************************)
EXTENDS Positions, FiniteSetTheorems, TLAPS

\* How many elements of S are at most x.
Rank(S, x) == Cardinality({y \in S : y <= x})

\* Ranks are places of the ordered list, and larger elements have larger ranks.
LEMMA RankType ==
    ASSUME NEW S, IsFiniteSet(S), S \subseteq Int, NEW x \in S
    PROVE  Rank(S, x) \in 1 .. Cardinality(S)
<1> DEFINE B == {y \in S : y <= x}
<1>1. B \in SUBSET S /\ x \in B
  OBVIOUS
<1>2. IsFiniteSet(B) /\ Cardinality(B) <= Cardinality(S)
  BY <1>1, FS_Subset
<1>3. Cardinality(B) \in Nat /\ Cardinality(S) \in Nat
  BY <1>2, FS_CardinalityType
<1>4. Cardinality(B) # 0
  BY <1>1, <1>2, FS_EmptySet
<1> QED
  BY <1>2, <1>3, <1>4 DEF Rank

LEMMA RankIncreasing ==
    ASSUME NEW S, IsFiniteSet(S), S \subseteq Int, NEW x \in S, NEW z \in S, x < z
    PROVE  Rank(S, x) < Rank(S, z)
<1> DEFINE B == {y \in S : y <= x}
           C == {y \in S : y <= z}
<1>0. \A y \in S : y <= x => y <= z
  OBVIOUS
<1>a. x \in Int /\ z \in Int /\ z <= z /\ ~(z <= x)
  OBVIOUS
<1>b. z \in C /\ z \notin B
  BY <1>a
<1>c. B \subseteq C
  BY <1>0
<1>1. B \in SUBSET C /\ C \in SUBSET S /\ z \in C /\ z \notin B
  BY <1>b, <1>c
<1>2. IsFiniteSet(C)
  BY <1>1, FS_Subset
<1>3. /\ IsFiniteSet(B) /\ Cardinality(B) <= Cardinality(C)
      /\ Cardinality(C) # Cardinality(B)
  BY <1>1, <1>2, FS_Subset
<1>4. Cardinality(B) \in Nat /\ Cardinality(C) \in Nat
  BY <1>2, <1>3, FS_CardinalityType
<1> QED
  BY <1>3, <1>4 DEF Rank

\* Every finite set of integers has an ordered list, which names each of its
\* elements once.
LEMMA AscendingRight ==
    ASSUME NEW S, IsFiniteSet(S), S \subseteq Int
    PROVE  /\ Cardinality(S) \in Nat
           /\ Ascending(S) \in [1 .. Cardinality(S) -> S]
           /\ Increasing(Ascending(S))
           /\ \A x \in S : \E i \in 1 .. Cardinality(S) : Ascending(S)[i] = x
<1>1. Cardinality(S) \in Nat
  BY FS_CardinalityType
<1> DEFINE n == Cardinality(S)
           r == [x \in S |-> Rank(S, x)]
<1>2. IsFiniteSet(1 .. n) /\ Cardinality(1 .. n) = n
  BY <1>1, FS_Interval
<1>3. r \in [S -> 1 .. n]
  BY RankType
<1>4. \A x, y \in S : r[x] = r[y] => x = y
  <2> SUFFICES ASSUME NEW x \in S, NEW y \in S, x # y
               PROVE  Rank(S, x) # Rank(S, y)
    OBVIOUS
  <2>1. Rank(S, x) \in 1 .. Cardinality(S) /\ Rank(S, y) \in 1 .. Cardinality(S)
    BY RankType
  <2>2. x < y => Rank(S, x) < Rank(S, y)
    BY RankIncreasing
  <2>3. y < x => Rank(S, y) < Rank(S, x)
    BY RankIncreasing
  <2>4. x < y \/ y < x
    BY x \in Int, y \in Int
  <2> QED
    BY <2>1, <2>2, <2>3, <2>4, <1>1
<1>5. r \in Injection(S, 1 .. n)
  BY <1>3, <1>4 DEF Injection, IsInjective
<1>6. r \in Surjection(S, 1 .. n)
  BY <1>2, <1>5, FS_Injection
<1>7. \A i \in 1 .. n : \E x \in S : r[x] = i
  BY <1>6 DEF Surjection
<1> DEFINE g == [i \in 1 .. n |-> CHOOSE x \in S : r[x] = i]
<1>8. g \in [1 .. n -> S] /\ \A i \in 1 .. n : r[g[i]] = i
  BY <1>7
<1>9. Increasing(g)
  <2> SUFFICES ASSUME NEW i \in 1 .. n, NEW j \in 1 .. n, i < j, ~(g[i] < g[j])
               PROVE  FALSE
    BY <1>8 DEF Increasing
  <2>1. g[i] \in S /\ g[j] \in S /\ r[g[i]] = i /\ r[g[j]] = j
    BY <1>8
  <2> HIDE DEF g
  <2>2. g[i] # g[j]
    BY <2>1, i # j
  <2>3. g[j] < g[i]
    BY <2>1, <2>2, g[i] \in Int, g[j] \in Int
  <2>4. Rank(S, g[j]) < Rank(S, g[i])
    BY <2>1, <2>3, RankIncreasing
  <2>5. Rank(S, g[j]) = j /\ Rank(S, g[i]) = i
    BY <2>1
  <2> QED
    BY <2>4, <2>5, <1>1
<1>10. \E f \in [1 .. n -> S] : Increasing(f)
  BY <1>8, <1>9
<1> HIDE DEF g, r
<1>11. Ascending(S) \in [1 .. n -> S] /\ Increasing(Ascending(S))
  BY <1>10 DEF Ascending
<1> DEFINE a == Ascending(S)
<1> HIDE DEF a
<1>12. \A i, j \in 1 .. n : a[i] = a[j] => i = j
  <2> SUFFICES ASSUME NEW i \in 1 .. n, NEW j \in 1 .. n, i < j
               PROVE  a[i] # a[j]
    BY <1>1
  <2>1. a[i] < a[j] /\ a[i] \in Int
    BY <1>11 DEF Increasing, a
  <2> QED
    BY <2>1
<1>13. a \in Injection(1 .. n, S)
  BY <1>11, <1>12 DEF Injection, IsInjective, a
<1>14. a \in Surjection(1 .. n, S)
  BY <1>2, <1>13, FS_Injection
<1>15. \A x \in S : \E i \in 1 .. n : a[i] = x
  BY <1>14 DEF Surjection
<1> QED
  BY <1>1, <1>11, <1>15 DEF a

\* The part of a sequence at some positions lists exactly these positions'
\* elements, in the order they had.
LEMMA SubsequenceRight ==
    ASSUME NEW T, NEW s \in Seq(T), NEW S \in SUBSET DOMAIN s
    PROVE  /\ IsFiniteSet(S) /\ Cardinality(S) \in Nat
           /\ Subsequence(s, S) \in Seq(T)
           /\ Len(Subsequence(s, S)) = Cardinality(S)
           /\ DOMAIN Subsequence(s, S) = 1 .. Cardinality(S)
           /\ Ascending(S) \in [1 .. Cardinality(S) -> S]
           /\ Increasing(Ascending(S))
           /\ \A x \in S : \E i \in 1 .. Cardinality(S) : Ascending(S)[i] = x
           /\ \A i \in 1 .. Cardinality(S) : Subsequence(s, S)[i] = s[Ascending(S)[i]]
<1>1. IsFiniteSet(DOMAIN s) /\ DOMAIN s \subseteq Int
  BY FS_Interval
<1>2. IsFiniteSet(S) /\ S \subseteq Int
  BY <1>1, FS_Subset
<1>3. /\ Cardinality(S) \in Nat
      /\ Ascending(S) \in [1 .. Cardinality(S) -> S]
      /\ Increasing(Ascending(S))
      /\ \A x \in S : \E i \in 1 .. Cardinality(S) : Ascending(S)[i] = x
  BY <1>2, AscendingRight
<1>4. Subsequence(s, S) \in [1 .. Cardinality(S) -> T]
  BY <1>3 DEF Subsequence
<1>5. Subsequence(s, S) \in Seq(T) /\ Len(Subsequence(s, S)) = Cardinality(S)
  BY <1>3, <1>4
<1> QED
  BY <1>2, <1>3, <1>4, <1>5 DEF Subsequence

=============================================================================
