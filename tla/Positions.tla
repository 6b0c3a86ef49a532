----------------------------- MODULE Positions -----------------------------
(***************************************************************************)
(* The part of a sequence at some of its positions, in order: what retain, *)
(* drain and filter leave of a collection.                                 *)
(***************************************************************************)
EXTENDS Integers, Sequences, FiniteSets

Increasing(f) == \A i, j \in DOMAIN f : i < j => f[i] < f[j]

\* The elements of a finite set of integers, the smallest first.
Ascending(S) == CHOOSE f \in [1 .. Cardinality(S) -> S] : Increasing(f)

\* The elements of s at the positions in S.
Subsequence(s, S) == [i \in 1 .. Cardinality(S) |-> s[Ascending(S)[i]]]

=============================================================================
