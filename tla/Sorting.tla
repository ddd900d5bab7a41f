------------------------------- MODULE Sorting -------------------------------
(***************************************************************************)
(* Finite sets in order, as sequences.  SortSeq and SelectSeq would do the *)
(* same for TLC, but the provers do not know them.                         *)
(***************************************************************************)
EXTENDS Integers, FiniteSets, Sequences

\* The elements of S, in the order R, a set of pairs: at place n the one with n up to it
SortedBy(S, R) ==
  [n \in 1..Cardinality(S) |->
     CHOOSE x \in S : Cardinality({y \in S : y = x \/ <<y, x>> \in R}) = n]

\* A set of numbers, the least one first
Numbers(S) == SortedBy(S, {p \in S \X S : p[1] < p[2]})

\* What a sequence has at some places
AtPlaces(s, K) == [n \in 1..Cardinality(K) |-> s[Numbers(K)[n]]]

Precedes(p, q) == p[1] < q[1] \/ (p[1] = q[1] /\ p[2] < q[2])

\* A set of pairs of numbers, by the first one, then by the second
Pairs(S) == SortedBy(S, {p \in S \X S : Precedes(p[1], p[2])})
=============================================================================
