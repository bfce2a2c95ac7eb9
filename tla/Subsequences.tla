---------------------------- MODULE Subsequences ----------------------------
(***************************************************************************)
(* What Array.prototype.filter leaves of an array, by position: without    *)
(* recursion, so that it can be reasoned about.                            *)
(***************************************************************************)
EXTENDS Naturals, Sequences, FiniteSets

\* How many positions of I come no later than i.
Rank(I, i) == Cardinality({j \in I : j <= i})

\* The elements of s at the positions in I, in their order.
Picked(s, I) ==
  [k \in 1..Cardinality(I) |-> s[CHOOSE i \in I : Rank(I, i) = k]]

\* s without the elements in S.
Without(s, S) == Picked(s, {i \in DOMAIN s : s[i] \notin S})
=============================================================================
