----------------------------- MODULE Selection -----------------------------
(***************************************************************************)
(* Sequences put in order and parts of them taken in order, as slices'     *)
(* stable sort, newsdoc's block filters and an append in a loop do.  An    *)
(* order is a set of pairs of positions, the earlier one first; the place  *)
(* of a position is told by how many come before it.                       *)
(***************************************************************************)
EXTENDS Naturals, Sequences, FiniteSets

Rank(S, order, i) == Cardinality({j \in S : <<j, i>> \in order})

\* The positions S, from the first to the last by the order.
InOrder(S, order) ==
  [n \in 1 .. Cardinality(S) |-> CHOOSE i \in S : Rank(S, order, i) = n - 1]

\* The elements of s at the positions S by the order.
Arranged(s, S, order) ==
  [n \in 1 .. Cardinality(S) |-> s[InOrder(S, order)[n]]]

Ascending(S) == {p \in S \X S : p[1] < p[2]}

\* The elements of s at the positions S, in the order they have in s.
Selected(s, S) == Arranged(s, S, Ascending(S))

=============================================================================
