-------------------------- MODULE DashboardValues --------------------------
(* What the pages of the dashboard hold where there is nothing, and what a *)
(* filter of a list yields.                                                *)
EXTENDS Naturals, FiniteSets

CONSTANT None

\* The elements of a sequence at some positions of it, in their order: one at
\* a position is the k-th, if k of the positions are not after it.
Rank(i, positions) == Cardinality({j \in positions : j <= i})

ElementsAt(s, positions) ==
  [k \in 1..Cardinality(positions) |-> s[CHOOSE i \in positions : Rank(i, positions) = k]]
=============================================================================
