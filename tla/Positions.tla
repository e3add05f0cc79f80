------------------------------- MODULE Positions -------------------------------
(* What a loop over a list with a condition and an append keeps of it: the        *)
(* entries at the positions where the condition holds, in order.                  *)
EXTENDS Naturals, FiniteSets

\* The n-th smallest of a set of positions.
Nth(P, n) == CHOOSE i \in P : Cardinality({k \in P : k <= i}) = n

Kept(l, P) == [n \in 1..Cardinality(P) |-> l[Nth(P, n)]]
================================================================================
