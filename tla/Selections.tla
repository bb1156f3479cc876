----------------------------- MODULE Selections -----------------------------
(* The elements of a sequence at a set of positions, in order: what an     *)
(* iterator's filter leaves.  Written with counting and not by recursion,  *)
(* so that it can be reasoned about.                                       *)
EXTENDS Naturals, Sequences, FiniteSets

Rank(P, i) == Cardinality({j \in P : j <= i})

(* The k-th smallest member of P, a finite set of numbers.                 *)
Nth(P, k) == CHOOSE i \in P : Rank(P, i) = k

Picked(s, P) == [k \in 1..Cardinality(P) |-> s[Nth(P, k)]]
=============================================================================
