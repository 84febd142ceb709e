---- MODULE Lists ----
(***************************************************************************)
(* What a loop with an "if" in it, or a comprehension, makes of a list:    *)
(* the elements at some positions, in their order.  Module ListsProofs     *)
(* says so.                                                                *)
(***************************************************************************)
EXTENDS Integers, Sequences, FiniteSets

\* The k-th of the positions P.
Nth(P, k) == CHOOSE i \in P : Cardinality({j \in P : j <= i}) = k

Sublist(s, P) == [k \in 1 .. Cardinality(P) |-> s[Nth(P, k)]]
====
