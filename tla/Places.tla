------------------------------- MODULE Places -------------------------------
(***************************************************************************)
(* Parts of sequences, by the places that are picked from them.            *)
(***************************************************************************)
EXTENDS Integers, Sequences, FiniteSets

\* The n-th of a set of places.
Nth(S, n) == CHOOSE i \in S : Cardinality({j \in S : j <= i}) = n

\* What s has at the places in S, in its order.
Picked(s, S) == [n \in 1..Cardinality(S) |-> s[Nth(S, n)]]
=============================================================================
