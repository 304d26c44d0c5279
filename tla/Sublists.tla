------------------------------ MODULE Sublists ------------------------------
(* What is left of a sequence when only some of its members are kept, in      *)
(* their order, said by places and without recursion.                         *)
EXTENDS Naturals, Sequences, FiniteSets

\* The i-th of a finite set of numbers.
Nth(K, i) == CHOOSE k \in K : Cardinality({j \in K : j =< k}) = i

\* The members of s that are in S.
Sifted(s, S) ==
    LET K == {k \in DOMAIN s : s[k] \in S}
    IN  [i \in 1..Cardinality(K) |-> s[Nth(K, i)]]
=============================================================================
