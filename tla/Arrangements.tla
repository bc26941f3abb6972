------------------------------ MODULE Arrangements ------------------------------
(***************************************************************************)
(* The members of a finite set as a list in a given order: what a query     *)
(* returns with an ORDER BY.                                                *)
(***************************************************************************)
EXTENDS Integers, FiniteSets

\* The elements of S in order: the k-th has k - 1 others before it.
Arranged(S, Before(_, _)) ==
    [k \in 1..Cardinality(S) |->
        CHOOSE i \in S : Cardinality({j \in S : Before(j, i)}) = k - 1]
================================================================================
