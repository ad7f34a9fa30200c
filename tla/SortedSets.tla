----------------------------- MODULE SortedSets -----------------------------
(***************************************************************************)
(* The elements of a finite set of numbers in order, defined by counting   *)
(* so that it can be reasoned about: element number k is the one with k    *)
(* elements up to and including it.                                        *)
(***************************************************************************)
EXTENDS Integers, FiniteSets

Rank(x, S) == Cardinality({y \in S : y <= x})

Ascending(S) == [k \in 1 .. Cardinality(S) |-> CHOOSE x \in S : Rank(x, S) = k]

=============================================================================
