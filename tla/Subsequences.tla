---------------------------- MODULE Subsequences ----------------------------
(***************************************************************************)
(* The entries of a list at given places: what an operation leaves that    *)
(* unlinks some entries of a list and keeps the order of the others.       *)
(***************************************************************************)
EXTENDS Integers, Sequences, FiniteSets

\* The k-th of the places is the one with k places up to it.
Kept(list, places) ==
    LET At(k) == CHOOSE j \in places : Cardinality({i \in places : i <= j}) = k
    IN  [k \in 1..Cardinality(places) |-> list[At(k)]]

=============================================================================
