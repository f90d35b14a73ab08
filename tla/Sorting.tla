------------------------------ MODULE Sorting ------------------------------
(***************************************************************************)
(* Sequences by the place of their elements in an order, without recursion *)
(* over them, so that what they hold can be proved.                        *)
(***************************************************************************)
EXTENDS Naturals, FiniteSets

(* A set as a sequence, under a strict total order of its elements. *)
SortedBy(S, Before(_, _)) ==
    [k \in 1 .. Cardinality(S) |->
        CHOOSE x \in S : Cardinality({y \in S : Before(y, x)}) = k - 1]

=============================================================================
