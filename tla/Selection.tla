----------------------------- MODULE Selection -----------------------------
(***************************************************************************)
(* The elements of a sequence at given positions, in their order: what a   *)
(* filter on an iterator keeps.                                            *)
(***************************************************************************)
EXTENDS Integers, FiniteSets

Rank(i, positions) == Cardinality({j \in positions : j <= i})

Pick(seq, positions) ==
    [n \in 1 .. Cardinality(positions) |->
        seq[CHOOSE i \in positions : Rank(i, positions) = n]]

=============================================================================
