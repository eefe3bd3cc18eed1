---------------------------- MODULE MCRichatRing ----------------------------
(***************************************************************************)
(* Instances of RichatRing for TLC.                                        *)
(***************************************************************************)
EXTENDS RichatRing

Of(slot, size) == [slot |-> slot, size |-> size]

\* Slots in any order, one of them too large to share three bytes with its like.
ManySlots == {Of(1, 1), Of(2, 1), Of(3, 1), Of(4, 2)}

TailOrSlot == {NoSlot, 1, 2}

=============================================================================
