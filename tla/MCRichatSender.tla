--------------------------- MODULE MCRichatSender ---------------------------
(***************************************************************************)
(* Inputs of RichatSender for TLC.                                         *)
(***************************************************************************)
EXTENDS RichatSender

Status(s, status) == [kind |-> "Slot", slot |-> s, status |-> status]
Account(s, v) == [kind |-> "Account", slot |-> s, account |-> "a", write_version |-> v]
Transaction(s) == [kind |-> "Transaction", slot |-> s]
Entry(s) == [kind |-> "Entry", slot |-> s]
BlockMeta(s, t, e) == [kind |-> "BlockMeta", slot |-> s, transactions |-> t, entries |-> e]

\* A slot of one transaction and one entry, and a later slot that is empty.
TwoSlots ==
    {Status(1, "Confirmed"), Status(1, "Finalized"),
     Account(1, 1), Account(1, 2), Transaction(1), Entry(1), BlockMeta(1, 1, 1),
     BlockMeta(2, 0, 0), Status(2, "Finalized")}

=============================================================================
