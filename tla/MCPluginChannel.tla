-------------------------- MODULE MCPluginChannel --------------------------
(***************************************************************************)
(* Instances of PluginChannel for TLC.  A message carries its size in      *)
(* bytes; slots are small numbers whose parent is the slot before them.    *)
(***************************************************************************)
EXTENDS PluginChannel

Account(s, n) ==
    [kind |-> "Account", slot |-> s, parent |-> NoSlot, status |-> "-", size |-> n]

SlotStatus(s, status) ==
    [kind |-> "Slot", slot |-> s, parent |-> s - 1, status |-> status, size |-> 1]

\* Slots that come late and out of order.
SlotsInputs == {Account(s, 1) : s \in 1 .. 4}
NoFilters == {{}}

TailOnly == {NoSlot}
FairReplays == {NoSlot, 2}

FairFilters == {{"Account"}}

\* Statuses of a chain of slots, some of them never notified.
FairInputs ==
    {Account(1, 1), SlotStatus(2, "Processed"), SlotStatus(3, "Confirmed"), SlotStatus(3, "Rooted")}

=============================================================================
