------------------------- MODULE MCBlockMetaStorage -------------------------
(***************************************************************************)
(* Instances of BlockMetaStorage for TLC.                                  *)
(***************************************************************************)
EXTENDS BlockMetaStorage

Meta(s, hash) == [kind |-> "BlockMeta", slot |-> s, blockhash |-> hash, block_height |-> s]
Status(s, status) == [kind |-> "Slot", slot |-> s, status |-> status]

\* Block metas of two slots, one of them in two versions, and statuses in any order.
TwoBlocks ==
    {Meta(1, "h1"), Meta(1, "h2"), Meta(3, "h3"), Status(1, "Confirmed"),
     Status(1, "Processed"), Status(1, "Finalized"), Status(3, "Finalized")}

TwoRequests ==
    {[kind |-> "GetBlock", commitment |-> "Processed"],
     [kind |-> "IsBlockhashValid", commitment |-> "Confirmed", blockhash |-> "h1"]}

=============================================================================
