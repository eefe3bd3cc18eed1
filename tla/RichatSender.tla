---------------------------- MODULE RichatSender ----------------------------
(***************************************************************************)
(* The parser thread's end of the richat channel (richat/src/channel.rs):  *)
(* Sender::push, which collects the messages of every slot in a SlotInfo,  *)
(* builds the slot's block, and feeds the processed, the confirmed and the *)
(* finalized ring.  The rings themselves are module RichatRing; here each  *)
(* is the sequence of what was pushed to it.                               *)
(*                                                                         *)
(* A message of the source is a record with a kind and a slot, and         *)
(*   Slot         its status,                                              *)
(*   Account      the account and its write version,                       *)
(*   BlockMeta    how many transactions and entries the slot has.          *)
(***************************************************************************)
EXTENDS Integers, Sequences, FiniteSets, Selection

CONSTANTS
    Inputs,       \* messages of the source
    MaxPush       \* bound on the messages pushed

ASSUME SenderAssumption ==
    \A m \in Inputs :
       /\ m.kind \in {"Slot", "Account", "Transaction", "Entry", "BlockMeta"}
       /\ m.slot \in Nat
       /\ m.kind = "Account" => m.write_version \in Nat

NoMeta == [kind |-> "None"]     \* Option::None of SlotInfo::block_meta
Superseded == [kind |-> "None"] \* Option::None in SlotInfo::messages

VARIABLES
    slots,        \* Sender::slots: slot -> SlotInfo
    processed, confirmed, finalized,  \* what was pushed to each ring
    reports       \* history: what block_message_failed_inc was told

vars == <<slots, processed, confirmed, finalized, reports>>

\* The map with the value v at k: HashMap::insert, BTreeMap::insert
Put(map, k, v) == [x \in DOMAIN map \union {k} |-> IF x = k THEN v ELSE map[x]]

Init ==
    /\ slots = [s \in {} |-> 0]
    /\ processed = <<>>
    /\ confirmed = <<>>
    /\ finalized = <<>>
    /\ reports = {}

-----------------------------------------------------------------------------
(***************************************************************************)
(* SlotInfo::get_block_message, on a SlotInfo that is a value              *)
(***************************************************************************)

NewInfo ==
    [block_created |-> FALSE, failed |-> FALSE, landed |-> FALSE,
     messages |-> <<>>, accounts_dedup |-> [a \in {} |-> <<>>],
     transactions_count |-> 0, entries_count |-> 0, block_meta |-> NoMeta]

IsStatus(m, statuses) == m.kind = "Slot" /\ m.status \in statuses

MarkLanded(info, m) ==
    IF IsStatus(m, {"Confirmed", "Finalized"}) THEN [info EXCEPT !.landed = TRUE] ELSE info

\* What a message that comes after the block is reported as.
ExtraReason(m) ==
    CASE m.kind = "Slot" -> {}
      [] m.kind = "Account" -> {"ExtraAccount"}
      [] m.kind = "Transaction" -> {"ExtraTransaction"}
      [] m.kind = "Entry" -> {"ExtraEntry"}
      [] m.kind = "BlockMeta" -> {"ExtraBlockMeta"}

StoreAccount(info, m) ==
    LET known == m.account \in DOMAIN info.accounts_dedup
        old == info.accounts_dedup[m.account]
        newest == ~known \/ old.write_version < m.write_version
        idx == Len(info.messages) + 1
    IN [info EXCEPT
          !.messages = Append(IF known /\ newest THEN [@ EXCEPT ![old.idx] = Superseded] ELSE @, m),
          !.accounts_dedup =
             IF newest THEN Put(@, m.account, [write_version |-> m.write_version, idx |-> idx])
             ELSE @]

Store(info, m) ==
    CASE m.kind = "Slot" -> info
      [] m.kind = "Account" -> StoreAccount(info, m)
      [] m.kind = "Transaction" ->
            [info EXCEPT !.messages = Append(@, m), !.transactions_count = @ + 1]
      [] m.kind = "Entry" ->
            [info EXCEPT !.messages = Append(@, m), !.entries_count = @ + 1]
      [] m.kind = "BlockMeta" ->
            [info EXCEPT !.messages = Append(@, m), !.block_meta = m]

\* Faulty variant: only the transactions are counted.
CompleteTransactions(info) ==
    /\ info.block_meta # NoMeta
    /\ info.block_meta.transactions = info.transactions_count

Complete(info) ==
    /\ info.block_meta # NoMeta
    /\ info.block_meta.transactions = info.transactions_count
    /\ info.block_meta.entries = info.entries_count

\* SlotInfo::get_messages, and those of one kind
Messages(info) ==
    Pick(info.messages, {i \in 1 .. Len(info.messages) : info.messages[i] # Superseded})

OfKind(seq, kind) == Pick(seq, {i \in 1 .. Len(seq) : seq[i].kind = kind})

Block(s, info) ==
    [kind |-> "Block", slot |-> s,
     accounts |-> OfKind(info.messages, "Account"),
     transactions |-> OfKind(info.messages, "Transaction"),
     entries |-> OfKind(info.messages, "Entry"),
     block_meta |-> info.block_meta]

\* Faulty variant: the block is not stored among the messages of the slot.
get_block_message_unstored(old, m) ==
    LET info == MarkLanded(old, m)
        stored == Store(info, m)
    IN IF info.block_created
       THEN [info |-> [info EXCEPT !.failed = TRUE], block |-> <<>>,
             reasons |-> IF info.failed THEN {} ELSE ExtraReason(m)]
       ELSE IF Complete(stored)
       THEN [info |-> [stored EXCEPT !.block_created = TRUE],
             block |-> <<Block(m.slot, stored)>>, reasons |-> {}]
       ELSE [info |-> stored, block |-> <<>>, reasons |-> {}]

\* The SlotInfo after the message, the block if this completes it, the report.
get_block_message(old, m) ==
    LET info == MarkLanded(old, m)
        stored == Store(info, m)
        block == Block(m.slot, stored)
    IN IF info.block_created
       THEN [info |-> [info EXCEPT !.failed = TRUE], block |-> <<>>,
             reasons |-> IF info.failed THEN {} ELSE ExtraReason(m)]
       ELSE IF Complete(stored)
       THEN [info |-> [stored EXCEPT !.block_created = TRUE, !.messages = Append(@, block)],
             block |-> <<block>>, reasons |-> {}]
       ELSE [info |-> stored, block |-> <<>>, reasons |-> {}]

\* Faulty variant: a slot with a block meta is taken for one with a block.
DropReasonsMissed(info) ==
    IF info.landed /\ info.block_meta = NoMeta THEN {"MissedBlockMeta"} ELSE {}

\* Drop for SlotInfo
DropReasons(info) ==
    IF info.block_created \/ info.failed \/ ~info.landed THEN {}
    ELSE IF info.block_meta = NoMeta THEN {"MissedBlockMeta"}
    ELSE {r \in {"MismatchTransactions", "MismatchEntries"} :
            \/ /\ r = "MismatchTransactions"
               /\ info.block_meta.transactions # info.transactions_count
            \/ /\ r = "MismatchEntries"
               /\ info.block_meta.entries # info.entries_count}

-----------------------------------------------------------------------------
(***************************************************************************)
(* Sender::push                                                            *)
(***************************************************************************)

InfoOf(s) == IF s \in DOMAIN slots THEN slots[s] ELSE NewInfo

\* block_message_failed_inc: nothing is reported without a reason.
Report(s, reasons) == IF reasons = {} THEN {} ELSE {[slot |-> s, reasons |-> reasons]}

\* The bound: what the source sent is what was pushed, blocks apart.
MorePushes ==
    Len(processed) - Cardinality({i \in DOMAIN processed : processed[i].kind = "Block"}) < MaxPush

\* Accounts, transactions, entries and block metas go to the processed ring,
\* followed by the block they complete.
PushData(m) ==
    /\ m.kind # "Slot"
    /\ MorePushes
    /\ LET r == get_block_message(InfoOf(m.slot), m)
       IN /\ slots' = Put(slots, m.slot, r.info)
          /\ processed' = Append(processed, m) \o r.block
          /\ reports' = reports \union Report(m.slot, r.reasons)
    /\ UNCHANGED <<confirmed, finalized>>

\* A status goes to every ring.  Confirmed and Finalized bring the messages of the
\* slot to their ring; Finalized ends this and all earlier slots.
PushStatus(m) ==
    /\ m.kind = "Slot"
    /\ MorePushes
    /\ LET r == get_block_message(InfoOf(m.slot), m)
           infos == Put(slots, m.slot, r.info)
           Feed(status) == IF m.status = status THEN Messages(r.info) ELSE <<>>
           ended == {s \in DOMAIN infos : m.status = "Finalized" /\ s <= m.slot}
       IN /\ slots' = [s \in DOMAIN infos \ ended |-> infos[s]]
          /\ processed' = Append(processed, m) \o r.block
          /\ confirmed' = Append(confirmed, m) \o Feed("Confirmed")
          /\ finalized' = Append(finalized, m) \o Feed("Finalized")
          /\ reports' = reports \union Report(m.slot, r.reasons)
                           \union UNION {Report(s, DropReasons(infos[s])) : s \in ended}

Next == \E m \in Inputs : PushData(m) \/ PushStatus(m)

Spec == Init /\ [][Next]_vars

-----------------------------------------------------------------------------

\* No status before position j has ended slot s.
Open(s, j) ==
    \A i \in 1 .. j - 1 : IsStatus(processed[i], {"Finalized"}) => processed[i].slot < s

\* The messages of the slot of the j-th one that came before it.
Earlier(j, kind) ==
    {i \in 1 .. j - 1 : processed[i].kind = kind /\ processed[i].slot = processed[j].slot}

\* A block has every transaction and entry of its slot that came before it, in
\* that order, as many of them as the block meta says, and for every account an
\* update that no earlier update of the slot is newer than.
BlockIsWhole ==
    \A j \in 1 .. Len(processed) :
       LET b == processed[j]
       IN b.kind = "Block" /\ Open(b.slot, j) =>
             /\ b.transactions = Pick(processed, Earlier(j, "Transaction"))
             /\ b.entries = Pick(processed, Earlier(j, "Entry"))
             /\ Len(b.transactions) = b.block_meta.transactions
             /\ Len(b.entries) = b.block_meta.entries
             /\ \A i \in Earlier(j, "Account") :
                   \E k \in 1 .. Len(b.accounts) :
                      /\ b.accounts[k].account = processed[i].account
                      /\ b.accounts[k].write_version >= processed[i].write_version

\* In a ring of settled slots the messages of a slot come in one piece behind the
\* status that settled it.
InOnePiece(ring, status) ==
    \A k \in 1 .. Len(ring) :
       ring[k].kind # "Slot" =>
          \E i \in 1 .. k - 1 :
             /\ IsStatus(ring[i], {status})
             /\ \A n \in i .. k : ring[n].slot = ring[k].slot

\* A block built before the status of its slot is in the ring of that status,
\* with the messages of its slot and of no other around it (Sender::push).
SettledBlockDelivered ==
    /\ \A i, j \in 1 .. Len(processed) :
          LET b == processed[i]
              m == processed[j]
          IN i < j /\ b.kind = "Block" /\ m.slot = b.slot /\ Open(b.slot, j) =>
                /\ IsStatus(m, {"Confirmed"}) => b \in {confirmed[k] : k \in DOMAIN confirmed}
                /\ IsStatus(m, {"Finalized"}) => b \in {finalized[k] : k \in DOMAIN finalized}
    /\ InOnePiece(confirmed, "Confirmed") /\ InOnePiece(finalized, "Finalized")

\* A confirmed or finalized slot that ended has its block, or its failure was
\* reported with a reason.
LandedBuiltOrReported ==
    \A j \in 1 .. Len(processed) :
       LET s == processed[j].slot
       IN IsStatus(processed[j], {"Confirmed", "Finalized"}) /\ s \notin DOMAIN slots =>
             \/ \E i \in 1 .. Len(processed) :
                   processed[i].kind = "Block" /\ processed[i].slot = s
             \/ \E r \in reports : r.slot = s

=============================================================================
