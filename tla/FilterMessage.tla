--------------------------- MODULE FilterMessage ---------------------------
(***************************************************************************)
(* Messages (filter/src/message.rs): how MessageParserProst makes them of  *)
(* SubscribeUpdates.  Sizes are left out, and with them encoded_len; the   *)
(* Limited parser is todo!() in the source.                                *)
(*                                                                         *)
(* The payload of an update keeps the fields that filters look at or that  *)
(* encoding changes; rest stands for the others.  An update without a      *)
(* payload has the kind "none".                                            *)
(***************************************************************************)
EXTENDS Integers, Sequences, FiniteSets

CONSTANTS Keys, None

\* CommitmentLevel of the protocol, in the order of its numbers.
ProtoLevels ==
    <<"processed", "confirmed", "finalized", "first_shred_received", "completed",
      "created_bank", "dead">>

\* try_from on bytes: a pubkey has 32 of them, a signature 64.
IsKey(bytes) == bytes \in Keys

(***************************************************************************)
(* MessageTransaction                                                      *)
(***************************************************************************)
\* gen_account_keys_prost: the keys of the message, if there is one, and the
\* addresses that were loaded for it.
gen_account_keys(tx) ==
    (IF tx.transaction.message = None THEN {} ELSE tx.transaction.message)
        \cup tx.meta.loaded_writable_addresses \cup tx.meta.loaded_readonly_addresses

TransactionParses(tx) ==
    /\ tx # None /\ tx.meta # None
    /\ tx.transaction # None
    /\ \A k \in gen_account_keys(tx) : IsKey(k)
    /\ IsKey(tx.signature)

MessageTransaction(tx, slot, created_at) ==
    [kind |-> "transaction", signature |-> tx.signature, error |-> tx.meta.err,
     account_keys |-> gen_account_keys(tx), transaction |-> tx, slot |-> slot,
     created_at |-> created_at]

vote(m) == m.transaction.is_vote

failed(m) == m.error # None

(***************************************************************************)
(* MessageAccount, MessageEntry, MessageBlockMeta, MessageSlot             *)
(***************************************************************************)
AccountParses(a) == a # None /\ IsKey(a.pubkey) /\ IsKey(a.owner)

MessageAccount(a, slot, is_startup, created_at) ==
    [kind |-> "account", pubkey |-> a.pubkey, owner |-> a.owner,
     nonempty_txn_signature |-> a.txn_signature # None, account |-> a,
     slot |-> slot, is_startup |-> is_startup, created_at |-> created_at]

MessageEntry(entry, created_at) ==
    [kind |-> "entry", entry |-> entry, created_at |-> created_at]

MessageBlockMeta(block_meta, created_at) ==
    [kind |-> "block_meta", block_meta |-> block_meta, created_at |-> created_at]

MessageSlot(s, created_at) ==
    [kind |-> "slot", slot |-> s.slot, parent |-> s.parent,
     commitment |-> ProtoLevels[s.status + 1], dead_error |-> s.dead_error,
     created_at |-> created_at]

(***************************************************************************)
(* MessageBlock                                                            *)
(***************************************************************************)
BlockParses(b) ==
    /\ \A i \in DOMAIN b.accounts : AccountParses(b.accounts[i])
    /\ \A i \in DOMAIN b.transactions : TransactionParses(b.transactions[i])

\* The fields of the block that are in its meta too.
BlockMetaOf(b) ==
    [slot |-> b.slot, rest |-> b.rest,
     executed_transaction_count |-> b.executed_transaction_count, entries_count |-> b.entries_count]

\* Accounts of a block are not of the startup; updated_account_count is not kept.
MessageBlock(b, created_at) ==
    [kind |-> "block",
     accounts |-> [i \in DOMAIN b.accounts |-> MessageAccount(b.accounts[i], b.slot, FALSE, created_at)],
     transactions |-> [i \in DOMAIN b.transactions |->
                          MessageTransaction(b.transactions[i], b.slot, created_at)],
     entries |-> [i \in DOMAIN b.entries |-> MessageEntry(b.entries[i], created_at)],
     block_meta |-> MessageBlockMeta(BlockMetaOf(b), created_at),
     created_at |-> created_at]

(***************************************************************************)
(* MessageParserProst::parse: whether it succeeds, and what it returns     *)
(***************************************************************************)
Parses(update) ==
    LET u == update.update_oneof
    IN /\ update.created_at # None
       /\ u.kind \in {"slot", "account", "transaction", "entry", "block_meta", "block"}
       /\ u.kind = "slot" => u.status + 1 \in DOMAIN ProtoLevels
       /\ u.kind = "account" => AccountParses(u.account)
       /\ u.kind = "transaction" => TransactionParses(u.transaction)
       /\ u.kind = "block" => BlockParses(u)

Parsed(update) ==
    LET u == update.update_oneof
        at == update.created_at
    IN CASE u.kind = "slot" -> MessageSlot(u, at)
         [] u.kind = "account" -> MessageAccount(u.account, u.slot, u.is_startup, at)
         [] u.kind = "transaction" -> MessageTransaction(u.transaction, u.slot, at)
         [] u.kind = "entry" -> MessageEntry(u.entry, at)
         [] u.kind = "block_meta" -> MessageBlockMeta(u.block_meta, at)
         [] u.kind = "block" -> MessageBlock(u, at)

=============================================================================
