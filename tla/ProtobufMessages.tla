-------------------------- MODULE ProtobufMessages --------------------------
(***************************************************************************)
(* The messages of the plugin's encoders (plugin-agave/src/protobuf).      *)
(* encode_raw writes the protobuf of a notification from the validator's   *)
(* own structs, with a hand-written encode_raw and encoded_len for every   *)
(* message; encode_prost builds the generated structs and lets prost       *)
(* encode them.                                                            *)
(*                                                                         *)
(* A message has a definition of what encode_raw writes (...Raw), of what  *)
(* encoded_len adds up (...Len) and of what encode_prost makes of it       *)
(* (...Prost).                                                             *)
(***************************************************************************)
EXTENDS Protobuf

(***************************************************************************)
(* encoding/mod.rs                                                         *)
(***************************************************************************)
bytes_encode(tag, b) == <<Key(tag), Varint(b.len), Data(b)>>
bytes_encoded_len(tag, b) == key_len(tag) + encoded_len_varint(b.len) + b.len

\* NUM_STRINGS[num], and to_string
u8_to_static_str(num) ==
    [len |-> IF num < 10 THEN 1 ELSE IF num < 100 THEN 2 ELSE 3, of |-> <<ToString(num)>>]

reward_type_as_i32(type) ==
    CASE type = None -> 0 [] type = "Fee" -> 1 [] type = "Rent" -> 2
      [] type = "Staking" -> 3 [] type = "Voting" -> 4

RewardRaw(r) ==
    When(r.pubkey.len # 0, bytes_encode(1, r.pubkey)) \o When(r.lamports # 0, Num(2, r.lamports))
    \o When(r.post_balance # 0, Num(3, r.post_balance))
    \o When(r.reward_type # None, Num(4, reward_type_as_i32(r.reward_type)))
    \o When(r.commission # None, bytes_encode(5, u8_to_static_str(r.commission)))

RewardLen(r) ==
    LenWhen(r.pubkey.len # 0, bytes_encoded_len(1, r.pubkey))
    + LenWhen(r.lamports # 0, NumLen(2, r.lamports))
    + LenWhen(r.post_balance # 0, NumLen(3, r.post_balance))
    + LenWhen(r.reward_type # None, NumLen(4, reward_type_as_i32(r.reward_type)))
    + LenWhen(r.commission # None, bytes_encoded_len(5, u8_to_static_str(r.commission)))

RewardProst(r) ==
    BytesField(1, r.pubkey) \o Field(2, r.lamports) \o Field(3, r.post_balance)
    \o Field(4, reward_type_as_i32(r.reward_type))
    \o BytesField(5, IF r.commission = None THEN Empty ELSE u8_to_static_str(r.commission))

(***************************************************************************)
(* encoding/slot.rs, entry.rs, account.rs                                  *)
(***************************************************************************)
slot_status_as_i32(status) ==
    CASE status.name = "Processed" -> 0 [] status.name = "Rooted" -> 2
      [] status.name = "Confirmed" -> 1 [] status.name = "FirstShredReceived" -> 3
      [] status.name = "Completed" -> 4 [] status.name = "CreatedBank" -> 5
      [] status.name = "Dead" -> 6

slot_status_as_dead_error(status) == IF status.name = "Dead" THEN status.error ELSE None

SlotRaw(m) ==
    LET status == slot_status_as_i32(m.status)
        dead_error == slot_status_as_dead_error(m.status)
    IN When(m.slot # 0, Num(1, m.slot)) \o When(m.parent # None, Num(2, m.parent))
       \o When(status # 0, Num(3, status)) \o When(dead_error # None, bytes_encode(4, dead_error))

SlotLen(m) ==
    LET status == slot_status_as_i32(m.status)
        dead_error == slot_status_as_dead_error(m.status)
    IN LenWhen(m.slot # 0, NumLen(1, m.slot)) + LenWhen(m.parent # None, NumLen(2, m.parent))
       + LenWhen(status # 0, NumLen(3, status))
       + LenWhen(dead_error # None, bytes_encoded_len(4, dead_error))

\* CommitmentLevel, in the order of its numbers
Levels ==
    <<"Processed", "Confirmed", "Rooted", "FirstShredReceived", "Completed", "CreatedBank", "Dead">>

SlotProst(m) ==
    Field(1, m.slot) \o OptField(2, m.parent) \o Field(3, SelectInSeq(Levels, LAMBDA n : n = m.status.name) - 1)
    \o OptBytes(4, IF m.status.name = "Dead" THEN m.status.error ELSE None)

EntryRaw(e) ==
    When(e.slot # 0, Num(1, e.slot)) \o When(e.index # 0, Num(2, e.index))
    \o When(e.num_hashes # 0, Num(3, e.num_hashes)) \o bytes_encode(4, e.hash)
    \o When(e.executed_transaction_count # 0, Num(5, e.executed_transaction_count))
    \o When(e.starting_transaction_index # 0, Num(6, e.starting_transaction_index))

EntryLen(e) ==
    LenWhen(e.slot # 0, NumLen(1, e.slot)) + LenWhen(e.index # 0, NumLen(2, e.index))
    + LenWhen(e.num_hashes # 0, NumLen(3, e.num_hashes)) + bytes_encoded_len(4, e.hash)
    + LenWhen(e.executed_transaction_count # 0, NumLen(5, e.executed_transaction_count))
    + LenWhen(e.starting_transaction_index # 0, NumLen(6, e.starting_transaction_index))

EntryProst(e) ==
    Field(1, e.slot) \o Field(2, e.index) \o Field(3, e.num_hashes) \o BytesField(4, e.hash)
    \o Field(5, e.executed_transaction_count) \o Field(6, e.starting_transaction_index)

AccountInfoRaw(a) ==
    bytes_encode(1, a.pubkey) \o When(a.lamports # 0, Num(2, a.lamports)) \o bytes_encode(3, a.owner)
    \o When(a.executable, Num(4, 1)) \o When(a.rent_epoch # 0, Num(5, a.rent_epoch))
    \o When(a.data.len # 0, bytes_encode(6, a.data))
    \o When(a.write_version # 0, Num(7, a.write_version))
    \o When(a.txn # None, bytes_encode(8, a.txn))

AccountInfoLen(a) ==
    bytes_encoded_len(1, a.pubkey) + LenWhen(a.lamports # 0, NumLen(2, a.lamports))
    + bytes_encoded_len(3, a.owner) + LenWhen(a.executable, NumLen(4, 1))
    + LenWhen(a.rent_epoch # 0, NumLen(5, a.rent_epoch))
    + LenWhen(a.data.len # 0, bytes_encoded_len(6, a.data))
    + LenWhen(a.write_version # 0, NumLen(7, a.write_version))
    + LenWhen(a.txn # None, bytes_encoded_len(8, a.txn))

AccountRaw(m) ==
    Message(1, AccountInfoLen(m.account), AccountInfoRaw(m.account)) \o When(m.slot # 0, Num(2, m.slot))

AccountLen(m) ==
    MessageLen(1, AccountInfoLen(m.account)) + LenWhen(m.slot # 0, NumLen(2, m.slot))

\* is_startup is false.
AccountProst(m) ==
    LET a == m.account
    IN Sized(1, BytesField(1, a.pubkey) \o Field(2, a.lamports) \o BytesField(3, a.owner)
                \o Flag(4, a.executable) \o Field(5, a.rent_epoch) \o BytesField(6, a.data)
                \o Field(7, a.write_version) \o OptBytes(8, a.txn))
       \o Field(2, m.slot)

(***************************************************************************)
(* encoding/block_meta.rs                                                  *)
(***************************************************************************)
RewardsRaw(r) ==
    Repeated(1, RewardLen, RewardRaw, r.rewards)
    \o When(r.num_partitions # None,
            Message(2, SizeOf(Wrapped(r.num_partitions)), Wrapped(r.num_partitions)))

RewardsLen(r) ==
    RepeatedLen(1, RewardLen, r.rewards)
    + LenWhen(r.num_partitions # None, MessageLen(2, SizeOf(Wrapped(r.num_partitions))))

BlockMetaRaw(b) ==
    When(b.slot # 0, Num(1, b.slot)) \o When(b.blockhash.len # 0, bytes_encode(2, b.blockhash))
    \o Message(3, RewardsLen(b.rewards), RewardsRaw(b.rewards))
    \o When(b.block_time # None, Sized(4, Wrapped(b.block_time)))
    \o When(b.block_height # None, Sized(5, Wrapped(b.block_height)))
    \o When(b.parent_slot # 0, Num(6, b.parent_slot))
    \o When(b.parent_blockhash.len # 0, bytes_encode(7, b.parent_blockhash))
    \o When(b.executed_transaction_count # 0, Num(8, b.executed_transaction_count))
    \o When(b.entry_count # 0, Num(9, b.entry_count))

BlockMetaLen(b) ==
    LenWhen(b.slot # 0, NumLen(1, b.slot))
    + LenWhen(b.blockhash.len # 0, bytes_encoded_len(2, b.blockhash))
    + MessageLen(3, RewardsLen(b.rewards))
    + LenWhen(b.block_time # None, MessageLen(4, SizeOf(Wrapped(b.block_time))))
    + LenWhen(b.block_height # None, MessageLen(5, SizeOf(Wrapped(b.block_height))))
    + LenWhen(b.parent_slot # 0, NumLen(6, b.parent_slot))
    + LenWhen(b.parent_blockhash.len # 0, bytes_encoded_len(7, b.parent_blockhash))
    + LenWhen(b.executed_transaction_count # 0, NumLen(8, b.executed_transaction_count))
    + LenWhen(b.entry_count # 0, NumLen(9, b.entry_count))

BlockMetaProst(b) ==
    Field(1, b.slot) \o BytesField(2, b.blockhash)
    \o Sized(3, EachSized(1, RewardProst, b.rewards.rewards)
                \o When(b.rewards.num_partitions # None, Sized(2, Wrapped(b.rewards.num_partitions))))
    \o When(b.block_time # None, Sized(4, Wrapped(b.block_time)))
    \o When(b.block_height # None, Sized(5, Wrapped(b.block_height)))
    \o Field(6, b.parent_slot) \o BytesField(7, b.parent_blockhash)
    \o Field(8, b.executed_transaction_count) \o Field(9, b.entry_count)

(***************************************************************************)
(* encoding/transaction.rs: the transaction                                *)
(***************************************************************************)
SIGNATURE_BYTES == 64
PUBKEY_BYTES == 32

signatures_encode(tag, s) == FlattenSeq(Map(LAMBDA b : bytes_encode(tag, b), s))
signatures_encoded_len(tag, s) ==
    (key_len(tag) + encoded_len_varint(SIGNATURE_BYTES) + SIGNATURE_BYTES) * Len(s)

pubkeys_encode(tag, s) == FlattenSeq(Map(LAMBDA b : bytes_encode(tag, b), s))
pubkeys_encoded_len(tag, s) ==
    (key_len(tag) + encoded_len_varint(PUBKEY_BYTES) + PUBKEY_BYTES) * Len(s)

HeaderRaw(h) ==
    When(h.num_required_signatures # 0, Num(1, h.num_required_signatures))
    \o When(h.num_readonly_signed_accounts # 0, Num(2, h.num_readonly_signed_accounts))
    \o When(h.num_readonly_unsigned_accounts # 0, Num(3, h.num_readonly_unsigned_accounts))

HeaderLen(h) ==
    LenWhen(h.num_required_signatures # 0, NumLen(1, h.num_required_signatures))
    + LenWhen(h.num_readonly_signed_accounts # 0, NumLen(2, h.num_readonly_signed_accounts))
    + LenWhen(h.num_readonly_unsigned_accounts # 0, NumLen(3, h.num_readonly_unsigned_accounts))

HeaderProst(h) ==
    Field(1, h.num_required_signatures) \o Field(2, h.num_readonly_signed_accounts)
    \o Field(3, h.num_readonly_unsigned_accounts)

\* CompiledInstructionWrapper, and the fields InnerInstructionWrapper shares with it
InstructionRaw(i) ==
    When(i.program_id_index # 0, Num(1, i.program_id_index))
    \o When(i.accounts.len # 0, bytes_encode(2, i.accounts))
    \o When(i.data.len # 0, bytes_encode(3, i.data))

InstructionLen(i) ==
    LenWhen(i.program_id_index # 0, NumLen(1, i.program_id_index))
    + LenWhen(i.accounts.len # 0, bytes_encoded_len(2, i.accounts))
    + LenWhen(i.data.len # 0, bytes_encoded_len(3, i.data))

InstructionProst(i) ==
    Field(1, i.program_id_index) \o BytesField(2, i.accounts) \o BytesField(3, i.data)

LookupRaw(l) ==
    bytes_encode(1, l.account_key)
    \o When(l.writable_indexes.len # 0, bytes_encode(2, l.writable_indexes))
    \o When(l.readonly_indexes.len # 0, bytes_encode(3, l.readonly_indexes))

LookupLen(l) ==
    bytes_encoded_len(1, l.account_key)
    + LenWhen(l.writable_indexes.len # 0, bytes_encoded_len(2, l.writable_indexes))
    + LenWhen(l.readonly_indexes.len # 0, bytes_encoded_len(3, l.readonly_indexes))

LookupProst(l) ==
    BytesField(1, l.account_key) \o BytesField(2, l.writable_indexes)
    \o BytesField(3, l.readonly_indexes)

\* versioned_encode writes true only.  A Legacy message has no lookups.
MessageRaw(m) ==
    Message(1, HeaderLen(m.header), HeaderRaw(m.header)) \o pubkeys_encode(2, m.account_keys)
    \o bytes_encode(3, m.recent_blockhash)
    \o Repeated(4, InstructionLen, InstructionRaw, m.instructions)
    \o When(m.v0, Num(5, 1))
    \o Repeated(6, LookupLen, LookupRaw, IF m.v0 THEN m.address_table_lookups ELSE <<>>)

MessageRawLen(m) ==
    MessageLen(1, HeaderLen(m.header)) + pubkeys_encoded_len(2, m.account_keys)
    + bytes_encoded_len(3, m.recent_blockhash)
    + RepeatedLen(4, InstructionLen, m.instructions)
    + LenWhen(m.v0, NumLen(5, 1))
    + RepeatedLen(6, LookupLen, IF m.v0 THEN m.address_table_lookups ELSE <<>>)

MessageProst(m) ==
    Sized(1, HeaderProst(m.header)) \o EachBytes(2, m.account_keys)
    \o BytesField(3, m.recent_blockhash) \o EachSized(4, InstructionProst, m.instructions)
    \o Flag(5, m.v0) \o EachSized(6, LookupProst, IF m.v0 THEN m.address_table_lookups ELSE <<>>)

SanitizedRaw(t) ==
    signatures_encode(1, t.signatures) \o Message(2, MessageRawLen(t.message), MessageRaw(t.message))

SanitizedLen(t) ==
    signatures_encoded_len(1, t.signatures) + MessageLen(2, MessageRawLen(t.message))

SanitizedProst(t) == EachBytes(1, t.signatures) \o Sized(2, MessageProst(t.message))

(***************************************************************************)
(* encoding/transaction.rs: its status                                     *)
(***************************************************************************)
InnerRaw(i) == InstructionRaw(i) \o When(i.stack_height # None, Num(4, i.stack_height))
InnerLen(i) == InstructionLen(i) + LenWhen(i.stack_height # None, NumLen(4, i.stack_height))
InnerProst(i) == InstructionProst(i) \o OptField(4, i.stack_height)

InnersRaw(i) == When(i.index # 0, Num(1, i.index)) \o Repeated(2, InnerLen, InnerRaw, i.instructions)
InnersLen(i) == LenWhen(i.index # 0, NumLen(1, i.index)) + RepeatedLen(2, InnerLen, i.instructions)
InnersProst(i) == Field(1, i.index) \o EachSized(2, InnerProst, i.instructions)

\* ui_amount.unwrap_or_default()
UiAmount(a) == IF a.ui_amount = None THEN 0 ELSE a.ui_amount

AmountRaw(a) ==
    When(UiAmount(a) # 0, <<Key(1), Double(UiAmount(a))>>) \o When(a.decimals # 0, Num(2, a.decimals))
    \o When(a.amount.len # 0, bytes_encode(3, a.amount))
    \o When(a.ui_amount_string.len # 0, bytes_encode(4, a.ui_amount_string))

AmountLen(a) ==
    LenWhen(UiAmount(a) # 0, key_len(1) + 8) + LenWhen(a.decimals # 0, NumLen(2, a.decimals))
    + LenWhen(a.amount.len # 0, bytes_encoded_len(3, a.amount))
    + LenWhen(a.ui_amount_string.len # 0, bytes_encoded_len(4, a.ui_amount_string))

AmountProst(a) ==
    When(UiAmount(a) # 0, <<Key(1), Double(UiAmount(a))>>) \o Field(2, a.decimals)
    \o BytesField(3, a.amount) \o BytesField(4, a.ui_amount_string)

BalanceRaw(b) ==
    When(b.account_index # 0, Num(1, b.account_index)) \o When(b.mint.len # 0, bytes_encode(2, b.mint))
    \o Message(3, AmountLen(b.ui_token_amount), AmountRaw(b.ui_token_amount))
    \o When(b.owner.len # 0, bytes_encode(4, b.owner))
    \o When(b.program_id.len # 0, bytes_encode(5, b.program_id))

BalanceLen(b) ==
    LenWhen(b.account_index # 0, NumLen(1, b.account_index))
    + LenWhen(b.mint.len # 0, bytes_encoded_len(2, b.mint))
    + MessageLen(3, AmountLen(b.ui_token_amount))
    + LenWhen(b.owner.len # 0, bytes_encoded_len(4, b.owner))
    + LenWhen(b.program_id.len # 0, bytes_encoded_len(5, b.program_id))

BalanceProst(b) ==
    Field(1, b.account_index) \o BytesField(2, b.mint) \o Sized(3, AmountProst(b.ui_token_amount))
    \o BytesField(4, b.owner) \o BytesField(5, b.program_id)

ReturnDataRaw(r) == bytes_encode(1, r.program_id) \o When(r.data.len # 0, bytes_encode(2, r.data))
ReturnDataLen(r) == bytes_encoded_len(1, r.program_id) + LenWhen(r.data.len # 0, bytes_encoded_len(2, r.data))
ReturnDataProst(r) == BytesField(1, r.program_id) \o BytesField(2, r.data)

\* TransactionErrorWrapper: both look at BUFFER, which encoded_len has filled.
ErrorRaw(buffer) == When(buffer.len # 0, bytes_encode(1, buffer))
ErrorLen(buffer) == LenWhen(buffer.len # 0, bytes_encoded_len(1, buffer))

\* bincode::serialize(err)
ErrorProst(err) == BytesField(1, err)

\* counted is BUFFER when the lengths are taken, written when its bytes are.
MetaRaw(m, counted, written) ==
    When(m.err # None, Message(1, ErrorLen(counted), ErrorRaw(written)))
    \o When(m.fee # 0, Num(2, m.fee)) \o Packed(3, m.pre_balances) \o Packed(4, m.post_balances)
    \o When(m.inner_instructions # None, Repeated(5, InnersLen, InnersRaw, m.inner_instructions))
    \o When(m.log_messages # None, EachBytes(6, m.log_messages))
    \o When(m.pre_token_balances # None, Repeated(7, BalanceLen, BalanceRaw, m.pre_token_balances))
    \o When(m.post_token_balances # None, Repeated(8, BalanceLen, BalanceRaw, m.post_token_balances))
    \o When(m.rewards # None, Repeated(9, RewardLen, RewardRaw, m.rewards))
    \o When(m.inner_instructions = None, Num(10, 1)) \o When(m.log_messages = None, Num(11, 1))
    \o pubkeys_encode(12, m.writable) \o pubkeys_encode(13, m.readonly)
    \o When(m.return_data # None, Message(14, ReturnDataLen(m.return_data), ReturnDataRaw(m.return_data)))
    \o When(m.return_data = None, Num(15, 1))
    \o When(m.compute_units_consumed # None, Num(16, m.compute_units_consumed))

MetaLen(m, counted) ==
    LenWhen(m.err # None, MessageLen(1, ErrorLen(counted)))
    + LenWhen(m.fee # 0, NumLen(2, m.fee)) + PackedLen(3, m.pre_balances) + PackedLen(4, m.post_balances)
    + LenWhen(m.inner_instructions # None, RepeatedLen(5, InnersLen, m.inner_instructions))
    + LenWhen(m.log_messages # None, EachBytesLen(6, m.log_messages))
    + LenWhen(m.pre_token_balances # None, RepeatedLen(7, BalanceLen, m.pre_token_balances))
    + LenWhen(m.post_token_balances # None, RepeatedLen(8, BalanceLen, m.post_token_balances))
    + LenWhen(m.rewards # None, RepeatedLen(9, RewardLen, m.rewards))
    + LenWhen(m.inner_instructions = None, NumLen(10, 1)) + LenWhen(m.log_messages = None, NumLen(11, 1))
    + pubkeys_encoded_len(12, m.writable) + pubkeys_encoded_len(13, m.readonly)
    + LenWhen(m.return_data # None, MessageLen(14, ReturnDataLen(m.return_data)))
    + LenWhen(m.return_data = None, NumLen(15, 1))
    + LenWhen(m.compute_units_consumed # None, NumLen(16, m.compute_units_consumed))

MetaProst(m) ==
    When(m.err # None, Sized(1, ErrorProst(m.err))) \o Field(2, m.fee)
    \o Packed(3, m.pre_balances) \o Packed(4, m.post_balances)
    \o EachSized(5, InnersProst, OptSeq(m.inner_instructions)) \o EachBytes(6, OptSeq(m.log_messages))
    \o EachSized(7, BalanceProst, OptSeq(m.pre_token_balances))
    \o EachSized(8, BalanceProst, OptSeq(m.post_token_balances))
    \o EachSized(9, RewardProst, OptSeq(m.rewards))
    \o Flag(10, m.inner_instructions = None) \o Flag(11, m.log_messages = None)
    \o EachBytes(12, m.writable) \o EachBytes(13, m.readonly)
    \o When(m.return_data # None, Sized(14, ReturnDataProst(m.return_data)))
    \o Flag(15, m.return_data = None) \o OptField(16, m.compute_units_consumed)

TransactionInfoLen(t, counted) ==
    bytes_encoded_len(1, t.signature) + LenWhen(t.is_vote, NumLen(2, 1))
    + MessageLen(3, SanitizedLen(t.transaction)) + MessageLen(4, MetaLen(t.meta, counted))
    + LenWhen(t.index # 0, NumLen(5, t.index))

TransactionInfoRaw(t, counted, written) ==
    bytes_encode(1, t.signature) \o When(t.is_vote, Num(2, 1))
    \o Message(3, SanitizedLen(t.transaction), SanitizedRaw(t.transaction))
    \o Message(4, MetaLen(t.meta, counted), MetaRaw(t.meta, counted, written))
    \o When(t.index # 0, Num(5, t.index))

TransactionRaw(m, counted, written) ==
    Message(1, TransactionInfoLen(m.transaction, counted), TransactionInfoRaw(m.transaction, counted, written))
    \o When(m.slot # 0, Num(2, m.slot))

TransactionLen(m, counted) ==
    MessageLen(1, TransactionInfoLen(m.transaction, counted)) + LenWhen(m.slot # 0, NumLen(2, m.slot))

TransactionProst(m) ==
    LET t == m.transaction
    IN Sized(1, BytesField(1, t.signature) \o Flag(2, t.is_vote) \o Sized(3, SanitizedProst(t.transaction))
                \o Sized(4, MetaProst(t.meta)) \o Field(5, t.index))
       \o Field(2, m.slot)

=============================================================================
