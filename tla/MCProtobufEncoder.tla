------------------------- MODULE MCProtobufEncoder -------------------------
(***************************************************************************)
(* Notifications for TLC: for each message one with every field at its     *)
(* default, one with none, and those in between where a field is present   *)
(* but empty or zero.  Numbers are at the limits of their varints.         *)
(***************************************************************************)
EXTENDS ProtobufEncoder

B(n, x) == [len |-> n, of |-> <<x>>]

K == B(32, "key")
Sig == B(64, "signature")

Now == [seconds |-> 300, nanos |-> 0]

Slots ==
    [kind : {"slot"}, slot : {0, 127}, parent : {None, 0, 128},
     status : {[name |-> n, error |-> None] : n \in {"Processed", "Rooted", "Confirmed"}}]
    \cup
    {[kind |-> "slot", slot |-> 1, parent |-> 0, status |-> s] :
        s \in {[name |-> n, error |-> None] : n \in {"FirstShredReceived", "Completed", "CreatedBank"}}
              \cup {[name |-> "Dead", error |-> e] : e \in {Empty, B(2, "dead")}}}

Entries ==
    {[kind |-> "entry", slot |-> n, index |-> n, num_hashes |-> m, hash |-> K,
      executed_transaction_count |-> m, starting_transaction_index |-> n] : n, m \in {0, 16384}}

Accounts ==
    {[kind |-> "account", slot |-> n,
      account |-> [pubkey |-> K, lamports |-> n, owner |-> K, executable |-> n # 0, rent_epoch |-> n,
                   data |-> d, write_version |-> n, txn |-> s]] :
        n \in {0, 128}, d \in {Empty, B(1, "data"), B(165, "data")}, s \in {None, Sig}}

Reward(n, t, c) ==
    [pubkey |-> IF n = 0 THEN Empty ELSE B(44, "base58"), lamports |-> n, post_balance |-> n,
     reward_type |-> t, commission |-> c]

SomeRewards ==
    {<<>>, <<Reward(0, None, None)>>, <<Reward(-5, "Fee", 0), Reward(1, "Rent", 99)>>,
     <<Reward(128, "Staking", 100), Reward(1, "Voting", None)>>}

BlockMetas ==
    {[kind |-> "block_meta", slot |-> n, blockhash |-> h, rewards |-> [rewards |-> r, num_partitions |-> o],
      block_time |-> o, block_height |-> o, parent_slot |-> n, parent_blockhash |-> h,
      executed_transaction_count |-> n, entry_count |-> n] :
        n \in {0, 200}, h \in {Empty, B(44, "hash")}, r \in SomeRewards, o \in {None, 0, 130}}

Instruction(n) ==
    [program_id_index |-> n, accounts |-> IF n = 0 THEN Empty ELSE B(n, "accounts"),
     data |-> IF n = 0 THEN Empty ELSE B(n, "data")]

Inner(n, h) ==
    [program_id_index |-> n, accounts |-> Empty, data |-> B(1, "data"), stack_height |-> h]

Lookup(w, r) == [account_key |-> K, writable_indexes |-> w, readonly_indexes |-> r]

MessageOf(v0, n) ==
    [v0 |-> v0, recent_blockhash |-> K, account_keys |-> <<K, K>>,
     header |-> [num_required_signatures |-> 1, num_readonly_signed_accounts |-> 0,
                 num_readonly_unsigned_accounts |-> n],
     instructions |-> IF n = 0 THEN <<>> ELSE <<Instruction(0), Instruction(n)>>,
     address_table_lookups |-> IF n = 0 THEN <<>> ELSE <<Lookup(Empty, B(2, "r")), Lookup(B(1, "w"), Empty)>>]

Amount(u) ==
    [ui_amount |-> u, decimals |-> IF u = None THEN 0 ELSE 9, amount |-> B(1, "0"),
     ui_amount_string |-> IF u = None THEN Empty ELSE B(3, "1.5")]

Balance(n, u) ==
    [account_index |-> n, mint |-> B(44, "mint"), ui_token_amount |-> Amount(u),
     owner |-> IF n = 0 THEN Empty ELSE B(44, "owner"), program_id |-> Empty]

OkMeta ==
    [err |-> None, fee |-> 0, pre_balances |-> <<>>, post_balances |-> <<>>, inner_instructions |-> None,
     log_messages |-> None, pre_token_balances |-> None, post_token_balances |-> None, rewards |-> None,
     writable |-> <<>>, readonly |-> <<>>, return_data |-> None, compute_units_consumed |-> None]

EmptyMeta ==
    [OkMeta EXCEPT !.inner_instructions = <<>>, !.log_messages = <<>>, !.pre_token_balances = <<>>,
                   !.post_token_balances = <<>>, !.rewards = <<>>, !.pre_balances = <<0>>,
                   !.return_data = [program_id |-> K, data |-> Empty], !.compute_units_consumed = 0]

FullMeta ==
    [OkMeta EXCEPT !.fee = 5000, !.pre_balances = <<0, 127, 128>>, !.post_balances = <<5>>,
                   !.inner_instructions = <<[index |-> 0, instructions |-> <<Inner(0, None), Inner(130, 2)>>],
                                            [index |-> 1, instructions |-> <<>>]>>,
                   !.log_messages = <<Empty, B(128, "log")>>,
                   !.pre_token_balances = <<Balance(0, None)>>,
                   !.post_token_balances = <<Balance(1, 3), Balance(2, 0)>>,
                   !.rewards = <<Reward(-5, "Fee", None)>>, !.writable = <<K>>, !.readonly = <<K, K>>,
                   !.return_data = [program_id |-> K, data |-> B(4, "data")],
                   !.compute_units_consumed = 150]

Transactions ==
    {[kind |-> "transaction", slot |-> n,
      transaction |-> [signature |-> Sig, is_vote |-> n = 0, index |-> n, meta |-> [m EXCEPT !.err = e],
                       transaction |-> [signatures |-> <<Sig, Sig>>, message |-> MessageOf(v, n)]]] :
        n \in {0, 129}, v \in BOOLEAN, m \in {OkMeta, EmptyMeta, FullMeta},
        e \in {None, B(4, "AccountInUse"), B(13, "InstructionError")}}

AllMessages == Slots \cup Entries \cup Accounts \cup BlockMetas \cup Transactions

\* The second thread is there to fill its buffer at any moment.
TwoThreads == {"t1", "t2"}

MessagesOf ==
    [t \in TwoThreads |->
        IF t = "t1" THEN AllMessages
        ELSE {m \in Transactions : HasError(m) /\ m.transaction.meta.fee # 0 /\ m.slot # 0
                                 /\ m.transaction.transaction.message.v0}]

=============================================================================
