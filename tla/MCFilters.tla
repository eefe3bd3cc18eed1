----------------------------- MODULE MCFilters -----------------------------
(***************************************************************************)
(* Requests, limits and updates for TLC: each kind of filter in turn, with *)
(* its fields present, absent and invalid.                                 *)
(***************************************************************************)
EXTENDS Filters

NameLens == [n \in {"n", "long"} |-> IF n = "n" THEN 1 ELSE 4]

NoFilters == [n \in {} |-> None]

Empty ==
    [slots |-> NoFilters, accounts |-> NoFilters, accounts_data_slice |-> <<>>,
     transactions |-> NoFilters, transactions_status |-> NoFilters, entry |-> {},
     blocks_meta |-> {}, blocks |-> NoFilters, commitment |-> None, ping |-> None, from_slot |-> None]

One(f) == [n \in {"n"} |-> f]

A == Text("a")
Bad == Text(None)

SlotRequests ==
    {[Empty EXCEPT !.slots = [n \in names |-> [filter_by_commitment |-> b]], !.commitment = c,
                   !.entry = names, !.blocks_meta = names] :
        names \in {{"n"}, {"n", "long"}}, b \in {None, TRUE, FALSE}, c \in {None, 0, 1, 3}}

Memcmp(offset, kind, len, bytes) ==
    [kind |-> "memcmp", offset |-> offset, data |-> [kind |-> kind, len |-> len, bytes |-> bytes]]

Lamports(cmp, value) == [kind |-> "lamports", cmp |-> cmp, value |-> value]

AccountFilters ==
    {<<>>,
     <<Memcmp(0, "bytes", 2, <<1, 2>>)>>, <<Memcmp(1, "base58", 3, <<2>>), Lamports("lt", 6)>>,
     <<Memcmp(0, "base64", 4, None)>>, <<Memcmp(0, "base58", 9, <<1>>)>>,
     <<Memcmp(0, "bytes", 4, <<1, 2, 1, 2>>)>>, <<Memcmp(15, "bytes", 2, <<1, 2>>)>>,
     <<[kind |-> "memcmp", offset |-> 0, data |-> None]>>, <<None>>,
     <<[kind |-> "datasize", size |-> 2], Lamports("gt", 4)>>,
     <<[kind |-> "datasize", size |-> 2], [kind |-> "datasize", size |-> 3]>>,
     <<[kind |-> "token_account_state", value |-> TRUE], Lamports("ne", 4)>>,
     <<[kind |-> "token_account_state", value |-> FALSE]>>,
     <<Lamports("eq", 5), Lamports(None, 5)>>,
     <<Lamports("eq", 5), Lamports("eq", 5), Lamports("eq", 5)>>}

Slice(offset, length) == [offset |-> offset, length |-> length]

Slices ==
    {<<>>, <<Slice(0, 2)>>, <<Slice(0, 1), Slice(2, 1)>>, <<Slice(0, 2), Slice(1, 1)>>,
     <<Slice(2, 1), Slice(0, 1)>>, <<Slice(1, 1), Slice(1, 0)>>, <<Slice(1, 0), Slice(1, 2)>>,
     <<Slice(15, 2)>>, <<Slice(0, 8)>>, <<Slice(0, 4), Slice(0, 4)>>, <<Slice(0, 4), Slice(4, 4)>>,
     <<Slice(0, 3), Slice(4, 3)>>, <<Slice(9, 0)>>}

AccountRequests ==
    {[Empty EXCEPT !.accounts = One([account |-> a, owner |-> o, filters |-> f,
                                     nonempty_txn_signature |-> s])] :
        a \in {<<>>, <<A>>, <<A, Bad>>}, o \in {<<>>, <<Text("b")>>},
        f \in AccountFilters, s \in {None, TRUE}}
    \cup
    {[Empty EXCEPT !.accounts_data_slice = ds,
                   !.accounts = One([account |-> a, owner |-> <<>>, filters |-> <<>>,
                                     nonempty_txn_signature |-> None]),
                   !.blocks = One(
                                  [account_include |-> a, include_transactions |-> FALSE,
                                      include_accounts |-> TRUE, include_entries |-> None])] :
        ds \in Slices, a \in {<<>>, <<A>>}}

TransactionRequests ==
    {[Empty EXCEPT !.transactions = One(f), !.transactions_status = One([f EXCEPT !.vote = None])] :
        f \in [vote : {None, TRUE, FALSE}, failed : {None, FALSE}, signature : {None, A, Bad},
               account_include : {<<>>, <<A>>, <<A, Text("b")>>}, account_exclude : {<<>>, <<Text("b")>>},
               account_required : {<<>>, <<A, Text("b")>>}]}

BlockRequests ==
    {[Empty EXCEPT !.blocks = One(f)] :
        f \in [account_include : {<<>>, <<A>>, <<A, Text("b")>>, <<Bad>>},
               include_transactions : {None, TRUE, FALSE}, include_accounts : {None, TRUE, FALSE},
               include_entries : {None, TRUE}]}

AllRequests == SlotRequests \cup AccountRequests \cup TransactionRequests \cup BlockRequests

StrictLimits ==
    [DefaultLimits EXCEPT
        !.name_max = 2, !.accounts.any = FALSE, !.accounts.account_reject = {"b"},
        !.accounts.owner_max = 0, !.accounts.data_slice_max = 1,
        !.transactions.any = FALSE, !.transactions.account_include_max = 1,
        !.blocks.account_include_any = FALSE, !.blocks.include_accounts = FALSE]

\* Other limits are strict: statuses, owners, and the transactions and keys of blocks.
OtherLimits ==
    [DefaultLimits EXCEPT
        !.accounts.any = FALSE, !.accounts.owner_reject = {"b"}, !.transactions_status.any = FALSE,
        !.blocks.account_include_any = FALSE, !.blocks.account_include_reject = {"b"},
        !.blocks.include_transactions = FALSE]

AllLimits == {DefaultLimits, StrictLimits, OtherLimits}

Update(u) == [update_oneof |-> u, created_at |-> "t"]

Account(k, data, sig) ==
    [pubkey |-> k, lamports |-> 5, owner |-> "b", data |-> data, txn_signature |-> sig]

Transaction(keys, loaded, is_vote, err) ==
    [signature |-> "a", is_vote |-> is_vote, transaction |-> [message |-> keys],
     meta |-> [err |-> err, loaded_writable_addresses |-> loaded, loaded_readonly_addresses |-> {}]]

Transactions ==
    {Transaction(k, l, v, e) : k \in {None, {"a"}, {"bad"}}, l \in {{}, {"b"}}, v \in BOOLEAN, e \in {None, "err"}}
    \cup {[Transaction({"a"}, {}, FALSE, None) EXCEPT !.meta = None],
          [Transaction({"a"}, {}, FALSE, None) EXCEPT !.transaction = None], None}

Blocks ==
    {[kind |-> "block", slot |-> 1, rest |-> "r", executed_transaction_count |-> 2,
      entries_count |-> 1, updated_account_count |-> 2,
      accounts |-> <<Account("a", <<1, 2, 1>>, None), Account(k, <<1>>, None)>>,
      transactions |-> <<Transaction({"a"}, {}, FALSE, None), Transaction({"b"}, l, TRUE, None)>>,
      entries |-> <<"e">>] : k \in {"b", "bad"}, l \in {{}, {"a"}}}

AllUpdates ==
    {Update([kind |-> "slot", slot |-> 1, parent |-> None, dead_error |-> None, status |-> st]) :
        st \in {0, 1, 2, 6, 7}}
    \cup {Update([kind |-> "account", slot |-> 1, is_startup |-> TRUE, account |-> a]) :
            a \in {Account(k, d, s) : k \in {"a", "b", "bad"}, d \in {<<>>, <<1>>, <<1, 2>>, <<1, 2, 1>>},
                                      s \in {None, "a"}} \cup {None}}
    \cup {Update([kind |-> "transaction", slot |-> 1, transaction |-> t]) : t \in Transactions}
    \cup {Update(b) : b \in Blocks}
    \cup {Update([kind |-> "entry", entry |-> "e"]), Update([kind |-> "block_meta", block_meta |-> "m"]),
          Update([kind |-> "ping"]), Update([kind |-> "none"]),
          [update_oneof |-> [kind |-> "entry", entry |-> "e"], created_at |-> None]}

=============================================================================
