---------------------------- MODULE FilterConfig ----------------------------
(***************************************************************************)
(* Subscription requests and their limits (filter/src/config.rs): what     *)
(* becomes of a SubscribeRequest on its way to a ConfigFilter, what the    *)
(* limits of the operator refuse, and the way back.                        *)
(*                                                                         *)
(* An error is an error: which one is left out.  Maps from names to        *)
(* filters are functions, vectors are sequences; a pubkey travels as text  *)
(* and a byte string as a sequence of bytes.                               *)
(***************************************************************************)
EXTENDS Integers, Sequences, FiniteSets, SequencesExt

CONSTANTS
    Keys,          \* pubkeys and signatures
    None,          \* Option::None
    NameLen,       \* length of each filter name
    MAX_FILTERS, MAX_DATA_SIZE, MAX_DATA_BASE58_SIZE, MAX_DATA_BASE64_SIZE,
    WORD           \* 2^64, scaled down: offsets and lengths wrap at it

ASSUME ConfigAssumption ==
    /\ Keys # {}
    /\ {MAX_FILTERS, MAX_DATA_SIZE, MAX_DATA_BASE58_SIZE, MAX_DATA_BASE64_SIZE, WORD}
           \subseteq Nat \ {0}

(***************************************************************************)
(* ConfigLimits, with the values it has by default                         *)
(***************************************************************************)
Max64 == WORD - 1

DefaultSlots == [max |-> Max64]

DefaultAccounts ==
    [max |-> Max64, any |-> TRUE, account_max |-> Max64, account_reject |-> {},
     owner_max |-> Max64, owner_reject |-> {}, data_slice_max |-> Max64]

DefaultTransactions ==
    [max |-> Max64, any |-> TRUE, account_include_max |-> Max64, account_include_reject |-> {},
     account_exclude_max |-> Max64, account_required_max |-> Max64]

DefaultEntries == [max |-> Max64]

DefaultBlocksMeta == [max |-> Max64]

DefaultBlocks ==
    [max |-> Max64, account_include_max |-> Max64, account_include_any |-> TRUE,
     account_include_reject |-> {}, include_transactions |-> TRUE,
     include_accounts |-> TRUE, include_entries |-> TRUE]

DefaultLimits ==
    [name_max |-> 128, slots |-> DefaultSlots, accounts |-> DefaultAccounts,
     transactions |-> DefaultTransactions, transactions_status |-> DefaultTransactions,
     entries |-> DefaultEntries, blocks_meta |-> DefaultBlocksMeta, blocks |-> DefaultBlocks]

(***************************************************************************)
(* check_filter                                                            *)
(***************************************************************************)
check_names_max(names, max) == \A n \in names : NameLen[n] <= max

check_max(len, max) == len <= max

check_any(is_empty, any) == ~is_empty \/ any

check_pubkey_max(keys, max) == Len(keys) <= max

check_pubkey_reject(keys, reject) == \A i \in DOMAIN keys : keys[i] \notin reject

\* Names and number of filters, which every kind of filter has to respect.
check_size(limits, name_max, names) ==
    check_names_max(names, name_max) /\ check_max(Cardinality(names), limits.max)

\* The filters of one kind, at the positions they have.
OfKind(filters, kind) ==
    [i \in {j \in DOMAIN filters : filters[j].kind = kind} |-> filters[i]]

Count(filters, kind) == Cardinality(DOMAIN OfKind(filters, kind))

check_account_filters(filters) ==
    /\ Len(filters) <= MAX_FILTERS
    /\ \A i \in DOMAIN filters : filters[i].kind = "memcmp" => Len(filters[i].data) <= MAX_DATA_SIZE
    /\ Count(filters, "datasize") <= 1

\* Faulty variant: only the order is checked.
check_data_slices_order(ds) ==
    \A i, j \in DOMAIN ds : i < j => ds[i].offset <= ds[j].offset

\* In order, and none begins before another ends; the end wraps.
check_data_slices(ds) ==
    \A i, j \in DOMAIN ds : i < j =>
        /\ ds[i].offset <= ds[j].offset
        /\ (ds[i].offset + ds[i].length) % WORD <= ds[j].offset

check_accounts(limits, name_max, filters, ds) ==
    /\ check_size(limits, name_max, DOMAIN filters)
    /\ \A n \in DOMAIN filters :
          LET f == filters[n]
          IN /\ check_any(f.account = <<>> /\ f.owner = <<>>, limits.any)
             /\ check_pubkey_max(f.account, limits.account_max)
             /\ check_pubkey_max(f.owner, limits.owner_max)
             /\ check_pubkey_reject(f.account, limits.account_reject)
             /\ check_pubkey_reject(f.owner, limits.owner_reject)
             /\ check_account_filters(f.filters)
    /\ check_max(Len(ds), limits.data_slice_max)
    /\ check_data_slices(ds)

\* Faulty variant: the test on failed is the wrong way round.
AnyTransactionFailed(f) ==
    /\ f.vote = None /\ f.failed # None
    /\ f.account_include = <<>> /\ f.account_exclude = <<>> /\ f.account_required = <<>>

\* The signature is not looked at: a filter with nothing else is refused as any.
AnyTransaction(f) ==
    /\ f.vote = None /\ f.failed = None
    /\ f.account_include = <<>> /\ f.account_exclude = <<>> /\ f.account_required = <<>>

check_transactions(limits, name_max, filters) ==
    /\ check_size(limits, name_max, DOMAIN filters)
    /\ \A n \in DOMAIN filters :
          LET f == filters[n]
          IN /\ check_any(AnyTransaction(f), limits.any)
             /\ check_pubkey_max(f.account_include, limits.account_include_max)
             /\ check_pubkey_max(f.account_exclude, limits.account_exclude_max)
             /\ check_pubkey_max(f.account_required, limits.account_required_max)
             /\ check_pubkey_reject(f.account_include, limits.account_include_reject)

\* include_entries is compared with the limit on accounts.
check_blocks(limits, name_max, filters) ==
    /\ check_size(limits, name_max, DOMAIN filters)
    /\ \A n \in DOMAIN filters :
          LET f == filters[n]
          IN /\ check_any(f.account_include = <<>>, limits.account_include_any)
             /\ check_pubkey_max(f.account_include, limits.account_include_max)
             /\ f.include_transactions = FALSE \/ limits.include_transactions
             /\ f.include_accounts # TRUE \/ limits.include_accounts
             /\ f.include_entries # TRUE \/ limits.include_accounts
             /\ check_pubkey_reject(f.account_include, limits.account_include_reject)

check_filter(limits, c) ==
    /\ check_size(limits.slots, limits.name_max, DOMAIN c.slots)
    /\ check_accounts(limits.accounts, limits.name_max, c.accounts, c.accounts_data_slice)
    /\ check_transactions(limits.transactions, limits.name_max, c.transactions)
    /\ check_transactions(limits.transactions_status, limits.name_max, c.transactions_status)
    /\ check_size(limits.entries, limits.name_max, c.entries)
    /\ check_size(limits.blocks_meta, limits.name_max, c.blocks_meta)
    /\ check_blocks(limits.blocks, limits.name_max, c.blocks)

(***************************************************************************)
(* What a SubscribeRequest holds, valid or not                             *)
(***************************************************************************)
\* The text of a pubkey or a signature; that of None is the text of nothing.
Text(k) == <<"base58", k>>

Texts == {Text(k) : k \in Keys \cup {None}}

Word == 0 .. Max64

Option(S) == S \cup {None}

\* The data of a memcmp; the bytes of a text that is no encoding are None.
MemcmpData == [kind : {"bytes", "base58", "base64"}, len : Nat, bytes : Option(Seq(Nat))]

SubscribeAccountsFilter ==
    [kind : {"memcmp"}, offset : Word, data : Option(MemcmpData)]
    \cup [kind : {"datasize"}, size : Word]
    \cup [kind : {"token_account_state"}, value : BOOLEAN]
    \cup [kind : {"lamports"}, cmp : Option({"eq", "ne", "lt", "gt"}), value : Word]

SubscribeAccounts ==
    [account : Seq(Texts), owner : Seq(Texts), filters : Seq(Option(SubscribeAccountsFilter)),
     nonempty_txn_signature : Option(BOOLEAN)]

SubscribeTransactions ==
    [vote : Option(BOOLEAN), failed : Option(BOOLEAN), signature : Option(Texts),
     account_include : Seq(Texts), account_exclude : Seq(Texts), account_required : Seq(Texts)]

SubscribeBlocks ==
    [account_include : Seq(Texts), include_transactions : Option(BOOLEAN),
     include_accounts : Option(BOOLEAN), include_entries : Option(BOOLEAN)]

\* The maps and sets of names of a request are finite.
IsRequest(r) ==
    /\ IsFiniteSet(DOMAIN r.accounts) /\ IsFiniteSet(DOMAIN r.blocks)
    /\ \A n \in DOMAIN r.accounts : r.accounts[n] \in SubscribeAccounts
    /\ \A n \in DOMAIN r.transactions : r.transactions[n] \in SubscribeTransactions
    /\ \A n \in DOMAIN r.transactions_status : r.transactions_status[n] \in SubscribeTransactions
    /\ \A n \in DOMAIN r.blocks : r.blocks[n] \in SubscribeBlocks
    /\ r.accounts_data_slice \in Seq([offset : Word, length : Word])
    /\ r.commitment \in Option(Int)

\* Option::None is no value of the types that are optional.
ASSUME NoneAssumption ==
    /\ None \notin Keys /\ None \notin {Text(k) : k \in Keys}
    /\ None \notin Int /\ None \notin BOOLEAN /\ None \notin Seq(Nat)
    /\ None \notin {"processed", "confirmed", "finalized", "err", "eq", "ne", "lt", "gt"}
    /\ None \notin MemcmpData /\ None \notin SubscribeAccountsFilter

(***************************************************************************)
(* ConfigFilter::try_from: whether it succeeds, and what it returns        *)
(***************************************************************************)

IsKeyText(s) == s \in {Text(k) : k \in Keys}

parse(s) == s[2]

parse_vec_pubkeys(texts) == [i \in DOMAIN texts |-> parse(texts[i])]

AreKeyTexts(texts) == \A i \in DOMAIN texts : IsKeyText(texts[i])

conv_vec_pubkeys(keys) == [i \in DOMAIN keys |-> Text(keys[i])]

\* filter, data and cmp have to be there; texts are measured before and after
\* they are decoded.
AccountFilterConverts(f) ==
    /\ f # None
    /\ f.kind = "memcmp" =>
          /\ f.data # None
          /\ f.data.kind = "base58" => f.data.len <= MAX_DATA_BASE58_SIZE
          /\ f.data.kind = "base64" => f.data.len <= MAX_DATA_BASE64_SIZE
          /\ f.data.bytes # None /\ Len(f.data.bytes) <= MAX_DATA_SIZE
    /\ f.kind = "token_account_state" => f.value
    /\ f.kind = "lamports" => f.cmp # None

AccountFilter(f) ==
    CASE f.kind = "memcmp" -> [kind |-> "memcmp", offset |-> f.offset, data |-> f.data.bytes]
      [] f.kind = "datasize" -> [kind |-> "datasize", size |-> f.size]
      [] f.kind = "token_account_state" -> [kind |-> "token_account_state"]
      [] f.kind = "lamports" -> [kind |-> "lamports", cmp |-> f.cmp, value |-> f.value]

\* Faulty variant: a comparison comes back as its opposite.
AccountFilterRequestSwapped(f) ==
    CASE f.kind = "memcmp" ->
            [kind |-> "memcmp", offset |-> f.offset,
             data |-> [kind |-> "bytes", len |-> Len(f.data), bytes |-> f.data]]
      [] f.kind = "datasize" -> [kind |-> "datasize", size |-> f.size]
      [] f.kind = "token_account_state" -> [kind |-> "token_account_state", value |-> TRUE]
      [] f.kind = "lamports" ->
            [kind |-> "lamports", value |-> f.value,
             cmp |-> IF f.cmp = "lt" THEN "gt" ELSE f.cmp]

\* From<ConfigFilterAccountsFilter>: data always goes as bytes.
AccountFilterRequest(f) ==
    CASE f.kind = "memcmp" ->
            [kind |-> "memcmp", offset |-> f.offset,
             data |-> [kind |-> "bytes", len |-> Len(f.data), bytes |-> f.data]]
      [] f.kind = "datasize" -> [kind |-> "datasize", size |-> f.size]
      [] f.kind = "token_account_state" -> [kind |-> "token_account_state", value |-> TRUE]
      [] f.kind = "lamports" -> [kind |-> "lamports", cmp |-> f.cmp, value |-> f.value]

AccountsConvert(f) ==
    /\ AreKeyTexts(f.account) /\ AreKeyTexts(f.owner)
    /\ Len(f.filters) <= MAX_FILTERS
    /\ \A i \in DOMAIN f.filters : AccountFilterConverts(f.filters[i])

ConfigFilterAccounts(f) ==
    [account |-> parse_vec_pubkeys(f.account), owner |-> parse_vec_pubkeys(f.owner),
     filters |-> [i \in DOMAIN f.filters |-> AccountFilter(f.filters[i])],
     nonempty_txn_signature |-> f.nonempty_txn_signature]

AccountsRequest(f) ==
    [account |-> conv_vec_pubkeys(f.account), owner |-> conv_vec_pubkeys(f.owner),
     filters |-> [i \in DOMAIN f.filters |-> AccountFilterRequest(f.filters[i])],
     nonempty_txn_signature |-> f.nonempty_txn_signature]

TransactionsConvert(f) ==
    /\ f.signature = None \/ IsKeyText(f.signature)
    /\ AreKeyTexts(f.account_include) /\ AreKeyTexts(f.account_exclude)
    /\ AreKeyTexts(f.account_required)

ConfigFilterTransactions(f) ==
    [vote |-> f.vote, failed |-> f.failed,
     signature |-> IF f.signature = None THEN None ELSE parse(f.signature),
     account_include |-> parse_vec_pubkeys(f.account_include),
     account_exclude |-> parse_vec_pubkeys(f.account_exclude),
     account_required |-> parse_vec_pubkeys(f.account_required)]

TransactionsRequest(f) ==
    [vote |-> f.vote, failed |-> f.failed,
     signature |-> IF f.signature = None THEN None ELSE Text(f.signature),
     account_include |-> conv_vec_pubkeys(f.account_include),
     account_exclude |-> conv_vec_pubkeys(f.account_exclude),
     account_required |-> conv_vec_pubkeys(f.account_required)]

ConfigFilterBlocks(f) == [f EXCEPT !.account_include = parse_vec_pubkeys(@)]

BlocksRequest(f) == [f EXCEPT !.account_include = conv_vec_pubkeys(@)]

\* CommitmentLevel of the protocol by number; the ones after Finalized are not for
\* subscriptions.
CommitmentLevels == <<"processed", "confirmed", "finalized">>

CommitmentConverts(n) == n = None \/ n \in 0 .. 2

CommitmentOf(n) == IF n = None THEN None ELSE CommitmentLevels[n + 1]

CommitmentRequest(c) ==
    IF c = None THEN None ELSE (CHOOSE n \in 0 .. 2 : CommitmentLevels[n + 1] = c)

conv_map(m, Conv(_)) == [n \in DOMAIN m |-> Conv(m[n])]

Converts(r) ==
    /\ \A n \in DOMAIN r.accounts : AccountsConvert(r.accounts[n])
    /\ \A n \in DOMAIN r.transactions : TransactionsConvert(r.transactions[n])
    /\ \A n \in DOMAIN r.transactions_status : TransactionsConvert(r.transactions_status[n])
    /\ \A n \in DOMAIN r.blocks : AreKeyTexts(r.blocks[n].account_include)
    /\ CommitmentConverts(r.commitment)

ConfigFilter(r) ==
    [slots |-> r.slots,
     accounts |-> conv_map(r.accounts, ConfigFilterAccounts),
     accounts_data_slice |-> r.accounts_data_slice,
     transactions |-> conv_map(r.transactions, ConfigFilterTransactions),
     transactions_status |-> conv_map(r.transactions_status, ConfigFilterTransactions),
     entries |-> r.entry, blocks_meta |-> r.blocks_meta,
     blocks |-> conv_map(r.blocks, ConfigFilterBlocks),
     commitment |-> CommitmentOf(r.commitment)]

\* From<ConfigFilter> for SubscribeRequest
SubscribeRequest(c) ==
    [slots |-> c.slots,
     accounts |-> conv_map(c.accounts, AccountsRequest),
     accounts_data_slice |-> c.accounts_data_slice,
     transactions |-> conv_map(c.transactions, TransactionsRequest),
     transactions_status |-> conv_map(c.transactions_status, TransactionsRequest),
     entry |-> c.entries, blocks_meta |-> c.blocks_meta,
     blocks |-> conv_map(c.blocks, BlocksRequest),
     commitment |-> CommitmentRequest(c.commitment),
     ping |-> None, from_slot |-> None]

=============================================================================
