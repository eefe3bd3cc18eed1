------------------------------ MODULE Filters ------------------------------
(***************************************************************************)
(* Filters (filter/src/filter.rs): a request becomes a Filter if it        *)
(* converts and the limits allow it; a message then becomes the updates    *)
(* that the filter lets pass, which are encoded for the client.  The       *)
(* client may be a richat of its own, which parses them again.             *)
(***************************************************************************)
EXTENDS FilterConfig, Selection

INSTANCE FilterMessage

CONSTANTS
    LimitsSet,     \* limits that the operator may configure
    Requests,      \* requests that clients send
    Incoming,      \* SubscribeUpdates of the source
    MAX_ALLOC      \* bytes that can be allocated at once, isize::MAX at most

ASSUME AllocAssumption == MAX_ALLOC \in Nat /\ MAX_ALLOC < WORD

ASSUME RequestAssumption == None \notin Requests /\ \A r \in Requests : IsRequest(r)

\* An account has its fields, and its data is a sequence of bytes.
IsAccount(a) ==
    /\ a = [pubkey |-> a.pubkey, lamports |-> a.lamports, owner |-> a.owner, data |-> a.data,
            txn_signature |-> a.txn_signature]
    /\ a.data \in Seq(Nat)

IsVec(v) == v \in Seq({v[i] : i \in DOMAIN v})

IsUpdate(update) ==
    LET u == update.update_oneof
    IN /\ u.kind = "account" => u.account = None \/ IsAccount(u.account)
       /\ u.kind = "block" =>
             /\ IsVec(u.accounts) /\ \A i \in DOMAIN u.accounts : IsAccount(u.accounts[i])
             /\ IsVec(u.transactions) /\ IsVec(u.entries)

ASSUME IncomingAssumption == None \notin Incoming /\ \A u \in Incoming : IsUpdate(u)

VARIABLES
    limits,    \* the limits that are configured
    request,   \* the last request that was taken, None before
    filter,    \* the Filter made of it
    wire,      \* the SubscribeUpdate that came last, None before
    message,   \* the message it was parsed to, None if it was refused
    updates,   \* what the filter made of the message, None if not asked yet
    panicked   \* an index out of range, an array over its capacity, or no memory

vars == <<limits, request, filter, wire, message, updates, panicked>>

(***************************************************************************)
(* Filter::new                                                             *)
(***************************************************************************)
\* FilterAccountsState::new: the last data size counts, the rest accumulates.
FilterAccountsState(filters) ==
    LET sizes == OfKind(filters, "datasize")
    IN [memcmp |-> OfKind(filters, "memcmp"), lamports |-> OfKind(filters, "lamports"),
        datasize |-> IF DOMAIN sizes = {} THEN None ELSE sizes[Max(DOMAIN sizes)].size,
        token_account_state |-> Count(filters, "token_account_state") # 0]

\* An ArrayVec that is pushed to beyond its capacity panics.
OverCapacity(filters) ==
    \/ Count(filters, "memcmp") > MAX_FILTERS
    \/ Count(filters, "lamports") > MAX_FILTERS
    \/ \E i \in DOMAIN filters : filters[i].kind = "memcmp" /\ Len(filters[i].data) > MAX_DATA_SIZE

FilterSlots(f) ==
    [filter_by_commitment |-> IF f.filter_by_commitment = None THEN FALSE ELSE f.filter_by_commitment]

FilterAccounts(f) ==
    [account |-> ToSet(f.account), owner |-> ToSet(f.owner),
     filters |-> IF f.filters = <<>> THEN None ELSE FilterAccountsState(f.filters),
     nonempty_txn_signature |-> f.nonempty_txn_signature]

FilterTransactions(f) ==
    [f EXCEPT !.account_include = ToSet(@), !.account_exclude = ToSet(@), !.account_required = ToSet(@)]

FilterBlocks(f) == [f EXCEPT !.account_include = ToSet(@)]

\* A range may wrap, and then ends before it starts.
FilterAccountDataSlices(ds) ==
    [i \in DOMAIN ds |-> [start |-> ds[i].offset, end |-> (ds[i].offset + ds[i].length) % WORD]]

NewFilter(c) ==
    [slots |-> conv_map(c.slots, FilterSlots),
     accounts |-> conv_map(c.accounts, FilterAccounts),
     accounts_data_slices |-> FilterAccountDataSlices(c.accounts_data_slice),
     transactions |-> conv_map(c.transactions, FilterTransactions),
     transactions_status |-> conv_map(c.transactions_status, FilterTransactions),
     entries |-> c.entries, blocks_meta |-> c.blocks_meta,
     blocks |-> conv_map(c.blocks, FilterBlocks),
     commitment |-> IF c.commitment = None THEN "processed" ELSE c.commitment]

(***************************************************************************)
(* FilterAccountsState::is_match and FilterAccountDataSlices::get_slice    *)
(***************************************************************************)
\* TokenAccount::valid_account_data, of spl_token_2022, looks at length and state.
valid_account_data(data) == Len(data) >= 3 /\ data[3] = 1

lamports_match(f, lamports) ==
    CASE f.cmp = "eq" -> f.value = lamports
      [] f.cmp = "ne" -> f.value # lamports
      [] f.cmp = "lt" -> f.value > lamports
      [] f.cmp = "gt" -> f.value < lamports

\* data[from..to], which panics unless from <= to <= len.
InBounds(from, to, len) == from <= to /\ to <= len

Bytes(data, from, to) == SubSeq(data, from + 1, to)

MemcmpEnd(f) == (f.offset + Len(f.data)) % WORD

\* The length is compared with a sum that may have wrapped.
MemcmpPanics(f, data) ==
    Len(data) >= MemcmpEnd(f) /\ ~InBounds(f.offset, MemcmpEnd(f), Len(data))

memcmp_match(f, data) ==
    Len(data) >= MemcmpEnd(f) /\ Bytes(data, f.offset, MemcmpEnd(f)) = f.data

\* The tests of the state in their order; the ones before decide first.
BeforeMemcmp(st, lamports, data) ==
    /\ st.datasize # None => Len(data) = st.datasize
    /\ st.token_account_state => valid_account_data(data)
    /\ \A i \in DOMAIN st.lamports : lamports_match(st.lamports[i], lamports)

is_match(st, lamports, data) ==
    BeforeMemcmp(st, lamports, data) /\ \A i \in DOMAIN st.memcmp : memcmp_match(st.memcmp[i], data)

MatchPanics(st, lamports, data) ==
    /\ BeforeMemcmp(st, lamports, data)
    /\ \E i \in DOMAIN st.memcmp :
          /\ MemcmpPanics(st.memcmp[i], data)
          /\ \A j \in DOMAIN st.memcmp : j < i => memcmp_match(st.memcmp[j], data)

\* Faulty variant: a slice that reaches beyond the data is taken all the same.
SliceTakenAlways(r, source) == TRUE

\* Only ranges that end within the data are taken.
SliceTaken(r, source) == Len(source) >= r.end

\* The capacity that is asked for: lengths are added up before any range is tested,
\* in words that wrap.
Capacity(slices) ==
    LET total[i \in 0 .. Len(slices)] ==
            IF i = 0 THEN 0 ELSE (total[i - 1] + (slices[i].end - slices[i].start)) % WORD
    IN total[Len(slices)]

\* What is returned, unless SlicePanics.
get_slice(slices, source) ==
    IF slices = <<>> THEN source
    ELSE FlattenSeq([i \in DOMAIN slices |->
            IF SliceTaken(slices[i], source) THEN Bytes(source, slices[i].start, slices[i].end)
            ELSE <<>>])

\* with_capacity fails, or a range is taken that is none.
SlicePanics(slices, source) ==
    /\ slices # <<>>
    /\ \/ Capacity(slices) > MAX_ALLOC
       \/ \E i \in DOMAIN slices :
             SliceTaken(slices[i], source) /\ ~InBounds(slices[i].start, slices[i].end, Len(source))

(***************************************************************************)
(* get_update: the names of the filters that match                         *)
(***************************************************************************)
SlotMatches(f, m, commitment) == f.filter_by_commitment => m.commitment = commitment

AccountMatches(f, m) ==
    /\ f.account # {} => m.pubkey \in f.account
    /\ f.owner # {} => m.owner \in f.owner
    /\ f.filters # None => is_match(f.filters, m.account.lamports, m.account.data)
    /\ f.nonempty_txn_signature # None => f.nonempty_txn_signature = m.nonempty_txn_signature

AccountPanics(f, m) ==
    /\ f.account # {} => m.pubkey \in f.account
    /\ f.owner # {} => m.owner \in f.owner
    /\ f.filters # None /\ MatchPanics(f.filters, m.account.lamports, m.account.data)

TransactionMatches(f, m) ==
    /\ f.vote # None => f.vote = vote(m)
    /\ f.failed # None => f.failed = failed(m)
    /\ f.signature # None => f.signature = m.signature
    /\ f.account_include # {} => f.account_include \cap m.account_keys # {}
    /\ f.account_exclude \cap m.account_keys = {}
    /\ f.account_required \subseteq m.account_keys

\* A FilteredUpdate, unless no filter matches; names come in any order.
FilteredUpdate(names, update) ==
    IF names = {} THEN <<>> ELSE <<[filters |-> SetToSeq(names), update |-> update]>>

Matching(filters, Matches(_)) == {n \in DOMAIN filters : Matches(filters[n])}

\* Faulty variant: accounts are left out only if the request says so.
BlockAccountsByDefault(f, b) ==
    IF f.include_accounts = FALSE THEN {}
    ELSE {i \in DOMAIN b.accounts : f.account_include # {} => b.accounts[i].pubkey \in f.account_include}

\* The indices of a block's accounts and transactions that a filter takes.
BlockAccounts(f, b) ==
    IF f.include_accounts # TRUE THEN {}
    ELSE {i \in DOMAIN b.accounts : f.account_include # {} => b.accounts[i].pubkey \in f.account_include}

BlockTransactions(f, b) ==
    IF f.include_transactions = FALSE THEN {}
    ELSE {i \in DOMAIN b.transactions :
            f.account_include # {} => f.account_include \cap b.transactions[i].account_keys # {}}

(***************************************************************************)
(* FilteredUpdate::encode: the updates that go out                         *)
(***************************************************************************)
\* Faulty variant: the status is counted from one.
EncodeSlotFromOne(m) ==
    [kind |-> "slot", slot |-> m.slot, parent |-> m.parent, dead_error |-> m.dead_error,
     status |-> CHOOSE i \in DOMAIN ProtoLevels : ProtoLevels[i] = m.commitment]

EncodeSlot(m) ==
    [kind |-> "slot", slot |-> m.slot, parent |-> m.parent, dead_error |-> m.dead_error,
     status |-> (CHOOSE i \in DOMAIN ProtoLevels : ProtoLevels[i] = m.commitment) - 1]

EncodeAccount(m, slices) ==
    [kind |-> "account", slot |-> m.slot, is_startup |-> m.is_startup,
     account |-> [m.account EXCEPT !.data = get_slice(slices, @)]]

EncodeTransaction(m) == [kind |-> "transaction", transaction |-> m.transaction, slot |-> m.slot]

EncodeTransactionStatus(m) ==
    [kind |-> "transaction_status", slot |-> m.slot, signature |-> m.signature,
     is_vote |-> m.transaction.is_vote, err |-> m.error]

\* Counts come from the meta, but for the accounts, which are counted.
EncodeBlock(b, accounts, transactions, entries, slices) ==
    LET meta == b.block_meta.block_meta
        Info(m) == [m.account EXCEPT !.data = get_slice(slices, @)]
    IN [kind |-> "block", slot |-> meta.slot, rest |-> meta.rest,
        executed_transaction_count |-> meta.executed_transaction_count,
        entries_count |-> meta.entries_count, updated_account_count |-> Len(b.accounts),
        transactions |-> [i \in 1 .. Cardinality(transactions) |->
                             Pick(b.transactions, transactions)[i].transaction],
        accounts |-> [i \in 1 .. Cardinality(accounts) |-> Info(Pick(b.accounts, accounts)[i])],
        entries |-> IF entries THEN [i \in DOMAIN b.entries |-> b.entries[i].entry] ELSE <<>>]

\* Every update of a block names its filter eight times.
BlockUpdate(f, n, b, slices) ==
    [filters |-> [i \in 1 .. 8 |-> n],
     update |-> EncodeBlock(b, BlockAccounts(f, b), BlockTransactions(f, b),
                            f.include_entries = TRUE, slices)]

get_updates_ref(f, m, commitment) ==
    CASE m.kind = "slot" ->
            FilteredUpdate(Matching(f.slots, LAMBDA g : SlotMatches(g, m, commitment)), EncodeSlot(m))
      [] m.kind = "account" ->
            FilteredUpdate(Matching(f.accounts, LAMBDA g : AccountMatches(g, m)),
                           EncodeAccount(m, f.accounts_data_slices))
      [] m.kind = "transaction" ->
            FilteredUpdate(Matching(f.transactions, LAMBDA g : TransactionMatches(g, m)),
                           EncodeTransaction(m))
            \o FilteredUpdate(Matching(f.transactions_status, LAMBDA g : TransactionMatches(g, m)),
                              EncodeTransactionStatus(m))
      [] m.kind = "entry" -> FilteredUpdate(f.entries, [kind |-> "entry", entry |-> m.entry])
      [] m.kind = "block_meta" ->
            FilteredUpdate(f.blocks_meta, [kind |-> "block_meta", block_meta |-> m.block_meta])
      [] m.kind = "block" ->
            LET names == SetToSeq(DOMAIN f.blocks)
            IN [i \in DOMAIN names |->
                   BlockUpdate(f.blocks[names[i]], names[i], m, f.accounts_data_slices)]

\* Matching and encoding are one call: what panics there.
UpdatesPanic(f, m) ==
    \/ /\ m.kind = "account"
       /\ \/ \E n \in DOMAIN f.accounts : AccountPanics(f.accounts[n], m)
          \/ /\ \E n \in DOMAIN f.accounts : AccountMatches(f.accounts[n], m)
             /\ SlicePanics(f.accounts_data_slices, m.account.data)
    \/ /\ m.kind = "block"
       /\ \E n \in DOMAIN f.blocks : \E i \in BlockAccounts(f.blocks[n], m) :
             SlicePanics(f.accounts_data_slices, m.accounts[i].account.data)

(***************************************************************************)
(* The pipeline                                                            *)
(***************************************************************************)
Init ==
    /\ limits \in LimitsSet
    /\ request = None /\ filter = None
    /\ wire = None /\ message = None /\ updates = None
    /\ panicked = FALSE

\* GrpcServer::subscribe makes a filter of a request, unless it is refused.  Filters
\* and parser keep no state: one request and one message show what they do.
SetFilter(r) ==
    /\ request = None
    /\ Converts(r) /\ check_filter(limits, ConfigFilter(r))
    /\ request' = r
    /\ filter' = NewFilter(ConfigFilter(r))
    /\ panicked' = \E n \in DOMAIN r.accounts : OverCapacity(ConfigFilter(r).accounts[n].filters)
    /\ UNCHANGED <<limits, wire, message, updates>>

Receive(u) ==
    /\ request # None /\ ~panicked
    /\ wire = None
    /\ wire' = u
    /\ message' = IF Parses(u) THEN Parsed(u) ELSE None
    /\ UNCHANGED <<limits, request, filter, updates, panicked>>

GetUpdates ==
    /\ message # None /\ updates = None
    /\ panicked' = UpdatesPanic(filter, message)
    /\ updates' = IF UpdatesPanic(filter, message) THEN <<>>
                  ELSE get_updates_ref(filter, message, filter.commitment)
    /\ UNCHANGED <<limits, request, filter, wire, message>>

Next ==
    \/ \E r \in Requests : SetFilter(r)
    \/ \E u \in Incoming : Receive(u)
    \/ GetUpdates

Spec == Init /\ [][Next]_vars

(***************************************************************************)
(* Properties                                                              *)
(***************************************************************************)
Config == ConfigFilter(request)

\* Some data slice of the request ends after this many bytes.
SliceEndsAfter(bytes) ==
    \E i \in DOMAIN Config.accounts_data_slice :
        Config.accounts_data_slice[i].offset + Config.accounts_data_slice[i].length > bytes

\* Some comparison of the request ends beyond what a word holds.
MemcmpWraps ==
    \E n \in DOMAIN Config.accounts : \E i \in DOMAIN Config.accounts[n].filters :
        LET f == Config.accounts[n].filters[i]
        IN f.kind = "memcmp" /\ f.offset + Len(f.data) > Max64

\* A request that the limits let pass makes neither Filter::new overflow its arrays
\* nor get_updates index beyond the data or ask for more memory than there can be,
\* unless one of its ranges by itself ends so far off that check_filter should have
\* refused it and does not (config.rs:274, filter.rs:321, :430 and :440): many small
\* slices never add up to such a request, since they may not overlap.
PanicOnlyByHugeRange == panicked => SliceEndsAfter(MAX_ALLOC) \/ MemcmpWraps

\* The accounts in an update, with the data they had and the data they go out with.
SlicedAccounts(u) ==
    CASE message.kind = "account" -> {<<message.account.data, u.update.account.data>>}
      [] message.kind = "block" ->
            LET taken == Pick(message.accounts, BlockAccounts(filter.blocks[u.filters[1]], message))
            IN {<<taken[i].account.data, u.update.accounts[i].data>> : i \in DOMAIN taken}
      [] OTHER -> {}

\* The bytes that the slices ask for and that are there: none twice, in order.
Asked(data) ==
    LET ds == Config.accounts_data_slice
    IN IF ds = <<>> THEN data
       ELSE Pick(data, {b \in DOMAIN data : \E i \in DOMAIN ds :
                           /\ ds[i].offset < b /\ b <= ds[i].offset + ds[i].length
                           /\ ds[i].offset + ds[i].length <= Len(data)})

\* Account data goes out as the bytes the slices cover, each byte once and in its
\* order, in account updates and in blocks alike: get_slice only concatenates, so
\* this rests on the order and overlap checks of the limits.
SlicesSound ==
    updates # None /\ ~SliceEndsAfter(Max64) => \A i \in DOMAIN updates :
        \A pair \in SlicedAccounts(updates[i]) : pair[2] = Asked(pair[1])

\* Transactions that differ in all that filters look at.
AllTransactions ==
    [account_keys : SUBSET Keys, transaction : [is_vote : BOOLEAN], error : {None, "err"},
     signature : Keys]

LeavesSomeOut(f) == \E tx \in AllTransactions : ~TransactionMatches(f, tx)

\* Where the limits do not allow a full stream of transactions or of their statuses,
\* every filter on that stream leaves some transaction out.
NoFullStream ==
    filter # None =>
        /\ ~limits.transactions.any =>
              \A n \in DOMAIN filter.transactions : LeavesSomeOut(filter.transactions[n])
        /\ ~limits.transactions_status.any =>
              \A n \in DOMAIN filter.transactions_status : LeavesSomeOut(filter.transactions_status[n])

\* A filter that a client writes as a request is the same filter for the server:
\* From<ConfigFilter> for SubscribeRequest and back again.
RoundTrip ==
    filter # None =>
        LET again == SubscribeRequest(Config)
        IN Converts(again) /\ ConfigFilter(again) = Config

\* The account is named by the filter n, or its owner is, and the limits do not reject it.
AccountAllowed(account, n) ==
    \/ account.pubkey \in ToSet(Config.accounts[n].account) \ limits.accounts.account_reject
    \/ account.owner \in ToSet(Config.accounts[n].owner) \ limits.accounts.owner_reject

\* The block has only what the limits leave to the filter n: no transactions or no
\* accounts, or those of keys that the filter names.
BlockAllowed(block, n) ==
    LET allowed == ToSet(Config.blocks[n].account_include) \ limits.blocks.account_include_reject
    IN /\ ~limits.blocks.include_transactions => block.transactions = <<>>
       /\ ~limits.blocks.include_accounts => block.accounts = <<>>
       /\ ~limits.blocks.account_include_any =>
             /\ \A i \in DOMAIN block.accounts : block.accounts[i].pubkey \in allowed
             /\ \A i \in DOMAIN block.transactions :
                   gen_account_keys(block.transactions[i]) \cap allowed # {}

\* No update carries what the limits withhold.  check_filter reads the request and
\* get_updates reads the filter, each with its own idea of what an absent field or an
\* empty list means: they have to agree.  Entries are left out, whose limit check_filter
\* does not read (config.rs:442).
LimitsKept ==
    updates # None => \A i \in DOMAIN updates : \A n \in ToSet(updates[i].filters) :
        LET u == updates[i].update
        IN /\ u.kind = "account" /\ ~limits.accounts.any => AccountAllowed(u.account, n)
           /\ u.kind = "block" => BlockAllowed(u, n)

\* The update as the next server gets it.
Sent(u) == [update_oneof |-> u.update, created_at |-> message.created_at]

\* What counts in a comparison of updates: a block is counted anew at each server.
Essence(u) ==
    <<ToSet(u.filters),
      IF u.update.kind = "block" THEN [u.update EXCEPT !.updated_account_count = 0] ELSE u.update>>

\* Without data slices an update is parsed by the next server, and the same filter
\* lets the same pass there; only the status of a transaction is refused.
Refilter ==
    updates # None /\ filter.accounts_data_slices = <<>> => \A i \in DOMAIN updates :
        \/ updates[i].update.kind = "transaction_status" /\ ~Parses(Sent(updates[i]))
        \/ /\ Parses(Sent(updates[i]))
           /\ LET again == get_updates_ref(filter, Parsed(Sent(updates[i])), filter.commitment)
              IN \E j \in DOMAIN again : Essence(again[j]) = Essence(updates[i])

=============================================================================
