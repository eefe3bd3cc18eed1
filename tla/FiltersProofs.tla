--------------------------- MODULE FiltersProofs ---------------------------
(***************************************************************************)
(* Proofs about Filters for all limits, all requests of the protocol and   *)
(* all updates of the source.                                              *)
(***************************************************************************)
EXTENDS Filters, FiniteSetTheorems, SequenceTheorems, WellFoundedInduction, TLAPS

(***************************************************************************)
(* What a request becomes that converts                                    *)
(***************************************************************************)
ConfigAccountsFilter ==
    [kind : {"memcmp"}, offset : Word, data : Seq(Nat)]
    \cup [kind : {"datasize"}, size : Word]
    \cup [kind : {"token_account_state"}]
    \cup [kind : {"lamports"}, cmp : {"eq", "ne", "lt", "gt"}, value : Word]

ConfigAccounts ==
    [account : Seq(Keys), owner : Seq(Keys), filters : Seq(ConfigAccountsFilter),
     nonempty_txn_signature : Option(BOOLEAN)]

ConfigTransactions ==
    [vote : Option(BOOLEAN), failed : Option(BOOLEAN), signature : Option(Keys),
     account_include : Seq(Keys), account_exclude : Seq(Keys), account_required : Seq(Keys)]

ConfigBlocks ==
    [account_include : Seq(Keys), include_transactions : Option(BOOLEAN),
     include_accounts : Option(BOOLEAN), include_entries : Option(BOOLEAN)]

IsConfig(c) ==
    /\ \A n \in DOMAIN c.accounts : c.accounts[n] \in ConfigAccounts
    /\ \A n \in DOMAIN c.transactions : c.transactions[n] \in ConfigTransactions
    /\ \A n \in DOMAIN c.transactions_status : c.transactions_status[n] \in ConfigTransactions
    /\ \A n \in DOMAIN c.blocks : c.blocks[n] \in ConfigBlocks
    /\ c.accounts_data_slice \in Seq([offset : Word, length : Word])
    /\ c.commitment \in Option({"processed", "confirmed", "finalized"})

\* Texts of pubkeys become pubkeys, one for one.
LEMMA ParsedKeys ==
    ASSUME NEW texts \in Seq(Texts), AreKeyTexts(texts)
    PROVE  /\ parse_vec_pubkeys(texts) \in Seq(Keys)
           /\ Len(parse_vec_pubkeys(texts)) = Len(texts)
<1>1. \A i \in DOMAIN texts : parse(texts[i]) \in Keys
    <2>. TAKE i \in DOMAIN texts
    <2>1. PICK k \in Keys : texts[i] = Text(k)
        BY DEF AreKeyTexts, IsKeyText
    <2>. QED
        BY <2>1 DEF Text, parse
<1>2. DOMAIN texts = 1 .. Len(texts) /\ Len(texts) \in Nat
    OBVIOUS
<1>. QED
    BY <1>1, <1>2 DEF parse_vec_pubkeys

\* An account filter keeps what it compares with.
LEMMA AccountFilterTyped ==
    ASSUME NEW f \in Option(SubscribeAccountsFilter), AccountFilterConverts(f)
    PROVE  AccountFilter(f) \in ConfigAccountsFilter
<1>1. f \in SubscribeAccountsFilter
    BY DEF Option, AccountFilterConverts
<1>2. CASE f \in [kind : {"memcmp"}, offset : Word, data : Option(MemcmpData)]
    <2>1. f.kind = "memcmp" /\ f.offset \in Word /\ f.data \in Option(MemcmpData)
        BY <1>2
    <2>2. f.data \in MemcmpData /\ f.data.bytes # None
        BY <2>1 DEF AccountFilterConverts, Option
    <2>3. f.data.bytes \in Seq(Nat)
        BY <2>2 DEF MemcmpData, Option
    <2>4. AccountFilter(f) = [kind |-> "memcmp", offset |-> f.offset, data |-> f.data.bytes]
        BY <2>1 DEF AccountFilter
    <2>. QED
        BY <2>1, <2>3, <2>4 DEF ConfigAccountsFilter
<1>3. CASE f \in [kind : {"datasize"}, size : Word]
    BY <1>3 DEF AccountFilter, ConfigAccountsFilter
<1>4. CASE f \in [kind : {"token_account_state"}, value : BOOLEAN]
    BY <1>4 DEF AccountFilter, ConfigAccountsFilter
<1>5. CASE f \in [kind : {"lamports"}, cmp : Option({"eq", "ne", "lt", "gt"}), value : Word]
    <2>1. f.kind = "lamports" /\ f.cmp \in {"eq", "ne", "lt", "gt"} /\ f.value \in Word
        BY <1>5 DEF AccountFilterConverts, Option
    <2>2. AccountFilter(f) = [kind |-> "lamports", cmp |-> f.cmp, value |-> f.value]
        BY <2>1 DEF AccountFilter
    <2>. QED
        BY <2>1, <2>2 DEF ConfigAccountsFilter
<1>. QED
    BY <1>1, <1>2, <1>3, <1>4, <1>5 DEF SubscribeAccountsFilter

\* An accounts filter that converts is one of the configuration, with its filters in place.
LEMMA AccountsTyped ==
    ASSUME NEW f \in SubscribeAccounts, AccountsConvert(f)
    PROVE  /\ ConfigFilterAccounts(f) \in ConfigAccounts
           /\ DOMAIN ConfigFilterAccounts(f).filters = DOMAIN f.filters
<1>1. /\ f.account \in Seq(Texts) /\ f.owner \in Seq(Texts)
      /\ f.filters \in Seq(Option(SubscribeAccountsFilter))
      /\ f.nonempty_txn_signature \in Option(BOOLEAN)
    BY DEF SubscribeAccounts
<1>2. parse_vec_pubkeys(f.account) \in Seq(Keys) /\ parse_vec_pubkeys(f.owner) \in Seq(Keys)
    BY <1>1, ParsedKeys DEF AccountsConvert
<1>. DEFINE fs == [i \in DOMAIN f.filters |-> AccountFilter(f.filters[i])]
<1>3. \A i \in DOMAIN f.filters : AccountFilter(f.filters[i]) \in ConfigAccountsFilter
    <2>. TAKE i \in DOMAIN f.filters
    <2>1. f.filters[i] \in Option(SubscribeAccountsFilter) /\ AccountFilterConverts(f.filters[i])
        BY <1>1 DEF AccountsConvert
    <2>. QED
        BY <2>1, AccountFilterTyped
<1>4. fs \in Seq(ConfigAccountsFilter) /\ DOMAIN fs = DOMAIN f.filters
    <2>1. DOMAIN f.filters = 1 .. Len(f.filters) /\ Len(f.filters) \in Nat
        BY <1>1
    <2>. QED
        BY <1>3, <2>1
<1>. HIDE DEF fs
<1>5. ConfigFilterAccounts(f) =
          [account |-> parse_vec_pubkeys(f.account), owner |-> parse_vec_pubkeys(f.owner),
           filters |-> fs, nonempty_txn_signature |-> f.nonempty_txn_signature]
    BY DEF ConfigFilterAccounts, fs
<1>. QED
    BY <1>1, <1>2, <1>4, <1>5 DEF SubscribeAccounts, ConfigAccounts

\* A transactions filter that converts is one of the configuration.
LEMMA TransactionsTyped ==
    ASSUME NEW f \in SubscribeTransactions, TransactionsConvert(f)
    PROVE  ConfigFilterTransactions(f) \in ConfigTransactions
<1>1. /\ f.account_include \in Seq(Texts) /\ f.account_exclude \in Seq(Texts)
      /\ f.account_required \in Seq(Texts) /\ f.signature \in Option(Texts)
      /\ f.vote \in Option(BOOLEAN) /\ f.failed \in Option(BOOLEAN)
    BY DEF SubscribeTransactions
<1>2. /\ parse_vec_pubkeys(f.account_include) \in Seq(Keys)
      /\ parse_vec_pubkeys(f.account_exclude) \in Seq(Keys)
      /\ parse_vec_pubkeys(f.account_required) \in Seq(Keys)
    BY <1>1, ParsedKeys DEF TransactionsConvert
<1>. DEFINE sig == IF f.signature = None THEN None ELSE parse(f.signature)
<1>3. sig \in Option(Keys)
    BY DEF TransactionsConvert, IsKeyText, Text, parse, Option
<1>. HIDE DEF sig
<1>4. ConfigFilterTransactions(f) =
          [vote |-> f.vote, failed |-> f.failed, signature |-> sig,
           account_include |-> parse_vec_pubkeys(f.account_include),
           account_exclude |-> parse_vec_pubkeys(f.account_exclude),
           account_required |-> parse_vec_pubkeys(f.account_required)]
    BY DEF ConfigFilterTransactions, sig
<1>. QED
    BY <1>1, <1>2, <1>3, <1>4 DEF SubscribeTransactions, ConfigTransactions

\* A blocks filter whose keys are keys is one of the configuration.
LEMMA BlocksTyped ==
    ASSUME NEW f \in SubscribeBlocks, AreKeyTexts(f.account_include)
    PROVE  ConfigFilterBlocks(f) \in ConfigBlocks
<1>1. f.account_include \in Seq(Texts)
    BY DEF SubscribeBlocks
<1>2. parse_vec_pubkeys(f.account_include) \in Seq(Keys)
    BY <1>1, ParsedKeys
<1>. QED
    BY <1>2 DEF ConfigFilterBlocks, SubscribeBlocks, ConfigBlocks

\* A request that converts becomes a configuration of the types that filters are
\* made for: every key is a key, every comparison has its bytes.
LEMMA ConfigTyped ==
    ASSUME NEW r, IsRequest(r), Converts(r)
    PROVE  IsConfig(ConfigFilter(r))
<1>. DEFINE c == ConfigFilter(r)
<1>1. /\ c.accounts = conv_map(r.accounts, ConfigFilterAccounts)
      /\ c.transactions = conv_map(r.transactions, ConfigFilterTransactions)
      /\ c.transactions_status = conv_map(r.transactions_status, ConfigFilterTransactions)
      /\ c.blocks = conv_map(r.blocks, ConfigFilterBlocks)
      /\ c.accounts_data_slice = r.accounts_data_slice
      /\ c.commitment = CommitmentOf(r.commitment)
    BY DEF ConfigFilter
<1>. HIDE DEF c
<1>2. \A n \in DOMAIN c.accounts : c.accounts[n] \in ConfigAccounts
    BY <1>1, AccountsTyped DEF conv_map, IsRequest, Converts
<1>3. \A n \in DOMAIN c.transactions : c.transactions[n] \in ConfigTransactions
    BY <1>1, TransactionsTyped DEF conv_map, IsRequest, Converts
<1>4. \A n \in DOMAIN c.transactions_status : c.transactions_status[n] \in ConfigTransactions
    BY <1>1, TransactionsTyped DEF conv_map, IsRequest, Converts
<1>5. \A n \in DOMAIN c.blocks : c.blocks[n] \in ConfigBlocks
    BY <1>1, BlocksTyped DEF conv_map, IsRequest, Converts
<1>6. c.commitment \in Option({"processed", "confirmed", "finalized"})
    BY <1>1 DEF CommitmentOf, CommitmentLevels, Converts, CommitmentConverts, Option
<1>7. c.accounts_data_slice \in Seq([offset : Word, length : Word])
    BY <1>1 DEF IsRequest
<1>8. IsConfig(c)
    BY <1>2, <1>3, <1>4, <1>5, <1>6, <1>7 DEF IsConfig
<1>. QED
    BY <1>8 DEF c

(***************************************************************************)
(* What may panic                                                          *)
(***************************************************************************)
\* The filters of one kind are no more than all filters.
LEMMA CountBound ==
    ASSUME NEW S, NEW filters \in Seq(S), NEW kind
    PROVE  Count(filters, kind) \in Nat /\ Count(filters, kind) <= Len(filters)
<1>1. DOMAIN filters = 1 .. Len(filters) /\ Len(filters) \in Nat
    OBVIOUS
<1>2. IsFiniteSet(DOMAIN filters) /\ Cardinality(DOMAIN filters) = Len(filters)
    BY <1>1, FS_Interval, 1 .. Len(filters) # {} => Len(filters) >= 1
<1>3. DOMAIN OfKind(filters, kind) \subseteq DOMAIN filters
    BY DEF OfKind
<1>. QED
    BY <1>2, <1>3, FS_Subset, FS_CardinalityType DEF Count

\* Filter::new stays within its arrays: check_filter has counted before.
LEMMA WithinCapacity ==
    ASSUME NEW c, NEW lims, IsConfig(c), check_filter(lims, c), NEW n \in DOMAIN c.accounts
    PROVE  ~OverCapacity(c.accounts[n].filters)
<1>1. c.accounts[n].filters \in Seq(ConfigAccountsFilter)
    BY DEF IsConfig, ConfigAccounts
<1>2. check_account_filters(c.accounts[n].filters)
    BY DEF check_filter, check_accounts
<1>. DEFINE fs == c.accounts[n].filters
<1>3. /\ Count(fs, "memcmp") \in Nat /\ Count(fs, "memcmp") <= Len(fs)
      /\ Count(fs, "lamports") \in Nat /\ Count(fs, "lamports") <= Len(fs)
    BY <1>1, CountBound
<1>4. MAX_FILTERS \in Nat /\ MAX_DATA_SIZE \in Nat /\ Len(fs) \in Nat
    BY <1>1, ConfigAssumption
<1>5. ASSUME NEW i \in DOMAIN fs, fs[i].kind = "memcmp"
      PROVE  Len(fs[i].data) \in Nat /\ Len(fs[i].data) <= MAX_DATA_SIZE
    <2>1. fs[i].data \in Seq(Nat)
        BY <1>1, <1>5 DEF ConfigAccountsFilter
    <2>. QED
        BY <1>2, <1>5, <2>1 DEF check_account_filters
<1>. HIDE DEF fs
<1>6. ~OverCapacity(fs)
    <2>1. Len(fs) <= MAX_FILTERS
        BY <1>2 DEF check_account_filters, fs
    <2>. QED
        BY <1>3, <1>4, <1>5, <2>1 DEF OverCapacity
<1>. QED
    BY <1>6 DEF fs

\* A sum that does not wrap stays above its parts.
LEMMA NoWrap ==
    ASSUME NEW a \in Nat, NEW b \in Nat, a + b < WORD
    PROVE  (a + b) % WORD = a + b /\ a <= (a + b) % WORD
<1>1. WORD \in Nat /\ WORD > 0
    BY ConfigAssumption
<1>. QED
    BY <1>1

\* A nonempty set of natural numbers has a least element.
LEMMA LeastOf ==
    ASSUME NEW T \in SUBSET Nat, T # {}
    PROVE  \E x \in T : \A y \in T : x <= y
<1>1. PICK x \in T : \A y \in T : <<y, x>> \notin OpToRel(<, Nat)
    BY NatLessThanWellFounded, WFMin
<1>2. \A y \in T : ~(y < x)
    BY <1>1 DEF OpToRel
<1>. QED
    BY <1>2

\* f are the sums of the lengths of the first slices, for up to n of them.
Totals(f, slices, n) ==
    /\ f[0] = 0
    /\ \A i \in 1 .. n : f[i] = (f[i - 1] + (slices[i].end - slices[i].start)) % WORD

\* The sums exist: no number of slices is the first for which they do not.
LEMMA TotalsExist ==
    ASSUME NEW slices, NEW N \in Nat
    PROVE  \E f : Totals(f, slices, N)
<1>. PICK T : T = {n \in Nat : ~\E f : Totals(f, slices, n)}
    OBVIOUS
<1>1. ASSUME T # {} PROVE FALSE
    <2>1. T \in SUBSET Nat
        OBVIOUS
    <2>2. PICK n \in T : \A y \in T : n <= y
        BY <1>1, <2>1, LeastOf
    <2>3. n \in Nat /\ ~\E f : Totals(f, slices, n)
        OBVIOUS
    <2>4. n # 0
        <3>1. [i \in {0} |-> 0][0] = 0
            OBVIOUS
        <3>2. Totals([i \in {0} |-> 0], slices, 0)
            BY <3>1 DEF Totals
        <3>. QED
            BY <2>3, <3>2
    <2>5. n - 1 \in Nat /\ ~(n <= n - 1)
        BY <2>3, <2>4
    <2>6. PICK f : Totals(f, slices, n - 1)
        BY <2>2, <2>5
    <2>. PICK last : last = (f[n - 1] + (slices[n].end - slices[n].start)) % WORD
        OBVIOUS
    <2>. PICK g : g = [i \in 0 .. n |-> IF i = n THEN last ELSE f[i]]
        OBVIOUS
    <2>7. g[n] = last /\ \A i \in 0 .. n - 1 : g[i] = f[i]
        BY <2>3
    <2>8. g[0] = 0
        BY <2>5, <2>6, <2>7 DEF Totals
    <2>9. ASSUME NEW i \in 1 .. n
          PROVE  g[i] = (g[i - 1] + (slices[i].end - slices[i].start)) % WORD
        <3>1. i - 1 \in 0 .. n - 1
            BY <2>3
        <3>2. CASE i = n
            BY <2>7, <3>1, <3>2
        <3>3. CASE i # n
            <4>1. i \in 1 .. n - 1 /\ i \in 0 .. n - 1
                BY <2>3, <3>3
            <4>2. f[i] = (f[i - 1] + (slices[i].end - slices[i].start)) % WORD
                BY <2>6, <4>1 DEF Totals
            <4>3. g[i] = f[i] /\ g[i - 1] = f[i - 1]
                BY <2>7, <3>1, <4>1
            <4>. QED
                BY <4>2, <4>3
        <3>. QED
            BY <3>2, <3>3
    <2>10. Totals(g, slices, n)
        BY <2>8, <2>9 DEF Totals
    <2>. QED
        BY <2>3, <2>10
<1>. QED
    BY <1>1

\* The capacity that get_slice asks for is the last of the sums.
LEMMA CapacityIs ==
    ASSUME NEW slices, Len(slices) \in Nat
    PROVE  \E f : Totals(f, slices, Len(slices)) /\ Capacity(slices) = f[Len(slices)]
<1>. DEFINE Is(f) == f = [i \in 0 .. Len(slices) |->
                IF i = 0 THEN 0 ELSE (f[i - 1] + (slices[i].end - slices[i].start)) % WORD]
            F == CHOOSE f : Is(f)
<1>1. Capacity(slices) = F[Len(slices)]
    BY DEF Capacity
<1>2. Is(F)
    <2>1. PICK f : Totals(f, slices, Len(slices))
        BY TotalsExist
    <2>. PICK g : g = [i \in 0 .. Len(slices) |-> f[i]]
        OBVIOUS
    <2>2. ASSUME NEW i \in 0 .. Len(slices)
          PROVE  g[i] = IF i = 0 THEN 0
                        ELSE (g[i - 1] + (slices[i].end - slices[i].start)) % WORD
        <3>1. CASE i = 0
            BY <2>1, <3>1 DEF Totals
        <3>2. CASE i # 0
            <4>1. i \in 1 .. Len(slices) /\ i - 1 \in 0 .. Len(slices)
                BY <3>2
            <4>2. f[i] = (f[i - 1] + (slices[i].end - slices[i].start)) % WORD
                BY <2>1, <4>1 DEF Totals
            <4>3. g[i] = f[i] /\ g[i - 1] = f[i - 1]
                BY <4>1
            <4>. QED
                BY <3>2, <4>2, <4>3
        <3>. QED
            BY <3>1, <3>2
    <2>3. Is(g)
        BY <2>2
    <2>. QED
        BY <2>3
<1>. HIDE DEF F
<1>3. F[0] = 0
    BY <1>2
<1>4. \A i \in 1 .. Len(slices) :
          F[i] = (F[i - 1] + (slices[i].end - slices[i].start)) % WORD
    BY <1>2
<1>5. Totals(F, slices, Len(slices))
    BY <1>3, <1>4 DEF Totals
<1>. QED
    BY <1>1, <1>5

\* Slices that check_filter lets pass.
CheckedSlices(ds) == ds \in Seq([offset : Word, length : Word]) /\ check_data_slices(ds)

\* A slice becomes the range from its offset to its end, where the sum does not wrap.
LEMMA SliceFields ==
    ASSUME NEW ds, CheckedSlices(ds), NEW k \in DOMAIN ds, ds[k].offset + ds[k].length < WORD
    PROVE  /\ ds[k].offset \in Nat /\ ds[k].length \in Nat
           /\ FilterAccountDataSlices(ds)[k].start = ds[k].offset
           /\ FilterAccountDataSlices(ds)[k].end = ds[k].offset + ds[k].length
<1>. PICK S : S = [offset : Word, length : Word]
    OBVIOUS
<1>1. ds \in Seq(S)
    BY DEF CheckedSlices
<1>2. ds[k] \in S
    BY ONLY <1>1, k \in DOMAIN ds
<1>3. ds[k].offset \in Nat /\ ds[k].length \in Nat
    BY <1>2, ConfigAssumption DEF Word, Max64
<1>4. (ds[k].offset + ds[k].length) % WORD = ds[k].offset + ds[k].length
    BY <1>3, NoWrap
<1>. QED
    BY <1>3, <1>4 DEF FilterAccountDataSlices

\* As long as no slice ends beyond what can be allocated, the sum of the first lengths
\* does not exceed the end of the last of them: the next slice begins behind it.
LEMMA CapacityBound ==
    ASSUME NEW ds, CheckedSlices(ds), ds # <<>>,
           \A i \in DOMAIN ds : ds[i].offset + ds[i].length <= MAX_ALLOC
    PROVE  ~(Capacity(FilterAccountDataSlices(ds)) > MAX_ALLOC)
<1>. PICK slices : slices = FilterAccountDataSlices(ds)
    OBVIOUS
<1>. PICK n : n = Len(ds)
    OBVIOUS
<1>1. DOMAIN ds = 1 .. n /\ n \in Nat /\ n # 0
    <2>. PICK S : S = [offset : Word, length : Word]
        OBVIOUS
    <2>1. ds \in Seq(S)
        BY DEF CheckedSlices
    <2>. QED
        BY ONLY <2>1, ds # <<>>, n = Len(ds)
<1>2. Len(slices) = n
    BY <1>1 DEF FilterAccountDataSlices
<1>3. WORD \in Nat /\ MAX_ALLOC \in Nat /\ MAX_ALLOC < WORD
    BY ConfigAssumption, AllocAssumption
<1>4. ASSUME NEW i \in 1 .. n
      PROVE  /\ ds[i].offset \in Nat /\ ds[i].length \in Nat
             /\ ds[i].offset + ds[i].length <= MAX_ALLOC
             /\ slices[i].start = ds[i].offset /\ slices[i].end = ds[i].offset + ds[i].length
    <2>1. ds[i].offset \in Nat /\ ds[i].length \in Nat
        <3>. PICK S : S = [offset : Word, length : Word]
            OBVIOUS
        <3>1. ds \in Seq(S) /\ i \in DOMAIN ds
            BY <1>1 DEF CheckedSlices
        <3>2. ds[i] \in S
            BY ONLY <3>1
        <3>. QED
            BY <3>2, ConfigAssumption DEF Word, Max64
    <2>2. ds[i].offset + ds[i].length < WORD
        BY <1>1, <1>3, <2>1
    <2>. QED
        BY <1>1, <2>2, SliceFields
<1>5. \A i \in 2 .. n : ds[i - 1].offset + ds[i - 1].length <= ds[i].offset
    <2>. TAKE i \in 2 .. n
    <2>1. i - 1 \in 1 .. n /\ i \in 1 .. n /\ i - 1 < i
        BY <1>1
    <2>2. (ds[i - 1].offset + ds[i - 1].length) % WORD <= ds[i].offset
        BY <1>1, <2>1 DEF CheckedSlices, check_data_slices
    <2>3. (ds[i - 1].offset + ds[i - 1].length) % WORD = ds[i - 1].offset + ds[i - 1].length
        <3>1. ds[i - 1].offset + ds[i - 1].length < WORD
            BY <1>3, <1>4, <2>1
        <3>. QED
            BY <1>4, <2>1, <3>1, NoWrap
    <2>. QED
        BY <2>2, <2>3
<1>6. PICK f : Totals(f, slices, n) /\ Capacity(slices) = f[n]
    BY <1>1, <1>2, CapacityIs
<1>. DEFINE Bounded(i) == f[i] \in Nat /\ f[i] <= ds[i].offset + ds[i].length
<1>. PICK T : T = {i \in 1 .. n : ~Bounded(i)}
    OBVIOUS
<1>7. ASSUME T # {} PROVE FALSE
    <2>1. T \in SUBSET Nat
        BY <1>1
    <2>2. PICK x \in T : \A y \in T : x <= y
        BY <1>7, <2>1, LeastOf
    <2>3. x \in 1 .. n /\ ~Bounded(x)
        OBVIOUS
    <2>4. f[x] = (f[x - 1] + ds[x].length) % WORD
        <3>1. f[x] = (f[x - 1] + (slices[x].end - slices[x].start)) % WORD
            BY <1>6, <2>3 DEF Totals
        <3>2. slices[x].end - slices[x].start = ds[x].length
            BY <1>4, <2>3
        <3>. QED
            BY <3>1, <3>2
    <2>5. f[x - 1] \in Nat /\ f[x - 1] <= ds[x].offset
        <3>1. CASE x = 1
            BY <1>4, <1>6, <2>3, <3>1 DEF Totals
        <3>2. CASE x # 1
            <4>1. x \in 2 .. n /\ x - 1 \in 1 .. n /\ ~(x <= x - 1)
                BY <1>1, <2>3, <3>2
            <4>2. x - 1 \notin T
                BY <2>2, <4>1
            <4>3. Bounded(x - 1)
                BY <4>1, <4>2
            <4>. QED
                BY <1>4, <1>5, <2>3, <4>1, <4>3
        <3>. QED
            BY <3>1, <3>2
    <2>6. /\ ds[x].offset \in Nat /\ ds[x].length \in Nat
          /\ ds[x].offset + ds[x].length <= MAX_ALLOC
        BY <1>4, <2>3
    <2>7. f[x - 1] + ds[x].length < WORD
        BY <1>3, <2>5, <2>6
    <2>8. f[x] = f[x - 1] + ds[x].length
        BY <2>4, <2>5, <2>6, <2>7, NoWrap
    <2>. QED
        BY <2>3, <2>5, <2>6, <2>8
<1>8. n \in 1 .. n
    BY <1>1
<1>9. Bounded(n)
    BY <1>7, <1>8
<1>. QED
    BY <1>3, <1>4, <1>6, <1>8, <1>9

\* get_slice fails only if a slice ends beyond what can be allocated: a range that ends
\* within the data begins before it ends, and the lengths do not add up to more.
LEMMA SlicesPanic ==
    ASSUME NEW ds, CheckedSlices(ds), NEW source,
           SlicePanics(FilterAccountDataSlices(ds), source)
    PROVE  \E i \in DOMAIN ds : ds[i].offset + ds[i].length > MAX_ALLOC
<1>. PICK slices : slices = FilterAccountDataSlices(ds)
    OBVIOUS
<1>. SUFFICES ASSUME ~\E i \in DOMAIN ds : ds[i].offset + ds[i].length > MAX_ALLOC
              PROVE  FALSE
    OBVIOUS
<1>1. WORD \in Nat /\ MAX_ALLOC \in Nat /\ MAX_ALLOC < WORD
    BY ConfigAssumption, AllocAssumption
<1>2. DOMAIN slices = DOMAIN ds
    BY DEF FilterAccountDataSlices
<1>3. ds # <<>>
    BY <1>2 DEF SlicePanics, FilterAccountDataSlices
<1>4. ASSUME NEW i \in DOMAIN ds
      PROVE  /\ ds[i].offset + ds[i].length <= MAX_ALLOC
             /\ slices[i].start <= slices[i].end
    <2>1. ds[i].offset \in Nat /\ ds[i].length \in Nat
        <3>. PICK S : S = [offset : Word, length : Word]
            OBVIOUS
        <3>1. ds \in Seq(S)
            BY DEF CheckedSlices
        <3>2. ds[i] \in S
            BY ONLY <3>1, i \in DOMAIN ds
        <3>. QED
            BY <3>2, ConfigAssumption DEF Word, Max64
    <2>2. ds[i].offset + ds[i].length <= MAX_ALLOC /\ ds[i].offset + ds[i].length < WORD
        BY <1>1, <2>1
    <2>3. slices[i].start = ds[i].offset /\ slices[i].end = ds[i].offset + ds[i].length
        BY <2>2, SliceFields
    <2>. QED
        BY <2>1, <2>2, <2>3
<1>5. ~(Capacity(slices) > MAX_ALLOC)
    BY <1>3, <1>4, CapacityBound
<1>6. PICK i \in DOMAIN ds :
          SliceTaken(slices[i], source) /\ ~InBounds(slices[i].start, slices[i].end, Len(source))
    BY <1>2, <1>5 DEF SlicePanics
<1>. QED
    BY <1>4, <1>6 DEF SliceTaken, InBounds

\* A comparison that ends within the data begins before it ends, unless it wraps.
LEMMA ComparesPanic ==
    ASSUME NEW fs \in Seq(ConfigAccountsFilter), NEW lamports, NEW data,
           MatchPanics(FilterAccountsState(fs), lamports, data)
    PROVE  \E i \in DOMAIN fs : fs[i].kind = "memcmp" /\ fs[i].offset + Len(fs[i].data) > Max64
<1>. DEFINE st == FilterAccountsState(fs)
<1>0. st.memcmp = OfKind(fs, "memcmp")
    BY DEF FilterAccountsState
<1>1. PICK i \in DOMAIN st.memcmp : MemcmpPanics(st.memcmp[i], data)
    BY DEF MatchPanics
<1>. HIDE DEF st
<1>2. i \in DOMAIN fs /\ st.memcmp[i] = fs[i] /\ fs[i].kind = "memcmp"
    BY <1>0, <1>1 DEF OfKind
<1>3. fs[i].offset \in Nat /\ Len(fs[i].data) \in Nat /\ WORD \in Nat
    <2>1. fs[i] \in ConfigAccountsFilter
        BY <1>2
    <2>2. fs[i].offset \in Word /\ fs[i].data \in Seq(Nat)
        BY <1>2, <2>1 DEF ConfigAccountsFilter
    <2>. QED
        BY <2>2, ConfigAssumption DEF Word, Max64
<1>4. CASE fs[i].offset + Len(fs[i].data) < WORD
    <2>1. fs[i].offset <= MemcmpEnd(fs[i])
        BY <1>3, <1>4, NoWrap DEF MemcmpEnd
    <2>. QED
        BY <1>1, <1>2, <2>1 DEF MemcmpPanics, InBounds
<1>. QED
    BY <1>2, <1>3, <1>4 DEF Max64

\* Some range of the request ends too far off.
HugeRange == SliceEndsAfter(MAX_ALLOC) \/ MemcmpWraps

\* get_updates panics only where a range of the request ends too far off.
LEMMA UpdatesPanicHuge ==
    ASSUME IsConfig(Config), check_filter(limits, Config), filter = NewFilter(Config),
           UpdatesPanic(filter, message)
    PROVE  HugeRange
<1>. DEFINE ds == Config.accounts_data_slice
<1>1. /\ filter.accounts = conv_map(Config.accounts, FilterAccounts)
      /\ filter.accounts_data_slices = FilterAccountDataSlices(ds)
    BY DEF NewFilter
<1>2. CheckedSlices(ds)
    BY DEF IsConfig, CheckedSlices, check_filter, check_accounts
<1>3. ASSUME NEW source, SlicePanics(filter.accounts_data_slices, source)
      PROVE  HugeRange
    BY <1>1, <1>2, <1>3, SlicesPanic DEF HugeRange, SliceEndsAfter
<1>4. ASSUME NEW n \in DOMAIN filter.accounts, AccountPanics(filter.accounts[n], message)
      PROVE  HugeRange
    <2>1. n \in DOMAIN Config.accounts /\ filter.accounts[n] = FilterAccounts(Config.accounts[n])
        BY <1>1, <1>4 DEF conv_map
    <2>. DEFINE fs == Config.accounts[n].filters
    <2>2. fs \in Seq(ConfigAccountsFilter)
        BY <2>1 DEF IsConfig, ConfigAccounts
    <2>3. /\ FilterAccounts(Config.accounts[n]).filters # None
          /\ MatchPanics(FilterAccounts(Config.accounts[n]).filters, message.account.lamports,
                         message.account.data)
        BY <1>4, <2>1 DEF AccountPanics
    <2>4. FilterAccounts(Config.accounts[n]).filters = FilterAccountsState(fs)
        BY <2>3 DEF FilterAccounts
    <2>5. \E i \in DOMAIN fs : fs[i].kind = "memcmp" /\ fs[i].offset + Len(fs[i].data) > Max64
        BY <2>2, <2>3, <2>4, ComparesPanic
    <2>. QED
        BY <2>1, <2>5 DEF HugeRange, MemcmpWraps
<1>. QED
    BY <1>3, <1>4 DEF UpdatesPanic

(***************************************************************************)
(* The inductive invariant: a filter is made of a request that converts    *)
(* and that the limits let pass, and nothing else changes it.              *)
(***************************************************************************)
Accepted ==
    /\ request \in Requests
    /\ Converts(request)
    /\ check_filter(limits, Config)
    /\ filter = NewFilter(Config)

FilterInv ==
    /\ request # None => Accepted
    /\ filter # None => request # None
    /\ wire # None => request # None
    /\ message # None => wire # None
    /\ updates # None => message # None
    /\ panicked => request # None /\ HugeRange

\* An accepted request has a configuration of the right types.
LEMMA AcceptedTyped == Accepted => IsConfig(Config)
BY ConfigTyped, RequestAssumption DEF Accepted, Config

\* Setting the filter of a request establishes the invariant for it.
LEMMA SetFilterInv ==
    ASSUME FilterInv, NEW r \in Requests, SetFilter(r)
    PROVE  FilterInv'
<1>1. /\ request = None /\ Converts(r) /\ check_filter(limits, ConfigFilter(r))
      /\ request' = r /\ filter' = NewFilter(ConfigFilter(r))
      /\ UNCHANGED <<limits, wire, message, updates>>
      /\ panicked' = \E n \in DOMAIN r.accounts : OverCapacity(ConfigFilter(r).accounts[n].filters)
    BY DEF SetFilter
<1>2. Config' = ConfigFilter(r)
    BY <1>1 DEF Config
<1>3. Accepted'
    BY <1>1, <1>2 DEF Accepted
<1>4. request' # None
    BY <1>1, RequestAssumption
<1>5. ~panicked'
    <2>1. IsConfig(ConfigFilter(r))
        BY <1>1, ConfigTyped, RequestAssumption
    <2>2. DOMAIN r.accounts = DOMAIN ConfigFilter(r).accounts
        BY DEF ConfigFilter, conv_map
    <2>. QED
        BY <1>1, <2>1, <2>2, WithinCapacity
<1>6. wire' = None /\ message' = None /\ updates' = None
    BY <1>1 DEF FilterInv
<1>. QED
    BY <1>3, <1>4, <1>5, <1>6 DEF FilterInv

\* The request and its filter stay what they are once they are set.
LEMMA KeepsAccepted ==
    ASSUME UNCHANGED <<limits, request, filter>>
    PROVE  Accepted' = Accepted /\ HugeRange' = HugeRange
<1>1. Config' = Config
    BY DEF Config
<1>. QED
    BY <1>1 DEF Accepted, HugeRange, SliceEndsAfter, MemcmpWraps

\* Every step keeps the filter that of an accepted request.
LEMMA FilterStepInv == FilterInv /\ [Next]_vars => FilterInv'
<1>. SUFFICES ASSUME FilterInv, [Next]_vars PROVE FilterInv'
    OBVIOUS
<1>1. ASSUME NEW r \in Requests, SetFilter(r) PROVE FilterInv'
    BY <1>1, SetFilterInv
<1>2. ASSUME NEW u \in Incoming, Receive(u) PROVE FilterInv'
    <2>1. Accepted' = Accepted /\ HugeRange' = HugeRange
        BY <1>2, KeepsAccepted DEF Receive
    <2>2. /\ request # None /\ request' = request /\ filter' = filter
          /\ updates' = updates /\ panicked' = panicked
          /\ wire = None /\ wire' # None
        BY <1>2, IncomingAssumption DEF Receive
    <2>. QED
        BY <2>1, <2>2, Zenon DEF FilterInv
<1>3. ASSUME GetUpdates PROVE FilterInv'
    <2>1. Accepted' = Accepted /\ HugeRange' = HugeRange
        BY <1>3, KeepsAccepted DEF GetUpdates
    <2>2. Accepted /\ message # None /\ request # None
        BY <1>3 DEF FilterInv, GetUpdates
    <2>3. panicked' => HugeRange
        BY <1>3, <2>2, AcceptedTyped, UpdatesPanicHuge DEF GetUpdates, Accepted
    <2>4. UNCHANGED <<request, filter, wire, message>>
        BY <1>3 DEF GetUpdates
    <2>. QED
        BY <2>1, <2>2, <2>3, <2>4, Zenon DEF FilterInv
<1>4. ASSUME UNCHANGED vars PROVE FilterInv'
    <2>1. Accepted' = Accepted /\ HugeRange' = HugeRange
        BY <1>4, KeepsAccepted DEF vars
    <2>. QED
        BY <1>4, <2>1 DEF FilterInv, vars
<1>. QED
    BY <1>1, <1>2, <1>3, <1>4 DEF Next

\* A filter stays the one of an accepted request.
THEOREM FilterInvariant == Spec => []FilterInv
<1>1. Init => FilterInv
    BY DEF Init, FilterInv
<1>. QED
    BY <1>1, FilterStepInv, PTL DEF Spec

\* Neither Filter::new nor get_updates panics, for all limits, requests and updates,
\* unless a slice of the request ends beyond what can be allocated or a comparison
\* beyond what a word holds.
THEOREM PanicTheorem == Spec => []PanicOnlyByHugeRange
<1>1. FilterInv => PanicOnlyByHugeRange
    BY DEF FilterInv, PanicOnlyByHugeRange, HugeRange
<1>. QED
    BY <1>1, FilterInvariant, PTL

(***************************************************************************)
(* Full streams                                                            *)
(***************************************************************************)
LEMMA KeysOf ==
    ASSUME NEW keys \in Seq(Keys)
    PROVE  ToSet(keys) \subseteq Keys /\ (keys # <<>> => ToSet(keys) # {})
<1>1. DOMAIN keys = 1 .. Len(keys) /\ Len(keys) \in Nat
    OBVIOUS
<1>2. ToSet(keys) \subseteq Keys
    BY DEF ToSet
<1>3. ASSUME keys # <<>> PROVE keys[1] \in ToSet(keys)
    <2>1. Len(keys) # 0
        BY <1>3
    <2>. QED
        BY <1>1, <2>1 DEF ToSet
<1>. QED
    BY <1>2, <1>3

\* A transaction with these properties, as far as filters look at them.
Tx(keys, is_vote, error, signature) ==
    [account_keys |-> keys, transaction |-> [is_vote |-> is_vote], error |-> error,
     signature |-> signature]

\* Tx is a transaction of the model with the keys and the flags asked for.
LEMMA TxExists ==
    ASSUME NEW keys \in SUBSET Keys, NEW v \in BOOLEAN, NEW e \in {None, "err"}, NEW k \in Keys
    PROVE  /\ Tx(keys, v, e, k) \in AllTransactions
           /\ Tx(keys, v, e, k).account_keys = keys
           /\ vote(Tx(keys, v, e, k)) = v
           /\ failed(Tx(keys, v, e, k)) = (e # None)
<1>1. /\ Tx(keys, v, e, k).account_keys = keys
      /\ Tx(keys, v, e, k).transaction = [is_vote |-> v]
      /\ Tx(keys, v, e, k).error = e
    BY DEF Tx
<1>2. vote(Tx(keys, v, e, k)) = v
    BY <1>1 DEF vote
<1>3. failed(Tx(keys, v, e, k)) = (e # None)
    BY <1>1 DEF failed
<1>4. Tx(keys, v, e, k) \in AllTransactions
    <2>1. [is_vote |-> v] \in [is_vote : BOOLEAN]
        OBVIOUS
    <2>. QED
        BY <2>1 DEF Tx, AllTransactions
<1>. QED
    BY <1>1, <1>2, <1>3, <1>4

\* A transaction filter that tests anything but the signature leaves some
\* transaction out.
LEMMA TestedLeavesOut ==
    ASSUME NEW c \in ConfigTransactions, ~AnyTransaction(c)
    PROVE  LeavesSomeOut(FilterTransactions(c))
<1>. DEFINE f == FilterTransactions(c)
<1>1. /\ c.vote \in Option(BOOLEAN) /\ c.failed \in Option(BOOLEAN)
      /\ c.account_include \in Seq(Keys) /\ c.account_exclude \in Seq(Keys)
      /\ c.account_required \in Seq(Keys)
    BY DEF ConfigTransactions
<1>2. /\ f.vote = c.vote /\ f.failed = c.failed
      /\ f.account_include = ToSet(c.account_include)
      /\ f.account_exclude = ToSet(c.account_exclude)
      /\ f.account_required = ToSet(c.account_required)
    BY DEF ConfigTransactions, FilterTransactions
<1>. HIDE DEF f
<1>3. PICK k : k \in Keys
    BY ConfigAssumption
<1>4. CASE c.vote # None
    <2>1. c.vote \in BOOLEAN
        BY <1>1, <1>4 DEF Option
    <2>2. PICK v \in BOOLEAN : v # c.vote
        BY <2>1
    <2>3. Tx({}, v, None, k) \in AllTransactions /\ vote(Tx({}, v, None, k)) = v
        BY <1>3, TxExists
    <2>4. ~TransactionMatches(f, Tx({}, v, None, k))
        BY <1>2, <1>4, <2>2, <2>3, Zenon DEF TransactionMatches
    <2>. QED
        BY <2>3, <2>4, Zenon DEF f, LeavesSomeOut
<1>5. CASE c.failed # None
    <2>1. c.failed \in BOOLEAN
        BY <1>1, <1>5 DEF Option
    <2>2. PICK e \in {None, "err"} : (e # None) # c.failed
        <3>1. "err" # None
            BY NoneAssumption
        <3>2. CASE c.failed = TRUE
            BY <3>2, Zenon
        <3>3. CASE c.failed = FALSE
            BY <3>1, <3>3, Zenon
        <3>. QED
            BY <2>1, <3>2, <3>3
    <2>3. Tx({}, TRUE, e, k) \in AllTransactions /\ failed(Tx({}, TRUE, e, k)) = (e # None)
        BY <1>3, TxExists
    <2>4. ~TransactionMatches(f, Tx({}, TRUE, e, k))
        BY <1>2, <1>5, <2>2, <2>3, Zenon DEF TransactionMatches
    <2>. QED
        BY <2>3, <2>4, Zenon DEF f, LeavesSomeOut
<1>6. CASE c.account_include # <<>> \/ c.account_required # <<>>
    <2>1. ToSet(c.account_include) # {} \/ ToSet(c.account_required) # {}
        BY <1>1, <1>6, KeysOf
    <2>2. Tx({}, TRUE, None, k) \in AllTransactions /\ Tx({}, TRUE, None, k).account_keys = {}
        BY <1>3, TxExists
    <2>3. ~TransactionMatches(f, Tx({}, TRUE, None, k))
        BY <1>2, <2>1, <2>2 DEF TransactionMatches
    <2>. QED
        BY <2>2, <2>3, Zenon DEF f, LeavesSomeOut
<1>7. CASE c.account_exclude # <<>>
    <2>. PICK keys : keys = ToSet(c.account_exclude)
        OBVIOUS
    <2>1. keys # {} /\ keys \in SUBSET Keys
        BY <1>1, <1>7, KeysOf
    <2>2. Tx(keys, TRUE, None, k) \in AllTransactions /\ Tx(keys, TRUE, None, k).account_keys = keys
        BY <1>3, <2>1, TxExists
    <2>3. ~TransactionMatches(f, Tx(keys, TRUE, None, k))
        BY <1>2, <2>1, <2>2 DEF TransactionMatches
    <2>. QED
        BY <2>2, <2>3, Zenon DEF f, LeavesSomeOut
<1>. QED
    BY <1>4, <1>5, <1>6, <1>7 DEF AnyTransaction

\* Where the limits refuse a full stream, no filter lets everything pass: what
\* check_filter tests on the configuration holds of the sets that Filter::new makes.
THEOREM NoFullStreamTheorem == Spec => []NoFullStream
<1>1. FilterInv => NoFullStream
    <2>. SUFFICES ASSUME FilterInv, filter # None PROVE NoFullStream
        BY DEF NoFullStream
    <2>1. Accepted
        BY DEF FilterInv
    <2>. PICK c : c = Config
        OBVIOUS
    <2>2. IsConfig(c) /\ check_filter(limits, c) /\ filter = NewFilter(c)
        BY <2>1, AcceptedTyped DEF Accepted
    <2>3. /\ filter.transactions = conv_map(c.transactions, FilterTransactions)
          /\ filter.transactions_status = conv_map(c.transactions_status, FilterTransactions)
        BY <2>2 DEF NewFilter
    <2>4. ASSUME ~limits.transactions.any, NEW n \in DOMAIN filter.transactions
          PROVE  LeavesSomeOut(filter.transactions[n])
        <3>1. n \in DOMAIN c.transactions
                  /\ filter.transactions[n] = FilterTransactions(c.transactions[n])
            BY <2>3, <2>4 DEF conv_map
        <3>2. c.transactions[n] \in ConfigTransactions /\ ~AnyTransaction(c.transactions[n])
            BY <2>2, <2>4, <3>1 DEF IsConfig, check_filter, check_transactions, check_any
        <3>. QED
            BY <3>1, <3>2, TestedLeavesOut
    <2>5. ASSUME ~limits.transactions_status.any, NEW n \in DOMAIN filter.transactions_status
          PROVE  LeavesSomeOut(filter.transactions_status[n])
        <3>1. n \in DOMAIN c.transactions_status
                  /\ filter.transactions_status[n] = FilterTransactions(c.transactions_status[n])
            BY <2>3, <2>5 DEF conv_map
        <3>2. c.transactions_status[n] \in ConfigTransactions /\ ~AnyTransaction(c.transactions_status[n])
            BY <2>2, <2>5, <3>1 DEF IsConfig, check_filter, check_transactions, check_any
        <3>. QED
            BY <3>1, <3>2, TestedLeavesOut
    <2>. QED
        BY <2>4, <2>5 DEF NoFullStream
<1>. QED
    BY <1>1, FilterInvariant, PTL

(***************************************************************************)
(* From a configuration to a request and back                              *)
(***************************************************************************)
LEMMA KeysBack ==
    ASSUME NEW keys \in Seq(Keys)
    PROVE  /\ AreKeyTexts(conv_vec_pubkeys(keys))
           /\ parse_vec_pubkeys(conv_vec_pubkeys(keys)) = keys
<1>1. /\ DOMAIN conv_vec_pubkeys(keys) = DOMAIN keys
      /\ \A i \in DOMAIN keys : conv_vec_pubkeys(keys)[i] = Text(keys[i]) /\ keys[i] \in Keys
    BY DEF conv_vec_pubkeys
<1>2. \A k : parse(Text(k)) = k
    BY DEF parse, Text
<1>3. AreKeyTexts(conv_vec_pubkeys(keys))
    BY <1>1 DEF AreKeyTexts, IsKeyText
<1>4. parse_vec_pubkeys(conv_vec_pubkeys(keys)) = [i \in DOMAIN keys |-> keys[i]]
    BY <1>1, <1>2 DEF parse_vec_pubkeys
<1>5. keys = [i \in DOMAIN keys |-> keys[i]]
    OBVIOUS
<1>. QED
    BY <1>3, <1>4, <1>5

\* A data filter within the size limit survives the way to its request and back.
LEMMA AccountFilterBack ==
    ASSUME NEW f \in ConfigAccountsFilter,
           f.kind = "memcmp" => Len(f.data) <= MAX_DATA_SIZE
    PROVE  /\ AccountFilterConverts(AccountFilterRequest(f))
           /\ AccountFilter(AccountFilterRequest(f)) = f
<1>. DEFINE q == AccountFilterRequest(f)
<1>1. CASE f \in [kind : {"memcmp"}, offset : Word, data : Seq(Nat)]
    <2>1. /\ f.kind = "memcmp" /\ f.offset \in Word /\ f.data \in Seq(Nat)
          /\ f = [kind |-> "memcmp", offset |-> f.offset, data |-> f.data]
        BY <1>1
    <2>. PICK d : d = [kind |-> "bytes", len |-> Len(f.data), bytes |-> f.data]
        OBVIOUS
    <2>2. q = [kind |-> "memcmp", offset |-> f.offset, data |-> d]
        BY <2>1 DEF AccountFilterRequest
    <2>. HIDE DEF q
    <2>3. d \in MemcmpData
        BY <2>1 DEF MemcmpData, Option
    <2>4. q \in SubscribeAccountsFilter
        BY <2>1, <2>2, <2>3 DEF SubscribeAccountsFilter, Option
    <2>5. q # None /\ d # None /\ f.data # None
        BY <2>1, <2>3, <2>4, NoneAssumption
    <2>6. AccountFilterConverts(q)
        BY <2>1, <2>2, <2>5 DEF AccountFilterConverts
    <2>7. AccountFilter(q) = f
        BY <2>1, <2>2 DEF AccountFilter
    <2>. QED
        BY <2>6, <2>7 DEF q
<1>2. CASE f \in [kind : {"datasize"}, size : Word]
    <2>1. f.kind = "datasize" /\ f.size \in Word /\ f = [kind |-> "datasize", size |-> f.size]
        BY <1>2
    <2>2. q = f
        BY <2>1 DEF AccountFilterRequest
    <2>. HIDE DEF q
    <2>3. q \in SubscribeAccountsFilter
        BY <1>2, <2>2 DEF SubscribeAccountsFilter
    <2>4. AccountFilterConverts(q)
        BY <2>1, <2>2, <2>3, NoneAssumption DEF AccountFilterConverts
    <2>5. AccountFilter(q) = f
        BY <2>1, <2>2 DEF AccountFilter
    <2>. QED
        BY <2>4, <2>5 DEF q
<1>3. CASE f \in [kind : {"token_account_state"}]
    <2>1. f.kind = "token_account_state" /\ f = [kind |-> "token_account_state"]
        BY <1>3
    <2>2. q = [kind |-> "token_account_state", value |-> TRUE]
        BY <2>1 DEF AccountFilterRequest
    <2>. HIDE DEF q
    <2>3. q \in SubscribeAccountsFilter
        BY <2>2 DEF SubscribeAccountsFilter
    <2>4. AccountFilterConverts(q)
        BY <2>2, <2>3, NoneAssumption DEF AccountFilterConverts
    <2>5. AccountFilter(q) = f
        BY <2>1, <2>2 DEF AccountFilter
    <2>. QED
        BY <2>4, <2>5 DEF q
<1>4. CASE f \in [kind : {"lamports"}, cmp : {"eq", "ne", "lt", "gt"}, value : Word]
    <2>1. /\ f.kind = "lamports" /\ f.cmp \in {"eq", "ne", "lt", "gt"} /\ f.value \in Word
          /\ f = [kind |-> "lamports", cmp |-> f.cmp, value |-> f.value]
        BY <1>4
    <2>2. q = f
        BY <2>1 DEF AccountFilterRequest
    <2>. HIDE DEF q
    <2>3. q \in SubscribeAccountsFilter
        BY <2>1, <2>2 DEF SubscribeAccountsFilter, Option
    <2>4. AccountFilterConverts(q)
        BY <2>1, <2>2, <2>3, NoneAssumption DEF AccountFilterConverts
    <2>5. AccountFilter(q) = f
        BY <2>1, <2>2 DEF AccountFilter
    <2>. QED
        BY <2>4, <2>5 DEF q
<1>. QED
    BY <1>1, <1>2, <1>3, <1>4 DEF ConfigAccountsFilter

\* An accounts filter within the limits survives the way to its request and back.
LEMMA AccountsBack ==
    ASSUME NEW f \in ConfigAccounts, check_account_filters(f.filters)
    PROVE  /\ AccountsConvert(AccountsRequest(f))
           /\ ConfigFilterAccounts(AccountsRequest(f)) = f
<1>1. /\ f.account \in Seq(Keys) /\ f.owner \in Seq(Keys)
      /\ f.filters \in Seq(ConfigAccountsFilter)
      /\ f = [account |-> f.account, owner |-> f.owner, filters |-> f.filters,
              nonempty_txn_signature |-> f.nonempty_txn_signature]
    BY DEF ConfigAccounts
<1>. DEFINE fs == [i \in DOMAIN f.filters |-> AccountFilterRequest(f.filters[i])]
            q == AccountsRequest(f)
<1>2. q = [account |-> conv_vec_pubkeys(f.account), owner |-> conv_vec_pubkeys(f.owner),
           filters |-> fs, nonempty_txn_signature |-> f.nonempty_txn_signature]
    BY DEF AccountsRequest
<1>3. \A i \in DOMAIN f.filters :
          /\ AccountFilterConverts(AccountFilterRequest(f.filters[i]))
          /\ AccountFilter(AccountFilterRequest(f.filters[i])) = f.filters[i]
    BY <1>1, AccountFilterBack DEF check_account_filters
<1>4. DOMAIN fs = DOMAIN f.filters /\ Len(fs) = Len(f.filters) /\ DOMAIN f.filters = 1 .. Len(f.filters)
    BY <1>1
<1>5. \A i \in DOMAIN fs : fs[i] = AccountFilterRequest(f.filters[i])
    OBVIOUS
<1>6. [i \in DOMAIN fs |-> AccountFilter(fs[i])] = f.filters
    <2>1. [i \in DOMAIN fs |-> AccountFilter(fs[i])] = [i \in DOMAIN f.filters |-> f.filters[i]]
        BY <1>3, <1>4, <1>5
    <2>. QED
        BY <1>1, <2>1
<1>. HIDE DEF fs, q
<1>7. AccountsConvert(q)
    BY <1>1, <1>2, <1>3, <1>4, <1>5, KeysBack DEF AccountsConvert, check_account_filters
<1>8. ConfigFilterAccounts(q) =
          [account |-> f.account, owner |-> f.owner, filters |-> f.filters,
           nonempty_txn_signature |-> f.nonempty_txn_signature]
    BY <1>1, <1>2, <1>6, KeysBack DEF ConfigFilterAccounts
<1>. QED
    BY <1>1, <1>7, <1>8 DEF q

\* A transactions filter survives the way to its request and back.
LEMMA TransactionsBack ==
    ASSUME NEW f \in ConfigTransactions
    PROVE  /\ TransactionsConvert(TransactionsRequest(f))
           /\ ConfigFilterTransactions(TransactionsRequest(f)) = f
<1>1. /\ f.account_include \in Seq(Keys) /\ f.account_exclude \in Seq(Keys)
      /\ f.account_required \in Seq(Keys) /\ f.signature \in Option(Keys)
      /\ f = [vote |-> f.vote, failed |-> f.failed, signature |-> f.signature,
              account_include |-> f.account_include, account_exclude |-> f.account_exclude,
              account_required |-> f.account_required]
    BY DEF ConfigTransactions
<1>. DEFINE sig == IF f.signature = None THEN None ELSE Text(f.signature)
            q == TransactionsRequest(f)
<1>2. q = [vote |-> f.vote, failed |-> f.failed, signature |-> sig,
           account_include |-> conv_vec_pubkeys(f.account_include),
           account_exclude |-> conv_vec_pubkeys(f.account_exclude),
           account_required |-> conv_vec_pubkeys(f.account_required)]
    BY DEF TransactionsRequest
<1>3. /\ sig = None \/ IsKeyText(sig)
      /\ (IF sig = None THEN None ELSE parse(sig)) = f.signature
    <2>1. CASE f.signature = None
        BY <2>1
    <2>2. CASE f.signature \in Keys
        <3>1. f.signature # None /\ sig = Text(f.signature)
            BY <2>2, NoneAssumption
        <3>2. sig \in {Text(k) : k \in Keys} /\ sig # None
            BY <2>2, <3>1, NoneAssumption
        <3>3. parse(sig) = f.signature
            BY <3>1 DEF parse, Text
        <3>. QED
            BY <3>2, <3>3 DEF IsKeyText
    <2>. QED
        BY <1>1, <2>1, <2>2 DEF Option
<1>. HIDE DEF sig, q
<1>4. TransactionsConvert(q)
    BY <1>1, <1>2, <1>3, KeysBack DEF TransactionsConvert
<1>5. ConfigFilterTransactions(q) =
          [vote |-> f.vote, failed |-> f.failed, signature |-> f.signature,
           account_include |-> f.account_include, account_exclude |-> f.account_exclude,
           account_required |-> f.account_required]
    BY <1>1, <1>2, <1>3, KeysBack DEF ConfigFilterTransactions
<1>. QED
    BY <1>1, <1>4, <1>5 DEF q

\* A blocks filter survives the way to its request and back.
LEMMA BlocksBack ==
    ASSUME NEW f \in ConfigBlocks
    PROVE  /\ AreKeyTexts(BlocksRequest(f).account_include)
           /\ ConfigFilterBlocks(BlocksRequest(f)) = f
<1>1. f.account_include \in Seq(Keys)
    BY DEF ConfigBlocks
<1>. PICK keys : keys = conv_vec_pubkeys(f.account_include)
    OBVIOUS
<1>2. AreKeyTexts(keys) /\ parse_vec_pubkeys(keys) = f.account_include
    BY <1>1, KeysBack
<1>3. BlocksRequest(f) = [f EXCEPT !.account_include = keys]
    BY DEF BlocksRequest
<1>4. BlocksRequest(f).account_include = keys
    BY <1>3 DEF ConfigBlocks
<1>5. ConfigFilterBlocks(BlocksRequest(f)) =
          [[f EXCEPT !.account_include = keys] EXCEPT !.account_include = f.account_include]
    BY <1>2, <1>3, <1>4 DEF ConfigFilterBlocks
<1>6. [[f EXCEPT !.account_include = keys] EXCEPT !.account_include = f.account_include] = f
    BY DEF ConfigBlocks
<1>. QED
    BY <1>2, <1>4, <1>5, <1>6

\* A commitment level survives the way to its number and back.
LEMMA CommitmentBack ==
    ASSUME NEW c \in Option({"processed", "confirmed", "finalized"})
    PROVE  CommitmentConverts(CommitmentRequest(c)) /\ CommitmentOf(CommitmentRequest(c)) = c
<1>1. CASE c = None
    BY <1>1 DEF CommitmentRequest, CommitmentConverts, CommitmentOf
<1>2. CASE c \in {"processed", "confirmed", "finalized"}
    <2>1. c # None
        BY <1>2, NoneAssumption
    <2>2. \E n \in 0 .. 2 : CommitmentLevels[n + 1] = c
        <3>1. /\ CommitmentLevels[0 + 1] = "processed" /\ CommitmentLevels[1 + 1] = "confirmed"
              /\ CommitmentLevels[2 + 1] = "finalized"
            BY DEF CommitmentLevels
        <3>. QED
            BY <1>2, <3>1
    <2>3. CommitmentRequest(c) \in 0 .. 2 /\ CommitmentLevels[CommitmentRequest(c) + 1] = c
        BY <2>1, <2>2 DEF CommitmentRequest
    <2>4. CommitmentRequest(c) # None
        BY <2>3, NoneAssumption
    <2>. QED
        BY <2>3, <2>4 DEF CommitmentConverts, CommitmentOf
<1>. QED
    BY <1>1, <1>2 DEF Option

\* Two maps of the same names with the same filters are the same.
LEMMA SameMap ==
    ASSUME NEW m, NEW m2, m = [n \in DOMAIN m |-> m[n]], m2 = [n \in DOMAIN m2 |-> m2[n]],
           DOMAIN m2 = DOMAIN m, \A n \in DOMAIN m : m2[n] = m[n]
    PROVE  m2 = m
OBVIOUS

\* A configuration survives as a request: nothing that a filter tests is lost or
\* refused on the way, for all configurations that are made of a request and that
\* the limits let pass.
THEOREM RoundTripTheorem == Spec => []RoundTrip
<1>1. FilterInv => RoundTrip
    <2>. SUFFICES ASSUME FilterInv, filter # None PROVE RoundTrip
        BY DEF RoundTrip
    <2>1. Accepted
        BY DEF FilterInv
    <2>. PICK c : c = Config
        OBVIOUS
    <2>2. IsConfig(c) /\ check_filter(limits, c) /\ c = ConfigFilter(request)
        BY <2>1, AcceptedTyped DEF Accepted, Config
    <2>. PICK q : q = SubscribeRequest(c)
        OBVIOUS
    <2>3. /\ q.slots = c.slots
          /\ q.accounts = conv_map(c.accounts, AccountsRequest)
          /\ q.accounts_data_slice = c.accounts_data_slice
          /\ q.transactions = conv_map(c.transactions, TransactionsRequest)
          /\ q.transactions_status = conv_map(c.transactions_status, TransactionsRequest)
          /\ q.entry = c.entries /\ q.blocks_meta = c.blocks_meta
          /\ q.blocks = conv_map(c.blocks, BlocksRequest)
          /\ q.commitment = CommitmentRequest(c.commitment)
        BY DEF SubscribeRequest
    <2>4. ASSUME NEW n \in DOMAIN c.accounts
          PROVE  /\ AccountsConvert(AccountsRequest(c.accounts[n]))
                 /\ ConfigFilterAccounts(AccountsRequest(c.accounts[n])) = c.accounts[n]
        <3>1. c.accounts[n] \in ConfigAccounts /\ check_account_filters(c.accounts[n].filters)
            BY <2>2 DEF IsConfig, check_filter, check_accounts
        <3>. QED
            BY <3>1, AccountsBack
    <2>5. ASSUME NEW n \in DOMAIN c.transactions
          PROVE  /\ TransactionsConvert(TransactionsRequest(c.transactions[n]))
                 /\ ConfigFilterTransactions(TransactionsRequest(c.transactions[n]))
                        = c.transactions[n]
        BY <2>2, TransactionsBack DEF IsConfig
    <2>6. ASSUME NEW n \in DOMAIN c.transactions_status
          PROVE  /\ TransactionsConvert(TransactionsRequest(c.transactions_status[n]))
                 /\ ConfigFilterTransactions(TransactionsRequest(c.transactions_status[n]))
                        = c.transactions_status[n]
        BY <2>2, TransactionsBack DEF IsConfig
    <2>7. ASSUME NEW n \in DOMAIN c.blocks
          PROVE  /\ AreKeyTexts(BlocksRequest(c.blocks[n]).account_include)
                 /\ ConfigFilterBlocks(BlocksRequest(c.blocks[n])) = c.blocks[n]
        BY <2>2, BlocksBack DEF IsConfig
    <2>8. /\ CommitmentConverts(q.commitment)
          /\ CommitmentOf(q.commitment) = c.commitment
        BY <2>2, <2>3, CommitmentBack DEF IsConfig
    <2>9. Converts(q)
        BY <2>3, <2>4, <2>5, <2>6, <2>7, <2>8 DEF Converts, conv_map
    <2>10. /\ c.accounts = [n \in DOMAIN c.accounts |-> c.accounts[n]]
           /\ c.transactions = [n \in DOMAIN c.transactions |-> c.transactions[n]]
           /\ c.transactions_status =
                  [n \in DOMAIN c.transactions_status |-> c.transactions_status[n]]
           /\ c.blocks = [n \in DOMAIN c.blocks |-> c.blocks[n]]
        BY <2>2 DEF ConfigFilter, conv_map
    <2>11. conv_map(q.accounts, ConfigFilterAccounts) = c.accounts
        BY <2>3, <2>4, <2>10, SameMap, SMTT(30) DEF conv_map
    <2>12. conv_map(q.transactions, ConfigFilterTransactions) = c.transactions
        BY <2>3, <2>5, <2>10, SameMap, SMTT(30) DEF conv_map
    <2>13. conv_map(q.transactions_status, ConfigFilterTransactions) = c.transactions_status
        BY <2>3, <2>6, <2>10, SameMap, SMTT(30) DEF conv_map
    <2>14. conv_map(q.blocks, ConfigFilterBlocks) = c.blocks
        <3>. PICK m : m = conv_map(q.blocks, ConfigFilterBlocks)
            OBVIOUS
        <3>1. DOMAIN q.blocks = DOMAIN c.blocks
              /\ \A n \in DOMAIN c.blocks : q.blocks[n] = BlocksRequest(c.blocks[n])
            BY <2>3 DEF conv_map
        <3>2. DOMAIN m = DOMAIN c.blocks /\ m = [n \in DOMAIN m |-> m[n]]
              /\ \A n \in DOMAIN c.blocks : m[n] = ConfigFilterBlocks(q.blocks[n])
            BY <3>1 DEF conv_map
        <3>3. \A n \in DOMAIN c.blocks : m[n] = c.blocks[n]
            <4>. TAKE n \in DOMAIN c.blocks
            <4>1. ConfigFilterBlocks(BlocksRequest(c.blocks[n])) = c.blocks[n]
                BY <2>7
            <4>2. m[n] = ConfigFilterBlocks(q.blocks[n]) /\ q.blocks[n] = BlocksRequest(c.blocks[n])
                BY <3>1, <3>2
            <4>. QED
                BY <4>1, <4>2, Zenon
        <3>. QED
            BY <2>10, <3>2, <3>3, SameMap
    <2>15. ConfigFilter(q) =
               [slots |-> c.slots, accounts |-> c.accounts,
                accounts_data_slice |-> c.accounts_data_slice,
                transactions |-> c.transactions, transactions_status |-> c.transactions_status,
                entries |-> c.entries, blocks_meta |-> c.blocks_meta, blocks |-> c.blocks,
                commitment |-> c.commitment]
        BY <2>3, <2>8, <2>11, <2>12, <2>13, <2>14 DEF ConfigFilter
    <2>16. c = [slots |-> c.slots, accounts |-> c.accounts,
                accounts_data_slice |-> c.accounts_data_slice,
                transactions |-> c.transactions, transactions_status |-> c.transactions_status,
                entries |-> c.entries, blocks_meta |-> c.blocks_meta, blocks |-> c.blocks,
                commitment |-> c.commitment]
        BY <2>2 DEF ConfigFilter
    <2>. QED
        BY <2>9, <2>15, <2>16 DEF RoundTrip
<1>. QED
    BY <1>1, FilterInvariant, PTL

(***************************************************************************)
(* Elements of a sequence at given positions                               *)
(***************************************************************************)
IsSequence(seq) == \E S : seq \in Seq(S)

\* Some of the positions 1 .. n are finitely many.
LEMMA FewPositions ==
    ASSUME NEW n \in Nat, NEW K \in SUBSET (1 .. n)
    PROVE  IsFiniteSet(K) /\ Cardinality(K) \in Nat
<1>1. IsFiniteSet(1 .. n)
  BY FS_Interval
<1>2. IsFiniteSet(K)
  BY <1>1, FS_Subset
<1> QED
  BY <1>2, FS_CardinalityType

\* The rank of a position is a position of what is picked.
LEMMA RankBounds ==
    ASSUME NEW n \in Nat, NEW K \in SUBSET (1 .. n), NEW i \in K
    PROVE  Rank(i, K) \in 1 .. Cardinality(K)
<1>1. PICK L : L = {j \in K : j <= i}
  OBVIOUS
<1>2. IsFiniteSet(K) /\ Cardinality(K) \in Nat
  BY FewPositions
<1>3. L \in SUBSET K /\ i \in L
  BY <1>1
<1>4. IsFiniteSet(L) /\ Cardinality(L) <= Cardinality(K)
  BY <1>2, <1>3, FS_Subset
<1>5. Cardinality(L) \in Nat
  BY <1>4, FS_CardinalityType
<1>6. Cardinality(L) # 0
  BY <1>3, <1>4, FS_EmptySet
<1>7. Cardinality(L) \in 1 .. Cardinality(K)
  BY <1>2, <1>4, <1>5, <1>6
<1> QED
  BY <1>1, <1>7 DEF Rank

\* A later position has a larger rank.
LEMMA RankGrows ==
    ASSUME NEW n \in Nat, NEW K \in SUBSET (1 .. n), NEW i \in K, NEW j \in K, i < j
    PROVE  Rank(i, K) < Rank(j, K)
<1>1. PICK L : L = {k \in K : k <= i}
  OBVIOUS
<1>2. PICK M : M = {k \in K : k <= j}
  OBVIOUS
<1>3. IsFiniteSet(K)
  BY FewPositions
<1>4. L \in SUBSET M /\ j \in M /\ j \notin L /\ M \in SUBSET K
  <2>1. i \in Int /\ j \in Int /\ \A k \in K : k \in Int
    OBVIOUS
  <2>2. j \in M /\ j \notin L /\ M \in SUBSET K
    BY <1>1, <1>2, <2>1
  <2>3. \A k \in K : k <= i => k <= j
    BY <2>1
  <2> QED
    BY <1>1, <1>2, <2>2, <2>3
<1>5. IsFiniteSet(M)
  BY <1>3, <1>4, FS_Subset
<1>6. IsFiniteSet(L) /\ Cardinality(L) <= Cardinality(M) /\ Cardinality(L) # Cardinality(M)
  BY <1>4, <1>5, FS_Subset
<1>7. Cardinality(L) \in Nat /\ Cardinality(M) \in Nat
  BY <1>5, <1>6, FS_CardinalityType
<1>8. Cardinality(L) < Cardinality(M)
  BY <1>6, <1>7
<1> QED
  BY <1>1, <1>2, <1>8 DEF Rank

\* Two positions of the same rank are one.
LEMMA RankOnce ==
    ASSUME NEW n \in Nat, NEW K \in SUBSET (1 .. n), NEW i \in K, NEW j \in K,
           Rank(i, K) = Rank(j, K)
    PROVE  i = j
<1>1. Cardinality(K) \in Nat /\ Rank(i, K) \in 1 .. Cardinality(K)
  BY FewPositions, RankBounds
<1>2. Rank(i, K) \in Int /\ i \in Int /\ j \in Int
  BY <1>1
<1>3. CASE i < j
  <2>1. Rank(i, K) < Rank(j, K)
    BY <1>3, RankGrows
  <2> QED
    BY <1>2, <2>1
<1>4. CASE j < i
  <2>1. Rank(j, K) < Rank(i, K)
    BY <1>4, RankGrows
  <2> QED
    BY <1>2, <2>1
<1> QED
  BY <1>2, <1>3, <1>4

\* Every rank is taken: otherwise two positions would share one.
LEMMA RankTaken ==
    ASSUME NEW n \in Nat, NEW K \in SUBSET (1 .. n), NEW r \in 1 .. Cardinality(K)
    PROVE  \E i \in K : Rank(i, K) = r
<1> SUFFICES ASSUME \A i \in K : Rank(i, K) # r PROVE FALSE
  OBVIOUS
<1>1. IsFiniteSet(K) /\ Cardinality(K) \in Nat
  BY FewPositions
<1>2. PICK T : T = (1 .. Cardinality(K)) \ {r}
  OBVIOUS
<1>3. PICK f : f = [i \in K |-> Rank(i, K)]
  OBVIOUS
<1>4. f \in [K -> T]
  BY <1>2, <1>3, RankBounds
<1>5. IsFiniteSet(1 .. Cardinality(K)) /\ Cardinality(1 .. Cardinality(K)) = Cardinality(K)
  BY <1>1, FS_Interval
<1>6. IsFiniteSet(T) /\ Cardinality(T) = Cardinality(K) - 1
  BY <1>2, <1>5, FS_RemoveElement, ZenonT(30)
<1>7. Cardinality(T) < Cardinality(K)
  BY <1>1, <1>6
<1>8. \E x, y \in K : x # y /\ f[x] = f[y]
  BY <1>1, <1>4, <1>6, <1>7, FS_PigeonHole
<1> QED
  BY <1>3, <1>8, RankOnce

\* p is what q has at the positions K: each at its rank, and nothing else.
Picked(p, q, K) ==
    /\ IsSequence(p) /\ Len(p) = Cardinality(K)
    /\ \A i \in K : p[Rank(i, K)] = q[i]
    /\ \A r \in 1 .. Cardinality(K) : \E i \in K : Rank(i, K) = r /\ p[r] = q[i]

\* Pick picks.
LEMMA PickIs ==
    ASSUME NEW n \in Nat, NEW K \in SUBSET (1 .. n), NEW q
    PROVE  Picked(Pick(q, K), q, K)
<1>1. PICK N : N = Cardinality(K)
  OBVIOUS
<1>2. PICK at : at = [r \in 1 .. N |-> CHOOSE i \in K : Rank(i, K) = r]
  OBVIOUS
<1>3. N \in Nat
  BY <1>1, FewPositions
<1>4. \A r \in 1 .. N : at[r] \in K /\ Rank(at[r], K) = r
  BY <1>1, <1>2, RankTaken
<1>5. \A i \in K : Rank(i, K) \in 1 .. N
  BY <1>1, RankBounds
<1>6. \A i \in K : at[Rank(i, K)] = i
  BY <1>4, <1>5, RankOnce
<1>7. PICK p : p = Pick(q, K)
  OBVIOUS
<1>8. p = [r \in 1 .. N |-> q[at[r]]]
  BY <1>1, <1>2, <1>7 DEF Pick
<1>9. p \in [1 .. N -> {q[i] : i \in K}]
  BY <1>4, <1>8
<1>10. p \in Seq({q[i] : i \in K}) /\ Len(p) = N
  BY <1>3, <1>9
<1>11. IsSequence(p)
  BY <1>10 DEF IsSequence
<1>12. \A i \in K : p[Rank(i, K)] = q[i]
  BY <1>5, <1>6, <1>8
<1>13. \A r \in 1 .. N : at[r] \in K /\ Rank(at[r], K) = r /\ p[r] = q[at[r]]
  BY <1>4, <1>8
<1> QED
  BY <1>1, <1>7, <1>10, <1>11, <1>12, <1>13 DEF Picked

\* Positions that follow the others without a gap are picked last.
LEMMA PickBehind ==
    ASSUME NEW S, NEW q \in Seq(S), NEW a \in Nat, NEW b \in Nat, a <= b, b <= Len(q),
           NEW K \in SUBSET (1 .. a)
    PROVE  Pick(q, K \union ((a + 1) .. b)) = Pick(q, K) \o SubSeq(q, a + 1, b)
<1>. PICK L, N : L = K \union ((a + 1) .. b) /\ N = Cardinality(K)
    OBVIOUS
<1>1. L \in SUBSET (1 .. b) /\ K \in SUBSET (1 .. b)
    OBVIOUS
<1>2. IsFiniteSet(K) /\ N \in Nat
    BY FewPositions
<1>3. ASSUME NEW m \in 0 .. (b - a)
      PROVE  Cardinality(K \union ((a + 1) .. (a + m))) = N + m
    <2>. PICK T : T = (a + 1) .. (a + m)
        OBVIOUS
    <2>1. IsFiniteSet(T) /\ Cardinality(T) = m
        BY FS_Interval
    <2>2. K \cap T = {}
        OBVIOUS
    <2>3. Cardinality(K \cap T) = 0
        BY <2>2, FS_EmptySet
    <2>4. Cardinality(K \union T) = Cardinality(K) + Cardinality(T) - Cardinality(K \cap T)
        BY <1>2, <2>1, FS_Union
    <2>. QED
        BY <1>2, <2>1, <2>3, <2>4
<1>4. Cardinality(L) = N + (b - a)
    <2>1. b - a \in 0 .. (b - a) /\ a + (b - a) = b
        OBVIOUS
    <2>. QED
        BY <1>3, <2>1
<1>5. \A i \in K : Rank(i, L) = Rank(i, K)
    <2>1. ASSUME NEW i \in K PROVE {j \in L : j <= i} = {j \in K : j <= i}
        OBVIOUS
    <2>. QED
        BY <2>1 DEF Rank
<1>6. \A m \in 1 .. (b - a) : Rank(a + m, L) = N + m
    <2>. TAKE m \in 1 .. (b - a)
    <2>1. /\ \A j \in K : j \in Int /\ j <= a + m
          /\ \A j \in (a + 1) .. b : j <= a + m <=> j \in (a + 1) .. (a + m)
          /\ (a + 1) .. (a + m) \subseteq (a + 1) .. b
        OBVIOUS
    <2>2. {j \in L : j <= a + m} = K \union ((a + 1) .. (a + m))
        BY ONLY <2>1, L = K \union ((a + 1) .. b)
    <2>. QED
        BY <1>3, <2>2 DEF Rank
<1>. PICK p, w, t : p = Pick(q, K) /\ w = Pick(q, L) /\ t = SubSeq(q, a + 1, b)
    OBVIOUS
<1>7. IsSequence(p) /\ Len(p) = N /\ \A i \in K : p[Rank(i, K)] = q[i]
    <2>1. Picked(Pick(q, K), q, K)
        BY PickIs
    <2>. QED
        BY <2>1 DEF Picked
<1>8. /\ IsSequence(w) /\ Len(w) = N + (b - a)
      /\ \A r \in 1 .. (N + (b - a)) : \E i \in L : Rank(i, L) = r /\ w[r] = q[i]
    <2>1. Picked(Pick(q, L), q, L)
        BY <1>1, PickIs
    <2>. QED
        BY <1>4, <2>1 DEF Picked
<1>9. /\ t \in Seq(S) /\ Len(t) = b - a
      /\ \A m \in 1 .. (b - a) : t[m] = q[a + m]
    OBVIOUS
<1>. PICK P : p \in Seq(P)
    BY <1>7 DEF IsSequence
<1>. PICK W : w \in Seq(W)
    BY <1>8 DEF IsSequence
<1>. PICK x : x = p \o t
    OBVIOUS
<1>10. /\ x \in Seq(P \union S) /\ Len(x) = N + (b - a)
       /\ \A r \in 1 .. N : x[r] = p[r]
       /\ \A m \in 1 .. (b - a) : x[N + m] = t[m]
    <2>. PICK V : V = P \union S
        OBVIOUS
    <2>1. p \in Seq(V) /\ t \in Seq(V)
        BY <1>9
    <2>2. /\ p \o t \in Seq(V) /\ Len(p \o t) = Len(p) + Len(t)
          /\ \A i \in 1 .. (Len(p) + Len(t)) :
                 (p \o t)[i] = IF i <= Len(p) THEN p[i] ELSE t[i - Len(p)]
        BY ONLY <2>1, ConcatProperties, Zenon
    <2>3. /\ \A r \in 1 .. N : r \in 1 .. (N + (b - a)) /\ r <= N
          /\ \A m \in 1 .. (b - a) : /\ N + m \in 1 .. (N + (b - a)) /\ ~(N + m <= N)
                                    /\ (N + m) - N = m
        BY <1>2
    <2>4. x = p \o t
        OBVIOUS
    <2>5. Len(p) = N /\ Len(t) = b - a /\ Len(p) + Len(t) = N + (b - a)
        BY <1>7, <1>9
    <2>6. /\ x \in Seq(V) /\ Len(x) = N + (b - a)
          /\ \A i \in 1 .. (N + (b - a)) : x[i] = IF i <= N THEN p[i] ELSE t[i - N]
        BY ONLY <2>2, <2>4, <2>5
    <2>7. \A r \in 1 .. N : x[r] = p[r]
        BY ONLY <2>3, <2>6
    <2>8. \A m \in 1 .. (b - a) : x[N + m] = t[m]
        BY ONLY <2>3, <2>6
    <2>. QED
        BY ONLY <2>6, <2>7, <2>8, V = P \union S
<1>11. \A r \in 1 .. (N + (b - a)) : w[r] = x[r]
    <2>. TAKE r \in 1 .. (N + (b - a))
    <2>1. PICK i \in L : Rank(i, L) = r /\ w[r] = q[i]
        BY <1>8
    <2>2. CASE i \in K
        <3>1. Rank(i, K) = r /\ Rank(i, K) \in 1 .. N
            BY <1>5, <2>1, <2>2, RankBounds
        <3>. QED
            BY <1>7, <1>10, <2>1, <2>2, <3>1
    <2>3. CASE i \in (a + 1) .. b
        <3>1. PICK m : m = i - a
            OBVIOUS
        <3>2. m \in 1 .. (b - a) /\ i = a + m
            BY <2>3, <3>1
        <3>3. r = N + m
            BY <1>6, <2>1, <3>2
        <3>. QED
            BY <1>9, <1>10, <2>1, <3>2, <3>3
    <2>. QED
        BY <2>1, <2>2, <2>3
<1>12. w = x
    BY ONLY <1>2, <1>8, <1>10, <1>11, w \in Seq(W), a \in Nat, b \in Nat, a <= b
<1>. QED
    BY <1>12

\* Nothing is picked of no position.
LEMMA PickNone == ASSUME NEW q PROVE Pick(q, {}) = <<>>
<1>1. Cardinality({}) = 0
    BY FS_EmptySet
<1>. QED
    BY <1>1 DEF Pick

(***************************************************************************)
(* Slices of account data                                                  *)
(***************************************************************************)
\* G are the first sequences put together, for each number of them.
PutTogether(G, seqs) ==
    /\ G[1] = seqs[1]
    /\ \A i \in 2 .. Len(seqs) : G[i] = G[i - 1] \o seqs[i]

\* FlattenSeq puts its sequences together: no number of them is the first where it
\* does not.
LEMMA FlattenIs ==
    ASSUME NEW seqs, Len(seqs) \in Nat, Len(seqs) # 0, NEW G, PutTogether(G, seqs)
    PROVE  FlattenSeq(seqs) = G[Len(seqs)]
<1>. PICK n : n = Len(seqs)
    OBVIOUS
<1>. DEFINE Is(f) == f = [i \in 1 .. Len(seqs) |-> IF i = 1 THEN seqs[i] ELSE f[i - 1] \o seqs[i]]
            F == CHOOSE f : Is(f)
<1>1. FlattenSeq(seqs) = F[Len(seqs)]
    BY DEF FlattenSeq
<1>2. Is(F)
    <2>. PICK g : g = [i \in 1 .. Len(seqs) |-> G[i]]
        OBVIOUS
    <2>1. ASSUME NEW i \in 1 .. Len(seqs)
          PROVE  g[i] = IF i = 1 THEN seqs[i] ELSE g[i - 1] \o seqs[i]
        <3>1. CASE i = 1
            BY <3>1 DEF PutTogether
        <3>2. CASE i # 1
            <4>1. i \in 2 .. Len(seqs) /\ i - 1 \in 1 .. Len(seqs)
                BY <3>2
            <4>2. G[i] = G[i - 1] \o seqs[i]
                BY <4>1 DEF PutTogether
            <4>. QED
                BY <3>2, <4>1, <4>2
        <3>. QED
            BY <3>1, <3>2
    <2>2. Is(g)
        BY <2>1
    <2>. QED
        BY <2>2
<1>. HIDE DEF F
<1>3. \A i \in 1 .. n : F[i] = IF i = 1 THEN seqs[i] ELSE F[i - 1] \o seqs[i]
    BY <1>2
<1>. PICK T : T = {i \in 1 .. n : F[i] # G[i]}
    OBVIOUS
<1>4. ASSUME T # {} PROVE FALSE
    <2>1. T \in SUBSET Nat
        OBVIOUS
    <2>2. PICK x \in T : \A y \in T : x <= y
        BY <1>4, <2>1, LeastOf
    <2>3. x \in 1 .. n /\ F[x] # G[x]
        OBVIOUS
    <2>4. x # 1
        BY <1>3, <2>3 DEF PutTogether
    <2>5. x \in 2 .. n /\ x - 1 \in 1 .. n /\ ~(x <= x - 1)
        BY <2>3, <2>4
    <2>6. F[x - 1] = G[x - 1]
        BY <2>2, <2>5
    <2>7. F[x] = F[x - 1] \o seqs[x]
        BY <1>3, <2>3, <2>4
    <2>8. G[x] = G[x - 1] \o seqs[x]
        BY <2>5 DEF PutTogether
    <2>. QED
        BY <2>3, <2>6, <2>7, <2>8
<1>5. n \in 1 .. n
    OBVIOUS
<1>. QED
    BY <1>1, <1>4, <1>5

\* Slice i ends within the data and has byte b in it.
Covers(ds, data, i, b) ==
    /\ ds[i].offset < b /\ b <= ds[i].offset + ds[i].length
    /\ ds[i].offset + ds[i].length <= Len(data)

\* The bytes that the first k slices have in them.
Cover(ds, data, k) == {b \in DOMAIN data : \E i \in 1 .. k : Covers(ds, data, i, b)}

\* What get_slice takes of one slice.
Piece(slices, source, i) ==
    IF SliceTaken(slices[i], source) THEN Bytes(source, slices[i].start, slices[i].end) ELSE <<>>

\* Slices that check_filter lets pass and that do not wrap.
SoundSlices(ds) ==
    CheckedSlices(ds) /\ \A i \in DOMAIN ds : ds[i].offset + ds[i].length < WORD

\* The next slice adds its bytes behind those of the slices before: the checks of
\* the limits keep it from beginning before one of them ends.
LEMMA CoverStep ==
    ASSUME NEW ds, SoundSlices(ds), NEW data \in Seq(Nat), NEW k \in DOMAIN ds
    PROVE  Pick(data, Cover(ds, data, k)) =
               Pick(data, Cover(ds, data, k - 1)) \o Piece(FilterAccountDataSlices(ds), data, k)
<1>. PICK a, b, K, L : /\ a = ds[k].offset /\ b = ds[k].offset + ds[k].length
                       /\ K = Cover(ds, data, k - 1) /\ L = Cover(ds, data, k)
    OBVIOUS
<1>. PICK slices : slices = FilterAccountDataSlices(ds)
    OBVIOUS
<1>1. DOMAIN ds = 1 .. Len(ds) /\ Len(ds) \in Nat /\ DOMAIN data = 1 .. Len(data) /\ Len(data) \in Nat
    BY DEF SoundSlices, CheckedSlices
<1>2. /\ a \in Nat /\ b \in Nat /\ a <= b
      /\ slices[k].start = a /\ slices[k].end = b
    BY SliceFields DEF SoundSlices
<1>3. k \in Nat /\ \A i \in 1 .. k : i \in 1 .. (k - 1) \/ i = k
    BY <1>1
<1>4. k \in 1 .. k /\ 1 .. (k - 1) \subseteq 1 .. k
    BY <1>1
<1>5. K \in SUBSET (1 .. Len(data))
    BY <1>1 DEF Cover
<1>6. CASE b <= Len(data)
    <2>1. K \in SUBSET (1 .. a)
        <3>. SUFFICES ASSUME NEW x \in K PROVE x \in 1 .. a
            OBVIOUS
        <3>1. PICK i \in 1 .. (k - 1) : Covers(ds, data, i, x)
            BY DEF Cover
        <3>2. i \in DOMAIN ds /\ i < k
            BY <1>1, <3>1
        <3>3. /\ ds[i].offset \in Nat /\ ds[i].length \in Nat
              /\ ds[i].offset + ds[i].length < WORD
            BY <3>2, SliceFields DEF SoundSlices
        <3>4. (ds[i].offset + ds[i].length) % WORD <= ds[k].offset
            BY <3>2 DEF SoundSlices, CheckedSlices, check_data_slices
        <3>5. (ds[i].offset + ds[i].length) % WORD = ds[i].offset + ds[i].length
            BY <3>3, NoWrap
        <3>6. x <= ds[i].offset + ds[i].length
            BY <3>1 DEF Covers
        <3>7. x \in Nat /\ x >= 1
            BY <1>5, <1>1
        <3>. QED
            BY <1>2, <3>3, <3>4, <3>5, <3>6, <3>7
    <2>2. \A x \in DOMAIN data : Covers(ds, data, k, x) <=> x \in (a + 1) .. b
        BY <1>1, <1>2, <1>6 DEF Covers
    <2>3. (a + 1) .. b \subseteq DOMAIN data
        BY <1>1, <1>2, <1>6
    <2>4. L = K \union ((a + 1) .. b)
        BY <1>3, <1>4, <2>2, <2>3 DEF Cover
    <2>5. Pick(data, K \union ((a + 1) .. b)) = Pick(data, K) \o SubSeq(data, a + 1, b)
        BY <1>2, <1>6, <2>1, PickBehind
    <2>6. Piece(slices, data, k) = SubSeq(data, a + 1, b)
        BY <1>1, <1>2, <1>6 DEF Piece, SliceTaken, Bytes
    <2>. QED
        BY <2>4, <2>5, <2>6
<1>7. CASE ~(b <= Len(data))
    <2>1. \A x \in DOMAIN data : ~Covers(ds, data, k, x)
        BY <1>7 DEF Covers
    <2>2. L = K
        BY <1>3, <1>4, <2>1 DEF Cover
    <2>3. Piece(slices, data, k) = <<>>
        BY <1>1, <1>2, <1>7 DEF Piece, SliceTaken
    <2>4. Picked(Pick(data, K), data, K)
        BY <1>1, <1>5, PickIs
    <2>5. PICK S : Pick(data, K) \in Seq(S)
        BY <2>4 DEF Picked, IsSequence
    <2>6. Pick(data, K) \o <<>> = Pick(data, K)
        BY <2>5, ConcatEmptySeq
    <2>. QED
        BY <2>2, <2>3, <2>6
<1>. QED
    BY <1>6, <1>7

\* get_slice only concatenates, and yet takes each byte once and in its order.
LEMMA SliceIs ==
    ASSUME NEW ds, SoundSlices(ds), ds # <<>>, NEW data \in Seq(Nat)
    PROVE  get_slice(FilterAccountDataSlices(ds), data) = Pick(data, Cover(ds, data, Len(ds)))
<1>. PICK n, slices : n = Len(ds) /\ slices = FilterAccountDataSlices(ds)
    OBVIOUS
<1>1. DOMAIN ds = 1 .. n /\ n \in Nat /\ n # 0
    BY DEF SoundSlices, CheckedSlices
<1>. PICK seqs : seqs = [i \in DOMAIN slices |-> Piece(slices, data, i)]
    OBVIOUS
<1>2. DOMAIN slices = 1 .. n /\ slices # <<>>
    <2>1. DOMAIN slices = 1 .. n /\ 1 \in DOMAIN slices
        BY <1>1 DEF FilterAccountDataSlices
    <2>2. 1 \notin DOMAIN <<>>
        OBVIOUS
    <2>. QED
        BY <2>1, <2>2, Zenon
<1>3. Len(seqs) = n /\ \A i \in 1 .. n : seqs[i] = Piece(slices, data, i)
    BY <1>1, <1>2
<1>4. get_slice(slices, data) = FlattenSeq(seqs)
    BY <1>2 DEF get_slice, Piece
<1>. PICK G : G = [k \in 0 .. n |-> Pick(data, Cover(ds, data, k))]
    OBVIOUS
<1>5. ASSUME NEW k \in 1 .. n PROVE G[k] = G[k - 1] \o seqs[k]
    <2>1. k \in 0 .. n /\ k - 1 \in 0 .. n
        BY <1>1
    <2>2. G[k] = Pick(data, Cover(ds, data, k)) /\ G[k - 1] = Pick(data, Cover(ds, data, k - 1))
        BY <2>1
    <2>3. k \in DOMAIN ds
        BY <1>1
    <2>4. Pick(data, Cover(ds, data, k)) =
              Pick(data, Cover(ds, data, k - 1)) \o Piece(slices, data, k)
        BY <2>3, CoverStep
    <2>5. seqs[k] = Piece(slices, data, k)
        BY <1>3
    <2>. QED
        BY ONLY <2>2, <2>4, <2>5
<1>6. G[0] = <<>>
    <2>1. Cover(ds, data, 0) = {}
        BY DEF Cover
    <2>2. 0 \in 0 .. n
        BY <1>1
    <2>3. G[0] = Pick(data, Cover(ds, data, 0))
        BY <2>2
    <2>4. Pick(data, {}) = <<>>
        BY PickNone
    <2>. QED
        BY ONLY <2>1, <2>3, <2>4
<1>7. G[1] = seqs[1]
    <2>1. 1 \in 1 .. n
        BY <1>1
    <2>2. G[1] = G[0] \o seqs[1]
        <3>. PICK k : k = 1
            OBVIOUS
        <3>1. k \in 1 .. n
            BY <2>1
        <3>2. G[k] = G[k - 1] \o seqs[k]
            BY <1>5, <3>1
        <3>3. k - 1 = 0
            OBVIOUS
        <3>. QED
            BY ONLY <3>2, <3>3, k = 1
    <2>3. seqs[1] = Piece(slices, data, 1)
        BY <1>3, <2>1
    <2>4. Piece(slices, data, 1) \in Seq(Nat)
        <3>1. slices[1].start \in Nat /\ slices[1].end \in Nat
            BY <1>1, <2>1, SliceFields, SMTT(30) DEF SoundSlices
        <3>2. ASSUME slices[1].end <= Len(data)
              PROVE  SubSeq(data, slices[1].start + 1, slices[1].end) \in Seq(Nat)
            BY <3>1, <3>2
        <3>3. <<>> \in Seq(Nat)
            OBVIOUS
        <3>. QED
            BY <3>2, <3>3 DEF Piece, SliceTaken, Bytes
    <2>5. <<>> \o seqs[1] = seqs[1]
        BY <2>3, <2>4, ConcatEmptySeq
    <2>. QED
        BY <1>6, <2>2, <2>5
<1>8. PutTogether(G, seqs)
    <2>1. 2 .. n \subseteq 1 .. n
        BY <1>1
    <2>2. \A i \in 2 .. n : G[i] = G[i - 1] \o seqs[i]
        BY <1>5, <2>1
    <2>. QED
        BY ONLY <1>3, <1>7, <2>2 DEF PutTogether
<1>9. FlattenSeq(seqs) = G[n]
    BY <1>1, <1>3, <1>8, FlattenIs
<1>. QED
    BY <1>1, <1>4, <1>9

(***************************************************************************)
(* The message and its updates                                             *)
(***************************************************************************)
\* Messages are parsed of the updates of the source, and the updates made of them
\* are the ones of get_updates_ref, or none after a panic.
MessageInv ==
    /\ message # None => wire \in Incoming /\ Parses(wire) /\ message = Parsed(wire)
    /\ updates # None =>
          \/ updates = <<>>
          \/ updates = get_updates_ref(filter, message, filter.commitment)

\* Every step keeps the message what the parser made, and the updates what the filter made.
LEMMA MessageStep == FilterInv /\ MessageInv /\ [Next]_vars => MessageInv'
<1>. SUFFICES ASSUME FilterInv, MessageInv, [Next]_vars PROVE MessageInv'
    OBVIOUS
<1>1. ASSUME NEW r \in Requests, SetFilter(r) PROVE MessageInv'
    <2>1. message' = None /\ updates' = None
        BY <1>1 DEF FilterInv, SetFilter
    <2>. QED
        BY <2>1 DEF MessageInv
<1>2. ASSUME NEW u \in Incoming, Receive(u) PROVE MessageInv'
    <2>1. /\ wire' = u /\ (message' # None => Parses(u) /\ message' = Parsed(u))
          /\ updates' = None
        BY <1>2 DEF FilterInv, Receive
    <2>. QED
        BY <2>1 DEF MessageInv
<1>3. ASSUME GetUpdates PROVE MessageInv'
    BY <1>3 DEF MessageInv, GetUpdates
<1>4. ASSUME UNCHANGED vars PROVE MessageInv'
    BY <1>4 DEF MessageInv, vars
<1>. QED
    BY <1>1, <1>2, <1>3, <1>4 DEF Next

\* Message and updates are what parser and filter make of the last update.
THEOREM MessageInvariant == Spec => []MessageInv
<1>1. Init => MessageInv
    BY DEF Init, MessageInv
<1>. QED
    BY <1>1, MessageStep, FilterInvariant, PTL DEF Spec

\* A message has the kind of the update it is parsed of.
LEMMA KindKept ==
    ASSUME NEW u, Parses(u)
    PROVE  Parsed(u).kind = u.update_oneof.kind
<1>1. u.update_oneof.kind \in {"slot", "account", "transaction", "entry", "block_meta", "block"}
    BY DEF Parses
<1>. QED
    BY <1>1 DEF Parsed, MessageSlot, MessageAccount, MessageTransaction, MessageEntry,
                MessageBlockMeta, MessageBlock

\* A message of an account comes from an update that holds that account.
LEMMA AccountParsed ==
    ASSUME MessageInv, message # None, message.kind = "account"
    PROVE  /\ wire.update_oneof.kind = "account" /\ wire.created_at # None
           /\ IsAccount(wire.update_oneof.account) /\ AccountParses(wire.update_oneof.account)
           /\ message = MessageAccount(wire.update_oneof.account, wire.update_oneof.slot,
                                       wire.update_oneof.is_startup, wire.created_at)
<1>1. wire \in Incoming /\ Parses(wire) /\ message = Parsed(wire)
    BY DEF MessageInv
<1>2. wire.update_oneof.kind = "account"
    BY <1>1, KindKept
<1>3. /\ wire.created_at # None
      /\ AccountParses(wire.update_oneof.account)
    BY <1>1, <1>2 DEF Parses
<1>4. IsAccount(wire.update_oneof.account)
    BY <1>1, <1>2, <1>3, IncomingAssumption DEF IsUpdate, AccountParses
<1>. QED
    BY <1>1, <1>2, <1>3, <1>4 DEF Parsed

\* A message of a block comes from an update that holds its accounts, transactions and entries.
LEMMA BlockParsed ==
    ASSUME MessageInv, message # None, message.kind = "block"
    PROVE  LET b == wire.update_oneof
           IN /\ b.kind = "block" /\ wire.created_at # None
              /\ IsVec(b.accounts) /\ \A i \in DOMAIN b.accounts : IsAccount(b.accounts[i])
              /\ IsVec(b.transactions) /\ IsVec(b.entries)
              /\ BlockParses(b) /\ message = MessageBlock(b, wire.created_at)
<1>1. wire \in Incoming /\ Parses(wire) /\ message = Parsed(wire)
    BY DEF MessageInv
<1>2. wire.update_oneof.kind = "block"
    BY <1>1, KindKept
<1>3. wire.created_at # None /\ BlockParses(wire.update_oneof)
    BY <1>1, <1>2 DEF Parses
<1>4. /\ IsVec(wire.update_oneof.accounts)
      /\ \A i \in DOMAIN wire.update_oneof.accounts : IsAccount(wire.update_oneof.accounts[i])
      /\ IsVec(wire.update_oneof.transactions) /\ IsVec(wire.update_oneof.entries)
    BY <1>1, <1>2, <1>3, IncomingAssumption DEF IsUpdate
<1>. QED
    BY <1>1, <1>2, <1>3, <1>4 DEF Parsed

\* What get_updates_ref returns for accounts and for blocks.
LEMMA AccountUpdates ==
    ASSUME NEW f, NEW m, NEW c, m.kind = "account"
    PROVE  get_updates_ref(f, m, c) =
               FilteredUpdate({n \in DOMAIN f.accounts : AccountMatches(f.accounts[n], m)},
                              EncodeAccount(m, f.accounts_data_slices))
BY DEF get_updates_ref, Matching

\* Every update of a block is the one of a named filter of blocks.
LEMMA BlockUpdates ==
    ASSUME NEW f, NEW m, NEW c, m.kind = "block",
           NEW i \in DOMAIN get_updates_ref(f, m, c)
    PROVE  \E n : get_updates_ref(f, m, c)[i] =
                      BlockUpdate(f.blocks[n], n, m, f.accounts_data_slices)
<1>. PICK names : names = SetToSeq(DOMAIN f.blocks)
    OBVIOUS
<1>1. get_updates_ref(f, m, c) =
          [j \in DOMAIN names |-> BlockUpdate(f.blocks[names[j]], names[j], m, f.accounts_data_slices)]
    BY DEF get_updates_ref
<1>. QED
    BY <1>1

\* An update of a filter of blocks carries a block.
LEMMA BlockKind ==
    ASSUME NEW f, NEW n, NEW m, NEW slices
    PROVE  BlockUpdate(f, n, m, slices).update.kind = "block"
BY DEF BlockUpdate, EncodeBlock

\* What get_slice returns under an accepted request that does not wrap.
LEMMA SliceAsked ==
    ASSUME Accepted, ~SliceEndsAfter(Max64), NEW data \in Seq(Nat)
    PROVE  get_slice(filter.accounts_data_slices, data) = Asked(data)
<1>. PICK ds : ds = Config.accounts_data_slice
    OBVIOUS
<1>. PICK c : c = Config
    OBVIOUS
<1>1. IsConfig(c) /\ check_filter(limits, c) /\ filter = NewFilter(c)
    BY AcceptedTyped DEF Accepted
<1>2. /\ ds = c.accounts_data_slice /\ ds \in Seq([offset : Word, length : Word])
      /\ check_data_slices(ds)
    BY <1>1 DEF IsConfig, check_filter, check_accounts
<1>3. filter.accounts_data_slices = FilterAccountDataSlices(ds)
    BY <1>1, <1>2 DEF NewFilter
<1>4. DOMAIN ds = 1 .. Len(ds) /\ Len(ds) \in Nat
    BY <1>2
<1>5. \A i \in DOMAIN ds : ds[i].offset + ds[i].length < WORD
    <2>. TAKE i \in DOMAIN ds
    <2>. PICK S : S = [offset : Word, length : Word]
        OBVIOUS
    <2>1. ds \in Seq(S)
        BY <1>2
    <2>2. ds[i] \in S
        BY ONLY <2>1, i \in DOMAIN ds
    <2>3. ds[i].offset \in Nat /\ ds[i].length \in Nat /\ WORD \in Nat
        BY <2>2, ConfigAssumption DEF Word, Max64
    <2>4. ~(ds[i].offset + ds[i].length > Max64)
        BY DEF SliceEndsAfter
    <2>. QED
        BY <2>3, <2>4 DEF Max64
<1>6. CASE ds = <<>>
    <2>1. FilterAccountDataSlices(ds) = <<>>
        BY <1>6 DEF FilterAccountDataSlices
    <2>. QED
        BY <1>3, <1>6, <2>1 DEF get_slice, Asked
<1>7. CASE ds # <<>>
    <2>1. SoundSlices(ds)
        BY <1>2, <1>5 DEF SoundSlices, CheckedSlices
    <2>2. get_slice(FilterAccountDataSlices(ds), data) = Pick(data, Cover(ds, data, Len(ds)))
        BY <1>7, <2>1, SliceIs
    <2>3. Asked(data) = Pick(data, {b \in DOMAIN data : \E i \in DOMAIN ds :
                           /\ ds[i].offset < b /\ b <= ds[i].offset + ds[i].length
                           /\ ds[i].offset + ds[i].length <= Len(data)})
        BY <1>7 DEF Asked
    <2>4. Cover(ds, data, Len(ds)) = {b \in DOMAIN data : \E i \in DOMAIN ds :
                           /\ ds[i].offset < b /\ b <= ds[i].offset + ds[i].length
                           /\ ds[i].offset + ds[i].length <= Len(data)}
        BY <1>4 DEF Cover, Covers
    <2>. QED
        BY <1>3, <2>2, <2>3, <2>4
<1>. QED
    BY <1>6, <1>7

\* The account that goes out is the one that came, but for its data.
LEMMA InfoIs ==
    ASSUME NEW a, IsAccount(a), NEW d
    PROVE  [a EXCEPT !.data = d].data = d
BY DEF IsAccount

\* Every account of every update goes out with the bytes that the slices of the
\* request cover, each once and in its order, unless the request wraps.
THEOREM SlicesTheorem == Spec => []SlicesSound
<1>1. FilterInv /\ MessageInv => SlicesSound
    <2>. SUFFICES ASSUME FilterInv, MessageInv, updates # None, ~SliceEndsAfter(Max64),
                         NEW i \in DOMAIN updates, NEW pair \in SlicedAccounts(updates[i])
                  PROVE  pair[2] = Asked(pair[1])
        BY DEF SlicesSound
    <2>1. message # None /\ Accepted
        BY DEF FilterInv
    <2>2. updates = get_updates_ref(filter, message, filter.commitment)
        BY DEF MessageInv
    <2>. PICK u : u = updates[i]
        OBVIOUS
    <2>3. CASE message.kind = "account"
        <3>. PICK a : a = message.account
            OBVIOUS
        <3>1. IsAccount(a)
            BY <2>1, <2>3, AccountParsed DEF MessageAccount
        <3>. PICK names, enc :
                 /\ names = {n \in DOMAIN filter.accounts : AccountMatches(filter.accounts[n], message)}
                 /\ enc = EncodeAccount(message, filter.accounts_data_slices)
            OBVIOUS
        <3>2. updates = FilteredUpdate(names, enc)
            BY <2>2, <2>3, AccountUpdates
        <3>3. u.update = enc
            BY <3>2 DEF FilteredUpdate
        <3>4. enc.account = [a EXCEPT !.data = get_slice(filter.accounts_data_slices, a.data)]
            BY DEF EncodeAccount
        <3>5. u.update.account.data = get_slice(filter.accounts_data_slices, a.data)
            BY <3>1, <3>3, <3>4, InfoIs
        <3>6. pair = <<a.data, u.update.account.data>>
            BY <2>3 DEF SlicedAccounts
        <3>7. a.data \in Seq(Nat)
            BY <3>1 DEF IsAccount
        <3>. QED
            BY <2>1, <3>5, <3>6, <3>7, SliceAsked
    <2>4. CASE message.kind = "block"
        <3>. PICK b : b = wire.update_oneof
            OBVIOUS
        <3>1. /\ \A j \in DOMAIN b.accounts : IsAccount(b.accounts[j])
              /\ message = MessageBlock(b, wire.created_at) /\ IsVec(b.accounts)
            BY <2>1, <2>4, BlockParsed
        <3>2. PICK n : u = BlockUpdate(filter.blocks[n], n, message, filter.accounts_data_slices)
            BY <2>2, <2>4, BlockUpdates
        <3>. PICK K : K = BlockAccounts(filter.blocks[n], message)
            OBVIOUS
        <3>. PICK taken : taken = Pick(message.accounts, K)
            OBVIOUS
        <3>3. u.filters[1] = n
            BY <3>2 DEF BlockUpdate
        <3>4. SlicedAccounts(u) =
                  {<<taken[j].account.data, u.update.accounts[j].data>> : j \in DOMAIN taken}
            BY <2>4, <3>3 DEF SlicedAccounts
        <3>5. PICK j \in DOMAIN taken : pair = <<taken[j].account.data, u.update.accounts[j].data>>
            BY <3>4
        <3>6. DOMAIN taken = 1 .. Cardinality(K)
            BY DEF Pick
        <3>7. u.update.accounts[j] =
                  [taken[j].account EXCEPT
                       !.data = get_slice(filter.accounts_data_slices, taken[j].account.data)]
            <4>. PICK T, e, sl : /\ T = BlockTransactions(filter.blocks[n], message)
                                 /\ e = (filter.blocks[n].include_entries = TRUE)
                                 /\ sl = filter.accounts_data_slices
                OBVIOUS
            <4>1. u.update = EncodeBlock(message, K, T, e, sl)
                BY <3>2 DEF BlockUpdate
            <4>2. u.update.accounts =
                      [x \in 1 .. Cardinality(K) |->
                          [Pick(message.accounts, K)[x].account EXCEPT !.data = get_slice(sl, @)]]
                BY ONLY <4>1 DEF EncodeBlock
            <4>3. j \in 1 .. Cardinality(K)
                BY <3>5, <3>6
            <4>4. u.update.accounts[j] = [taken[j].account EXCEPT !.data = get_slice(sl, @)]
                BY ONLY <4>2, <4>3, taken = Pick(message.accounts, K)
            <4>. QED
                BY <4>4
        <3>8. IsAccount(taken[j].account)
            <4>1. /\ DOMAIN message.accounts = DOMAIN b.accounts
                  /\ \A k \in DOMAIN b.accounts : message.accounts[k].account = b.accounts[k]
                BY <3>1 DEF MessageBlock, MessageAccount
            <4>2. PICK len \in Nat : DOMAIN b.accounts = 1 .. len
                BY <3>1 DEF IsVec
            <4>3. K \in SUBSET (1 .. len)
                BY <4>1, <4>2 DEF BlockAccounts
            <4>4. Picked(Pick(message.accounts, K), message.accounts, K)
                BY <4>3, PickIs
            <4>5. PICK k \in K : taken[j] = message.accounts[k]
                BY <3>5, <3>6, <4>4 DEF Picked
            <4>. QED
                BY <3>1, <4>1, <4>2, <4>3, <4>5
        <3>9. taken[j].account.data \in Seq(Nat)
            BY <3>8 DEF IsAccount
        <3>10. u.update.accounts[j].data =
                   get_slice(filter.accounts_data_slices, taken[j].account.data)
            BY <3>7, <3>8, InfoIs
        <3>. QED
            BY <2>1, <3>5, <3>9, <3>10, SliceAsked
    <2>5. CASE message.kind # "account" /\ message.kind # "block"
        BY <2>5 DEF SlicedAccounts
    <2>. QED
        BY <2>3, <2>4, <2>5
<1>. QED
    BY <1>1, FilterInvariant, MessageInvariant, PTL

(***************************************************************************)
(* Updates at the next server                                              *)
(***************************************************************************)
\* The next server parses what was sent, and the message is the same.
Again(u) == Parses(Sent(u)) /\ Parsed(Sent(u)) = message

\* The parts of a parsed update that was sent.
LEMMA SentIs ==
    ASSUME NEW u
    PROVE  Sent(u).update_oneof = u.update /\ Sent(u).created_at = message.created_at
BY DEF Sent

\* The update of a slot parses to the message it was made of.
LEMMA SlotAgain ==
    ASSUME MessageInv, message # None, message.kind = "slot", NEW u, u.update = EncodeSlot(message)
    PROVE  Again(u)
<1>1. Parses(wire) /\ message = Parsed(wire) /\ wire.update_oneof.kind = "slot"
    BY KindKept DEF MessageInv
<1>. PICK s, at : s = wire.update_oneof /\ at = wire.created_at
    OBVIOUS
<1>2. message = MessageSlot(s, at) /\ at # None /\ s.status + 1 \in DOMAIN ProtoLevels
    BY <1>1 DEF Parses, Parsed
<1>. PICK i : i = CHOOSE j \in DOMAIN ProtoLevels : ProtoLevels[j] = message.commitment
    OBVIOUS
<1>3. message.commitment = ProtoLevels[s.status + 1]
    BY <1>2 DEF MessageSlot
<1>4. i \in DOMAIN ProtoLevels /\ ProtoLevels[i] = message.commitment
    BY <1>2, <1>3
<1>5. (i - 1) + 1 = i
    <2>1. i \in Int
        BY <1>4 DEF ProtoLevels
    <2>. QED
        BY ONLY <2>1
<1>6. message = [kind |-> "slot", slot |-> s.slot, parent |-> s.parent,
                 commitment |-> message.commitment, dead_error |-> s.dead_error, created_at |-> at]
    BY <1>2, <1>3 DEF MessageSlot
<1>7. u.update = [kind |-> "slot", slot |-> s.slot, parent |-> s.parent,
                  dead_error |-> s.dead_error, status |-> i - 1]
    BY <1>6 DEF EncodeSlot
<1>8. message.created_at = at
    BY <1>6
<1>9. Parses(Sent(u))
    BY <1>2, <1>4, <1>5, <1>7, <1>8, SentIs DEF Parses
<1>10. Parsed(Sent(u)) = MessageSlot(u.update, at)
    BY <1>7, <1>8, SentIs DEF Parsed
<1>11. MessageSlot(u.update, at) =
           [kind |-> "slot", slot |-> s.slot, parent |-> s.parent,
            commitment |-> message.commitment, dead_error |-> s.dead_error, created_at |-> at]
    BY <1>4, <1>5, <1>7 DEF MessageSlot
<1>. QED
    BY <1>6, <1>9, <1>10, <1>11 DEF Again

\* The update of an account without slices parses to the message it was made of.
LEMMA AccountAgain ==
    ASSUME MessageInv, message # None, message.kind = "account",
           NEW u, u.update = EncodeAccount(message, <<>>)
    PROVE  Again(u)
<1>. PICK a, o, at : /\ a = wire.update_oneof.account /\ o = wire.update_oneof
                     /\ at = wire.created_at
    OBVIOUS
<1>1. /\ at # None /\ IsAccount(a) /\ AccountParses(a)
      /\ message = MessageAccount(a, o.slot, o.is_startup, at)
    BY AccountParsed
<1>2. [a EXCEPT !.data = a.data] = a
    BY <1>1 DEF IsAccount
<1>3. /\ message.account = a /\ message.slot = o.slot /\ message.is_startup = o.is_startup
      /\ message.created_at = at
    BY <1>1 DEF MessageAccount
<1>4. u.update = [kind |-> "account", slot |-> o.slot, is_startup |-> o.is_startup, account |-> a]
    BY <1>2, <1>3 DEF EncodeAccount, get_slice
<1>5. Parses(Sent(u))
    BY <1>1, <1>3, <1>4, SentIs DEF Parses
<1>6. Parsed(Sent(u)) = MessageAccount(a, o.slot, o.is_startup, at)
    BY <1>3, <1>4, SentIs DEF Parsed
<1>. QED
    BY <1>1, <1>5, <1>6 DEF Again

\* The update of a transaction parses to the message it was made of.
LEMMA TransactionAgain ==
    ASSUME MessageInv, message # None, message.kind = "transaction",
           NEW u, u.update = EncodeTransaction(message)
    PROVE  Again(u)
<1>1. Parses(wire) /\ message = Parsed(wire) /\ wire.update_oneof.kind = "transaction"
    BY KindKept DEF MessageInv
<1>. PICK o, at : o = wire.update_oneof /\ at = wire.created_at
    OBVIOUS
<1>2. /\ message = MessageTransaction(o.transaction, o.slot, at)
      /\ at # None /\ TransactionParses(o.transaction)
    BY <1>1 DEF Parses, Parsed
<1>3. message.transaction = o.transaction /\ message.slot = o.slot /\ message.created_at = at
    BY <1>2 DEF MessageTransaction
<1>4. u.update = [kind |-> "transaction", transaction |-> o.transaction, slot |-> o.slot]
    BY <1>3 DEF EncodeTransaction
<1>5. Parses(Sent(u))
    BY <1>2, <1>3, <1>4, SentIs DEF Parses
<1>6. Parsed(Sent(u)) = MessageTransaction(o.transaction, o.slot, at)
    BY <1>3, <1>4, SentIs DEF Parsed
<1>. QED
    BY <1>2, <1>5, <1>6 DEF Again

\* The update of an entry parses to the message it was made of.
LEMMA EntryAgain ==
    ASSUME MessageInv, message # None, message.kind = "entry",
           NEW u, u.update = [kind |-> "entry", entry |-> message.entry]
    PROVE  Again(u)
<1>1. Parses(wire) /\ message = Parsed(wire) /\ wire.update_oneof.kind = "entry"
    BY KindKept DEF MessageInv
<1>. PICK o, at : o = wire.update_oneof /\ at = wire.created_at
    OBVIOUS
<1>2. message = MessageEntry(o.entry, at) /\ at # None
    BY <1>1 DEF Parses, Parsed
<1>3. message.entry = o.entry /\ message.created_at = at
    BY <1>2 DEF MessageEntry
<1>4. Parses(Sent(u))
    BY <1>2, <1>3, SentIs DEF Parses
<1>5. Parsed(Sent(u)) = MessageEntry(o.entry, at)
    BY <1>3, SentIs DEF Parsed
<1>. QED
    BY <1>2, <1>4, <1>5 DEF Again

\* The update of a block meta parses to the message it was made of.
LEMMA BlockMetaAgain ==
    ASSUME MessageInv, message # None, message.kind = "block_meta",
           NEW u, u.update = [kind |-> "block_meta", block_meta |-> message.block_meta]
    PROVE  Again(u)
<1>1. Parses(wire) /\ message = Parsed(wire) /\ wire.update_oneof.kind = "block_meta"
    BY KindKept DEF MessageInv
<1>. PICK o, at : o = wire.update_oneof /\ at = wire.created_at
    OBVIOUS
<1>2. message = MessageBlockMeta(o.block_meta, at) /\ at # None
    BY <1>1 DEF Parses, Parsed
<1>3. message.block_meta = o.block_meta /\ message.created_at = at
    BY <1>2 DEF MessageBlockMeta
<1>4. Parses(Sent(u))
    BY <1>2, <1>3, SentIs DEF Parses
<1>5. Parsed(Sent(u)) = MessageBlockMeta(o.block_meta, at)
    BY <1>3, SentIs DEF Parsed
<1>. QED
    BY <1>2, <1>4, <1>5 DEF Again

\* The status of a transaction is no message of the parser.
LEMMA StatusRefused ==
    ASSUME NEW u, u.update = EncodeTransactionStatus(message)
    PROVE  u.update.kind = "transaction_status" /\ ~Parses(Sent(u))
BY SentIs DEF EncodeTransactionStatus, Parses

\* What is in the updates of a message that is no block.
LEMMA UpdatesAre ==
    ASSUME NEW f, NEW m, NEW c, NEW i \in DOMAIN get_updates_ref(f, m, c),
           m.kind \in {"slot", "account", "transaction", "entry", "block_meta"}
    PROVE  LET u == get_updates_ref(f, m, c)[i].update
           IN \/ m.kind = "slot" /\ u = EncodeSlot(m)
              \/ m.kind = "account" /\ u = EncodeAccount(m, f.accounts_data_slices)
              \/ m.kind = "transaction" /\ u = EncodeTransaction(m)
              \/ m.kind = "transaction" /\ u = EncodeTransactionStatus(m)
              \/ m.kind = "entry" /\ u = [kind |-> "entry", entry |-> m.entry]
              \/ m.kind = "block_meta" /\ u = [kind |-> "block_meta", block_meta |-> m.block_meta]
<1>. PICK us : us = get_updates_ref(f, m, c)
    OBVIOUS
<1>1. ASSUME NEW names, NEW e, us = FilteredUpdate(names, e)
      PROVE  us[i].update = e
    BY <1>1 DEF FilteredUpdate
<1>2. CASE m.kind = "slot"
    <2>1. \E names : us = FilteredUpdate(names, EncodeSlot(m))
        BY <1>2 DEF get_updates_ref
    <2>. QED
        BY <1>1, <1>2, <2>1
<1>3. CASE m.kind = "account"
    <2>1. \E names : us = FilteredUpdate(names, EncodeAccount(m, f.accounts_data_slices))
        BY <1>3 DEF get_updates_ref
    <2>. QED
        BY <1>1, <1>3, <2>1
<1>4. CASE m.kind = "transaction"
    <2>1. PICK names, more : us = FilteredUpdate(names, EncodeTransaction(m))
                                  \o FilteredUpdate(more, EncodeTransactionStatus(m))
        BY <1>4 DEF get_updates_ref
    <2>2. us[i].update = EncodeTransaction(m) \/ us[i].update = EncodeTransactionStatus(m)
        BY <2>1 DEF FilteredUpdate
    <2>. QED
        BY <1>4, <2>2
<1>5. CASE m.kind = "entry"
    <2>1. \E names : us = FilteredUpdate(names, [kind |-> "entry", entry |-> m.entry])
        BY <1>5 DEF get_updates_ref
    <2>. QED
        BY <1>1, <1>5, <2>1
<1>6. CASE m.kind = "block_meta"
    <2>1. \E names : us = FilteredUpdate(names, [kind |-> "block_meta", block_meta |-> m.block_meta])
        BY <1>6 DEF get_updates_ref
    <2>. QED
        BY <1>1, <1>6, <2>1
<1>. QED
    BY <1>2, <1>3, <1>4, <1>5, <1>6

\* All positions of a sequence pick the sequence.
LEMMA PickAll ==
    ASSUME NEW n \in Nat, NEW q, q = [i \in 1 .. n |-> q[i]]
    PROVE  Pick(q, 1 .. n) = q
<1>1. Cardinality(1 .. n) = n
    BY FS_Interval
<1>2. ASSUME NEW i \in 1 .. n PROVE Rank(i, 1 .. n) = i
    <2>1. {j \in 1 .. n : j <= i} = 1 .. i /\ i \in Nat
        OBVIOUS
    <2>2. Cardinality(1 .. i) = i
        BY <2>1, FS_Interval
    <2>. QED
        BY <2>1, <2>2 DEF Rank
<1>3. ASSUME NEW r \in 1 .. n PROVE (CHOOSE i \in 1 .. n : Rank(i, 1 .. n) = r) = r
    BY <1>2
<1>4. Pick(q, 1 .. n) = [r \in 1 .. n |-> q[r]]
    BY <1>1, <1>3 DEF Pick
<1>. QED
    BY <1>4

\* What is picked of a sequence is a sequence of its elements.
LEMMA PickElements ==
    ASSUME NEW n \in Nat, NEW K \in SUBSET (1 .. n), NEW q
    PROVE  /\ Cardinality(K) \in Nat
           /\ Pick(q, K) = [r \in 1 .. Cardinality(K) |-> Pick(q, K)[r]]
           /\ \A r \in 1 .. Cardinality(K) : \E k \in K : Pick(q, K)[r] = q[k]
<1>1. Picked(Pick(q, K), q, K)
    BY PickIs
<1>2. \A r \in 1 .. Cardinality(K) : \E k \in K : Pick(q, K)[r] = q[k]
    BY <1>1 DEF Picked
<1>3. Pick(q, K) = [r \in 1 .. Cardinality(K) |-> Pick(q, K)[r]]
    BY DEF Pick
<1>. QED
    BY <1>2, <1>3, FewPositions

\* The positions of a vector are the first n numbers.
LEMMA VecDomain == ASSUME NEW v, IsVec(v) PROVE \E n \in Nat : DOMAIN v = 1 .. n
BY DEF IsVec

\* m is the block that came, with the accounts K, the transactions T and, if e, its entries.
BlockLike(m, K, T, e) ==
    /\ m.kind = "block" /\ m.block_meta = message.block_meta
    /\ m.accounts = Pick(message.accounts, K)
    /\ m.transactions = Pick(message.transactions, T)
    /\ m.entries = IF e THEN message.entries ELSE <<>>

\* The message of a block, as the next server parses the update of it.
LEMMA BlockAgain ==
    ASSUME MessageInv, message # None, message.kind = "block", NEW u, NEW K, NEW T, NEW e,
           K \subseteq DOMAIN message.accounts, T \subseteq DOMAIN message.transactions,
           e \in BOOLEAN, u.update = EncodeBlock(message, K, T, e, <<>>)
    PROVE  Parses(Sent(u)) /\ BlockLike(Parsed(Sent(u)), K, T, e)
<1>. PICK b, at : b = wire.update_oneof /\ at = wire.created_at
    OBVIOUS
<1>1. /\ at # None /\ BlockParses(b) /\ message = MessageBlock(b, at)
      /\ IsVec(b.accounts) /\ IsVec(b.transactions) /\ IsVec(b.entries)
      /\ \A i \in DOMAIN b.accounts : IsAccount(b.accounts[i])
    BY BlockParsed
<1>2. /\ message.created_at = at /\ message.block_meta = MessageBlockMeta(BlockMetaOf(b), at)
      /\ message.accounts =
             [i \in DOMAIN b.accounts |-> MessageAccount(b.accounts[i], b.slot, FALSE, at)]
      /\ message.transactions =
             [i \in DOMAIN b.transactions |-> MessageTransaction(b.transactions[i], b.slot, at)]
      /\ message.entries = [i \in DOMAIN b.entries |-> MessageEntry(b.entries[i], at)]
    BY <1>1 DEF MessageBlock
<1>3. message.block_meta.block_meta = BlockMetaOf(b)
    BY <1>2 DEF MessageBlockMeta
<1>. PICK o, A, X : o = u.update /\ A = Pick(message.accounts, K) /\ X = Pick(message.transactions, T)
    OBVIOUS
<1>. PICK N, M : N = Cardinality(K) /\ M = Cardinality(T)
    OBVIOUS
<1>4. DOMAIN message.accounts = DOMAIN b.accounts /\ DOMAIN message.transactions = DOMAIN b.transactions
    BY <1>2
<1>5. /\ N \in Nat /\ A = [r \in 1 .. N |-> A[r]]
      /\ \A r \in 1 .. N : \E k \in K : A[r] = message.accounts[k]
    <2>1. PICK n \in Nat : DOMAIN b.accounts = 1 .. n
        BY <1>1, VecDomain
    <2>2. K \in SUBSET (1 .. n)
        BY <1>4, <2>1
    <2>3. /\ Cardinality(K) \in Nat
          /\ Pick(message.accounts, K) = [r \in 1 .. Cardinality(K) |-> Pick(message.accounts, K)[r]]
          /\ \A r \in 1 .. Cardinality(K) :
                 \E k \in K : Pick(message.accounts, K)[r] = message.accounts[k]
        BY ONLY <2>2, n \in Nat, PickElements, Zenon
    <2>. QED
        BY ONLY <2>3, A = Pick(message.accounts, K), N = Cardinality(K)
<1>6. /\ M \in Nat /\ X = [r \in 1 .. M |-> X[r]]
      /\ \A r \in 1 .. M : \E k \in T : X[r] = message.transactions[k]
    <2>1. PICK n \in Nat : DOMAIN b.transactions = 1 .. n
        BY <1>1, VecDomain
    <2>2. T \in SUBSET (1 .. n)
        BY <1>4, <2>1
    <2>3. /\ Cardinality(T) \in Nat
          /\ Pick(message.transactions, T) =
                 [r \in 1 .. Cardinality(T) |-> Pick(message.transactions, T)[r]]
          /\ \A r \in 1 .. Cardinality(T) :
                 \E k \in T : Pick(message.transactions, T)[r] = message.transactions[k]
        BY ONLY <2>2, n \in Nat, PickElements, Zenon
    <2>. QED
        BY ONLY <2>3, X = Pick(message.transactions, T), M = Cardinality(T)
<1>7. ASSUME NEW k \in K
      PROVE  /\ message.accounts[k] = MessageAccount(b.accounts[k], b.slot, FALSE, at)
             /\ message.accounts[k].account = b.accounts[k]
             /\ IsAccount(b.accounts[k]) /\ AccountParses(b.accounts[k])
             /\ [b.accounts[k] EXCEPT !.data = b.accounts[k].data] = b.accounts[k]
    <2>1. k \in DOMAIN b.accounts
        BY <1>2
    <2>2. IsAccount(b.accounts[k]) /\ AccountParses(b.accounts[k])
        BY <1>1, <2>1 DEF BlockParses
    <2>3. [b.accounts[k] EXCEPT !.data = b.accounts[k].data] = b.accounts[k]
        BY <2>2 DEF IsAccount
    <2>4. message.accounts[k] = MessageAccount(b.accounts[k], b.slot, FALSE, at)
        BY <1>2, <2>1
    <2>5. message.accounts[k].account = b.accounts[k]
        BY <2>4 DEF MessageAccount
    <2>. QED
        BY <2>2, <2>3, <2>4, <2>5
<1>8. ASSUME NEW k \in T
      PROVE  /\ message.transactions[k] = MessageTransaction(b.transactions[k], b.slot, at)
             /\ message.transactions[k].transaction = b.transactions[k]
             /\ TransactionParses(b.transactions[k])
    <2>1. k \in DOMAIN b.transactions
        BY <1>2
    <2>2. message.transactions[k] = MessageTransaction(b.transactions[k], b.slot, at)
        BY <1>2, <2>1
    <2>3. message.transactions[k].transaction = b.transactions[k]
        BY <2>2 DEF MessageTransaction
    <2>. QED
        BY <1>1, <2>1, <2>2, <2>3 DEF BlockParses
<1>9. /\ o.kind = "block" /\ o.slot = b.slot /\ o.rest = b.rest
      /\ o.executed_transaction_count = b.executed_transaction_count
      /\ o.entries_count = b.entries_count
      /\ o.accounts = [r \in 1 .. N |-> [A[r].account EXCEPT !.data = A[r].account.data]]
      /\ o.transactions = [r \in 1 .. M |-> X[r].transaction]
      /\ o.entries = IF e THEN [i \in DOMAIN message.entries |-> message.entries[i].entry] ELSE <<>>
    BY <1>3 DEF EncodeBlock, BlockMetaOf, get_slice
<1>10. ASSUME NEW r \in 1 .. N
       PROVE  AccountParses(o.accounts[r]) /\ MessageAccount(o.accounts[r], b.slot, FALSE, at) = A[r]
    <2>1. PICK k \in K : A[r] = message.accounts[k]
        BY <1>5
    <2>2. /\ A[r].account = b.accounts[k]
          /\ [b.accounts[k] EXCEPT !.data = b.accounts[k].data] = b.accounts[k]
          /\ AccountParses(b.accounts[k])
          /\ A[r] = MessageAccount(b.accounts[k], b.slot, FALSE, at)
        BY <1>7, <2>1
    <2>3. o.accounts[r] = [A[r].account EXCEPT !.data = A[r].account.data]
        BY ONLY <1>9, r \in 1 .. N
    <2>4. o.accounts[r] = b.accounts[k]
        BY ONLY <2>2, <2>3
    <2>. QED
        BY ONLY <2>2, <2>4
<1>11. ASSUME NEW r \in 1 .. M
       PROVE  /\ TransactionParses(o.transactions[r])
              /\ MessageTransaction(o.transactions[r], b.slot, at) = X[r]
    <2>1. PICK k \in T : X[r] = message.transactions[k]
        BY <1>6
    <2>2. /\ X[r].transaction = b.transactions[k] /\ TransactionParses(b.transactions[k])
          /\ X[r] = MessageTransaction(b.transactions[k], b.slot, at)
        BY <1>8, <2>1
    <2>3. o.transactions[r] = X[r].transaction
        BY ONLY <1>9, r \in 1 .. M
    <2>. QED
        BY ONLY <2>2, <2>3
<1>12. DOMAIN o.accounts = 1 .. N /\ DOMAIN o.transactions = 1 .. M
    BY <1>9
<1>13. BlockParses(o)
    BY <1>10, <1>11, <1>12 DEF BlockParses
<1>. PICK sent, m : sent = Sent(u) /\ m = Parsed(sent)
    OBVIOUS
<1>14. sent.update_oneof = o /\ sent.created_at = at
    BY <1>2, SentIs
<1>15. Parses(sent)
    BY ONLY <1>1, <1>9, <1>13, <1>14 DEF Parses
<1>16. m = MessageBlock(o, at)
    BY ONLY <1>9, <1>14, m = Parsed(sent) DEF Parsed
<1>17. /\ m.kind = "block" /\ m.block_meta = MessageBlockMeta(BlockMetaOf(o), at)
      /\ m.accounts = [r \in DOMAIN o.accounts |-> MessageAccount(o.accounts[r], o.slot, FALSE, at)]
      /\ m.transactions =
             [r \in DOMAIN o.transactions |-> MessageTransaction(o.transactions[r], o.slot, at)]
      /\ m.entries = [i \in DOMAIN o.entries |-> MessageEntry(o.entries[i], at)]
    BY ONLY <1>16 DEF MessageBlock
<1>18. m.accounts = A
    <2>1. m.accounts = [r \in 1 .. N |-> MessageAccount(o.accounts[r], b.slot, FALSE, at)]
        BY ONLY <1>9, <1>12, <1>17
    <2>. QED
        BY ONLY <1>5, <1>10, <2>1
<1>19. m.transactions = X
    <2>1. m.transactions = [r \in 1 .. M |-> MessageTransaction(o.transactions[r], b.slot, at)]
        BY ONLY <1>9, <1>12, <1>17
    <2>. QED
        BY ONLY <1>6, <1>11, <2>1
<1>20. m.entries = IF e THEN message.entries ELSE <<>>
    <2>1. CASE e = TRUE
        <3>1. o.entries = [i \in DOMAIN b.entries |-> message.entries[i].entry]
            BY <1>2, <1>9, <2>1
        <3>2. \A i \in DOMAIN b.entries : message.entries[i].entry = b.entries[i]
            BY <1>2 DEF MessageEntry
        <3>3. m.entries = [i \in DOMAIN b.entries |-> MessageEntry(b.entries[i], at)]
            BY ONLY <1>17, <3>1, <3>2
        <3>. QED
            BY ONLY <1>2, <2>1, <3>3
    <2>2. CASE e = FALSE
        <3>1. o.entries = <<>>
            BY ONLY <1>9, <2>2
        <3>. QED
            BY ONLY <1>17, <2>2, <3>1
    <2>. QED
        BY <2>1, <2>2
<1>21. m.block_meta = message.block_meta
    <2>1. BlockMetaOf(o) = BlockMetaOf(b)
        BY ONLY <1>9 DEF BlockMetaOf
    <2>. QED
        BY ONLY <1>2, <1>17, <2>1
<1>. QED
    BY ONLY <1>15, <1>17, <1>18, <1>19, <1>20, <1>21, sent = Sent(u), m = Parsed(sent),
            A = Pick(message.accounts, K), X = Pick(message.transactions, T) DEF BlockLike

\* A block update, all of whose parts but the number of updated accounts are given.
BlockOf(meta, transactions, accounts, entries, count) ==
    [kind |-> "block", slot |-> meta.slot, rest |-> meta.rest,
     executed_transaction_count |-> meta.executed_transaction_count,
     entries_count |-> meta.entries_count, updated_account_count |-> count,
     transactions |-> transactions, accounts |-> accounts, entries |-> entries]

Aside(update) == [update EXCEPT !.updated_account_count = 0]

\* Without its count of accounts, a block is what it holds.
LEMMA CountAside ==
    ASSUME NEW meta, NEW t, NEW a, NEW e, NEW c
    PROVE  /\ BlockOf(meta, t, a, e, c).kind = "block"
           /\ Aside(BlockOf(meta, t, a, e, c)) = BlockOf(meta, t, a, e, 0)
BY DEF BlockOf, Aside

\* The accounts of a block that go out, without slices.
Infos(picked, n) ==
    [i \in 1 .. n |-> [picked[i].account EXCEPT !.data = get_slice(<<>>, picked[i].account.data)]]

\* What the encoding of a block carries, by its parts.
LEMMA EncodeBlockIs ==
    ASSUME NEW b, NEW K, NEW T, NEW e
    PROVE  EncodeBlock(b, K, T, e, <<>>) =
               BlockOf(b.block_meta.block_meta,
                       [i \in 1 .. Cardinality(T) |-> Pick(b.transactions, T)[i].transaction],
                       Infos(Pick(b.accounts, K), Cardinality(K)),
                       IF e THEN [i \in DOMAIN b.entries |-> b.entries[i].entry] ELSE <<>>,
                       Len(b.accounts))
BY DEF EncodeBlock, BlockOf, Infos

\* A block filter takes all that it took before.
LEMMA TakesAll ==
    ASSUME NEW f, NEW b, NEW m,
           \E n \in Nat : BlockAccounts(f, b) \in SUBSET (1 .. n),
           \E n \in Nat : BlockTransactions(f, b) \in SUBSET (1 .. n),
           m.accounts = Pick(b.accounts, BlockAccounts(f, b)),
           m.transactions = Pick(b.transactions, BlockTransactions(f, b))
    PROVE  /\ BlockAccounts(f, m) = 1 .. Cardinality(BlockAccounts(f, b))
           /\ Pick(m.accounts, BlockAccounts(f, m)) = m.accounts
           /\ Cardinality(BlockAccounts(f, m)) = Cardinality(BlockAccounts(f, b))
           /\ BlockTransactions(f, m) = 1 .. Cardinality(BlockTransactions(f, b))
           /\ Pick(m.transactions, BlockTransactions(f, m)) = m.transactions
           /\ Cardinality(BlockTransactions(f, m)) = Cardinality(BlockTransactions(f, b))
<1>. PICK K, T, A, X : /\ K = BlockAccounts(f, b) /\ T = BlockTransactions(f, b)
                       /\ A = m.accounts /\ X = m.transactions
    OBVIOUS
<1>. PICK N, M : N = Cardinality(K) /\ M = Cardinality(T)
    OBVIOUS
<1>1. /\ N \in Nat /\ A = [r \in 1 .. N |-> A[r]] /\ DOMAIN A = 1 .. N
      /\ \A r \in 1 .. N : \E k \in K : A[r] = b.accounts[k]
    <2>1. PICK n \in Nat : K \in SUBSET (1 .. n)
        OBVIOUS
    <2>2. /\ Cardinality(K) \in Nat
          /\ Pick(b.accounts, K) = [r \in 1 .. Cardinality(K) |-> Pick(b.accounts, K)[r]]
          /\ \A r \in 1 .. Cardinality(K) : \E k \in K : Pick(b.accounts, K)[r] = b.accounts[k]
        BY ONLY <2>1, PickElements, Zenon
    <2>3. A = Pick(b.accounts, K)
        OBVIOUS
    <2>. QED
        BY ONLY <2>2, <2>3, N = Cardinality(K)
<1>2. /\ M \in Nat /\ X = [r \in 1 .. M |-> X[r]] /\ DOMAIN X = 1 .. M
      /\ \A r \in 1 .. M : \E k \in T : X[r] = b.transactions[k]
    <2>1. PICK n \in Nat : T \in SUBSET (1 .. n)
        OBVIOUS
    <2>2. /\ Cardinality(T) \in Nat
          /\ Pick(b.transactions, T) = [r \in 1 .. Cardinality(T) |-> Pick(b.transactions, T)[r]]
          /\ \A r \in 1 .. Cardinality(T) : \E k \in T : Pick(b.transactions, T)[r] = b.transactions[k]
        BY ONLY <2>1, PickElements, Zenon
    <2>3. X = Pick(b.transactions, T)
        OBVIOUS
    <2>. QED
        BY ONLY <2>2, <2>3, M = Cardinality(T)
<1>3. BlockAccounts(f, m) = 1 .. N
    <2>1. CASE f.include_accounts # TRUE
        <3>1. K = {} /\ BlockAccounts(f, m) = {}
            BY <2>1 DEF BlockAccounts
        <3>2. N = 0
            BY <3>1, FS_EmptySet
        <3>. QED
            BY <3>1, <3>2
    <2>2. CASE f.include_accounts = TRUE
        <3>1. \A k \in K : f.account_include # {} => b.accounts[k].pubkey \in f.account_include
            BY <2>2 DEF BlockAccounts
        <3>2. \A r \in 1 .. N : f.account_include # {} => A[r].pubkey \in f.account_include
            BY <1>1, <3>1
        <3>3. BlockAccounts(f, m) =
                  {i \in DOMAIN A : f.account_include # {} => A[i].pubkey \in f.account_include}
            BY <2>2 DEF BlockAccounts
        <3>. QED
            BY ONLY <1>1, <3>2, <3>3
    <2>. QED
        BY <2>1, <2>2
<1>4. BlockTransactions(f, m) = 1 .. M
    <2>1. CASE f.include_transactions = FALSE
        <3>1. T = {} /\ BlockTransactions(f, m) = {}
            BY <2>1 DEF BlockTransactions
        <3>2. M = 0
            BY <3>1, FS_EmptySet
        <3>. QED
            BY <3>1, <3>2
    <2>2. CASE f.include_transactions # FALSE
        <3>1. \A k \in T :
                  f.account_include # {} => f.account_include \cap b.transactions[k].account_keys # {}
            BY <2>2 DEF BlockTransactions
        <3>2. \A r \in 1 .. M :
                  f.account_include # {} => f.account_include \cap X[r].account_keys # {}
            BY ONLY <1>2, <3>1
        <3>3. BlockTransactions(f, m) =
                  {i \in DOMAIN X : f.account_include # {} => f.account_include \cap X[i].account_keys # {}}
            BY <2>2 DEF BlockTransactions
        <3>. QED
            BY ONLY <1>2, <3>2, <3>3
    <2>. QED
        BY <2>1, <2>2
<1>5. Pick(A, 1 .. N) = A /\ Pick(X, 1 .. M) = X
    BY <1>1, <1>2, PickAll
<1>6. Cardinality(1 .. N) = N /\ Cardinality(1 .. M) = M
    <2>1. \A x \in Nat : Cardinality(1 .. x) = x
        BY FS_Interval
    <2>. QED
        BY ONLY <1>1, <1>2, <2>1
<1>. QED
    BY <1>3, <1>4, <1>5, <1>6

\* A block update that is parsed again and filtered again is the same but for the
\* number of updated accounts.
LEMMA BlockRefiltered ==
    ASSUME MessageInv, message # None, message.kind = "block",
           filter.accounts_data_slices = <<>>,
           updates = get_updates_ref(filter, message, filter.commitment),
           NEW i \in DOMAIN updates
    PROVE  /\ Parses(Sent(updates[i]))
           /\ LET again == get_updates_ref(filter, Parsed(Sent(updates[i])), filter.commitment)
              IN i \in DOMAIN again /\ Essence(again[i]) = Essence(updates[i])
<1>. PICK names, n, f : /\ names = SetToSeq(DOMAIN filter.blocks)
                        /\ n = names[i] /\ f = filter.blocks[n]
    OBVIOUS
<1>1. \A m, c : m.kind = "block" =>
          get_updates_ref(filter, m, c) =
              [j \in DOMAIN names |-> BlockUpdate(filter.blocks[names[j]], names[j], m, <<>>)]
    BY DEF get_updates_ref
<1>2. i \in DOMAIN names /\ updates[i] = BlockUpdate(f, n, message, <<>>)
    BY <1>1
<1>. PICK u, K, T, e : /\ u = updates[i] /\ K = BlockAccounts(f, message)
                       /\ T = BlockTransactions(f, message) /\ e = (f.include_entries = TRUE)
    OBVIOUS
<1>3. u.update = EncodeBlock(message, K, T, e, <<>>) /\ u.filters = [x \in 1 .. 8 |-> n]
    BY <1>2 DEF BlockUpdate
<1>4. K \subseteq DOMAIN message.accounts /\ T \subseteq DOMAIN message.transactions /\ e \in BOOLEAN
    BY DEF BlockAccounts, BlockTransactions
<1>. PICK m : m = Parsed(Sent(u))
    OBVIOUS
<1>5. /\ Parses(Sent(u)) /\ m.kind = "block" /\ m.block_meta = message.block_meta
      /\ m.accounts = Pick(message.accounts, K) /\ m.transactions = Pick(message.transactions, T)
      /\ m.entries = IF e THEN message.entries ELSE <<>>
    <2>1. u.update = EncodeBlock(message, K, T, e, <<>>)
        BY <1>3
    <2>2. Parses(Sent(u)) /\ BlockLike(Parsed(Sent(u)), K, T, e)
        BY ONLY MessageInv, message # None, message.kind = "block", <1>4, <2>1, BlockAgain, Zenon
    <2>. QED
        BY ONLY <2>2, m = Parsed(Sent(u)) DEF BlockLike
<1>6. /\ \E len \in Nat : K \in SUBSET (1 .. len)
      /\ \E len \in Nat : T \in SUBSET (1 .. len)
    <2>1. /\ message = MessageBlock(wire.update_oneof, wire.created_at)
          /\ IsVec(wire.update_oneof.accounts) /\ IsVec(wire.update_oneof.transactions)
        BY BlockParsed
    <2>2. /\ DOMAIN message.accounts = DOMAIN wire.update_oneof.accounts
          /\ DOMAIN message.transactions = DOMAIN wire.update_oneof.transactions
        BY <2>1 DEF MessageBlock
    <2>. QED
        BY ONLY <1>4, <2>1, <2>2, VecDomain
<1>. PICK K2, T2 : K2 = BlockAccounts(f, m) /\ T2 = BlockTransactions(f, m)
    OBVIOUS
<1>7. /\ Pick(m.accounts, K2) = m.accounts /\ Cardinality(K2) = Cardinality(K)
      /\ Pick(m.transactions, T2) = m.transactions /\ Cardinality(T2) = Cardinality(T)
    BY <1>5, <1>6, TakesAll
<1>. PICK again : again = get_updates_ref(filter, m, filter.commitment)
    OBVIOUS
<1>8. i \in DOMAIN again /\ again[i] = BlockUpdate(f, n, m, <<>>)
    BY <1>1, <1>2, <1>5
<1>. PICK v : v = again[i]
    OBVIOUS
<1>9. v.update = EncodeBlock(m, K2, T2, e, <<>>) /\ v.filters = [x \in 1 .. 8 |-> n]
    BY <1>8 DEF BlockUpdate
<1>parts. PICK meta, ts, as, es :
         /\ meta = message.block_meta.block_meta
         /\ ts = [x \in 1 .. Cardinality(T) |-> Pick(message.transactions, T)[x].transaction]
         /\ as = Infos(Pick(message.accounts, K), Cardinality(K))
         /\ es = IF e THEN [x \in DOMAIN message.entries |-> message.entries[x].entry] ELSE <<>>
    OBVIOUS
<1>10. u.update = BlockOf(meta, ts, as, es, Len(message.accounts))
    <2>1. u.update = EncodeBlock(message, K, T, e, <<>>)
        BY <1>3
    <2>2. u.update = BlockOf(message.block_meta.block_meta,
                       [x \in 1 .. Cardinality(T) |-> Pick(message.transactions, T)[x].transaction],
                       Infos(Pick(message.accounts, K), Cardinality(K)),
                       IF e THEN [x \in DOMAIN message.entries |-> message.entries[x].entry] ELSE <<>>,
                       Len(message.accounts))
        BY ONLY <2>1, EncodeBlockIs
    <2>. QED
        BY ONLY <2>2, <1>parts
<1>11. v.update = BlockOf(meta, ts, as, es, Len(m.accounts))
    <2>1. v.update = BlockOf(m.block_meta.block_meta,
                       [x \in 1 .. Cardinality(T2) |-> Pick(m.transactions, T2)[x].transaction],
                       Infos(Pick(m.accounts, K2), Cardinality(K2)),
                       IF e THEN [x \in DOMAIN m.entries |-> m.entries[x].entry] ELSE <<>>,
                       Len(m.accounts))
        BY ONLY <1>9, EncodeBlockIs
    <2>2. m.block_meta.block_meta = meta
        BY ONLY <1>5, <1>parts
    <2>3. [x \in 1 .. Cardinality(T2) |-> Pick(m.transactions, T2)[x].transaction] = ts
        BY ONLY <1>5, <1>7, <1>parts
    <2>4. Infos(Pick(m.accounts, K2), Cardinality(K2)) = as
        BY ONLY <1>5, <1>7, <1>parts
    <2>5. (IF e THEN [x \in DOMAIN m.entries |-> m.entries[x].entry] ELSE <<>>) = es
        <3>1. CASE e = TRUE
            BY ONLY <1>5, <3>1, <1>parts
        <3>2. CASE e = FALSE
            BY ONLY <3>2, <1>parts
        <3>. QED
            BY <1>4, <3>1, <3>2
    <2>. QED
        BY ONLY <2>1, <2>2, <2>3, <2>4, <2>5
<1>12. Essence(v) = Essence(u)
    <2>. PICK x, y : x = Len(message.accounts) /\ y = Len(m.accounts)
        OBVIOUS
    <2>1. u.update = BlockOf(meta, ts, as, es, x) /\ v.update = BlockOf(meta, ts, as, es, y)
        BY <1>10, <1>11
    <2>2. u.update.kind = "block" /\ Aside(u.update) = BlockOf(meta, ts, as, es, 0)
        BY ONLY <2>1, CountAside, Zenon
    <2>3. v.update.kind = "block" /\ Aside(v.update) = BlockOf(meta, ts, as, es, 0)
        BY ONLY <2>1, CountAside, Zenon
    <2>4. /\ Essence(u) = <<ToSet(u.filters), Aside(u.update)>>
          /\ Essence(v) = <<ToSet(v.filters), Aside(v.update)>>
        BY ONLY <2>2, <2>3 DEF Essence, Aside
    <2>. QED
        BY ONLY <1>3, <1>9, <2>2, <2>3, <2>4
<1>. QED
    BY <1>5, <1>8, <1>12

\* Without data slices, what goes out is parsed and filtered by the next server to
\* the same updates, for all filters and all updates of the source; only the status
\* of a transaction is refused there.
THEOREM RefilterTheorem == Spec => []Refilter
<1>1. FilterInv /\ MessageInv => Refilter
    <2>. SUFFICES ASSUME FilterInv, MessageInv, updates # None,
                         filter.accounts_data_slices = <<>>, NEW i \in DOMAIN updates
                  PROVE  \/ updates[i].update.kind = "transaction_status" /\ ~Parses(Sent(updates[i]))
                         \/ /\ Parses(Sent(updates[i]))
                            /\ LET again == get_updates_ref(filter, Parsed(Sent(updates[i])),
                                                            filter.commitment)
                               IN \E j \in DOMAIN again : Essence(again[j]) = Essence(updates[i])
        BY DEF Refilter
    <2>1. message # None
        BY DEF FilterInv
    <2>2. updates = get_updates_ref(filter, message, filter.commitment)
        BY DEF MessageInv
    <2>3. message.kind \in {"slot", "account", "transaction", "entry", "block_meta", "block"}
        <3>1. Parses(wire) /\ message = Parsed(wire)
            BY <2>1 DEF MessageInv
        <3>. QED
            BY <3>1, KindKept DEF Parses
    <2>4. CASE message.kind = "block"
        BY <2>1, <2>2, <2>4, BlockRefiltered
    <2>5. CASE message.kind # "block"
        <3>. PICK u : u = updates[i]
            OBVIOUS
        <3>1. \/ message.kind = "slot" /\ u.update = EncodeSlot(message)
              \/ message.kind = "account" /\ u.update = EncodeAccount(message, <<>>)
              \/ message.kind = "transaction" /\ u.update = EncodeTransaction(message)
              \/ message.kind = "transaction" /\ u.update = EncodeTransactionStatus(message)
              \/ message.kind = "entry" /\ u.update = [kind |-> "entry", entry |-> message.entry]
              \/ /\ message.kind = "block_meta"
                 /\ u.update = [kind |-> "block_meta", block_meta |-> message.block_meta]
            BY <2>2, <2>3, <2>5, UpdatesAre
        <3>2. Again(u) \/ (u.update.kind = "transaction_status" /\ ~Parses(Sent(u)))
            BY <2>1, <3>1, SlotAgain, AccountAgain, TransactionAgain, StatusRefused, EntryAgain,
               BlockMetaAgain
        <3>3. ASSUME Again(u)
              PROVE  /\ Parses(Sent(u))
                     /\ get_updates_ref(filter, Parsed(Sent(u)), filter.commitment) = updates
            BY <2>2, <3>3 DEF Again
        <3>. QED
            BY <3>2, <3>3
    <2>. QED
        BY <2>4, <2>5
<1>. QED
    BY <1>1, FilterInvariant, MessageInvariant, PTL

(***************************************************************************)
(* What the limits withhold                                                *)
(***************************************************************************)
\* The names of an update are names of the filters.
LEMMA NamesOf ==
    ASSUME NEW S, IsFiniteSet(S)
    PROVE  ToSet(SetToSeq(S)) \subseteq S
<1>1. PICK f \in Bijection(1 .. Cardinality(S), S) : TRUE
    BY FS_CardinalityType DEF ExistsBijection
<1>2. f \in [1 .. Cardinality(S) -> S] /\ IsInjective(f)
    BY <1>1 DEF Bijection, Injection
<1>3. SetToSeq(S) \in [1 .. Cardinality(S) -> S]
    BY <1>2, Zenon DEF SetToSeq
<1>. QED
    BY <1>3 DEF ToSet

\* Keys that check_filter has let pass are none of the rejected ones.
LEMMA NotRejected ==
    ASSUME NEW keys, NEW reject, check_pubkey_reject(keys, reject)
    PROVE  ToSet(keys) \subseteq ToSet(keys) \ reject
BY DEF check_pubkey_reject, ToSet

\* A filter that matches an account where a full stream is refused names its key or
\* its owner: an empty list would let everything pass, and both lists are not empty.
LEMMA MatchAllowed ==
    ASSUME Accepted, ~limits.accounts.any, NEW n \in DOMAIN filter.accounts, NEW m,
           AccountMatches(filter.accounts[n], m)
    PROVE  \/ m.pubkey \in ToSet(Config.accounts[n].account) \ limits.accounts.account_reject
           \/ m.owner \in ToSet(Config.accounts[n].owner) \ limits.accounts.owner_reject
<1>. PICK c : c = Config
    OBVIOUS
<1>1. IsConfig(c) /\ check_filter(limits, c) /\ filter = NewFilter(c)
    BY AcceptedTyped DEF Accepted
<1>2. filter.accounts = conv_map(c.accounts, FilterAccounts)
    BY <1>1 DEF NewFilter
<1>3. n \in DOMAIN c.accounts /\ filter.accounts[n] = FilterAccounts(c.accounts[n])
    BY <1>2 DEF conv_map
<1>4. /\ c.accounts[n].account \in Seq(Keys) /\ c.accounts[n].owner \in Seq(Keys)
      /\ c.accounts[n].account # <<>> \/ c.accounts[n].owner # <<>>
    BY <1>1, <1>3 DEF IsConfig, ConfigAccounts, check_filter, check_accounts, check_any
<1>5. /\ check_pubkey_reject(c.accounts[n].account, limits.accounts.account_reject)
      /\ check_pubkey_reject(c.accounts[n].owner, limits.accounts.owner_reject)
    BY <1>1, <1>3 DEF check_filter, check_accounts
<1>6. /\ filter.accounts[n].account = ToSet(c.accounts[n].account)
      /\ filter.accounts[n].owner = ToSet(c.accounts[n].owner)
    BY <1>3 DEF FilterAccounts
<1>7. m.pubkey \in ToSet(c.accounts[n].account) \/ m.owner \in ToSet(c.accounts[n].owner)
    BY <1>4, <1>6, KeysOf DEF AccountMatches
<1>. QED
    BY <1>5, <1>7, NotRejected

\* What a filter of blocks takes where the limits refuse something of it.
LEMMA SelectionAllowed ==
    ASSUME Accepted, NEW n \in DOMAIN filter.blocks, NEW m,
           NEW allowed,
           allowed = ToSet(Config.blocks[n].account_include) \ limits.blocks.account_include_reject
    PROVE  LET f == filter.blocks[n]
           IN /\ ~limits.blocks.include_transactions => BlockTransactions(f, m) = {}
              /\ ~limits.blocks.include_accounts => BlockAccounts(f, m) = {}
              /\ ~limits.blocks.account_include_any =>
                    /\ \A k \in BlockAccounts(f, m) : m.accounts[k].pubkey \in allowed
                    /\ \A k \in BlockTransactions(f, m) : m.transactions[k].account_keys \cap allowed # {}
<1>. PICK c : c = Config
    OBVIOUS
<1>. PICK f : f = filter.blocks[n]
    OBVIOUS
<1>1. IsConfig(c) /\ check_filter(limits, c) /\ filter = NewFilter(c)
    BY AcceptedTyped DEF Accepted
<1>2. filter.blocks = conv_map(c.blocks, FilterBlocks)
    BY <1>1 DEF NewFilter
<1>3. n \in DOMAIN c.blocks /\ f = FilterBlocks(c.blocks[n])
    BY <1>2 DEF conv_map
<1>4. c.blocks[n] \in ConfigBlocks
    BY <1>1, <1>3 DEF IsConfig
<1>5. /\ f.account_include = ToSet(c.blocks[n].account_include)
      /\ f.include_transactions = c.blocks[n].include_transactions
      /\ f.include_accounts = c.blocks[n].include_accounts
      /\ c.blocks[n].account_include \in Seq(Keys)
    BY <1>3, <1>4 DEF FilterBlocks, ConfigBlocks
<1>6. /\ check_any(c.blocks[n].account_include = <<>>, limits.blocks.account_include_any)
      /\ c.blocks[n].include_transactions = FALSE \/ limits.blocks.include_transactions
      /\ c.blocks[n].include_accounts # TRUE \/ limits.blocks.include_accounts
      /\ check_pubkey_reject(c.blocks[n].account_include, limits.blocks.account_include_reject)
    BY <1>1, <1>3 DEF check_filter, check_blocks
<1>7. ~limits.blocks.include_transactions => BlockTransactions(f, m) = {}
    BY <1>5, <1>6, Zenon DEF BlockTransactions
<1>8. ~limits.blocks.include_accounts => BlockAccounts(f, m) = {}
    BY <1>5, <1>6, Zenon DEF BlockAccounts
<1>9. ASSUME ~limits.blocks.account_include_any
      PROVE  f.account_include # {} /\ f.account_include \subseteq allowed
    BY <1>5, <1>6, <1>9, KeysOf, NotRejected DEF check_any
<1>10. ASSUME ~limits.blocks.account_include_any, NEW k \in BlockAccounts(f, m)
       PROVE  m.accounts[k].pubkey \in allowed
    BY <1>9, <1>10 DEF BlockAccounts
<1>11. ASSUME ~limits.blocks.account_include_any, NEW k \in BlockTransactions(f, m)
       PROVE  m.transactions[k].account_keys \cap allowed # {}
    <2>1. f.account_include \cap m.transactions[k].account_keys # {}
        BY <1>9, <1>11 DEF BlockTransactions
    <2>. QED
        BY <1>9, <1>11, <2>1
<1>. QED
    BY <1>7, <1>8, <1>10, <1>11

\* A request that was accepted has finitely many filters of accounts and of blocks.
LEMMA FinitelyMany ==
    ASSUME Accepted
    PROVE  IsFiniteSet(DOMAIN filter.accounts) /\ IsFiniteSet(DOMAIN filter.blocks)
<1>1. IsFiniteSet(DOMAIN request.accounts) /\ IsFiniteSet(DOMAIN request.blocks)
    BY RequestAssumption DEF Accepted, IsRequest
<1>2. DOMAIN filter.accounts = DOMAIN request.accounts /\ DOMAIN filter.blocks = DOMAIN request.blocks
    BY DEF Accepted, NewFilter, Config, ConfigFilter, conv_map
<1>. QED
    BY <1>1, <1>2

\* Account updates keep to the limits.
LEMMA AccountKept ==
    ASSUME FilterInv, MessageInv, updates # None, NEW i \in DOMAIN updates,
           message.kind = "account", ~limits.accounts.any, NEW n \in ToSet(updates[i].filters)
    PROVE  AccountAllowed(updates[i].update.account, n)
<1>1. message # None /\ Accepted
    BY DEF FilterInv
<1>2. updates = get_updates_ref(filter, message, filter.commitment)
    BY DEF MessageInv
<1>. PICK a : a = message.account
    OBVIOUS
<1>3. IsAccount(a) /\ message.pubkey = a.pubkey /\ message.owner = a.owner
    BY <1>1, AccountParsed DEF MessageAccount
<1>. PICK names, enc :
         /\ names = {x \in DOMAIN filter.accounts : AccountMatches(filter.accounts[x], message)}
         /\ enc = EncodeAccount(message, filter.accounts_data_slices)
    OBVIOUS
<1>4. updates = FilteredUpdate(names, enc)
    BY <1>2, AccountUpdates
<1>5. updates[i].update = enc /\ updates[i].filters = SetToSeq(names)
    BY <1>4 DEF FilteredUpdate
<1>6. IsFiniteSet(names)
    <2>1. names \subseteq DOMAIN filter.accounts
        OBVIOUS
    <2>. QED
        BY <1>1, <2>1, FinitelyMany, FS_Subset
<1>7. n \in DOMAIN filter.accounts /\ AccountMatches(filter.accounts[n], message)
    <2>1. n \in names
        BY <1>5, <1>6, NamesOf
    <2>. QED
        BY <2>1
<1>8. enc.account = [a EXCEPT !.data = get_slice(filter.accounts_data_slices, a.data)]
    BY DEF EncodeAccount
<1>9. enc.account.pubkey = message.pubkey /\ enc.account.owner = message.owner
    BY <1>3, <1>8 DEF IsAccount
<1>10. \/ message.pubkey \in ToSet(Config.accounts[n].account) \ limits.accounts.account_reject
       \/ message.owner \in ToSet(Config.accounts[n].owner) \ limits.accounts.owner_reject
    BY <1>1, <1>7, MatchAllowed
<1>. QED
    BY <1>5, <1>9, <1>10 DEF AccountAllowed

\* Block updates keep to the limits.
LEMMA BlockKept ==
    ASSUME FilterInv, MessageInv, updates # None, NEW i \in DOMAIN updates,
           message.kind = "block", NEW n \in ToSet(updates[i].filters)
    PROVE  BlockAllowed(updates[i].update, n)
<1>1. message # None /\ Accepted
    BY DEF FilterInv
<1>2. updates = get_updates_ref(filter, message, filter.commitment)
    BY DEF MessageInv
<1>. PICK b : b = wire.update_oneof
    OBVIOUS
<1>3. /\ \A j \in DOMAIN b.accounts : IsAccount(b.accounts[j])
      /\ message = MessageBlock(b, wire.created_at)
      /\ IsVec(b.accounts) /\ IsVec(b.transactions)
    BY <1>1, BlockParsed
<1>. PICK names : names = SetToSeq(DOMAIN filter.blocks)
    OBVIOUS
<1>4. updates = [j \in DOMAIN names |->
                    BlockUpdate(filter.blocks[names[j]], names[j], message, filter.accounts_data_slices)]
    BY <1>2 DEF get_updates_ref
<1>5. i \in DOMAIN names /\ updates[i] =
          BlockUpdate(filter.blocks[names[i]], names[i], message, filter.accounts_data_slices)
    BY <1>4
<1>6. n = names[i]
    BY <1>5 DEF BlockUpdate, ToSet
<1>7. n \in DOMAIN filter.blocks
    <2>1. ToSet(names) \subseteq DOMAIN filter.blocks
        BY <1>1, FinitelyMany, NamesOf
    <2>. QED
        BY <1>5, <1>6, <2>1 DEF ToSet
<1>. PICK K, T, e, sl, allowed :
         /\ K = BlockAccounts(filter.blocks[n], message)
         /\ T = BlockTransactions(filter.blocks[n], message)
         /\ e = (filter.blocks[n].include_entries = TRUE)
         /\ sl = filter.accounts_data_slices
         /\ allowed = ToSet(Config.blocks[n].account_include) \ limits.blocks.account_include_reject
    OBVIOUS
<1>. PICK u : u = updates[i].update
    OBVIOUS
<1>8. u = EncodeBlock(message, K, T, e, sl)
    BY <1>5, <1>6 DEF BlockUpdate
<1>9. /\ u.accounts = [x \in 1 .. Cardinality(K) |->
                          [Pick(message.accounts, K)[x].account EXCEPT !.data = get_slice(sl, @)]]
      /\ u.transactions = [x \in 1 .. Cardinality(T) |-> Pick(message.transactions, T)[x].transaction]
    BY ONLY <1>8 DEF EncodeBlock
<1>10. /\ ~limits.blocks.include_transactions => T = {}
       /\ ~limits.blocks.include_accounts => K = {}
       /\ ~limits.blocks.account_include_any =>
             /\ \A k \in K : message.accounts[k].pubkey \in allowed
             /\ \A k \in T : message.transactions[k].account_keys \cap allowed # {}
    BY <1>1, <1>7, SelectionAllowed
<1>11. /\ DOMAIN message.accounts = DOMAIN b.accounts
       /\ DOMAIN message.transactions = DOMAIN b.transactions
       /\ \A k \in DOMAIN b.accounts : /\ message.accounts[k].account = b.accounts[k]
                                       /\ message.accounts[k].pubkey = b.accounts[k].pubkey
       /\ \A k \in DOMAIN b.transactions :
             /\ message.transactions[k].transaction = b.transactions[k]
             /\ message.transactions[k].account_keys = gen_account_keys(b.transactions[k])
    BY <1>3 DEF MessageBlock, MessageAccount, MessageTransaction
<1>12. ASSUME ~limits.blocks.include_transactions PROVE u.transactions = <<>>
    <2>1. Cardinality(T) = 0
        BY <1>10, <1>12, FS_EmptySet
    <2>. QED
        BY <1>9, <2>1
<1>13. ASSUME ~limits.blocks.include_accounts PROVE u.accounts = <<>>
    <2>1. Cardinality(K) = 0
        BY <1>10, <1>13, FS_EmptySet
    <2>. QED
        BY <1>9, <2>1
<1>14. ASSUME ~limits.blocks.account_include_any, NEW j \in DOMAIN u.accounts
       PROVE  u.accounts[j].pubkey \in allowed
    <2>1. j \in 1 .. Cardinality(K)
        BY <1>9
    <2>2. PICK len \in Nat : DOMAIN b.accounts = 1 .. len
        BY <1>3, VecDomain
    <2>3. K \in SUBSET (1 .. len)
        BY <1>11, <2>2 DEF BlockAccounts
    <2>4. PICK k \in K : Pick(message.accounts, K)[j] = message.accounts[k]
        <3>. PICK q : q = message.accounts
            OBVIOUS
        <3>1. \A r \in 1 .. Cardinality(K) : \E k \in K : Pick(q, K)[r] = q[k]
            BY <2>3, PickElements
        <3>. QED
            BY <2>1, <3>1
    <2>5. u.accounts[j] = [b.accounts[k] EXCEPT !.data = get_slice(sl, @)]
        <3>1. u.accounts[j] = [Pick(message.accounts, K)[j].account EXCEPT !.data = get_slice(sl, @)]
            BY ONLY <1>9, <2>1
        <3>2. Pick(message.accounts, K)[j].account = b.accounts[k]
            BY <1>11, <2>2, <2>3, <2>4
        <3>. QED
            BY ONLY <3>1, <3>2
    <2>6. IsAccount(b.accounts[k])
        BY <1>3, <2>2, <2>3
    <2>7. u.accounts[j].pubkey = b.accounts[k].pubkey
        BY <2>5, <2>6 DEF IsAccount
    <2>. QED
        BY <1>10, <1>11, <1>14, <2>2, <2>3, <2>7
<1>15. ASSUME ~limits.blocks.account_include_any, NEW j \in DOMAIN u.transactions
       PROVE  gen_account_keys(u.transactions[j]) \cap allowed # {}
    <2>1. j \in 1 .. Cardinality(T)
        BY <1>9
    <2>2. PICK len \in Nat : DOMAIN b.transactions = 1 .. len
        BY <1>3, VecDomain
    <2>3. T \in SUBSET (1 .. len)
        BY <1>11, <2>2 DEF BlockTransactions
    <2>4. PICK k \in T : Pick(message.transactions, T)[j] = message.transactions[k]
        <3>. PICK q : q = message.transactions
            OBVIOUS
        <3>1. \A r \in 1 .. Cardinality(T) : \E k \in T : Pick(q, T)[r] = q[k]
            BY <2>3, PickElements
        <3>. QED
            BY <2>1, <3>1
    <2>5. k \in DOMAIN b.transactions /\ u.transactions[j] = b.transactions[k]
        BY <1>9, <1>11, <2>1, <2>2, <2>3, <2>4
    <2>. QED
        BY <1>10, <1>11, <1>15, <2>5
<1>. QED
    BY <1>12, <1>13, <1>14, <1>15 DEF BlockAllowed

\* No update of any message carries what the limits withhold, for all limits and all
\* requests that they let pass.
THEOREM LimitsTheorem == Spec => []LimitsKept
<1>1. FilterInv /\ MessageInv => LimitsKept
    <2>. SUFFICES ASSUME FilterInv, MessageInv, updates # None, NEW i \in DOMAIN updates,
                         NEW n \in ToSet(updates[i].filters)
                  PROVE  LET u == updates[i].update
                         IN /\ u.kind = "account" /\ ~limits.accounts.any => AccountAllowed(u.account, n)
                            /\ u.kind = "block" => BlockAllowed(u, n)
        BY DEF LimitsKept
    <2>1. message # None
        BY DEF FilterInv
    <2>2. updates = get_updates_ref(filter, message, filter.commitment)
        BY DEF MessageInv
    <2>3. message.kind \in {"slot", "account", "transaction", "entry", "block_meta", "block"}
        <3>1. Parses(wire) /\ message = Parsed(wire)
            BY <2>1 DEF MessageInv
        <3>. QED
            BY <3>1, KindKept DEF Parses
    <2>. PICK u : u = updates[i].update
        OBVIOUS
    <2>4. message.kind # "block" => u.kind # "block" /\ (u.kind = "account" => message.kind = "account")
        <3>. SUFFICES ASSUME message.kind # "block"
                      PROVE  u.kind # "block" /\ (u.kind = "account" => message.kind = "account")
            OBVIOUS
        <3>1. \/ message.kind = "slot" /\ u = EncodeSlot(message)
              \/ message.kind = "account" /\ u = EncodeAccount(message, filter.accounts_data_slices)
              \/ message.kind = "transaction" /\ u = EncodeTransaction(message)
              \/ message.kind = "transaction" /\ u = EncodeTransactionStatus(message)
              \/ message.kind = "entry" /\ u = [kind |-> "entry", entry |-> message.entry]
              \/ /\ message.kind = "block_meta"
                 /\ u = [kind |-> "block_meta", block_meta |-> message.block_meta]
            BY <2>2, <2>3, UpdatesAre
        <3>2. \/ message.kind = "account" /\ u.kind = "account"
              \/ u.kind \in {"slot", "transaction", "transaction_status", "entry", "block_meta"}
            BY <3>1 DEF EncodeSlot, EncodeAccount, EncodeTransaction, EncodeTransactionStatus
        <3>. QED
            BY <3>2
    <2>5. message.kind = "block" => u.kind # "account"
        <3>. SUFFICES ASSUME message.kind = "block" PROVE u.kind # "account"
            OBVIOUS
        <3>1. PICK x : updates[i] = BlockUpdate(filter.blocks[x], x, message, filter.accounts_data_slices)
            BY <2>2, BlockUpdates
        <3>2. u.kind = "block"
            BY <3>1, BlockKind
        <3>. QED
            BY <3>2
    <2>. QED
        BY <2>4, <2>5, AccountKept, BlockKept
<1>. QED
    BY <1>1, FilterInvariant, MessageInvariant, PTL

=============================================================================
