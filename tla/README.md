# Specifications of richat

richat relays what a Solana validator notifies its geyser plugin. This directory
holds TLA+ models of the parts of the repository whose correctness depends on
interleavings, ordering and limits, the TLC configurations that check them on
small instances, and TLAPS proofs for all instances.

## The system

| part | state | operations | what is hard |
| --- | --- | --- | --- |
| plugin channel (`plugin-agave/src/channel.rs`) | a ring of items with an `RwLock` each; `head`, `tail`, tracked slots, bytes and wakers behind a `Mutex` | `push`, `close`, `subscribe`, `recv_ref` | readers take no state lock; three nested eviction loops; slots out of order; wakers |
| plugin (`plugin-agave/src/plugin.rs`) | the channel, the runtime, the transports | `on_load`, `on_unload`, one notification per message kind | unload while subscribers wait |
| shutdown (`shared/src/shutdown.rs`) | a flag and a map from handle id to waker | `clone`, `drop`, `poll`, `shutdown` | recycled ids, lost wakeups |
| QUIC, TCP and gRPC servers (`shared/src/transports`) | one task per connection over a channel stream | handshake, send loop | backlog, several streams per connection, closing |
| clients (`client/src`) | one reader per stream, a merged stream, a Kafka producer | `subscribe`, `poll_next`, `send_message` | order across streams, retries |
| binary channel (`richat/src/channel.rs`, `mod binary`) | a ring of `Mutex` cells, two private positions | `send`, `recv` | only one cell is looked at; any size |
| richat channel (`richat/src/channel.rs`) | a ring per commitment, slot heads, blocks under assembly | `push`, `try_clear`, `try_recv`, `get_current_tail` | eviction, replay positions, block assembly |
| richat gRPC server (`richat/src/grpc`) | a queue of clients, a buffer per client, caches, block metas | workers, requests, unary calls | clients shared by workers, request tasks and streams |
| richat process (`richat/src/bin/richat.rs`) | source thread, signals | start, feed, stop | shutdown against a full channel or a silent source |
| filters (`filter/src`) | none | requests to `Filter`, `get_updates_ref`, limits, encoding, parsing | offsets and lengths, matching rules, updates filtered twice |
| plugin encoders (`plugin-agave/src/protobuf`) | a thread-local `BUFFER` | `encode_raw`, `encoded_len` | lengths counted and bytes written by separate code |

Data flows plugin notification -> plugin channel -> transport task -> client ->
binary channel -> richat channel -> gRPC clients. The parts share memory inside a
process (locks, wakers) and byte streams between processes. `Shutdown` is the one
object every long-running task selects on. At this commit the parser and the
application threads of richat are commented out (`richat.rs:87-137`), so the
richat channel and its gRPC server are library code without a caller in the binary.

## Modules

- `BroadcastLog`: what the plugin channel promises (one log, a kept suffix, readers
  without gaps or told that they lag).
- `PluginChannel`: the channel. One action per critical section: `PushBegin`,
  `WalkMissed`/`WalkEnd` (the search for missed statuses), `UpdateEntry`,
  `PopFirstSlot`, `EvictUpTo`, `EvictSame`, `SlotsUnderLimit`, `EvictBytes`, `Store`,
  `PushEnd` are `push`/`push_msg` in their order; `Panic` is any of its assertions;
  `CloseBegin`, `CloseItem`, `CloseEnd` are `close`; `Subscribe`, `RecvFast`,
  `RecvSlow`, `Repoll`, `Drop` are a subscriber. The state lock is held from
  `PushBegin` to `PushEnd`, which is why `Subscribe` and `RecvSlow` need
  `pc = "idle"` and `RecvFast` does not. A message is its kind, slot, parent,
  status and size. `Cap` is a power of two in the code, so `pos & mask` is `pos % Cap`.
  A panic inside `push` unwinds out of the plugin and is taken to end the process.
- `MCPluginChannel`: inputs for TLC. `PluginChannelProofs`: the proofs.
- `Shutdown`, `ShutdownProofs`: the shutdown signal; every operation holds the one
  `Mutex`, so each is one action.
- `BoundedFifo`, `BinaryChannel`, `MCBinaryChannel`: the binary
  channel, its abstract queue, the mask of `Shared::new` for TLC. `get_idx`
  is a constant operator: the proofs hold for any mapping of positions to cells.
- `RichatMain`, `MCRichatMain`, `RichatMainProofs`: the two threads of the process, on top
  of `BinaryChannel`; the proofs of both.
- `RichatRing`, `MCRichatRing`, `RichatRingProofs`: one ring of the richat channel. `PushItem`,
  `PublishTail`, `InsertSlot` are `SenderShared::push`, in the steps a reader can tell
  apart (item unlocked, tail stored, slot head inserted); `ClearBegin` to `ClearEnd` are
  `try_clear`, `Panic` its assertions; `get_current_tail`, `LoadTail` and `ReadItem` are
  a client. There is one parser thread and no state lock. `RichatSender` decides how
  many messages are pushed before `try_clear` is called, so `RichatRing` allows any
  number (`pc = "more"`). A relaxed load of the tail may return an older position than
  the last one stored; a reader then only does what it could have done earlier.
- `RichatSender`, `MCRichatSender`, `RichatSenderProofs`: `Sender::push` with `SlotInfo` as a value, each ring
  as the sequence pushed to it. `PushData` and `PushStatus` are the two ways through
  `push`; one thread runs it, so each is one step. `grpc` is set: without it
  `Messages::new` builds rings of size zero, and nothing in the repository does so.
- `Selection`: the elements of a sequence at given positions, in their order. `RichatSender`
  and `Filters` pick with it what the code's iterators keep.
- `BlockMetaStorage`, `MCBlockMetaStorage`: the actor of the unary requests. Its
  `select!` is biased and polls the queues one after the other, so `NoMessage` and
  `HandleRequest` are two steps: a message pushed between them comes after the request.
  `worker_block_meta` is `push`; the unary methods are the callers.
- `GrpcClients`, `MCGrpcClients`, `GrpcClientsProofs`: the subscriptions of the richat gRPC server. Per client
  a request task (`RequestFilter`, `RequestPing`, `RequestRefused`, `RequestsEnd`,
  `TaskStops`, `TaskEnds`), a stream (`poll_next`, its drop) and a reference count; worker
  threads pop a client, serve it under its mutex, and push it back; `MessagesCache` is the
  cache of each worker. The rings are seen through `get_current_tail` and `try_recv`.
- `FilterConfig` (requests to configuration and back, limits), `FilterMessage` (parsing of
  updates), `Filters` (`Filter::new`, `get_updates_ref`, what the encoding carries),
  `MCFilters`, `FiltersProofs`: the filters as operators, around a state machine that takes a request
  (`SetFilter`), an update of the source (`Receive`) and matches them (`GetUpdates`).
  Strings are members of small sets; a base58 or base64 text is its length and the bytes
  it decodes to, or `None`; `usize` wraps at `WORD`, and an allocation of more than
  `MAX_ALLOC` bytes fails (`isize::MAX` at most: `Vec::with_capacity` panics beyond it,
  and the allocator may abort before; both are `panicked`). An update
  without a payload has the kind `none`.
- `Handshake` (the checks of the three servers, the codes and what clients make of them),
  `Transports`, `MCTransports`, `TransportsProofs`: one subscription end to end: the connection task of the
  QUIC, TCP or gRPC server, the network, the client, and the process behind it
  (`richat-cli`, which forwards QUIC streams to Kafka, or the source thread of richat).
  Connections share only the plugin channel, so one is modelled. quinn is external and
  taken as its documentation and the code use it: dropping the last handle of a
  connection discards data that was not delivered, a stream becomes known to the peer
  with the first bytes of it or of a later stream, and a writer waits for the window.
  A failed send to Kafka may still be appended later (`AppendLate`).
- `Protobuf` (the wire format and prost, external), `ProtobufMessages` (for each message
  its hand-written encoder, its `encoded_len` and the prost message it stands for),
  `ProtobufEncoder` (`encode` on the notifying threads, with the thread-local `BUFFER`
  that `encoded_len` fills and `encode_raw` reads), `MCProtobufEncoder`.

## What is checked, and what it shows

Every run is a TLC configuration; `PROJECT.json` names its properties. Each
property also has a faulty variant of the code's step (definitions commented
"Faulty variant") under which it fails.

| run | instance | shows |
| --- | --- | --- |
| `channel_fair` | chain of 3 slots with missed statuses, 1 reader, ring of 4, 5 messages | a reader that races a push, its evictions or a close neither misses, repeats nor reorders a message and is never left parked; missed statuses are stored before the status that revealed them; replay positions and limits; refinement of `BroadcastLog`; streams catch up or end |
| `channel_panic` | slots in any order, limit 3 | **violation**: the assertion at `channel.rs:170` fails when a slot lower than all tracked ones arrives at the limit |
| `shutdown` | 4 handles | ids and wakers under clones, drops and polls in any order; every handle learns |
| `binary_channel` | 6 cells (4 used), 8 messages | first in, first out; nobody waits for an idle peer |
| `richat_main` | 2 cells, 5 messages | nothing is lost without a shutdown; an interrupt ends the process, also against a full channel |
| `richat_ring` | slots 1-4 in any order, limits 2 slots and 3 bytes, ring of 4, 5 messages, 1 reader | the slot heads of the sender, the limits; a poller gets every message in order but the last, or lags because its message is gone |
| `richat_sender` | one slot of 1 transaction and 1 entry, an empty later slot, 6 messages | blocks are whole, settled rings get them, no landed slot ends silently |
| `block_meta` | 2 slots, 3 messages, 2 callers, queue of 1 | the newest block is answered, everyone is answered |
| `grpc_clients` | 1 client with 2 filters on 2 commitments, 1 worker, 1 and 2 messages, rings that retain 1 of them or none, cache of 2 | the reference count is the number of holders, a client that is held keeps its turns, no stream sleeps on a message, deliveries have no gaps, clients catch up and are freed |
| `filters` | every kind of filter, valid and invalid, default limits and two strict ones, against updates of every kind, data of up to 3 bytes in a word of 16 and an allocation of 7 | a panic needs a single range that ends beyond what can be allocated, or a comparison that wraps; account data goes out as the slices ask; nothing goes out that the limits withhold, and no full stream of transactions; requests, encoding and parsing agree; filtering again at the next server changes nothing |
| `transports` | every refusal; served over QUIC (2 streams), TCP and gRPC, 3 messages, window of 1, 1 failed send | the subscriber is told the reason, the send loop accounts for its streams and backlog, nothing is skipped, everything read is forwarded |
| `protobuf` | 123 messages, 2 threads | the hand-written bytes are those of prost and of the size that was reserved |

Bounds. `MaxLog` limits the messages pushed; it exceeds the ring in every run of the
channel, so items are overwritten, and the slot limit, so slots are evicted. One reader
is enough: readers share nothing but the wakers and never write items, and
`NoLostWakeup` and the refinement are proved for any set of readers. Sizes against
`BytesMax = 3` make the byte limit evict. Four handles allow an id to be freed below,
between and above others. Readers of `RichatRing` write nothing that anybody reads. A
block needs three messages; six leave room for a status, a later slot and a message that
comes late. The clients of the gRPC server share the queue and the caches only (`Retained` has how many messages
a push may leave in each ring; the proofs take any numbers): the
worker still meets the client in every state, because requests, polls and drops come
between its turns, and the cache is shared between the two filters the client sets; that
workers exclude each other by the mutex is not exercised by one worker, but proved for any
number of clients and workers. Two QUIC streams
and three messages allow a stream to be used again while another one is blocked by the
window; the safety properties are proved for any number of both. The messages of `protobuf` have each field absent, at its default and set, and
lengths on both sides of a varint boundary. Runs whose variables are histories see every
order as a state of its own, which is why their bounds are small.

### Fairness

Safety runs use no fairness. `FairSpec` of `PluginChannel` assumes that a thread
inside `push` or `close` goes on and that a task whose waker fired is polled;
nothing makes the validator notify or a client connect or read. `FairSpec` of
`Shutdown` assumes that a task that runs reaches its poll. `BinaryChannel` assumes
that both ends keep calling; its caller loops (`richat.rs:67`) do. `RichatMain`
assumes weak fairness of the two loops and strong fairness of the shutdown branch
of `tokio::select!`, which picks at random among its ready branches; it does
**not** assume that `subscribe_source` ever returns.

`RichatRing` assumes that the parser thread goes on inside a push and that the workers
poll every client (`server.rs` loops over all of them); nothing makes the source send.
`BlockMetaStorage` assumes that its task is polled when woken; requests are answered
because the messages of a run are finite: a source that never pauses would starve them
under the biased select.

`GrpcClients` assumes strong fairness of a worker's steps (it shares the client's mutex
with the request task), of `poll_next` and of the end of the request task, and that tonic
ends the requests of a stream it dropped; it does not assume that a client sends or that
messages are pushed. `Transports` assumes weak fairness of the connection task, the
client's polls, the write of each frame, the readers and sends to Kafka that succeed;
nothing makes the channel give messages, the network fail or the broker recover.

Some properties say less than their names may suggest. `InterruptEnds` begins once the source
is subscribed, because that wait is not raced with the shutdown (`richat.rs:55`).
`KnownSlotRetained` is about the map of the sender; replays from a head that the shared map
has kept too long are in the runs of `DeliveredInOrder` and `LaggedOnlyIfRemoved`.
`ReasonReported` says that what is told holds, not that it is told: the end of the stream or
an I/O error is always possible, as the connection may fail.

## What is proved

TLAPS proves, for every value of the constants that satisfies the named
assumptions (positive ring size, natural limits, well-typed inputs):

**Plugin channel** (`PluginChannelProofs`). `ChannelInv` is the inductive
invariant. `RingHoldsWindow` says that item `p % Cap` holds `log[p]` for every
`head <= p < tail`, that all other items are empty and that positions below `head`
stay behind a reader; it is not inductive alone, because a push is in progress most
of the time: `SenderLocals` describes what the thread that holds the lock has in
its local variables (pending messages, the popped slot) at each of its steps, and
`Storing` which window bound it may break there. `ReaderPositions` relates each
`Receiver::next` to what it was handed, so that the unlocked read of an item either
returns the message of that position or sends the reader to the slow path.
`NoLostWakeup` needs that the slow path re-reads the item under the state lock.
From this invariant: `ChannelTypes`, `WindowTheorem`, `TrackedTheorem`,
`WakeupTheorem`, `LimitsTheorem` (with `LimitsProgress`, what has been established
so far at each step of the push) and `ChannelImplementsLog`, by showing that every step of the channel is a
step of `BroadcastLog` or leaves its state alone.

**Shutdown** (`ShutdownProofs`). `FreshId`: `get_next_id` returns a number that is
no key, from the fact that where the first `n` ordered keys are their own indices
they are `0 .. n-1` (least counterexample). `IdsOwned` and `ParkedWillBeWoken`
are inductive only together: a waker survives because nobody else has its id.

**Binary channel** (`RichatMainProofs`). `CellsHoldWindow` is inductive with
the types, the prefix property and a bound on positions. It never uses that
positions map to distinct cells: an occupied cell refuses the send, so the
positions in flight keep cells of their own. `BinaryImplementsFifo` adds a counting
argument (an injection of positions into cells) for the bound of the queue.

**What a subscriber of the plugin is handed** (`DeliveryTheorem` of
`PluginChannelProofs`). `DeliveredInOrder` says which message is the n-th one a stream was
handed: the wanted message of the log with n - 1 wanted ones between it and the start. It
is inductive with `ReaderPositions`; the step counts wanted messages before and after the
item that was read.

**Missed statuses** (`AncestorTheorem` of `PluginChannelProofs`). `AncestorStatusFirst` is
about the order of the log, and the code knows only its tracked slots. `AncestorInv` says
that the entries record what the log says (`Tracks`: last announced parent, statuses
seen), for the message about to be stored too (`Noted`), that the pending statuses
are a chain of parents that ends in the slot being walked (`Chain`), and that a popped slot
still has messages to evict (`VictimInRing`), so that where nothing was evicted no
slot was forgotten. Nothing is assumed of parents: slots may be announced twice or late.

**richat main** (`RichatMainProofs`). `MainInv` is the invariant of the binary channel (its
lemmas are used as they stand), the types of the two threads, and what the source thread
has in hand at each step.

**richat ring** (`RichatRingProofs`). `RingInv` joins the window (`RingHoldsWindow`), what
`tail` publishes to readers before and after the store (`Published`), the locals of the
parser thread at each step of `push` and `try_clear` (`SenderAt`), the bytes (`Accounted`:
there are prefix sums of the sizes in the log whose difference between `tail` and `head` is
`bytes_total`), `KnownSlotRetained`, and the position of each reader (`Following`). From it:
`KnownSlotRetainedTheorem`, `DeliveredInOrderTheorem`, `LaggedTheorem`, `LimitsTheorem` and
`PanicOnlyIfEmptied`. `LimitsHold` names the one function of prefix sums that the log has
(`SizeBefore`); it differs from the sums of `Accounted` by a constant, since a position
where the difference changes would have a least one. `PanicOnlyIfEmptied` bounds the damage of the assertions in `try_clear`: they can
only fail in the loop over the messages of one slot, when that has emptied the ring.

**richat gRPC server** (`GrpcClientsProofs`). `ClientsInv` gives types, who holds a client
(`IsHeld`: the queue or exactly one worker), the reference count, and where the waker is.
`StillServed` and `RefCounted` are inductive only together, because a worker throws a
client away by its reference count. `DeliveryInv` adds, per client and filter, the
updates on their way (`Outgoing`: queued in the client, or in the turn of a worker) and
what the cache of each worker may hold; `GaplessDeliveryTheorem` follows from
`Gapless` (neighbours in the stream are neighbours among the matching positions) and
`HeadIsNext` (nothing between the last of them and the head of the client matches).

**richat sender** (`RichatSenderProofs`). `LandedBuiltOrReported` speaks of slots that are
gone; `SenderInv` says what holds of them while they are kept. A `SlotInfo` without a block
has not failed and its counts do not agree (`InfoSound`): this is why `drop` cannot pass
over a landed slot in silence, as `failed` and equal counts would let it. One with a block
has it in the ring (`SlotsSound`), and a slot whose `Confirmed` or `Finalized` was pushed
is kept as landed, has its block, or was reported (`LandedKnown`). The one assumption is
that the source sends messages of the five kinds; their order, slots and counts are free.

What the blocks hold is in `FeedInv`. `Good` says that a `SlotInfo` of a slot not yet
finalized has collected what was pushed for it (`Collects`: its
transactions and entries are those of the slot in order and are counted, and every account
is there in its newest version);
`AllWhole` says the same of the blocks that were made of them, each with respect to
what was pushed before it; `RingGood` says that in the confirmed and the finalized ring the
messages of a slot follow its status in one piece, and that the block is among them.
`BlockTheorem` and `SettledTheorem` follow. Selections are `Pick` of a set of positions,
about which the lemmas say how it grows by an element behind all others.

**Filters** (`FiltersProofs`). `FilterInv` says that the filter in use is `NewFilter` of an
accepted request: one that converts (`Converts`) and passes `check_filter`. All the rest is
about what these two conditions give. `ConfigTyped` gives the types of a converted
configuration. `PanicTheorem`: each array of `FilterAccountsState` is filled from a part of
the request that the limits count; a range that does not wrap begins before it ends; and
the capacity that `get_slice` asks for, the sum of all lengths, is at most the end of the
last slice (`CapacityBound`), because a slice that `check_data_slices` lets pass begins
behind the one before it. The last part needs every slice to end within `MAX_ALLOC`, which
`check_filter` does not test: that is the case the theorem leaves. `NoFullStreamTheorem`
names a transaction that a filter leaves out, for each field that may select. `RoundTripTheorem` goes through
the conversions of every type and back, the texts of keys and the numbers of commitment
levels included. `SlicesTheorem` is about `get_slice`, a concatenation of any number of
pieces. A slice adds its bytes to those the slices before it cover (`CoverStep`), behind
all of them (`PickBehind`) because of the order that `check_data_slices` demands, and
`FlattenIs` shows that the flattened sequence is what such steps put together, as there
is no least number of pieces where it is not. `MessageInv` adds that the message is the parser's of the
last update and the updates are the filter's of the message. `RefilterTheorem`
parses each kind of update back to the message it was made of (`SlotAgain` to
`BlockMetaAgain`), and shows for a block that what was picked is picked again whole.
`LimitsTheorem` follows an account or a block from the request to the update: what
`check_filter` concludes from the lists and options of the configuration
(`MatchAllowed`, `SelectionAllowed`) holds of the sets that `Filter::new` makes of them,
of what is picked from the message, and of what is encoded. The assumptions are types: what a
`SubscribeRequest` and a `SubscribeUpdate` can hold, valid or not, as prost decodes them
(`RequestAssumption`, `IncomingAssumption`), that no allocation is as large as a word
(`AllocAssumption`), that the constants of the limits are positive
and there is a key (`ConfigAssumption`), and that `None` is no value of an optional
type (`NoneAssumption`). The limits are any limits.

**Transports** (`TransportsProofs`). `TransportsInv` has three parts. `ServerInv` is about
the connection task: `Phases` (where it is, and what the receiver and the loop are like
there), `LoopGood` (the free streams are different and have no task, the ids of the tasks
are different and among `msg_ids`, except that of the close frame, and none is older than
the backlog), `Known` (free streams and streams with a task are those of the request) and
`Counted` (every message taken is at hand or in a lane). `SendLoopSound` follows from it;
while the task waits for a stream to close on, no close frame is under way, which is why
`LoopGood` takes that as a parameter. `DeliveryInv` follows a message along its lane:
frames belong to their stream (`Carried`), nothing is missing before a frame on the wire
(`WireGapless`), while the connection lasts each message is with its task, on the wire, in
the hands of the reader or has arrived (`Located`), FIN comes after all of them
(`Finished`), a message in hand and one whose send was given up are next in their stream
(`InHands`). `WireGapless` and `Finished` say nothing once the client has exited, because
what its readers had in hand is lost with it. `Moves` is all that `DeliveryInv` needs to
know of the loops. `Reported` keeps with the reply the outcome of `subscribe` it answers,
so that the codes can be compared with the reason when they are read. The constants: limits
and window are positive, and `None` is no number, task, error or token.

Only model-checked: every liveness property (fairness and ENABLED are beyond the
prover), the run of `BlockMetaStorage`, and `RawIsProst` of `ProtobufEncoder`, whose
encoders and lengths are flattened and summed over messages of any depth: for all
messages that needs induction over data.

## Findings

- `channel_panic`: with `max_slots` tracked, a message of a slot lower than all of
  them fails the assertion of `channel.rs:170-173`, because the slot popped is the one
  just inserted. `max_slots <= 1` fails on the second slot.

The models also have the following, without a statement in the repository to hold
against it:

- `richat/src/channel.rs:362`: `try_clear` removes the lowest slot from the sender's map
  only, so clients that ask for it start below `head` and lag at once, and the shared map
  grows. The assertion of the same loop fails as in the plugin channel (`Panic` of
  `RichatRing`).
- `richat/src/channel.rs:323`: the last message of a ring waits for the next one; `:228`: a
  second `Finalized` of a slot reports a missed block meta; `:574`: the first status after
  a block silences the report of later extra messages.
- `block_meta.rs:80`: the predicate of `retain` keeps the expired blockhashes and drops
  the others. A request that comes after a push may be answered without it.
- `richat/src/grpc/server.rs:398`: pongs are queued whatever the buffer holds; `:441`: only
  the request task hears of the shutdown, so a client that closed its side of the
  requests keeps its stream open after the workers have gone.
- `filter/src/config.rs:264`: nothing bounds offset and length of a data slice. Where their
  sum wraps (`filter.rs:430`), `get_slice` takes a range that ends before it starts and
  panics; where it does not, a length beyond what can be allocated makes
  `Vec::with_capacity` of `filter.rs:440` fail with the first account that matches,
  whatever the length of its data. `filter.rs:321` wraps in the same way for a comparison.
- `filter/src/config.rs:442`: `include_entries` is compared with the limit on accounts.
  `filter/src/filter.rs:700`: every update of a block names its filter eight times; `:871`:
  the count of updated accounts is that of the accounts at hand.
- `richat-cli.rs:676`: the loop polls as long as the stream is ready. A QUIC stream is
  ready with `None` for ever (its messages go to Kafka), a TCP stream panics when it is
  polled after its end, and the first pause ends the reading.
- richat with a QUIC source ends at once, because `poll_next` of QUIC
  (`client/src/quic.rs`) gives `None`. It is why `Forwards` in `Transports` has QUIC with
  the command line client only.
- QUIC: with `max_backlog` 0 nothing is ever sent; the response to a refused request and
  the close frame are lost when the connection is dropped before they are delivered.
- TCP: an end of file inside a message ends the stream without an error.

## Not modelled, and the plan

Not modelled: metrics, configuration files, version and log (counters, text and
deserialisation); arguments and printing of the command line client; the builders and
unary calls of the clients, TLS and transport parameters (settings handed to libraries);
starting the runtime and the transports in `on_load`; `merge_field` and `clear` of the
encoders (`unimplemented!()`); the `Limited` parser (`todo!()`); the bytes of
`FilteredUpdate::encode` (what it carries is in `Filters`); tests, benches and fuzz
targets. What is left has no state of its own.

Proofs worth having next: `NewestAnswered` of `BlockMetaStorage`, with an invariant that
relates its maps to all messages it has handled.
