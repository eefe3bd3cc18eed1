--------------------------- MODULE PluginChannel ---------------------------
(***************************************************************************)
(* The broadcast channel of the geyser plugin                              *)
(* (plugin-agave/src/channel.rs): one ring of items, each behind its own   *)
(* RwLock, and a State behind a Mutex.                                     *)
(*                                                                         *)
(*   - Validator threads call Sender::push.  The call holds the state lock *)
(*     from its first look at `slots` to the last waker it wakes, so at    *)
(*     most one push is in progress; `pc' says where it is and every       *)
(*     critical section on an item is one step.                            *)
(*   - Receivers read items WITHOUT the state lock (the fast path of       *)
(*     recv_ref) and take it only to register a waker (the slow path).     *)
(*   - Sender::close flags the items one by one without the state lock and *)
(*     then takes it to wake everybody.                                    *)
(*                                                                         *)
(* `log', `got' and `start' are history variables: what was stored, and    *)
(* what each receiver was handed from which position.                      *)
(***************************************************************************)
EXTENDS Integers, Sequences, FiniteSets

CONSTANTS
    Receivers,    \* subscribed streams (quic, tcp and grpc connections)
    Inputs,       \* messages the validator may notify
    Filters,      \* sets of notification kinds a subscriber may disable
    Replays,      \* values of replay_from_slot a subscriber may ask for
    Cap,          \* max_messages.next_power_of_two()
    SlotsMax,     \* config.max_slots
    BytesMax,     \* config.max_bytes
    SlotMsgSize,  \* encoded size of a synthesised slot message
    MaxLog,       \* bound: no push begins once so many messages are stored
    NoData        \* Option::None of Item::data

NoSlot == -1      \* Option::None of a slot number

Statuses == {"Processed", "Confirmed", "Rooted", "-"}

\* PluginNotification: the kinds a RichatFilter may disable, and the others.
FilterableKinds == {"Account", "Transaction", "Entry"}
Kinds == FilterableKinds \union {"Slot", "BlockMeta"}

Message == [kind : Kinds, slot : Nat, parent : Nat \union {NoSlot},
            status : Statuses, size : Nat]

ASSUME CapAssumption == Cap \in Nat \ {0}
ASSUME LimitsAssumption == SlotsMax \in Nat /\ BytesMax \in Nat
ASSUME SizeAssumption == SlotMsgSize \in Nat
ASSUME InputsAssumption == Inputs \subseteq Message
ASSUME FiltersAssumption == Filters \subseteq SUBSET FilterableKinds
ASSUME ReplaysAssumption == Replays \subseteq Nat \union {NoSlot}
ASSUME NoDataAssumption == NoData \notin Message

VARIABLES
    buffer,       \* Shared::buffer
    head, tail,   \* State: the retained messages are at head .. tail - 1
    slots,        \* State: slot -> SlotInfo, for the tracked slots
    bytes_total,  \* State
    wakers,       \* State: receivers whose waker is registered
    pc,           \* where the push in progress is; "idle": the lock is free
    pending,      \* messages the push still has to store, in that order
    walk,         \* slot the search for missed statuses is at
    victim,       \* (slot, SlotInfo.head) popped to keep slots under limit
    close_at,     \* progress of close: -1 not called, Cap all items flagged
    rpc,          \* where each receiver is
    next,         \* Receiver::next
    skip,         \* notification kinds the receiver disabled
    log,          \* history: every stored message; position p is log[p-Cap+1]
    start,        \* history: the position the receiver subscribed at
    got           \* history: the messages handed to the receiver

state == <<buffer, head, tail, slots, bytes_total, log>>
sender == <<pc, pending, walk, victim>>
receivers == <<rpc, next, skip, start, got>>
vars == <<state, sender, wakers, close_at, receivers>>

Indices == 0 .. Cap - 1

Item == [pos : Nat, slot : Nat, data : Message \union {NoData}, closed : BOOLEAN]

SlotInfo == [head : Nat, parent_slot : Nat \union {NoSlot},
             confirmed : BOOLEAN, finalized : BOOLEAN]

NoVictim == [slot |-> 0, head |-> 0]

SenderPCs == {"idle", "walk", "entry", "slots", "upto", "same", "bytes", "wake",
              "panicked"}

\* A stream is being polled ("poll", "slow"), is parked ("wait"), or has ended.
ActivePCs == {"poll", "slow", "wait"}
EndedPCs == {"lagged", "closed", "not_initialized", "slot_not_available"}
ReceiverPCs == ActivePCs \union EndedPCs \union {"none"}

get_idx(p) == p % Cap

Logged(p) == log[p - Cap + 1]

-----------------------------------------------------------------------------

Init ==
    /\ buffer = [i \in Indices |->
                    [pos |-> i, slot |-> 0, data |-> NoData, closed |-> FALSE]]
    /\ head = Cap
    /\ tail = Cap
    /\ slots = [s \in {} |-> 0]
    /\ bytes_total = 0
    /\ wakers = {}
    /\ pc = "idle"
    /\ pending = <<>>
    /\ walk = NoSlot
    /\ victim = NoVictim
    /\ close_at = -1
    /\ rpc = [r \in Receivers |-> "none"]
    /\ next = [r \in Receivers |-> 0]
    /\ skip = [r \in Receivers |-> {}]
    /\ log = <<>>
    /\ start = [r \in Receivers |-> 0]
    /\ got = [r \in Receivers |-> <<>>]

-----------------------------------------------------------------------------
(***************************************************************************)
(* Sender::push                                                            *)
(***************************************************************************)

\* A notification takes the state lock.  The plugin unloads (and closes the
\* channel) only when no notification is running.
PushBegin(m) ==
    /\ pc = "idle"
    /\ close_at = -1
    /\ Len(log) < MaxLog
    /\ pending' = <<m>>
    /\ IF m.kind = "Slot"
       THEN walk' = m.slot /\ pc' = "walk"
       ELSE walk' = NoSlot /\ pc' = "entry"
    /\ UNCHANGED <<state, victim, wakers, close_at, receivers>>

LastPending == pending[Len(pending)]

\* The parent of the slot the walk is at is tracked and lacks the status of
\* the message being pushed.
MissedParent ==
    LET p == slots[walk].parent_slot
        status == LastPending.status
    IN /\ walk \in DOMAIN slots
       /\ p \in DOMAIN slots
       /\ \/ status = "Confirmed" /\ ~slots[p].confirmed
          \/ status = "Rooted" /\ ~slots[p].finalized

\* Faulty variant: the missed statuses come after the one that revealed them.
WalkMissedLast ==
    /\ pc = "walk"
    /\ MissedParent
    /\ LET p == slots[walk].parent_slot
       IN /\ pending' = Append(pending,
                [kind |-> "Slot", slot |-> p, parent |-> slots[p].parent_slot,
                 status |-> LastPending.status, size |-> SlotMsgSize])
          /\ walk' = p
    /\ UNCHANGED <<state, pc, victim, wakers, close_at, receivers>>

\* The status of the parent was missed: it is synthesised, to be stored before
\* the messages of its descendants, and the walk goes on from the parent.
WalkMissed ==
    /\ pc = "walk"
    /\ MissedParent
    /\ LET p == slots[walk].parent_slot
           m == [kind |-> "Slot", slot |-> p, parent |-> slots[p].parent_slot,
                 status |-> LastPending.status, size |-> SlotMsgSize]
       IN /\ pending' = <<m>> \o pending
          /\ walk' = p
    /\ UNCHANGED <<state, pc, victim, wakers, close_at, receivers>>

WalkEnd ==
    /\ pc = "walk"
    /\ ~MissedParent
    /\ walk' = NoSlot
    /\ pc' = "entry"
    /\ UNCHANGED <<state, pending, victim, wakers, close_at, receivers>>

-----------------------------------------------------------------------------
(***************************************************************************)
(* Sender::push_msg, for the first pending message                         *)
(***************************************************************************)

\* SlotInfo of the message's slot, inserted if the slot is not tracked.
UpdatedInfo(m) ==
    LET old == IF m.slot \in DOMAIN slots
               THEN slots[m.slot]
               ELSE [head |-> tail, parent_slot |-> NoSlot,
                     confirmed |-> FALSE, finalized |-> FALSE]
    IN [old EXCEPT
          !.parent_slot = IF m.kind = "Slot" /\ m.parent # NoSlot
                          THEN m.parent ELSE @,
          !.confirmed = @ \/ (m.kind = "Slot" /\ m.status = "Confirmed"),
          !.finalized = @ \/ (m.kind = "Slot" /\ m.status = "Rooted")]

UpdateEntry ==
    /\ pc = "entry"
    /\ LET m == Head(pending)
       IN slots' = [s \in DOMAIN slots \union {m.slot} |->
                        IF s = m.slot THEN UpdatedInfo(m) ELSE slots[s]]
    /\ pc' = "slots"
    /\ UNCHANGED <<buffer, head, tail, bytes_total, log, pending, walk, victim,
                   wakers, close_at, receivers>>

\* Faulty variant: the slot of the evicted message itself stays tracked.
remove_slots_below(f, upto) == [s \in {x \in DOMAIN f : x >= upto} |-> f[s]]

\* State::remove_slots.  The optional first slot makes no difference: it is
\* either the first tracked slot or one below every tracked slot.
remove_slots(f, upto) == [s \in {x \in DOMAIN f : x > upto} |-> f[s]]

\* State::slots::pop_first, when more slots than allowed are tracked.
PopFirstSlot ==
    /\ pc = "slots"
    /\ Cardinality(DOMAIN slots) > SlotsMax
    /\ \E s \in DOMAIN slots :
          /\ \A t \in DOMAIN slots : s <= t
          /\ victim' = [slot |-> s, head |-> slots[s].head]
          /\ slots' = [t \in DOMAIN slots \ {s} |-> slots[t]]
    /\ pc' = "upto"
    /\ UNCHANGED <<buffer, head, tail, bytes_total, log, pending, walk, wakers,
                   close_at, receivers>>

\* Item::data is taken: the item keeps its position and its slot.
TakeHead ==
    /\ head < tail
    /\ buffer[get_idx(head)].data # NoData
    /\ buffer' = [buffer EXCEPT ![get_idx(head)].data = NoData]
    /\ head' = head + 1
    /\ bytes_total' = bytes_total - buffer[get_idx(head)].data.size

HeadSlot == buffer[get_idx(head)].slot

\* The assertions and the panics "nothing to remove ..." of the eviction loops.
CannotTakeHead == head >= tail \/ buffer[get_idx(head)].data = NoData

\* Everything up to the beginning of the popped slot goes.
EvictUpTo ==
    /\ pc = "upto"
    /\ head < victim.head
    /\ TakeHead
    /\ slots' = remove_slots(slots, HeadSlot)
    /\ UNCHANGED <<tail, log, sender, wakers, close_at, receivers>>

EvictUpToEnd ==
    /\ pc = "upto"
    /\ head >= victim.head
    /\ pc' = "same"
    /\ UNCHANGED <<state, pending, walk, victim, wakers, close_at, receivers>>

\* ... and the messages of the popped slot that follow without a gap.
EvictSame ==
    /\ pc = "same"
    /\ TakeHead
    /\ HeadSlot = victim.slot
    /\ UNCHANGED <<tail, slots, log, sender, wakers, close_at, receivers>>

EvictSameEnd ==
    /\ pc = "same"
    /\ head < tail
    /\ HeadSlot # victim.slot
    /\ victim' = NoVictim
    /\ pc' = "slots"
    /\ UNCHANGED <<state, pending, walk, wakers, close_at, receivers>>

\* Faulty variant: the limit on slots is not looked at.
SlotsNotLimited ==
    /\ pc = "slots"
    /\ bytes_total' = bytes_total + Head(pending).size
    /\ pc' = "bytes"
    /\ UNCHANGED <<buffer, head, tail, slots, log, pending, walk, victim, wakers,
                   close_at, receivers>>

SlotsUnderLimit ==
    /\ pc = "slots"
    /\ Cardinality(DOMAIN slots) <= SlotsMax
    /\ bytes_total' = bytes_total + Head(pending).size
    /\ pc' = "bytes"
    /\ UNCHANGED <<buffer, head, tail, slots, log, pending, walk, victim, wakers,
                   close_at, receivers>>

EvictBytes ==
    /\ pc = "bytes"
    /\ bytes_total > BytesMax
    /\ TakeHead
    /\ slots' = remove_slots(slots, HeadSlot)
    /\ UNCHANGED <<tail, log, sender, wakers, close_at, receivers>>

\* The item at the old tail is overwritten; a message it still holds is the
\* oldest one.
Store ==
    /\ pc = "bytes"
    /\ bytes_total <= BytesMax
    /\ LET m == Head(pending)
           i == get_idx(tail)
           old == buffer[i]
       IN /\ tail' = tail + 1
          /\ \/ /\ old.data # NoData
                /\ head' = head + 1
                /\ slots' = remove_slots(slots, old.slot)
                /\ bytes_total' = bytes_total - old.data.size
             \/ /\ old.data = NoData
                /\ UNCHANGED <<head, slots, bytes_total>>
          /\ buffer' = [buffer EXCEPT ![i] = [pos |-> tail, slot |-> m.slot,
                                              data |-> m, closed |-> old.closed]]
          /\ log' = Append(log, m)
          /\ pending' = Tail(pending)
          /\ pc' = IF Len(pending) > 1 THEN "entry" ELSE "wake"
    /\ UNCHANGED <<walk, victim, wakers, close_at, receivers>>

\* Waking a task makes it poll its stream again.
WakeAll ==
    /\ rpc' = [r \in Receivers |->
                  IF r \in wakers /\ rpc[r] = "wait" THEN "poll" ELSE rpc[r]]
    /\ wakers' = {}
    /\ UNCHANGED <<next, skip, start, got>>

PushEnd ==
    /\ pc = "wake"
    /\ WakeAll
    /\ pc' = "idle"
    /\ UNCHANGED <<state, pending, walk, victim, close_at>>

\* A panic on a validator thread ends the process.
Panic ==
    /\ \/ pc = "upto" /\ head < victim.head /\ CannotTakeHead
       \/ pc = "same" /\ head >= tail
       \/ pc = "same" /\ HeadSlot = victim.slot /\ CannotTakeHead
       \/ pc = "bytes" /\ bytes_total > BytesMax /\ CannotTakeHead
    /\ pc' = "panicked"
    /\ UNCHANGED <<state, pending, walk, victim, wakers, close_at, receivers>>

-----------------------------------------------------------------------------
(***************************************************************************)
(* Sender::close                                                           *)
(***************************************************************************)

Alive == pc # "panicked"

CloseBegin ==
    /\ pc = "idle"
    /\ close_at = -1
    /\ close_at' = 0
    /\ UNCHANGED <<state, sender, wakers, receivers>>

CloseItem ==
    /\ close_at \in Indices
    /\ buffer' = [buffer EXCEPT ![close_at].closed = TRUE]
    /\ close_at' = close_at + 1
    /\ UNCHANGED <<head, tail, slots, bytes_total, log, sender, wakers, receivers>>

\* Faulty variant: close flags the items and wakes nobody.
CloseEndSilent ==
    /\ pc = "idle"
    /\ close_at = Cap
    /\ close_at' = Cap + 1
    /\ UNCHANGED <<state, sender, wakers, receivers>>

CloseEnd ==
    /\ pc = "idle"
    /\ close_at = Cap
    /\ WakeAll
    /\ close_at' = Cap + 1
    /\ UNCHANGED <<state, sender>>

-----------------------------------------------------------------------------
(***************************************************************************)
(* Subscribe and Receiver                                                  *)
(***************************************************************************)

\* Sender::subscribe under the state lock, and the stream it returns.
Subscribe(r, replay, filter) ==
    /\ pc = "idle"
    /\ rpc[r] = "none"
    /\ \/ /\ replay = NoSlot \/ replay \in DOMAIN slots
          /\ LET p == IF replay = NoSlot THEN tail ELSE slots[replay].head
             IN /\ next' = [next EXCEPT ![r] = p]
                /\ start' = [start EXCEPT ![r] = p]
          /\ skip' = [skip EXCEPT ![r] = filter]
          /\ rpc' = [rpc EXCEPT ![r] = "poll"]
       \/ /\ replay # NoSlot /\ replay \notin DOMAIN slots
          /\ rpc' = [rpc EXCEPT ![r] = IF DOMAIN slots = {}
                                       THEN "not_initialized"
                                       ELSE "slot_not_available"]
          /\ UNCHANGED <<next, start, skip>>
    /\ UNCHANGED <<state, sender, wakers, close_at, got>>

\* The tail of recv_ref's loop body, once the item has the position wanted.
Consume(r, data) ==
    /\ next' = [next EXCEPT ![r] = @ + 1]
    /\ rpc' = [rpc EXCEPT ![r] = IF data = NoData THEN "lagged" ELSE "poll"]
    /\ got' = IF data = NoData \/ data.kind \in skip[r]
              THEN got
              ELSE [got EXCEPT ![r] = Append(@, data)]
    /\ UNCHANGED <<wakers, skip, start>>

EndStream(r, error) ==
    /\ rpc' = [rpc EXCEPT ![r] = error]
    /\ UNCHANGED <<wakers, next, skip, start, got>>

\* Faulty variant: the item is taken whatever its position.
RecvFastAny(r) ==
    /\ Alive
    /\ rpc[r] = "poll"
    /\ LET item == buffer[get_idx(next[r])]
       IN \/ /\ item.closed
             /\ EndStream(r, "closed")
          \/ /\ ~item.closed /\ item.data # NoData
             /\ Consume(r, item.data)
          \/ /\ ~item.closed /\ item.data = NoData
             /\ EndStream(r, "slow")
    /\ UNCHANGED <<state, sender, close_at>>

\* The fast path: one item, under its own lock only.
RecvFast(r) ==
    /\ Alive
    /\ rpc[r] = "poll"
    /\ LET item == buffer[get_idx(next[r])]
       IN \/ /\ item.closed
             /\ EndStream(r, "closed")
          \/ /\ ~item.closed /\ item.pos = next[r]
             /\ Consume(r, item.data)
          \/ /\ ~item.closed /\ item.pos # next[r]
             /\ EndStream(r, "slow")
    /\ UNCHANGED <<state, sender, close_at>>

\* Faulty variant: the receiver parks without looking at the item again.
RecvSlowBlind(r) ==
    /\ pc = "idle"
    /\ rpc[r] = "slow"
    /\ wakers' = wakers \union {r}
    /\ rpc' = [rpc EXCEPT ![r] = "wait"]
    /\ UNCHANGED <<state, sender, close_at, next, skip, start, got>>

\* Faulty variant: a receiver that lags goes on from the position it finds.
RecvSlowResync(r) ==
    /\ pc = "idle"
    /\ rpc[r] = "slow"
    /\ LET item == buffer[get_idx(next[r])]
       IN \/ /\ item.pos >= next[r]
             /\ next' = [next EXCEPT ![r] = item.pos]
             /\ rpc' = [rpc EXCEPT ![r] = "poll"]
             /\ UNCHANGED wakers
          \/ /\ item.pos < next[r]
             /\ wakers' = wakers \union {r}
             /\ rpc' = [rpc EXCEPT ![r] = "wait"]
             /\ UNCHANGED next
    /\ UNCHANGED <<state, sender, close_at, skip, start, got>>

\* The slow path: the item is read again under the state lock, and the waker
\* is registered before the locks are released.
RecvSlow(r) ==
    /\ pc = "idle"
    /\ rpc[r] = "slow"
    /\ LET item == buffer[get_idx(next[r])]
       IN \/ /\ item.closed
             /\ EndStream(r, "closed")
          \/ /\ ~item.closed /\ item.pos = next[r]
             /\ Consume(r, item.data)
          \/ /\ ~item.closed /\ item.pos > next[r]
             /\ EndStream(r, "lagged")
          \/ /\ ~item.closed /\ item.pos < next[r]
             /\ wakers' = wakers \union {r}
             /\ rpc' = [rpc EXCEPT ![r] = "wait"]
             /\ UNCHANGED <<next, skip, start, got>>
    /\ UNCHANGED <<state, sender, close_at>>

\* A select over several futures polls a parked stream again for its own reasons.
Repoll(r) ==
    /\ Alive
    /\ rpc[r] = "wait"
    /\ rpc' = [rpc EXCEPT ![r] = "poll"]
    /\ UNCHANGED <<state, sender, wakers, close_at, next, skip, start, got>>

\* The connection drops its stream, or the error reaches it and the stream
\* yields nothing more.  A waker left behind wakes a task that is gone.
Drop(r) ==
    /\ Alive
    /\ rpc[r] # "none"
    /\ rpc' = [rpc EXCEPT ![r] = "none"]
    /\ wakers' = wakers \ {r}
    /\ next' = [next EXCEPT ![r] = 0]
    /\ skip' = [skip EXCEPT ![r] = {}]
    /\ start' = [start EXCEPT ![r] = 0]
    /\ got' = [got EXCEPT ![r] = <<>>]
    /\ UNCHANGED <<state, sender, close_at>>

-----------------------------------------------------------------------------

Push == \E m \in Inputs : PushBegin(m)

\* The steps of the thread that holds the state lock.
PushStep ==
    \/ WalkMissed \/ WalkEnd
    \/ UpdateEntry
    \/ PopFirstSlot \/ EvictUpTo \/ EvictUpToEnd \/ EvictSame \/ EvictSameEnd
    \/ SlotsUnderLimit \/ EvictBytes
    \/ Store
    \/ PushEnd
    \/ Panic

CloseStep == CloseItem \/ CloseEnd

Recv(r) == RecvFast(r) \/ RecvSlow(r)

\* The process is gone.
Terminated == ~Alive /\ UNCHANGED vars

Next ==
    \/ Push
    \/ PushStep
    \/ CloseBegin
    \/ CloseStep
    \/ \E r \in Receivers :
          \/ \E replay \in Replays, filter \in Filters : Subscribe(r, replay, filter)
          \/ Recv(r)
          \/ Repoll(r)
          \/ Drop(r)
    \/ Terminated

Spec == Init /\ [][Next]_vars

\* A thread inside push or close keeps running, and a task whose waker fired is
\* polled again.  Nobody has to notify, subscribe, close or disconnect.
Fairness ==
    /\ WF_vars(PushStep)
    /\ WF_vars(CloseStep)
    /\ \A r \in Receivers : WF_vars(Recv(r))

FairSpec == Spec /\ Fairness

-----------------------------------------------------------------------------
(***************************************************************************)
(* Properties                                                              *)
(***************************************************************************)

TypeOK ==
    /\ buffer \in [Indices -> Item]
    /\ head \in Nat /\ tail \in Nat
    /\ DOMAIN slots \subseteq Nat
    /\ \A s \in DOMAIN slots : slots[s] \in SlotInfo
    /\ bytes_total \in Int
    /\ wakers \subseteq Receivers
    /\ pc \in SenderPCs
    /\ pending \in Seq(Message)
    /\ walk \in Nat \union {NoSlot}
    /\ victim \in [slot : Nat, head : Nat]
    /\ close_at \in -1 .. Cap + 1
    /\ rpc \in [Receivers -> ReceiverPCs]
    /\ next \in [Receivers -> Nat]
    /\ skip \in [Receivers -> SUBSET FilterableKinds]
    /\ log \in Seq(Message)
    /\ start \in [Receivers -> Nat]
    /\ got \in [Receivers -> Seq(Message)]

\* The ring holds exactly the messages at head .. tail - 1: an item holds the
\* last message stored at its index, at that message's position, and its data
\* is gone exactly if head has passed it.  Readers rely on this without the
\* state lock.
RingHoldsWindow ==
    /\ tail = Cap + Len(log)
    /\ Cap <= head /\ head <= tail /\ tail <= head + Cap
    /\ \A i \in Indices :
          LET item == buffer[i]
          IN /\ get_idx(item.pos) = i
             /\ tail - Cap <= item.pos /\ item.pos < tail
             /\ item.data = IF item.pos < head THEN NoData ELSE Logged(item.pos)
             /\ item.pos >= Cap => item.slot = Logged(item.pos).slot

\* The entry of the message is up to date and the message is not stored yet.
Storing == pc \in {"slots", "upto", "same", "bytes", "panicked"}

\* What a subscriber of a slot relies on: the position kept for a tracked slot
\* is that of a message of that slot which is still in the ring, except for the
\* slot of the message that is about to be stored.
TrackedSlotRetained ==
    \A s \in DOMAIN slots :
       LET p == slots[s].head
       IN \/ head <= p /\ p < tail /\ Logged(p).slot = s
          \/ Storing /\ p = tail /\ s = Head(pending).slot

\* Whenever the state lock is free the configured limits hold.
LimitsHold ==
    pc = "idle" => /\ bytes_total <= BytesMax
                   /\ Cardinality(DOMAIN slots) <= SlotsMax

\* A receiver parks only with its waker registered, and then no message it has
\* not seen is in the ring unless the push that stored it will still wake it;
\* once close returned nobody is parked.
NoLostWakeup ==
    \A r \in Receivers :
       rpc[r] = "wait" =>
          /\ r \in wakers
          /\ pc = "idle" => next[r] = tail
          /\ close_at <= Cap

\* The positions from a on and before b with a message of a kind r did not disable.
Wanted(r, a, b) == {p \in a .. b - 1 : Logged(p).kind \notin skip[r]}

\* r was handed as many messages as it wants between its first position and its
\* next one, each in the place it has among them.
Handed(r) ==
    /\ Len(got[r]) = Cardinality(Wanted(r, start[r], next[r]))
    /\ \A p \in Wanted(r, start[r], next[r]) :
          got[r][Cardinality(Wanted(r, start[r], p)) + 1] = Logged(p)

\* What a stream was handed is the log from the position it subscribed at up to
\* its next position, without the kinds it disabled: nothing is lost, repeated
\* or reordered although the items are read without the state lock.
DeliveredInOrder ==
    \A r \in Receivers :
       rpc[r] \in ActivePCs => next[r] <= tail /\ Handed(r)

\* What a sequence of messages says of a slot: that it was seen, that it has a status,
\* and that p is the last parent announced for it.
Seen(seq, s) == \E k \in 1 .. Len(seq) : seq[k].slot = s

HasStatus(seq, s, status) ==
    \E k \in 1 .. Len(seq) :
       seq[k].kind = "Slot" /\ seq[k].slot = s /\ seq[k].status = status

ParentIs(seq, s, p) ==
    \E i \in 1 .. Len(seq) :
       /\ seq[i].kind = "Slot" /\ seq[i].slot = s
       /\ seq[i].parent = p /\ p # NoSlot
       /\ \A k \in i + 1 .. Len(seq) :
             seq[k].kind = "Slot" /\ seq[k].slot = s => seq[k].parent \in {NoSlot, p}

\* The parent of m's slot, as far as it is in seq, has the status that m gives.
ParentsFirst(seq, m) ==
    m.kind = "Slot" /\ m.status \in {"Confirmed", "Rooted"} =>
       \A i \in 1 .. Len(seq) :
          LET p == seq[i].parent
          IN ParentIs(seq, m.slot, p) /\ Seen(seq, p) => HasStatus(seq, p, m.status)

\* As long as nothing was evicted, a confirmed (finalized) status of a slot whose
\* parent was announced before it comes after one of its parent, if the parent
\* is known to the channel at all: the missed statuses are filled in, ancestors
\* first.  If several parents were announced the last one counts.
AncestorStatusFirst ==
    head = Cap => \A j \in 1 .. Len(log) : ParentsFirst(SubSeq(log, 1, j - 1), log[j])

\* What makes the invariants above inductive: the locals of the push in
\* progress, the flags set by close so far, and where an active stream may be.
SenderLocals ==
    /\ pc \notin {"idle", "wake", "panicked"} => pending # <<>>
    /\ pc \in {"upto", "same"} => victim.slot \notin DOMAIN slots
    /\ close_at # -1 => pc = "idle"
    /\ \A i \in Indices : buffer[i].closed <=> i < close_at

ReaderPositions ==
    \A r \in Receivers :
       rpc[r] \in ActivePCs => Cap <= start[r] /\ start[r] <= next[r] /\ next[r] <= tail

LimitsProgress ==
    /\ IsFiniteSet(DOMAIN slots)
    /\ pc \notin {"bytes", "panicked"} => bytes_total <= BytesMax
    /\ pc \in {"idle", "walk", "entry", "bytes", "wake"} =>
          Cardinality(DOMAIN slots) <= SlotsMax

\* The messages that the entries in `slots' take into account: the one about to be
\* stored is one of them.
Noted == IF Storing THEN Append(log, Head(pending)) ELSE log

\* The entries say what the messages say.
Tracks(entries, seq) ==
    /\ \A k \in 1 .. Len(seq) : seq[k].slot \in DOMAIN entries
    /\ \A s \in DOMAIN entries :
          /\ \A p \in Nat : ParentIs(seq, s, p) <=> entries[s].parent_slot = p
          /\ entries[s].confirmed => HasStatus(seq, s, "Confirmed")
          /\ entries[s].finalized => HasStatus(seq, s, "Rooted")

\* The pending messages but the last are the missed statuses: of a slot whose parent
\* the log announces, each the parent of the next.
Chain ==
    /\ \A k \in 1 .. Len(pending) - 1 :
          /\ pending[k].kind = "Slot" /\ pending[k].status = LastPending.status
          /\ pending[k].parent # NoSlot => ParentIs(log, pending[k].slot, pending[k].parent)
          /\ \A p \in Nat : ParentIs(log, pending[k + 1].slot, p) => p = pending[k].slot
    /\ pc = "walk" => walk = Head(pending).slot
    /\ pc \in {"entry", "slots", "upto", "same", "bytes"} => ParentsFirst(log, Head(pending))

\* A slot popped to keep the limit takes messages of the ring with it.
VictimInRing ==
    pc \in {"upto", "same"} =>
       /\ \/ victim.head = tail
          \/ Cap <= victim.head /\ victim.head < tail /\ Logged(victim.head).slot = victim.slot
       /\ pc = "same" => victim.head <= head

\* What makes AncestorStatusFirst inductive.  A popped slot is unknown until its
\* messages are evicted.
AncestorInv ==
    head = Cap /\ pc # "panicked" =>
       /\ pc \notin {"upto", "same"} => Tracks(slots, Noted)
       /\ pc \notin {"idle", "wake"} => Chain
       /\ VictimInRing

ChannelInv ==
    /\ TypeOK
    /\ RingHoldsWindow
    /\ TrackedSlotRetained
    /\ NoLostWakeup
    /\ SenderLocals
    /\ ReaderPositions

\* The process never dies on one of the channel's own assertions.
NoPanic == pc # "panicked"

\* No stream is left behind: again and again each one has seen everything in
\* the ring or has ended, and once close was called it has ended.
EveryoneCatchesUp ==
    \A r \in Receivers :
       []<>(\/ rpc[r] \notin ActivePCs
            \/ close_at = -1 /\ next[r] = tail
            \/ ~Alive)

\* How the channel represents the log's readers.
Phase ==
    [r \in Receivers |->
        IF rpc[r] \in ActivePCs THEN "in"
        ELSE IF rpc[r] \in {"lagged", "closed"} THEN rpc[r]
        ELSE "out"]

Cursor == [r \in Receivers |-> IF rpc[r] \in ActivePCs THEN next[r] - Cap ELSE 0]

Abstract == INSTANCE BroadcastLog WITH
    Readers <- Receivers,
    Messages <- Message,
    lo <- head - Cap,
    phase <- Phase,
    cursor <- Cursor,
    closing <- (close_at # -1)

\* The channel implements the log with a kept suffix and gap-free readers:
\* whatever the limits evict under a reader's feet, a stream is handed the log
\* from a retained position on, or is told that it lags, and only then.
ImplementsLog == Abstract!Spec

=============================================================================
