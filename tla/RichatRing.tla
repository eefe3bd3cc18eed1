----------------------------- MODULE RichatRing -----------------------------
(***************************************************************************)
(* One ring of the richat channel (richat/src/channel.rs): SenderShared,   *)
(* which only the parser thread has, Shared, and the readers, who poll     *)
(* ReceiverSync::try_recv with a position of their own.                    *)
(*                                                                         *)
(*   - SenderShared::push writes an item under its RwLock, then publishes  *)
(*     the position, then the head of a slot seen for the first time; a    *)
(*     reader may act between any two of these.                            *)
(*   - Sender::push pushes one or more messages and then may call          *)
(*     try_clear (for the processed ring it always does).                  *)
(*   - try_recv loads the published position, then reads an item.          *)
(*                                                                         *)
(* Positions, lengths and slots are natural numbers.  `log', `start' and   *)
(* `got' are history.                                                      *)
(***************************************************************************)
EXTENDS Integers, Sequences, FiniteSets

CONSTANTS
    Clients,      \* readers
    Inputs,       \* messages: records with a slot and a size
    Replays,      \* slots readers ask to start from, or NoSlot
    Cap,          \* max_messages.next_power_of_two()
    SlotsMax,     \* config.max_slots
    BytesMax,     \* config.max_bytes
    MaxLog,       \* bound on the messages pushed
    NoData        \* Option::None of Item::data

NoSlot == -1      \* Option::None of replay_from_slot

Message == [slot : Nat, size : Nat]

ASSUME CapAssumption == Cap \in Nat \ {0}
ASSUME LimitsAssumption == SlotsMax \in Nat /\ BytesMax \in Nat /\ MaxLog \in Nat
ASSUME InputsAssumption == Inputs \subseteq Message
ASSUME ReplaysAssumption == Replays \subseteq Nat \union {NoSlot}
ASSUME NoDataAssumption == NoData \notin Message

VARIABLES
    buffer,       \* Shared::buffer
    shared_tail,  \* Shared::tail
    shared_slots, \* Shared::slots: slot -> SlotHead::head
    head, tail,   \* SenderShared
    slots,        \* SenderShared: slot -> SlotHead::head
    bytes_total,  \* SenderShared
    pc,           \* where the parser thread is
    victim,       \* (slot, head) removed from slots to keep the limit
    rpc,          \* where each reader is
    next,         \* the position each reader wants
    log,          \* history: every message; position p is log[p - Cap + 1]
    start,        \* history: the position the reader began at
    got           \* history: messages handed to the reader

ring == <<buffer, head, tail, slots, bytes_total, log>>
shared == <<shared_tail, shared_slots>>
readers == <<rpc, next, start, got>>
vars == <<ring, shared, pc, victim, readers>>

Indices == 0 .. Cap - 1

Item == [pos : Nat, slot : Nat, data : Message \union {NoData}]

NoVictim == [slot |-> 0, head |-> 0]

\* "ready": try_clear has returned and nothing was pushed since; "more": messages
\* were pushed, and more may be before try_clear is called; "publish", "insert":
\* inside push; the rest: inside try_clear.
SenderPCs == {"ready", "more", "publish", "insert", "bytes", "slots", "upto", "same", "panicked"}

ReaderPCs == {"out", "poll", "read", "lagged", "refused"}

get_idx(p) == p % Cap

Logged(p) == log[p - Cap + 1]

\* HashMap::remove and HashMap::insert
Without(f, s) == [t \in DOMAIN f \ {s} |-> f[t]]
With(f, s, v) == [t \in DOMAIN f \union {s} |-> IF t = s THEN v ELSE f[t]]

Init ==
    /\ buffer = [i \in Indices |-> [pos |-> i, slot |-> 0, data |-> NoData]]
    /\ shared_tail = Cap
    /\ shared_slots = [s \in {} |-> 0]
    /\ head = Cap
    /\ tail = Cap
    /\ slots = [s \in {} |-> 0]
    /\ bytes_total = 0
    /\ pc = "ready"
    /\ victim = NoVictim
    /\ rpc = [c \in Clients |-> "out"]
    /\ next = [c \in Clients |-> 0]
    /\ log = <<>>
    /\ start = [c \in Clients |-> 0]
    /\ got = [c \in Clients |-> <<>>]

-----------------------------------------------------------------------------
(***************************************************************************)
(* SenderShared::push                                                      *)
(***************************************************************************)

\* Faulty variant: the slot of the overwritten message is not forgotten.
PushKeepsSlot(m) ==
    /\ pc \in {"ready", "more"}
    /\ Len(log) < MaxLog
    /\ LET i == get_idx(tail)
           dropped == buffer[i].data # NoData
       IN /\ tail' = tail + 1
          /\ head' = IF dropped THEN head + 1 ELSE head
          /\ bytes_total' = bytes_total + m.size - IF dropped THEN buffer[i].data.size ELSE 0
          /\ buffer' = [buffer EXCEPT ![i] = [pos |-> tail, slot |-> m.slot, data |-> m]]
    /\ log' = Append(log, m)
    /\ pc' = "publish"
    /\ UNCHANGED <<slots, shared, victim, readers>>

\* The item at the tail is written; a message still there is the oldest one.
PushItem(m) ==
    /\ pc \in {"ready", "more"}
    /\ Len(log) < MaxLog
    /\ LET i == get_idx(tail)
           old == buffer[i]
       IN /\ tail' = tail + 1
          /\ \/ /\ old.data # NoData
                /\ head' = head + 1
                /\ bytes_total' = bytes_total - old.data.size + m.size
                /\ slots' = Without(slots, old.slot)
                /\ shared_slots' = IF old.slot \in DOMAIN slots
                                   THEN Without(shared_slots, old.slot) ELSE shared_slots
             \/ /\ old.data = NoData
                /\ bytes_total' = bytes_total + m.size
                /\ UNCHANGED <<head, slots, shared_slots>>
          /\ buffer' = [buffer EXCEPT ![i] = [pos |-> tail, slot |-> m.slot, data |-> m]]
    /\ log' = Append(log, m)
    /\ pc' = "publish"
    /\ UNCHANGED <<shared_tail, victim, readers>>

\* Faulty variant: the position is not published.
PublishNothing ==
    /\ pc = "publish"
    /\ pc' = "insert"
    /\ UNCHANGED <<ring, shared, victim, readers>>

\* self.shared.tail.store(pos, Relaxed): the position of the message itself
PublishTail ==
    /\ pc = "publish"
    /\ shared_tail' = tail - 1
    /\ pc' = "insert"
    /\ UNCHANGED <<ring, shared_slots, victim, readers>>

\* self.slots.entry(slot).or_insert_with(..)
InsertSlot ==
    /\ pc = "insert"
    /\ LET s == Logged(tail - 1).slot
       IN \/ /\ s \in DOMAIN slots
             /\ UNCHANGED <<slots, shared_slots>>
          \/ /\ s \notin DOMAIN slots
             /\ slots' = With(slots, s, tail - 1)
             /\ shared_slots' = With(shared_slots, s, tail - 1)
    /\ pc' = "more"
    /\ UNCHANGED <<buffer, head, tail, bytes_total, log, shared_tail, victim, readers>>

-----------------------------------------------------------------------------
(***************************************************************************)
(* SenderShared::try_clear                                                 *)
(***************************************************************************)

ClearBegin ==
    /\ pc = "more"
    /\ pc' = "bytes"
    /\ UNCHANGED <<ring, shared, victim, readers>>

\* The head item loses its message; it keeps its position and its slot.
TakeHead ==
    /\ head < tail
    /\ buffer[get_idx(head)].data # NoData
    /\ buffer' = [buffer EXCEPT ![get_idx(head)].data = NoData]
    /\ head' = head + 1
    /\ bytes_total' = bytes_total - buffer[get_idx(head)].data.size

HeadSlot == buffer[get_idx(head)].slot

\* Its slot is no longer known from its beginning, to the sender and the readers.
ForgetHeadSlot ==
    /\ slots' = Without(slots, HeadSlot)
    /\ shared_slots' = IF HeadSlot \in DOMAIN slots
                       THEN Without(shared_slots, HeadSlot) ELSE shared_slots

ClearBytes ==
    /\ pc = "bytes"
    /\ bytes_total > BytesMax
    /\ TakeHead
    /\ ForgetHeadSlot
    /\ UNCHANGED <<tail, log, shared_tail, pc, victim, readers>>

\* Faulty variant: the limit is off by one.
ClearBytesEndEarly ==
    /\ pc = "bytes"
    /\ bytes_total <= BytesMax + 1
    /\ pc' = "slots"
    /\ UNCHANGED <<ring, shared, victim, readers>>

ClearBytesEnd ==
    /\ pc = "bytes"
    /\ bytes_total <= BytesMax
    /\ pc' = "slots"
    /\ UNCHANGED <<ring, shared, victim, readers>>

\* The smallest slot leaves the sender's map; the readers' map keeps it.
RemoveMinSlot ==
    /\ pc = "slots"
    /\ Cardinality(DOMAIN slots) > SlotsMax
    /\ \E s \in DOMAIN slots :
          /\ \A t \in DOMAIN slots : s <= t
          /\ victim' = [slot |-> s, head |-> slots[s]]
          /\ slots' = Without(slots, s)
    /\ pc' = "upto"
    /\ UNCHANGED <<buffer, head, tail, bytes_total, log, shared, readers>>

ClearUpTo ==
    /\ pc = "upto"
    /\ head < victim.head
    /\ TakeHead
    /\ ForgetHeadSlot
    /\ UNCHANGED <<tail, log, shared_tail, pc, victim, readers>>

ClearUpToEnd ==
    /\ pc = "upto"
    /\ head >= victim.head
    /\ pc' = "same"
    /\ UNCHANGED <<ring, shared, victim, readers>>

ClearSame ==
    /\ pc = "same"
    /\ HeadSlot = victim.slot
    /\ TakeHead
    /\ UNCHANGED <<tail, slots, log, shared, pc, victim, readers>>

ClearSameEnd ==
    /\ pc = "same"
    /\ head < tail
    /\ HeadSlot # victim.slot
    /\ victim' = NoVictim
    /\ pc' = "slots"
    /\ UNCHANGED <<ring, shared, readers>>

ClearEnd ==
    /\ pc = "slots"
    /\ Cardinality(DOMAIN slots) <= SlotsMax
    /\ pc' = "ready"
    /\ UNCHANGED <<ring, shared, victim, readers>>

\* The assertions and panics of try_clear end the parser thread.
CannotTakeHead == head >= tail \/ buffer[get_idx(head)].data = NoData

Panic ==
    /\ \/ pc = "bytes" /\ bytes_total > BytesMax /\ CannotTakeHead
       \/ pc = "upto" /\ head < victim.head /\ CannotTakeHead
       \/ pc = "same" /\ head >= tail
       \/ pc = "same" /\ HeadSlot = victim.slot /\ CannotTakeHead
    /\ pc' = "panicked"
    /\ UNCHANGED <<ring, shared, victim, readers>>

-----------------------------------------------------------------------------
(***************************************************************************)
(* Messages::get_current_tail and ReceiverSync::try_recv                   *)
(***************************************************************************)

Begin(c, p) ==
    /\ rpc' = [rpc EXCEPT ![c] = "poll"]
    /\ next' = [next EXCEPT ![c] = p]
    /\ start' = [start EXCEPT ![c] = p]

get_current_tail(c, replay) ==
    /\ rpc[c] = "out"
    /\ \/ replay = NoSlot /\ Begin(c, shared_tail)
       \/ replay \in DOMAIN shared_slots /\ Begin(c, shared_slots[replay])
       \/ /\ replay # NoSlot /\ replay \notin DOMAIN shared_slots
          /\ rpc' = [rpc EXCEPT ![c] = "refused"]
          /\ UNCHANGED <<next, start>>
    /\ UNCHANGED <<ring, shared, pc, victim, got>>

\* Faulty variant: the published position is taken for one past the message.
LoadTailPast(c) ==
    /\ rpc[c] = "poll"
    /\ next[c] <= shared_tail
    /\ rpc' = [rpc EXCEPT ![c] = "read"]
    /\ UNCHANGED <<ring, shared, pc, victim, next, start, got>>

\* The first half of try_recv; Ok(None) leaves everything as it is.
LoadTail(c) ==
    /\ rpc[c] = "poll"
    /\ next[c] < shared_tail
    /\ rpc' = [rpc EXCEPT ![c] = "read"]
    /\ UNCHANGED <<ring, shared, pc, victim, next, start, got>>

\* Faulty variant: the position of the item is not compared.
ReadItemAny(c) ==
    /\ rpc[c] = "read"
    /\ LET item == buffer[get_idx(next[c])]
       IN \/ /\ item.data # NoData
             /\ got' = [got EXCEPT ![c] = Append(@, item.data)]
             /\ next' = [next EXCEPT ![c] = @ + 1]
             /\ rpc' = [rpc EXCEPT ![c] = "poll"]
          \/ /\ item.data = NoData
             /\ rpc' = [rpc EXCEPT ![c] = "lagged"]
             /\ UNCHANGED <<next, got>>
    /\ UNCHANGED <<ring, shared, pc, victim, start>>

\* The second half: the item under its lock, and the caller's head += 1.
ReadItem(c) ==
    /\ rpc[c] = "read"
    /\ LET item == buffer[get_idx(next[c])]
       IN \/ /\ item.pos = next[c] /\ item.data # NoData
             /\ got' = [got EXCEPT ![c] = Append(@, item.data)]
             /\ next' = [next EXCEPT ![c] = @ + 1]
             /\ rpc' = [rpc EXCEPT ![c] = "poll"]
          \/ /\ item.pos # next[c] \/ item.data = NoData
             /\ rpc' = [rpc EXCEPT ![c] = "lagged"]
             /\ UNCHANGED <<next, got>>
    /\ UNCHANGED <<ring, shared, pc, victim, start>>

\* The client goes away, after an error or on its own.
Leave(c) ==
    /\ rpc[c] # "out"
    /\ rpc' = [rpc EXCEPT ![c] = "out"]
    /\ next' = [next EXCEPT ![c] = 0]
    /\ start' = [start EXCEPT ![c] = 0]
    /\ got' = [got EXCEPT ![c] = <<>>]
    /\ UNCHANGED <<ring, shared, pc, victim>>

-----------------------------------------------------------------------------

Clear ==
    \/ ClearBytes \/ ClearBytesEnd
    \/ RemoveMinSlot \/ ClearUpTo \/ ClearUpToEnd \/ ClearSame \/ ClearSameEnd
    \/ ClearEnd
    \/ Panic

try_recv(c) == LoadTail(c) \/ ReadItem(c)

Next ==
    \/ \E m \in Inputs : PushItem(m)
    \/ PublishTail \/ InsertSlot
    \/ ClearBegin \/ Clear
    \/ \E c \in Clients :
          \/ \E replay \in Replays : get_current_tail(c, replay)
          \/ try_recv(c)
          \/ Leave(c)

Spec == Init /\ [][Next]_vars

\* The parser thread goes on inside a push, and the workers poll every client.
FairSpec ==
    /\ Spec
    /\ WF_vars(PublishTail) /\ WF_vars(InsertSlot) /\ WF_vars(Clear)
    /\ \A c \in Clients : WF_vars(try_recv(c))

-----------------------------------------------------------------------------

Positions(f) == \A s \in DOMAIN f : f[s] \in Nat

TypeOK ==
    /\ buffer \in [Indices -> Item]
    /\ shared_tail \in Nat
    /\ DOMAIN shared_slots \subseteq Nat /\ Positions(shared_slots)
    /\ head \in Nat
    /\ tail \in Nat
    /\ DOMAIN slots \subseteq Nat /\ Positions(slots)
    /\ bytes_total \in Nat
    /\ pc \in SenderPCs
    /\ victim \in [slot : Nat, head : Nat]
    /\ rpc \in [Clients -> ReaderPCs]
    /\ next \in [Clients -> Nat]
    /\ log \in Seq(Message)
    /\ start \in [Clients -> Nat]
    /\ got \in [Clients -> Seq(Message)]

\* Between head and tail the ring holds the last messages of the log, every
\* other item is empty, and no item is ahead of the tail.
RingHoldsWindow ==
    /\ head <= tail /\ tail <= head + Cap
    /\ tail = Cap + Len(log)
    /\ \A p \in head .. tail - 1 :
          buffer[get_idx(p)] = [pos |-> p, slot |-> Logged(p).slot, data |-> Logged(p)]
    /\ \A i \in Indices :
          /\ get_idx(buffer[i].pos) = i
          /\ buffer[i].pos < tail
          /\ buffer[i].data # NoData => head <= buffer[i].pos

\* A slot the sender knows is in the ring from its first message on, and readers
\* are given that position.
KnownSlotRetained ==
    \A s \in DOMAIN slots :
       /\ slots[s] \in head .. tail - 1
       /\ Logged(slots[s]).slot = s
       /\ s \in DOMAIN shared_slots /\ shared_slots[s] = slots[s]

\* What the messages before position p are worth together.
SizeBefore[p \in Cap .. tail] ==
    IF p = Cap THEN 0 ELSE SizeBefore[p - 1] + Logged(p - 1).size

\* When try_clear returns, the messages in the ring and the slots known are
\* within the limits: bytes_total is what they are worth (Sender::try_clear).
LimitsHold ==
    pc = "ready" =>
       /\ bytes_total = SizeBefore[tail] - SizeBefore[head]
       /\ bytes_total <= BytesMax
       /\ Cardinality(DOMAIN slots) <= SlotsMax

\* A reader is handed the messages that follow its first position in the order
\* they were pushed, none twice, none left out, although it locks one item only.
DeliveredInOrder ==
    \A c \in Clients : rpc[c] \in {"poll", "read"} =>
       /\ next[c] = start[c] + Len(got[c])
       /\ \A i \in 1 .. Len(got[c]) : got[c][i] = Logged(start[c] + i - 1)

\* A reader is told that it lags only if the message it wants was removed.
LaggedOnlyIfRemoved ==
    [][\A c \in Clients : rpc[c] # "lagged" /\ rpc'[c] = "lagged" => next[c] < head]_vars

\* The published position is that of the last message, which no reader is handed
\* before another one follows: whoever keeps polling gets all but the last
\* message, or is told that it lags.
AllButTheLast ==
    \A c \in Clients :
       []<>(rpc[c] \in {"poll", "read"} => next[c] >= tail - 1)

=============================================================================
