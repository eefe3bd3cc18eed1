------------------------ MODULE PluginChannelProofs ------------------------
(***************************************************************************)
(* Proofs about PluginChannel, for every ring size, every limit and any    *)
(* number of receivers.                                                    *)
(***************************************************************************)
EXTENDS PluginChannel, FiniteSetTheorems, SequenceTheorems, TLAPS

-----------------------------------------------------------------------------
(***************************************************************************)
(* Positions and indices of the ring                                       *)
(***************************************************************************)

\* A position has an index of the ring (Shared::get_idx).
LEMMA IdxType ==
    ASSUME NEW p \in Nat
    PROVE  get_idx(p) \in Indices
BY CapAssumption DEF get_idx, Indices

\* Euclidean division by the ring's size.
LEMMA DivMod ==
    ASSUME NEW p \in Nat
    PROVE  /\ p \div Cap \in Nat
           /\ p = Cap * (p \div Cap) + (p % Cap)
           /\ p % Cap \in 0 .. Cap - 1
BY CapAssumption

\* A multiple of the ring's size that is less than a ring from 0 is 0.
LEMMA SmallMultiple ==
    ASSUME NEW k \in Int, -Cap < Cap * k, Cap * k < Cap
    PROVE  k = 0
<1>1. ASSUME k >= 1 PROVE FALSE
  <2>1. Cap * k >= Cap
    BY <1>1, CapAssumption
  <2> QED
    BY <2>1, CapAssumption
<1>2. ASSUME k <= -1 PROVE FALSE
  <2>1. Cap * k <= -Cap
    BY <1>2, CapAssumption
  <2> QED
    BY <2>1, CapAssumption
<1> QED
  BY <1>1, <1>2

\* Two positions less than a ring apart have different indices.
LEMMA IdxInjective ==
    ASSUME NEW p \in Nat, NEW q \in Nat, p < q + Cap, q < p + Cap,
           get_idx(p) = get_idx(q)
    PROVE  p = q
<1> DEFINE a == p \div Cap
           b == q \div Cap
<1>1. /\ a \in Nat /\ b \in Nat
      /\ p = Cap * a + (p % Cap)
      /\ q = Cap * b + (q % Cap)
      /\ p % Cap \in Int
  BY DivMod, CapAssumption
<1>2. q - p = Cap * (b - a)
  BY <1>1, CapAssumption DEF get_idx
<1>3. b - a = 0
  BY <1>1, <1>2, SmallMultiple, CapAssumption
<1> QED
  BY <1>1, <1>2, <1>3, CapAssumption

\* Positions a whole ring apart share an index.
LEMMA IdxPeriod ==
    ASSUME NEW p \in Nat
    PROVE  get_idx(p + Cap) = get_idx(p)
<1> DEFINE a == p \div Cap
           q == p + Cap
           b == q \div Cap
<1>1. /\ a \in Nat /\ b \in Nat
      /\ p = Cap * a + (p % Cap)
      /\ q = Cap * b + (q % Cap)
      /\ p % Cap \in 0 .. Cap - 1
      /\ q % Cap \in 0 .. Cap - 1
  <2>1. q \in Nat
    BY CapAssumption
  <2> QED
    BY <2>1, DivMod, CapAssumption
<1>2. (q % Cap) - (p % Cap) = Cap * (a + 1 - b)
  BY <1>1, CapAssumption
<1>3. a + 1 - b = 0
  BY <1>1, <1>2, SmallMultiple, CapAssumption
<1> QED
  BY <1>1, <1>2, <1>3, CapAssumption DEF get_idx

-----------------------------------------------------------------------------
(***************************************************************************)
(* Types                                                                   *)
(***************************************************************************)

\* The message being pushed and the item at head have their types.
LEMMA HeadTypes ==
    ASSUME TypeOK
    PROVE  /\ pending # <<>> => /\ Head(pending) \in Message
                                /\ LastPending \in Message
                                /\ Tail(pending) \in Seq(Message)
           /\ get_idx(head) \in Indices
           /\ get_idx(tail) \in Indices
           /\ \A r \in Receivers : get_idx(next[r]) \in Indices
<1>1. pending # <<>> => Len(pending) \in 1 .. Len(pending)
  BY DEF TypeOK
<1>2. pending # <<>> => LastPending \in Message
  BY <1>1 DEF TypeOK, LastPending
<1> QED
  BY <1>2, IdxType DEF TypeOK

\* The fields of messages, items and slot infos.
LEMMA Fields ==
    /\ \A m \in Message : /\ m.kind \in Kinds /\ m.slot \in Nat /\ m.size \in Nat
                          /\ m.parent \in Nat \union {NoSlot}
                          /\ m.status \in Statuses
    /\ \A it \in Item : /\ it.pos \in Nat /\ it.slot \in Nat /\ it.closed \in BOOLEAN
                        /\ it.data \in Message \union {NoData}
                        /\ [it EXCEPT !.data = NoData] \in Item
                        /\ [it EXCEPT !.closed = TRUE] \in Item
    /\ \A info \in SlotInfo : /\ info.head \in Nat
                              /\ info.parent_slot \in Nat \union {NoSlot}
                              /\ info.confirmed \in BOOLEAN
                              /\ info.finalized \in BOOLEAN
<1>1. \A m \in Message : /\ m.kind \in Kinds /\ m.slot \in Nat /\ m.size \in Nat
                         /\ m.parent \in Nat \union {NoSlot}
                         /\ m.status \in Statuses
  BY DEF Message
<1>2. \A it \in Item : /\ it.pos \in Nat /\ it.slot \in Nat /\ it.closed \in BOOLEAN
                       /\ it.data \in Message \union {NoData}
                       /\ [it EXCEPT !.data = NoData] \in Item
                       /\ [it EXCEPT !.closed = TRUE] \in Item
  BY DEF Item
<1>3. \A info \in SlotInfo : /\ info.head \in Nat
                             /\ info.parent_slot \in Nat \union {NoSlot}
                             /\ info.confirmed \in BOOLEAN
                             /\ info.finalized \in BOOLEAN
  BY DEF SlotInfo
<1> QED
  BY <1>1, <1>2, <1>3

\* Evicting the head keeps the types of what it touches.
LEMMA TakeHeadTypes ==
    ASSUME TypeOK, TakeHead
    PROVE  /\ buffer' \in [Indices -> Item]
           /\ head' \in Nat
           /\ bytes_total' \in Int
           /\ buffer[get_idx(head)].data \in Message
<1> DEFINE i == get_idx(head)
<1>1. i \in Indices /\ buffer[i] \in Item /\ buffer \in [Indices -> Item]
  BY HeadTypes DEF TypeOK
<1>2. buffer[i].data \in Message
  BY <1>1, Fields DEF TakeHead
<1>3. buffer' = [buffer EXCEPT ![i] = [buffer[i] EXCEPT !.data = NoData]]
  BY <1>1 DEF TakeHead
<1>4. buffer' \in [Indices -> Item]
  BY <1>1, <1>3, Fields
<1>5. head' \in Nat /\ bytes_total' \in Int
  BY SMTT(30), <1>2, Fields DEF TypeOK, TakeHead
<1> QED
  BY <1>2, <1>4, <1>5

\* So does what a poll of a stream does to it, whatever item it reads.
LEMMA ReceiveTypes ==
    ASSUME TypeOK, NEW r \in Receivers
    PROVE  LET item == buffer[get_idx(next[r])]
               Types == /\ wakers' \subseteq Receivers
                        /\ rpc' \in [Receivers -> ReceiverPCs]
                        /\ next' \in [Receivers -> Nat]
                        /\ skip' \in [Receivers -> SUBSET FilterableKinds]
                        /\ start' \in [Receivers -> Nat]
                        /\ got' \in [Receivers -> Seq(Message)]
           IN /\ Consume(r, item.data) => Types
              /\ \A e \in ReceiverPCs : EndStream(r, e) => Types
              /\ {"slow", "lagged", "closed", "wait"} \subseteq ReceiverPCs
<1> DEFINE data == buffer[get_idx(next[r])].data
<1>1. data \in Message \union {NoData}
  BY HeadTypes, Fields DEF TypeOK
<1>2. data # NoData => Append(got[r], data) \in Seq(Message)
  BY <1>1 DEF TypeOK
<1>3. {"slow", "lagged", "closed", "wait", "poll"} \subseteq ReceiverPCs
  BY DEF ReceiverPCs, ActivePCs, EndedPCs
<1>4. ASSUME Consume(r, data)
      PROVE  /\ rpc' \in [Receivers -> ReceiverPCs]
             /\ next' \in [Receivers -> Nat]
             /\ got' \in [Receivers -> Seq(Message)]
             /\ UNCHANGED <<wakers, skip, start>>
  BY <1>2, <1>3, <1>4 DEF TypeOK, Consume
<1>5. ASSUME NEW e \in ReceiverPCs, EndStream(r, e)
      PROVE  rpc' \in [Receivers -> ReceiverPCs] /\ UNCHANGED <<wakers, next, skip, start, got>>
  BY <1>5 DEF TypeOK, EndStream
<1> QED
  BY <1>3, <1>4, <1>5 DEF TypeOK

\* Every step of the channel keeps the types.
LEMMA TypeStep ==
    ASSUME TypeOK, SenderLocals, [Next]_vars
    PROVE  TypeOK'
<1>1. CASE UNCHANGED vars
  BY <1>1 DEF TypeOK, vars, state, sender, receivers
<1>2. ASSUME NEW m \in Inputs, PushBegin(m) PROVE TypeOK'
  <2>1. m \in Message /\ m.slot \in Nat /\ <<m>> \in Seq(Message)
    BY InputsAssumption, Fields
  <2> QED
    BY <1>2, <2>1 DEF TypeOK, PushBegin, state, receivers, SenderPCs
<1>3. CASE WalkMissed
  <2> DEFINE p == slots[walk].parent_slot
             m == [kind |-> "Slot", slot |-> p, parent |-> slots[p].parent_slot,
                   status |-> LastPending.status, size |-> SlotMsgSize]
  <2>1. p \in Nat /\ slots[p] \in SlotInfo /\ LastPending \in Message
    BY <1>3, HeadTypes DEF TypeOK, WalkMissed, MissedParent, SenderLocals
  <2>2. m \in Message
    BY <2>1, Fields, SizeAssumption DEF Message, Kinds
  <2>3. <<m>> \o pending \in Seq(Message)
    BY <2>2 DEF TypeOK
  <2> QED
    BY <1>3, <2>1, <2>3 DEF TypeOK, WalkMissed, state, receivers
<1>4. CASE WalkEnd
  BY <1>4 DEF TypeOK, WalkEnd, state, receivers, SenderPCs
<1>5. CASE UpdateEntry
  <2> DEFINE m == Head(pending)
  <2>1. m \in Message /\ m.slot \in Nat /\ m.parent \in Nat \union {NoSlot}
    BY <1>5, HeadTypes, Fields DEF UpdateEntry, SenderLocals
  <2> DEFINE old == IF m.slot \in DOMAIN slots
                    THEN slots[m.slot]
                    ELSE [head |-> tail, parent_slot |-> NoSlot,
                          confirmed |-> FALSE, finalized |-> FALSE]
  <2>2. old \in SlotInfo
    BY <2>1 DEF TypeOK, SlotInfo
  <2>3. UpdatedInfo(m) = [old EXCEPT
          !.parent_slot = IF m.kind = "Slot" /\ m.parent # NoSlot
                          THEN m.parent ELSE old.parent_slot,
          !.confirmed = old.confirmed \/ (m.kind = "Slot" /\ m.status = "Confirmed"),
          !.finalized = old.finalized \/ (m.kind = "Slot" /\ m.status = "Rooted")]
    BY <2>2 DEF UpdatedInfo, SlotInfo
  <2> HIDE DEF old
  <2>4. UpdatedInfo(m) \in SlotInfo
    BY <2>1, <2>2, <2>3 DEF SlotInfo
  <2> QED
    BY <1>5, <2>1, <2>4 DEF TypeOK, UpdateEntry, receivers, SenderPCs
<1>6. CASE PopFirstSlot
  BY <1>6 DEF TypeOK, PopFirstSlot, SlotInfo, receivers, SenderPCs
<1>7. CASE EvictUpTo
  BY <1>7, TakeHeadTypes DEF TypeOK, EvictUpTo, remove_slots, sender, receivers
<1>8. CASE EvictUpToEnd
  BY <1>8 DEF TypeOK, EvictUpToEnd, state, receivers, SenderPCs
<1>9. CASE EvictSame
  BY <1>9, TakeHeadTypes DEF TypeOK, EvictSame, sender, receivers
<1>10. CASE EvictSameEnd
  BY <1>10 DEF TypeOK, EvictSameEnd, NoVictim, state, receivers, SenderPCs
<1>11. CASE SlotsUnderLimit
  <2>1. Head(pending).size \in Nat
    BY <1>11, HeadTypes, Fields DEF SlotsUnderLimit, SenderLocals
  <2> QED
    BY SMTT(30), <1>11, <2>1 DEF TypeOK, SlotsUnderLimit, receivers, SenderPCs
<1>12. CASE EvictBytes
  BY <1>12, TakeHeadTypes DEF TypeOK, EvictBytes, remove_slots, sender, receivers
<1>13. CASE Store
  <2> DEFINE m == Head(pending)
             i == get_idx(tail)
             new == [pos |-> tail, slot |-> m.slot, data |-> m,
                     closed |-> buffer[i].closed]
  <2>1. m \in Message /\ m.slot \in Nat /\ Tail(pending) \in Seq(Message)
    BY <1>13, HeadTypes, Fields DEF Store, SenderLocals
  <2>2. i \in Indices /\ buffer[i] \in Item
    BY HeadTypes DEF TypeOK
  <2>3. new \in Item
    BY <2>1, <2>2, Fields DEF TypeOK, Item
  <2>4. buffer' = [buffer EXCEPT ![i] = new] /\ log' = Append(log, m)
    BY <1>13 DEF TypeOK, Store
  <2>5. buffer' \in [Indices -> Item] /\ log' \in Seq(Message)
    BY <2>1, <2>2, <2>3, <2>4 DEF TypeOK
  <2>6. head' \in Nat /\ bytes_total' \in Int /\ tail' \in Nat
    <3>1. buffer[i].data # NoData => buffer[i].data.size \in Nat
      BY <2>2, Fields
    <3>2. /\ tail' = tail + 1
          /\ \/ buffer[i].data # NoData /\ head' = head + 1
                /\ bytes_total' = bytes_total - buffer[i].data.size
             \/ head' = head /\ bytes_total' = bytes_total
      BY <1>13 DEF Store
    <3>3. head \in Nat /\ tail \in Nat /\ bytes_total \in Int
      BY DEF TypeOK
    <3> QED
      BY <3>1, <3>2, <3>3
  <2>7. /\ DOMAIN slots' \subseteq Nat
        /\ \A s \in DOMAIN slots' : slots'[s] \in SlotInfo
    BY <1>13 DEF TypeOK, Store, remove_slots
  <2> QED
    BY <1>13, <2>1, <2>5, <2>6, <2>7 DEF TypeOK, Store, receivers, SenderPCs
<1>14. CASE PushEnd
  BY <1>14 DEF TypeOK, PushEnd, WakeAll, state, SenderPCs, ReceiverPCs, ActivePCs
<1>15. CASE Panic
  BY <1>15 DEF TypeOK, Panic, state, receivers, SenderPCs
<1>16. CASE CloseBegin
  BY <1>16, CapAssumption DEF TypeOK, CloseBegin, state, sender, receivers
<1>17. CASE CloseItem
  <2>1. buffer' = [buffer EXCEPT ![close_at] = [buffer[close_at] EXCEPT !.closed = TRUE]]
    BY <1>17 DEF TypeOK, CloseItem
  <2>2. buffer' \in [Indices -> Item]
    <3>1. close_at \in Indices /\ buffer \in [Indices -> Item] /\ buffer[close_at] \in Item
      BY <1>17 DEF TypeOK, CloseItem
    <3>2. [buffer[close_at] EXCEPT !.closed = TRUE] \in Item
      BY <3>1, Fields
    <3> QED
      BY <2>1, <3>1, <3>2
  <2>3. close_at' \in -1 .. Cap + 1
    BY <1>17, CapAssumption DEF CloseItem, Indices
  <2> QED
    BY <1>17, <2>2, <2>3 DEF TypeOK, CloseItem, sender, receivers
<1>18. CASE CloseEnd
  BY <1>18, CapAssumption DEF TypeOK, CloseEnd, WakeAll, state, sender, ReceiverPCs, ActivePCs
<1>19. ASSUME NEW r \in Receivers, NEW replay \in Replays, NEW filter \in Filters,
              Subscribe(r, replay, filter)
       PROVE  TypeOK'
  <2>1. \A s \in DOMAIN slots : slots[s].head \in Nat
    BY Fields DEF TypeOK
  <2>2. /\ {"poll", "not_initialized", "slot_not_available"} \subseteq ReceiverPCs
        /\ filter \in SUBSET FilterableKinds
    BY FiltersAssumption DEF ReceiverPCs, ActivePCs, EndedPCs
  <2>3. tail \in Nat
    BY DEF TypeOK
  <2>4. /\ next' \in [Receivers -> Nat] /\ start' \in [Receivers -> Nat]
        /\ skip' \in [Receivers -> SUBSET FilterableKinds]
        /\ rpc' \in [Receivers -> ReceiverPCs]
    <3> DEFINE p == IF replay = NoSlot THEN tail ELSE slots[replay].head
    <3>1. CASE replay = NoSlot \/ replay \in DOMAIN slots
      <4>1. p \in Nat
        BY <2>1, <2>3, <3>1
      <4>2. /\ next' = [next EXCEPT ![r] = p] /\ start' = [start EXCEPT ![r] = p]
            /\ skip' = [skip EXCEPT ![r] = filter] /\ rpc' = [rpc EXCEPT ![r] = "poll"]
        BY <1>19, <3>1 DEF Subscribe
      <4> HIDE DEF p
      <4> QED
        BY <4>1, <4>2, <2>2 DEF TypeOK
    <3>2. CASE ~(replay = NoSlot \/ replay \in DOMAIN slots)
      BY ZenonT(30), <1>19, <3>2, <2>2 DEF TypeOK, Subscribe
    <3> QED
      BY <3>1, <3>2
  <2> QED
    BY <1>19, <2>4 DEF TypeOK, Subscribe, state, sender
<1>20. ASSUME NEW r \in Receivers, RecvFast(r) PROVE TypeOK'
  BY <1>20, ReceiveTypes DEF TypeOK, RecvFast, state, sender
<1>21. ASSUME NEW r \in Receivers, RecvSlow(r) PROVE TypeOK'
  BY <1>21, ReceiveTypes DEF TypeOK, RecvSlow, state, sender
<1>22. ASSUME NEW r \in Receivers, Repoll(r) PROVE TypeOK'
  BY <1>22 DEF TypeOK, Repoll, state, sender, ReceiverPCs, ActivePCs
<1>23. ASSUME NEW r \in Receivers, Drop(r) PROVE TypeOK'
  BY <1>23 DEF TypeOK, Drop, state, sender, ReceiverPCs
<1> QED
  BY <1>1, <1>2, <1>3, <1>4, <1>5, <1>6, <1>7, <1>8, <1>9, <1>10, <1>11, <1>12,
     <1>13, <1>14, <1>15, <1>16, <1>17, <1>18, <1>19, <1>20, <1>21, <1>22, <1>23
     DEF Next, Push, PushStep, CloseStep, Recv, Terminated

-----------------------------------------------------------------------------
(***************************************************************************)
(* The ring and the window head .. tail - 1                                *)
(***************************************************************************)

\* The only steps that touch the ring: an eviction of the head, the store of a
\* message and close.
LEMMA RingSteps ==
    ASSUME [Next]_vars
    PROVE  \/ UNCHANGED <<buffer, head, tail, log>>
           \/ TakeHead /\ UNCHANGED <<tail, log>>
           \/ Store
           \/ CloseItem
BY SMTT(30) DEF Next, vars, Push, PushStep, CloseStep, Recv, Terminated, PushBegin, WalkMissed,
       WalkEnd, UpdateEntry, PopFirstSlot, EvictUpTo, EvictUpToEnd, EvictSame,
       EvictSameEnd, SlotsUnderLimit, EvictBytes, PushEnd, Panic, CloseBegin, CloseEnd,
       Subscribe, RecvFast, RecvSlow, Repoll, Drop, state

\* The positions are numbers.
LEMMA WindowTypes ==
    ASSUME TypeOK
    PROVE  /\ head \in Nat /\ tail \in Nat /\ Cap \in Nat \ {0} /\ Len(log) \in Nat
           /\ \A i \in Indices : buffer[i] \in Item /\ buffer[i].pos \in Nat
<1>1. head \in Nat /\ tail \in Nat /\ Len(log) \in Nat
  BY DEF TypeOK
<1>2. \A i \in Indices : buffer[i] \in Item
  BY DEF TypeOK
<1> QED
  BY <1>1, <1>2, CapAssumption, Fields

\* The bounds of the window, without its items.
LEMMA WindowBounds ==
    ASSUME RingHoldsWindow
    PROVE  /\ tail = Cap + Len(log)
           /\ Cap <= head /\ head <= tail /\ tail <= head + Cap
BY DEF RingHoldsWindow

\* An item within a ring of the position p whose index it has is at p.
LEMMA ItemAt ==
    ASSUME TypeOK, RingHoldsWindow, NEW p \in Nat, tail <= p + Cap, p < tail
    PROVE  /\ get_idx(p) \in Indices
           /\ buffer[get_idx(p)].pos = p
<1>1. get_idx(p) \in Indices
  BY IdxType
<1> DEFINE item == buffer[get_idx(p)]
<1>2. /\ item.pos \in Nat /\ get_idx(item.pos) = get_idx(p)
      /\ tail - Cap <= item.pos /\ item.pos < tail
  BY <1>1, WindowTypes DEF RingHoldsWindow
<1> HIDE DEF item
<1>3. item.pos < p + Cap /\ p < item.pos + Cap
  BY <1>2, WindowTypes
<1>4. item.pos = p
  BY <1>2, <1>3, IdxInjective
<1> QED
  BY <1>1, <1>4 DEF item

\* A retained position has a message of the log.
LEMMA LoggedType ==
    ASSUME TypeOK, RingHoldsWindow, NEW p \in Nat, Cap <= p, p < tail
    PROVE  Logged(p) \in Message
<1>1. p - Cap + 1 \in 1 .. Len(log)
  BY WindowTypes DEF RingHoldsWindow
<1> QED
  BY <1>1 DEF TypeOK, Logged

\* The item at head holds the oldest retained message.
LEMMA HeadItem ==
    ASSUME TypeOK, RingHoldsWindow, head < tail
    PROVE  /\ get_idx(head) \in Indices
           /\ buffer[get_idx(head)].pos = head
           /\ buffer[get_idx(head)].data = Logged(head)
           /\ HeadSlot = Logged(head).slot
<1>1. get_idx(head) \in Indices /\ buffer[get_idx(head)].pos = head
  BY ItemAt, WindowTypes DEF RingHoldsWindow
<1> QED
  BY <1>1, WindowTypes DEF RingHoldsWindow, HeadSlot

\* An eviction takes the data of exactly the item at head.
LEMMA TakeHeadWindow ==
    ASSUME TypeOK, RingHoldsWindow, TakeHead, UNCHANGED <<tail, log>>
    PROVE  RingHoldsWindow'
<1> DEFINE h == get_idx(head)
<1>1. h \in Indices /\ buffer[h].pos = head
  BY HeadItem DEF TakeHead
<1>2. /\ \A i \in Indices \ {h} : buffer'[i] = buffer[i]
      /\ buffer'[h] = [buffer[h] EXCEPT !.data = NoData]
      /\ head' = head + 1 /\ head < tail
  BY <1>1 DEF TypeOK, TakeHead
<1>3. /\ buffer'[h].pos = head /\ buffer'[h].data = NoData
      /\ buffer'[h].slot = buffer[h].slot
  BY <1>1, <1>2, WindowTypes DEF Item
<1>4. ASSUME NEW i \in Indices
      PROVE  /\ get_idx(buffer'[i].pos) = i
             /\ tail - Cap <= buffer'[i].pos /\ buffer'[i].pos < tail
             /\ buffer'[i].data = IF buffer'[i].pos < head + 1
                                  THEN NoData ELSE Logged(buffer'[i].pos)
             /\ buffer'[i].pos >= Cap => buffer'[i].slot = Logged(buffer'[i].pos).slot
  <2>1. CASE i = h
    BY <2>1, <1>1, <1>2, <1>3, WindowTypes DEF RingHoldsWindow
  <2>2. CASE i # h
    <3>1. buffer'[i] = buffer[i] /\ buffer[i].pos # head
      BY <2>2, <1>2 DEF RingHoldsWindow
    <3> QED
      BY <3>1, WindowTypes DEF RingHoldsWindow
  <2> QED
    BY <2>1, <2>2
<1> QED
  BY <1>2, <1>4, WindowTypes DEF RingHoldsWindow, Logged, get_idx

\* A store writes the item a whole ring after the oldest position, and evicts
\* the message it held, if any, which is the one at head.
LEMMA StoreWindow ==
    ASSUME TypeOK, RingHoldsWindow, pending # <<>>, Store
    PROVE  /\ RingHoldsWindow'
           /\ buffer[get_idx(tail)].pos = tail - Cap
           /\ \/ buffer[get_idx(tail)].data # NoData /\ head = tail - Cap /\ head' = head + 1
              \/ buffer[get_idx(tail)].data = NoData /\ head > tail - Cap /\ head' = head
<1> DEFINE t == get_idx(tail)
           m == Head(pending)
<1>0. /\ head \in Nat /\ tail \in Nat /\ Cap \in Nat \ {0} /\ Len(log) \in Nat
      /\ tail = Cap + Len(log)
      /\ Cap <= head /\ head <= tail /\ tail <= head + Cap
  BY WindowTypes, WindowBounds
<1>1. tail - Cap \in Nat /\ tail - Cap + Cap = tail
  BY WindowTypes DEF RingHoldsWindow
<1>2. t = get_idx(tail - Cap)
  BY <1>1, IdxPeriod
<1>3. t \in Indices /\ buffer[t].pos = tail - Cap
  <2>1. tail <= (tail - Cap) + Cap /\ tail - Cap < tail
    BY <1>1, WindowTypes
  <2> QED
    BY <1>1, <1>2, <2>1, ItemAt
<1>4. \/ buffer[t].data # NoData /\ head = tail - Cap
      \/ buffer[t].data = NoData /\ head > tail - Cap
  <2>1. CASE tail - Cap < head
    BY <2>1, <1>3, WindowTypes DEF RingHoldsWindow
  <2>2. CASE ~(tail - Cap < head)
    <3>1. head = tail - Cap /\ buffer[t].data = Logged(head)
      BY <2>2, <1>3, WindowTypes DEF RingHoldsWindow
    <3>2. Logged(head) \in Message
      BY <3>1, <1>1, LoggedType, WindowTypes DEF RingHoldsWindow
    <3> QED
      BY <3>1, <3>2, NoDataAssumption
  <2> QED
    BY <2>1, <2>2
<1>5. \/ buffer[t].data # NoData /\ head = tail - Cap /\ head' = head + 1
      \/ buffer[t].data = NoData /\ head > tail - Cap /\ head' = head
  BY <1>4 DEF Store
<1>6. /\ buffer'[t] = [pos |-> tail, slot |-> m.slot, data |-> m,
                       closed |-> buffer[t].closed]
      /\ \A i \in Indices \ {t} : buffer'[i] = buffer[i]
      /\ tail' = tail + 1
      /\ log' = Append(log, m)
  BY <1>3 DEF TypeOK, Store
<1>7. m \in Message
  BY HeadTypes
<1>8. /\ \A k \in 1 .. Len(log) : log'[k] = log[k]
      /\ log'[Len(log) + 1] = m
      /\ Len(log') = Len(log) + 1
  BY <1>6, <1>7 DEF TypeOK
<1>9. ASSUME NEW i \in Indices
      PROVE  /\ get_idx(buffer'[i].pos) = i
             /\ tail + 1 - Cap <= buffer'[i].pos /\ buffer'[i].pos < tail + 1
             /\ buffer'[i].data = IF buffer'[i].pos < head'
                                  THEN NoData ELSE log'[buffer'[i].pos - Cap + 1]
             /\ buffer'[i].pos >= Cap =>
                   buffer'[i].slot = log'[buffer'[i].pos - Cap + 1].slot
  <2>1. CASE i = t
    <3>1. tail - Cap + 1 = Len(log) + 1 /\ ~(tail < head')
      BY <1>5, WindowTypes DEF RingHoldsWindow
    <3> QED
      BY <2>1, <3>1, <1>6, <1>8, WindowTypes
  <2>2. CASE i # t
    <3> DEFINE q == buffer[i].pos
    <3>1. buffer'[i] = buffer[i] /\ get_idx(q) = i /\ q # tail - Cap
      BY <2>2, <1>2, <1>6 DEF RingHoldsWindow
    <3>2. q \in Nat /\ tail + 1 - Cap <= q /\ q < tail
      BY <3>1, <1>1, WindowTypes DEF RingHoldsWindow
    <3>3. q < head' <=> q < head
      BY SMTT(30), <3>2, <1>5, WindowTypes DEF RingHoldsWindow
    <3>4. q >= Cap => log'[q - Cap + 1] = Logged(q)
      <4>1. q >= Cap => q - Cap + 1 \in 1 .. Len(log)
        BY <3>2, <1>0
      <4> QED
        BY <4>1, <1>8 DEF Logged
    <3>5. q >= head => q >= Cap
      BY <3>2, WindowTypes DEF RingHoldsWindow
    <3>6. /\ buffer[i].data = IF q < head THEN NoData ELSE Logged(q)
          /\ q >= Cap => buffer[i].slot = Logged(q).slot
      BY DEF RingHoldsWindow
    <3> HIDE DEF q
    <3>7. /\ buffer'[i].pos = q /\ buffer'[i].data = buffer[i].data
          /\ buffer'[i].slot = buffer[i].slot
      BY <3>1 DEF q
    <3> QED
      BY <3>1, <3>2, <3>3, <3>4, <3>5, <3>6, <3>7, WindowTypes
  <2> QED
    BY <2>1, <2>2
<1>10. /\ tail' = Cap + Len(log')
       /\ Cap <= head' /\ head' <= tail' /\ tail' <= head' + Cap
       /\ tail' - Cap = tail + 1 - Cap
  <2>1. tail' = tail + 1 /\ Len(log') = Len(log) + 1
    BY <1>6, <1>8
  <2>2. head' \in {head, head + 1} /\ tail + 1 <= head' + Cap /\ head' <= tail + 1
    BY <1>5, <1>0
  <2> QED
    BY <1>0, <2>1, <2>2
<1>11. RingHoldsWindow'
  <2> HIDE DEF t, m
  <2>1. tail' = tail + 1
    BY <1>6
  <2> QED
    BY <1>9, <1>10, <2>1 DEF RingHoldsWindow, Logged, get_idx
<1> QED
  BY <1>3, <1>5, <1>11

\* close only sets flags.
LEMMA CloseItemFields ==
    ASSUME TypeOK, CloseItem
    PROVE  \A i \in Indices : /\ buffer'[i].pos = buffer[i].pos
                              /\ buffer'[i].data = buffer[i].data
                              /\ buffer'[i].slot = buffer[i].slot
                              /\ buffer'[i].closed = (buffer[i].closed \/ i = close_at)
<1>1. buffer' = [buffer EXCEPT ![close_at] = [buffer[close_at] EXCEPT !.closed = TRUE]]
  BY DEF TypeOK, CloseItem
<1>2. close_at \in Indices /\ buffer \in [Indices -> Item]
  BY DEF TypeOK, CloseItem
<1>3. ASSUME NEW i \in Indices, i # close_at PROVE buffer'[i] = buffer[i]
  BY <1>1, <1>2, <1>3
<1>4. /\ buffer'[close_at].pos = buffer[close_at].pos
      /\ buffer'[close_at].data = buffer[close_at].data
      /\ buffer'[close_at].slot = buffer[close_at].slot
      /\ buffer'[close_at].closed = TRUE
  BY <1>1, <1>2 DEF Item
<1>5. \A i \in Indices : buffer[i].closed \in BOOLEAN
  BY <1>2, Fields
<1> QED
  BY <1>3, <1>4, <1>5

\* Every step keeps the window.
LEMMA WindowStep ==
    ASSUME TypeOK, RingHoldsWindow, SenderLocals, [Next]_vars
    PROVE  RingHoldsWindow'
<1>1. CASE UNCHANGED <<buffer, head, tail, log>>
  BY <1>1 DEF RingHoldsWindow, Logged, get_idx
<1>2. CASE TakeHead /\ UNCHANGED <<tail, log>>
  BY <1>2, TakeHeadWindow
<1>3. CASE Store
  BY <1>3, StoreWindow DEF Store, SenderLocals
<1>4. CASE CloseItem
  BY <1>4, CloseItemFields DEF CloseItem, RingHoldsWindow, Logged, get_idx
<1> QED
  BY <1>1, <1>2, <1>3, <1>4, RingSteps

-----------------------------------------------------------------------------
(***************************************************************************)
(* The positions kept for the tracked slots                                *)
(***************************************************************************)

\* A store adds its message to the log at tail and keeps the rest.
LEMMA StoreLog ==
    ASSUME TypeOK, RingHoldsWindow, pending # <<>>, Store
    PROVE  /\ tail' = tail + 1
           /\ log' = Append(log, Head(pending))
           /\ Head(pending) \in Message
           /\ log'[tail - Cap + 1] = Head(pending)
           /\ \A p \in Nat : Cap <= p /\ p < tail => log'[p - Cap + 1] = log[p - Cap + 1]
<1>1. tail' = tail + 1 /\ log' = Append(log, Head(pending))
  BY DEF Store
<1>2. Head(pending) \in Message /\ log \in Seq(Message)
  BY HeadTypes DEF TypeOK
<1>3. tail - Cap + 1 = Len(log) + 1
  BY WindowTypes, WindowBounds
<1>4. ASSUME NEW p \in Nat, Cap <= p, p < tail PROVE p - Cap + 1 \in 1 .. Len(log)
  BY <1>4, WindowTypes, WindowBounds
<1> QED
  BY <1>1, <1>2, <1>3, <1>4

\* Where no message is stored or evicted, the tracked positions stay good if the
\* tracked slots do not change and the message being stored stays the same.
LEMMA TrackedUnchanged ==
    ASSUME TrackedSlotRetained, UNCHANGED <<head, tail, log, slots>>,
           Storing => Storing' /\ UNCHANGED pending
    PROVE  TrackedSlotRetained'
BY DEF TrackedSlotRetained, Logged

\* An eviction that also forgets the slots up to the evicted message's keeps the
\* tracked positions good: the slot that began at head is one of them.
LEMMA TakeHeadTracked ==
    ASSUME TypeOK, RingHoldsWindow, TrackedSlotRetained, TakeHead,
           UNCHANGED <<tail, log, pc, pending>>,
           DOMAIN slots' \subseteq DOMAIN slots,
           \A s \in DOMAIN slots' : slots'[s] = slots[s] /\ s # HeadSlot
    PROVE  TrackedSlotRetained'
<1>1. SUFFICES ASSUME NEW s \in DOMAIN slots'
               PROVE  LET p == slots[s].head
                      IN \/ head + 1 <= p /\ p < tail /\ Logged(p).slot = s
                         \/ Storing /\ p = tail /\ s = Head(pending).slot
  <2>1. head' = head + 1 /\ tail' = tail /\ log' = log /\ pending' = pending
        /\ (Storing' <=> Storing)
    BY DEF TakeHead, Storing
  <2> QED
    BY <2>1 DEF TrackedSlotRetained, Logged
<1> DEFINE p == slots[s].head
<1>2. \/ head <= p /\ p < tail /\ Logged(p).slot = s
      \/ Storing /\ p = tail /\ s = Head(pending).slot
  BY DEF TrackedSlotRetained
<1>3. head < tail /\ HeadSlot = Logged(head).slot
  BY HeadItem DEF TakeHead
<1>4. p # head \/ p = tail
  BY <1>1, <1>2, <1>3
<1>5. p \in Nat
  BY <1>1, Fields DEF TypeOK
<1> QED
  BY <1>2, <1>3, <1>4, <1>5, WindowTypes

\* Every step keeps the tracked positions good.
LEMMA TrackedStep ==
    ASSUME TypeOK, RingHoldsWindow, TrackedSlotRetained, SenderLocals, [Next]_vars
    PROVE  TrackedSlotRetained'
<1>1. CASE UNCHANGED vars
  BY <1>1, TrackedUnchanged DEF vars, state, sender, Storing
<1>2. ASSUME NEW m \in Inputs, PushBegin(m) PROVE TrackedSlotRetained'
  BY <1>2, TrackedUnchanged DEF PushBegin, state, Storing
<1>3. CASE WalkMissed \/ WalkEnd \/ PushEnd
  BY <1>3, TrackedUnchanged DEF WalkMissed, WalkEnd, PushEnd, state, Storing
<1>4. CASE EvictUpToEnd \/ EvictSameEnd \/ SlotsUnderLimit \/ Panic
  BY <1>4, TrackedUnchanged
     DEF EvictUpToEnd, EvictSameEnd, SlotsUnderLimit, Panic, state, Storing
<1>5. CASE CloseBegin \/ CloseItem \/ CloseEnd
  BY <1>5, TrackedUnchanged DEF CloseBegin, CloseItem, CloseEnd, state, sender, Storing
<1>6. ASSUME NEW r \in Receivers,
             \/ \E replay \in Replays, filter \in Filters : Subscribe(r, replay, filter)
             \/ Recv(r) \/ Repoll(r) \/ Drop(r)
      PROVE  TrackedSlotRetained'
  BY <1>6, TrackedUnchanged
     DEF Subscribe, Recv, RecvFast, RecvSlow, Repoll, Drop, state, sender, Storing
<1>7. CASE UpdateEntry
  <2> DEFINE m == Head(pending)
  <2>1. /\ Storing' /\ ~Storing
        /\ UNCHANGED <<head, tail, log, pending>>
        /\ slots' = [s \in DOMAIN slots \union {m.slot} |->
                        IF s = m.slot THEN UpdatedInfo(m) ELSE slots[s]]
    BY <1>7 DEF UpdateEntry, Storing
  <2>2. /\ m.slot \in DOMAIN slots => UpdatedInfo(m).head = slots[m.slot].head
        /\ m.slot \notin DOMAIN slots => UpdatedInfo(m).head = tail
    BY DEF UpdatedInfo, TypeOK, SlotInfo
  <2>3. ASSUME NEW s \in DOMAIN slots'
        PROVE  LET p == slots'[s].head
               IN \/ head <= p /\ p < tail /\ Logged(p).slot = s
                  \/ p = tail /\ s = m.slot
    BY <2>1, <2>2 DEF TrackedSlotRetained
  <2> QED
    BY <2>1, <2>3 DEF TrackedSlotRetained, Logged
<1>8. CASE PopFirstSlot
  BY <1>8 DEF PopFirstSlot, TrackedSlotRetained, Storing, Logged
<1>9. CASE EvictUpTo \/ EvictBytes
  <2>1. TakeHead /\ slots' = remove_slots(slots, HeadSlot)
        /\ UNCHANGED <<tail, log, pc, pending>>
    BY <1>9 DEF EvictUpTo, EvictBytes, sender
  <2>2. HeadSlot \in Nat
    BY HeadTypes, Fields DEF TypeOK, HeadSlot
  <2>3. /\ DOMAIN slots' \subseteq DOMAIN slots
        /\ \A s \in DOMAIN slots' : slots'[s] = slots[s] /\ s # HeadSlot
    BY <2>1, <2>2 DEF remove_slots, TypeOK
  <2> QED
    BY <2>1, <2>3, TakeHeadTracked
<1>10. CASE EvictSame
  <2>1. /\ TakeHead /\ UNCHANGED <<slots, tail, log, pc, pending>>
        /\ HeadSlot = victim.slot /\ victim.slot \notin DOMAIN slots
    BY <1>10 DEF EvictSame, SenderLocals, sender
  <2> QED
    BY <2>1, TakeHeadTracked
<1>11. CASE Store
  <2>0. pending # <<>> /\ Storing /\ ~Storing'
    BY <1>11 DEF Store, SenderLocals, Storing
  <2> DEFINE old == buffer[get_idx(tail)]
  <2>1. \/ /\ old.data # NoData /\ head = tail - Cap /\ head' = head + 1
           /\ slots' = remove_slots(slots, old.slot)
        \/ head' = head /\ slots' = slots
    BY <1>11, <2>0, StoreWindow DEF Store
  <2>2. old.pos = tail - Cap /\ get_idx(tail) \in Indices
    BY <1>11, <2>0, StoreWindow, HeadTypes
  <2>3. head = tail - Cap => old.slot = Logged(head).slot
    BY <2>2, WindowTypes DEF RingHoldsWindow
  <2>4. old.slot \in Nat
    BY <2>2, Fields DEF TypeOK
  <2> HIDE DEF old
  <2>5. ASSUME NEW s \in DOMAIN slots'
        PROVE  /\ head' <= slots'[s].head /\ slots'[s].head < tail'
               /\ log'[slots'[s].head - Cap + 1].slot = s
    <3> DEFINE p == slots[s].head
    <3>1. /\ s \in DOMAIN slots /\ slots'[s] = slots[s] /\ s \in Nat
          /\ head' = head + 1 => s # old.slot
      BY SMTT(30), <2>1, <2>4, WindowTypes DEF remove_slots, TypeOK
    <3>2. p \in Nat
      BY <3>1, Fields DEF TypeOK
    <3>3. CASE head <= p /\ p < tail /\ Logged(p).slot = s
      <4>1. head' <= p
        BY <2>1, <2>3, <3>1, <3>2, <3>3, WindowTypes
      <4>2. log'[p - Cap + 1] = Logged(p)
        <5>1. Cap <= p
          BY <3>2, <3>3, WindowTypes, WindowBounds
        <5> HIDE DEF p
        <5> QED
          BY <1>11, <2>0, <3>2, <3>3, <5>1, StoreLog DEF Logged
      <4>3. p < tail'
        BY <1>11, <2>0, <3>2, <3>3, StoreLog, WindowTypes
      <4> QED
        BY <3>1, <3>3, <4>1, <4>2, <4>3
    <3>4. CASE p = tail /\ s = Head(pending).slot
      <4>1. head' <= tail
        BY <2>1, WindowTypes, WindowBounds
      <4> QED
        BY <1>11, <2>0, <3>1, <3>4, <4>1, StoreLog, WindowTypes
    <3> QED
      BY <3>1, <3>3, <3>4 DEF TrackedSlotRetained
  <2> QED
    BY <2>5 DEF TrackedSlotRetained, Logged
<1> QED
  BY <1>1, <1>2, <1>3, <1>4, <1>5, <1>6, <1>7, <1>8, <1>9, <1>10, <1>11
     DEF Next, Push, PushStep, CloseStep, Terminated

-----------------------------------------------------------------------------
(***************************************************************************)
(* The locals of push, the flags of close, the positions of the readers    *)
(***************************************************************************)

\* An eviction sets no flag.
LEMMA TakeHeadFlags ==
    ASSUME TypeOK, TakeHead
    PROVE  \A i \in Indices : buffer'[i].closed = buffer[i].closed
<1> DEFINE h == get_idx(head)
<1>1. h \in Indices /\ buffer \in [Indices -> Item] /\ buffer[h] \in Item
  BY HeadTypes DEF TypeOK
<1>2. buffer' = [buffer EXCEPT ![h] = [buffer[h] EXCEPT !.data = NoData]]
  BY <1>1 DEF TakeHead
<1> QED
  BY <1>1, <1>2 DEF Item

\* Every step keeps what is known of the locals of push and the flags of close.
LEMMA SenderStep ==
    ASSUME TypeOK, SenderLocals, [Next]_vars
    PROVE  SenderLocals'
<1>1. CASE UNCHANGED vars
  BY <1>1 DEF vars, state, sender, SenderLocals
<1>2. ASSUME NEW m \in Inputs, PushBegin(m) PROVE SenderLocals'
  BY <1>2 DEF PushBegin, state, SenderLocals, TypeOK, Indices
<1>3. CASE WalkMissed
  <2>1. pending' # <<>>
    BY <1>3 DEF WalkMissed, TypeOK
  <2> QED
    BY <1>3, <2>1 DEF WalkMissed, state, SenderLocals
<1>4. CASE WalkEnd \/ EvictUpToEnd \/ EvictSameEnd \/ Panic \/ PushEnd
  BY <1>4 DEF WalkEnd, EvictUpToEnd, EvictSameEnd, Panic, PushEnd, state, SenderLocals
<1>5. CASE UpdateEntry \/ SlotsUnderLimit
  BY <1>5 DEF UpdateEntry, SlotsUnderLimit, SenderLocals
<1>6. CASE PopFirstSlot
  BY <1>6 DEF PopFirstSlot, SenderLocals
<1>7. CASE EvictUpTo \/ EvictSame \/ EvictBytes \/ Store
  <2>1. close_at = -1 /\ close_at' = -1
    BY <1>7 DEF EvictUpTo, EvictSame, EvictBytes, Store, SenderLocals
  <2>2. \A i \in Indices : ~(i < close_at) /\ ~(i < close_at') /\ ~buffer[i].closed
    BY <2>1, CapAssumption DEF Indices, SenderLocals
  <2>3. CASE EvictUpTo \/ EvictSame \/ EvictBytes
    <3>1. TakeHead
      BY <2>3 DEF EvictUpTo, EvictSame, EvictBytes
    <3>2. \A i \in Indices : ~buffer'[i].closed
      BY <3>1, <2>2, TakeHeadFlags
    <3> QED
      BY <2>3, <2>1, <2>2, <3>2
       DEF EvictUpTo, EvictSame, EvictBytes, remove_slots, sender, SenderLocals
  <2>4. CASE Store
    <3>1. Len(pending) > 1 => Tail(pending) # <<>>
      <4>1. pending \in Seq(Message) /\ pending # <<>>
        BY <2>4 DEF TypeOK, Store, SenderLocals
      <4>2. Len(Tail(pending)) = Len(pending) - 1 /\ Len(pending) \in Nat
        BY <4>1
      <4> DEFINE rest == Tail(pending)
      <4> HIDE DEF rest
      <4>3. rest = <<>> => Len(rest) = 0
        OBVIOUS
      <4>4. Len(rest) = Len(pending) - 1 /\ Len(pending) \in Nat
        BY <4>2 DEF rest
      <4>5. Len(pending) > 1 => rest # <<>>
        BY <4>3, <4>4
      <4> QED
        BY <4>5, Zenon DEF rest
    <3>2. \A i \in Indices : ~buffer'[i].closed
      BY <2>4, <2>2, HeadTypes DEF Store, TypeOK
    <3> QED
      BY <2>4, <2>1, <2>2, <3>1, <3>2 DEF Store, SenderLocals
  <2> QED
    BY <1>7, <2>3, <2>4
<1>8. CASE CloseBegin
  BY <1>8, CapAssumption DEF CloseBegin, state, sender, SenderLocals, Indices
<1>9. CASE CloseItem
  <2>1. ASSUME NEW i \in Indices PROVE buffer'[i].closed <=> i < close_at'
    <3>1. i < close_at' <=> (i < close_at \/ i = close_at)
      BY <1>9, CapAssumption DEF CloseItem, Indices
    <3>2. buffer'[i].closed = (buffer[i].closed \/ i = close_at)
      BY <1>9, CloseItemFields
    <3>3. buffer[i].closed <=> i < close_at
      BY DEF SenderLocals
    <3> QED
      BY <3>1, <3>2, <3>3
  <2>2. close_at # -1 /\ UNCHANGED <<slots, sender>>
    BY <1>9, CapAssumption DEF CloseItem, Indices
  <2> QED
    BY <2>1, <2>2 DEF SenderLocals, sender
<1>10. CASE CloseEnd
  BY <1>10, CapAssumption DEF CloseEnd, state, sender, SenderLocals, Indices
<1>11. ASSUME NEW r \in Receivers,
             \/ \E replay \in Replays, filter \in Filters : Subscribe(r, replay, filter)
             \/ Recv(r) \/ Repoll(r) \/ Drop(r)
       PROVE  SenderLocals'
  BY <1>11 DEF Subscribe, Recv, RecvFast, RecvSlow, Repoll, Drop, state, sender,
               SenderLocals
<1> QED
  BY <1>1, <1>2, <1>3, <1>4, <1>5, <1>6, <1>7, <1>8, <1>9, <1>10, <1>11
     DEF Next, Push, PushStep, CloseStep, Terminated

\* What a reader learns from the item at its position: the message of the log if
\* it is retained, that it was evicted, or that it is not stored yet.
LEMMA ReadItem ==
    ASSUME TypeOK, RingHoldsWindow, NEW n \in Nat, Cap <= n, n <= tail
    PROVE  LET item == buffer[get_idx(n)]
           IN /\ item.pos = n => /\ n < tail
                                 /\ item.data = IF n < head THEN NoData ELSE Logged(n)
              /\ item.pos > n => n < head
              /\ item.pos < n => n = tail
              /\ item.pos \in Nat
<1> DEFINE i == get_idx(n)
           q == buffer[i].pos
<1>1. i \in Indices
  BY IdxType
<1>2. /\ q \in Nat /\ get_idx(q) = get_idx(n) /\ tail - Cap <= q /\ q < tail
      /\ buffer[i].data = IF q < head THEN NoData ELSE Logged(q)
  BY <1>1, WindowTypes DEF RingHoldsWindow
<1> HIDE DEF q
<1>3. q = n => n < tail /\ buffer[i].data = IF n < head THEN NoData ELSE Logged(n)
  BY <1>2
<1>4. q > n => n < head
  <2>1. q > n => ~(q < n + Cap)
    BY <1>2, IdxInjective, WindowTypes
  <2> QED
    BY <1>2, <2>1, WindowTypes, WindowBounds
<1>5. q < n => n = tail
  <2>1. q < n => ~(n < q + Cap)
    BY <1>2, IdxInjective, WindowTypes
  <2> QED
    BY <1>2, <2>1, WindowTypes, WindowBounds
<1> QED
  BY <1>2, <1>3, <1>4, <1>5 DEF q

\* Waking everybody leaves nobody parked.
LEMMA WakeAllWakes ==
    ASSUME TypeOK, NoLostWakeup, WakeAll
    PROVE  /\ \A r \in Receivers : /\ rpc'[r] # "wait"
                                   /\ rpc'[r] \in ActivePCs <=> rpc[r] \in ActivePCs
           /\ UNCHANGED <<next, start>>
BY DEF TypeOK, NoLostWakeup, WakeAll, ActivePCs

\* The readers' part of the invariant is about each reader by itself.
ReaderOK(r) ==
    /\ rpc[r] \in ActivePCs => Cap <= start[r] /\ start[r] <= next[r] /\ next[r] <= tail
    /\ rpc[r] = "wait" => /\ r \in wakers
                          /\ pc = "idle" => next[r] = tail
                          /\ close_at <= Cap

\* So it is the two invariants about readers.
LEMMA ReadersOK ==
    (ReaderPositions /\ NoLostWakeup) <=> \A r \in Receivers : ReaderOK(r)
BY DEF ReaderPositions, NoLostWakeup, ReaderOK

\* Every step keeps the readers' part: nobody parks on a message it could read.
LEMMA ReaderStep ==
    ASSUME TypeOK, RingHoldsWindow, TrackedSlotRetained, NoLostWakeup, SenderLocals,
           ReaderPositions, TypeOK', [Next]_vars
    PROVE  ReaderPositions' /\ NoLostWakeup'
<1>0. \A r \in Receivers : ReaderOK(r)
  BY ReadersOK
<1>1. SUFFICES ASSUME NEW r \in Receivers PROVE ReaderOK(r)'
  BY DEF ReaderPositions, NoLostWakeup, ReaderOK
<1>2. ReaderOK(r)
  BY <1>0
<1>3. /\ tail \in Nat /\ head \in Nat /\ next[r] \in Nat /\ start[r] \in Nat
      /\ Cap \in Nat \ {0} /\ Cap <= head /\ head <= tail
  BY WindowTypes, WindowBounds DEF TypeOK
<1>4. CASE /\ UNCHANGED <<wakers, receivers>>
           /\ tail' \in {tail, tail + 1}
           /\ pc' = "idle" => pc = "idle" /\ tail' = tail
           /\ close_at <= Cap => close_at' <= Cap
  BY <1>4, <1>2, <1>3 DEF ReaderOK, receivers
<1>5. CASE UNCHANGED vars
  BY <1>5, <1>4 DEF vars, state, sender
<1>6. CASE Push \/ (PushStep /\ ~PushEnd)
  <2>1. UNCHANGED <<wakers, receivers, close_at>> /\ tail' \in {tail, tail + 1}
        /\ pc' # "idle"
    BY <1>6 DEF Push, PushBegin, PushStep, WalkMissed, WalkEnd, UpdateEntry,
         PopFirstSlot, EvictUpTo, EvictUpToEnd, EvictSame, EvictSameEnd,
         SlotsUnderLimit, EvictBytes, Store, Panic, state, sender
  <2> QED
    BY <2>1, <1>4
<1>7. CASE CloseBegin \/ CloseItem
  <2>1. UNCHANGED <<wakers, receivers, tail, pc>>
    BY <1>7 DEF CloseBegin, CloseItem, state, sender
  <2>2. close_at' <= Cap
    BY <1>7, CapAssumption DEF CloseBegin, CloseItem, Indices
  <2> QED
    BY <2>1, <2>2, <1>4
<1>8. CASE PushEnd \/ CloseEnd
  <2>1. WakeAll /\ UNCHANGED tail
    BY <1>8 DEF PushEnd, CloseEnd, state
  <2> QED
    BY <2>1, <1>2, WakeAllWakes DEF ReaderOK
<1>9. ASSUME NEW r2 \in Receivers,
             \/ \E replay \in Replays, filter \in Filters : Subscribe(r2, replay, filter)
             \/ Recv(r2) \/ Repoll(r2) \/ Drop(r2)
      PROVE  ReaderOK(r)'
  <2>1. UNCHANGED <<tail, pc, close_at>>
    BY <1>9 DEF Subscribe, Recv, RecvFast, RecvSlow, Repoll, Drop, state, sender
  <2>2. CASE r2 # r
    <3>1. /\ rpc'[r] = rpc[r] /\ next'[r] = next[r] /\ start'[r] = start[r]
          /\ r \in wakers => r \in wakers'
      BY ZenonT(30), <1>9, <2>2 DEF Subscribe, Recv, RecvFast, RecvSlow, Consume, EndStream,
                        Repoll, Drop, TypeOK
    <3> QED
      BY <1>2, <2>1, <3>1 DEF ReaderOK
  <2>3. CASE r2 = r
    <3>1. ASSUME NEW replay \in Replays, NEW filter \in Filters,
                 Subscribe(r, replay, filter)
          PROVE  ReaderOK(r)'
      <4>1. CASE replay = NoSlot \/ replay \in DOMAIN slots
        <5> DEFINE p == IF replay = NoSlot THEN tail ELSE slots[replay].head
        <5>1. p \in Nat /\ Cap <= p /\ p <= tail
          <6>1. CASE replay = NoSlot
            BY <6>1, <1>3
          <6>2. CASE replay # NoSlot
            <7>1. replay \in DOMAIN slots /\ slots[replay].head \in Nat
              BY <4>1, <6>2, Fields DEF TypeOK
            <7>2. head <= slots[replay].head /\ slots[replay].head < tail
              BY <3>1, <7>1 DEF TrackedSlotRetained, Subscribe, Storing
            <7> QED
              BY <6>2, <7>1, <7>2, <1>3
          <6> QED
            BY <6>1, <6>2
        <5>2. next'[r] = p /\ start'[r] = p /\ rpc'[r] = "poll"
          BY <3>1, <4>1 DEF Subscribe, TypeOK
        <5> HIDE DEF p
        <5> QED
          BY <2>1, <5>1, <5>2 DEF ReaderOK
      <4>2. CASE ~(replay = NoSlot \/ replay \in DOMAIN slots)
        <5>1. rpc'[r] \in {"not_initialized", "slot_not_available"}
          BY <3>1, <4>2 DEF Subscribe, TypeOK
        <5> QED
          BY <5>1 DEF ReaderOK, ActivePCs
      <4> QED
        BY <4>1, <4>2
    <3>2. CASE Recv(r)
      <4> DEFINE item == buffer[get_idx(next[r])]
      <4>1. rpc[r] \in ActivePCs /\ Cap <= next[r] /\ next[r] <= tail
        BY <3>2, <1>2, <1>3 DEF Recv, RecvFast, RecvSlow, ReaderOK, ActivePCs
      <4>2. /\ item.pos = next[r] => next[r] < tail
            /\ item.pos < next[r] => next[r] = tail
        BY <4>1, <1>3, ReadItem
      <4>3. item.closed \/ close_at <= Cap
        <5>1. get_idx(next[r]) \in Indices
          BY HeadTypes
        <5> DEFINE i == get_idx(next[r])
        <5> HIDE DEF i
        <5>2. i \in Int /\ i < Cap /\ i \in Indices
          BY <5>1, CapAssumption DEF Indices, i
        <5>3. close_at \in Int /\ Cap \in Int
          BY CapAssumption DEF TypeOK
        <5>4. ASSUME close_at > Cap PROVE i < close_at
          BY <5>2, <5>3, <5>4
        <5> QED
          BY <5>2, <5>3, <5>4, <1>3 DEF SenderLocals, i
      <4> HIDE DEF item
      <4>4. \/ /\ rpc'[r] \in {"poll", "lagged"} /\ item.pos = next[r]
               /\ next'[r] = next[r] + 1 /\ start'[r] = start[r]
            \/ /\ rpc'[r] \in {"slow", "closed", "lagged"}
               /\ next'[r] = next[r] /\ start'[r] = start[r]
            \/ /\ rpc'[r] = "wait" /\ r \in wakers' /\ item.pos < next[r] /\ ~item.closed
               /\ next'[r] = next[r] /\ start'[r] = start[r] /\ pc = "idle"
        BY <3>2 DEF Recv, RecvFast, RecvSlow, Consume, EndStream, TypeOK, item
      <4> QED
        BY <1>2, <1>3, <2>1, <4>1, <4>2, <4>3, <4>4 DEF ReaderOK, ActivePCs
    <3>3. CASE Repoll(r)
      <4>1. rpc[r] = "wait" /\ rpc'[r] = "poll" /\ UNCHANGED <<next, start>>
        BY <3>3 DEF Repoll, TypeOK
      <4> QED
        BY <4>1, <1>2, <2>1 DEF ReaderOK, ActivePCs
    <3>4. CASE Drop(r)
      <4>1. rpc'[r] = "none"
        BY <3>4 DEF Drop, TypeOK
      <4> QED
        BY <4>1 DEF ReaderOK, ActivePCs
    <3> QED
      BY <1>9, <2>3, <3>1, <3>2, <3>3, <3>4
  <2> QED
    BY <2>2, <2>3
<1> QED
  BY <1>5, <1>6, <1>7, <1>8, <1>9 DEF Next, PushStep, CloseStep, Terminated

-----------------------------------------------------------------------------

\* The channel Sender::new makes satisfies the invariant.
LEMMA InitInv == Init => ChannelInv
<1> SUFFICES ASSUME Init PROVE ChannelInv
  OBVIOUS
<1>1. TypeOK
  BY CapAssumption DEF Init, TypeOK, Indices, Item, SenderPCs, ReceiverPCs, NoVictim
<1>2. RingHoldsWindow
  <2>1. \A i \in Indices : get_idx(i) = i
    BY CapAssumption DEF Indices, get_idx
  <2> QED
    BY <2>1, CapAssumption DEF Init, RingHoldsWindow, Indices
<1>3. TrackedSlotRetained /\ NoLostWakeup /\ SenderLocals /\ ReaderPositions
  BY CapAssumption DEF Init, TrackedSlotRetained, NoLostWakeup, SenderLocals,
                       ReaderPositions, ActivePCs, Indices
<1> QED
  BY <1>1, <1>2, <1>3 DEF ChannelInv

\* The inductive invariant: the ring, the tracked positions, the locals of the
\* push in progress, the positions of the readers and the registered wakers.
THEOREM ChannelInvariant == Spec => []ChannelInv
<1>1. ChannelInv /\ [Next]_vars => ChannelInv'
  BY TypeStep, WindowStep, TrackedStep, SenderStep, ReaderStep DEF ChannelInv
<1> QED
  BY InitInv, <1>1, PTL DEF Spec

-----------------------------------------------------------------------------
(***************************************************************************)
(* The channel implements BroadcastLog                                     *)
(***************************************************************************)

\* A stream that does not exist was handed nothing and disabled nothing.
Absent(r) == rpc[r] \notin ActivePCs \union {"lagged", "closed"}

AbsentReset == \A r \in Receivers : Absent(r) => skip[r] = {} /\ got[r] = <<>>

\* Waking and reading keep absent streams absent.
LEMMA AbsentStep ==
    ASSUME TypeOK, AbsentReset, [Next]_vars
    PROVE  AbsentReset'
<1>1. CASE UNCHANGED receivers
  BY <1>1 DEF AbsentReset, Absent, receivers
<1>2. CASE WakeAll
  BY <1>2 DEF WakeAll, AbsentReset, Absent, ActivePCs, TypeOK
<1>3. ASSUME NEW r \in Receivers, NEW replay \in Replays, NEW filter \in Filters,
             Subscribe(r, replay, filter)
      PROVE  AbsentReset'
  BY <1>3 DEF Subscribe, AbsentReset, Absent, ActivePCs, TypeOK
<1>4. ASSUME NEW r \in Receivers, Recv(r) PROVE AbsentReset'
  <2>1. /\ skip' = skip
        /\ rpc[r] \in ActivePCs
        /\ rpc'[r] \in ActivePCs \union {"lagged", "closed"}
        /\ \A q \in Receivers \ {r} : rpc'[q] = rpc[q] /\ got'[q] = got[q]
    BY <1>4 DEF Recv, RecvFast, RecvSlow, Consume, EndStream, ActivePCs, TypeOK
  <2> QED
    BY <2>1 DEF AbsentReset, Absent
<1>5. ASSUME NEW r \in Receivers, Repoll(r) PROVE AbsentReset'
  BY <1>5 DEF Repoll, AbsentReset, Absent, ActivePCs, TypeOK
<1>6. ASSUME NEW r \in Receivers, Drop(r) PROVE AbsentReset'
  BY <1>6 DEF Drop, AbsentReset, Absent, TypeOK
<1> QED
  BY <1>1, <1>2, <1>3, <1>4, <1>5, <1>6
     DEF Next, vars, Push, PushBegin, PushStep, CloseStep, Terminated, WalkMissed,
         WalkEnd, UpdateEntry, PopFirstSlot, EvictUpTo, EvictUpToEnd, EvictSame,
         EvictSameEnd, SlotsUnderLimit, EvictBytes, Store, PushEnd, Panic, CloseBegin,
         CloseItem, CloseEnd

\* The steps that are invisible to the log.
LEMMA Stutter ==
    ASSUME UNCHANGED <<log, head, skip, got>>, Phase' = Phase, Cursor' = Cursor,
           (close_at # -1) <=> (close_at' # -1)
    PROVE  UNCHANGED Abstract!vars
BY DEF Abstract!vars

\* What the log sees of one reader's step.
LEMMA OneReader ==
    ASSUME TypeOK, TypeOK', NEW r \in Receivers, UNCHANGED <<head, log, close_at>>,
           \A q \in Receivers \ {r} : rpc'[q] = rpc[q] /\ next'[q] = next[q]
    PROVE  /\ Phase' = [Phase EXCEPT ![r] = Phase'[r]]
           /\ Cursor' = [Cursor EXCEPT ![r] = Cursor'[r]]
BY DEF Phase, Cursor, TypeOK

\* A poll that reads the item at the stream's position is the log's next message
\* or finds it evicted.
LEMMA ConsumeRefines ==
    ASSUME ChannelInv, TypeOK', NEW r \in Receivers, rpc[r] \in ActivePCs,
           buffer[get_idx(next[r])].pos = next[r],
           Consume(r, buffer[get_idx(next[r])].data),
           UNCHANGED <<head, log, close_at>>
    PROVE  Abstract!Next
<1> DEFINE data == buffer[get_idx(next[r])].data
           n == next[r]
<1>1. /\ n \in Nat /\ Cap <= n /\ n <= tail /\ TypeOK /\ RingHoldsWindow
      /\ head \in Nat /\ tail \in Nat /\ Cap \in Nat \ {0} /\ Len(log) \in Nat
      /\ tail = Cap + Len(log) /\ Cap <= head /\ head <= tail
  <2>1. TypeOK /\ RingHoldsWindow /\ n \in Nat /\ Cap <= start[r] /\ start[r] <= n
        /\ n <= tail /\ start[r] \in Nat
    BY DEF ChannelInv, ReaderPositions, TypeOK
  <2> QED
    BY <2>1, WindowTypes, WindowBounds
<1>2. n < tail /\ data = IF n < head THEN NoData ELSE Logged(n)
  BY <1>1, ReadItem
<1>3. /\ Phase' = [Phase EXCEPT ![r] = Phase'[r]]
      /\ Cursor' = [Cursor EXCEPT ![r] = Cursor'[r]]
  <2>1. \A q \in Receivers \ {r} : rpc'[q] = rpc[q] /\ next'[q] = next[q]
    BY <1>1 DEF Consume, TypeOK
  <2> QED
    BY <1>1, <2>1, OneReader
<1>4. Phase[r] = "in" /\ Cursor[r] = n - Cap /\ UNCHANGED <<skip, head, log, close_at>>
  BY DEF Phase, Cursor, Consume
<1>5. CASE n < head
  <2>1. data = NoData
    BY <1>2, <1>5
  <2>2. Phase'[r] = "lagged" /\ Cursor'[r] = 0 /\ got' = got
    BY <2>1, <1>1 DEF Consume, Phase, Cursor, ActivePCs, TypeOK
  <2>3. Cursor[r] < head - Cap
    BY <1>1, <1>4, <1>5
  <2>4. Abstract!Lag(r)
    BY <1>3, <1>4, <2>2, <2>3 DEF Abstract!Lag
  <2> QED
    BY <2>4 DEF Abstract!Next
<1>6. CASE ~(n < head)
  <2>1. data = Logged(n) /\ data \in Message /\ data # NoData
    BY <1>1, <1>2, <1>6, LoggedType, NoDataAssumption
  <2>2. rpc'[r] = "poll" /\ next'[r] = n + 1
    BY <2>1, <1>1 DEF Consume, TypeOK
  <2>3. Phase'[r] = "in" /\ Cursor'[r] = n + 1 - Cap
    <3>1. Phase'[r] = "in" /\ Cursor'[r] = next'[r] - Cap
      BY <2>2 DEF Phase, Cursor, ActivePCs
    <3> QED
      BY <2>2, <3>1, <1>1
  <2>4. Phase' = Phase
    BY <1>3, <1>4, <2>3 DEF Phase
  <2>5. Cursor[r] \in (head - Cap) .. (Len(log) - 1) /\ Cursor'[r] = Cursor[r] + 1
    BY <1>1, <1>2, <1>4, <1>6, <2>3
  <2>6. got' = IF log[Cursor[r] + 1].kind \in skip[r]
               THEN got
               ELSE [got EXCEPT ![r] = Append(@, log[Cursor[r] + 1])]
    BY <2>1, <1>1, <1>4 DEF Consume, Logged
  <2>7. Abstract!Advance(r)
    BY <1>3, <1>4, <2>4, <2>5, <2>6 DEF Abstract!Advance
  <2> QED
    BY <2>7 DEF Abstract!Next
<1> QED
  BY <1>5, <1>6

\* A poll that ends the stream, or goes on to the slow path or parks.
LEMMA EndRefines ==
    ASSUME ChannelInv, TypeOK', NEW r \in Receivers, rpc[r] \in ActivePCs,
           UNCHANGED <<head, log, close_at, next, skip, got>>,
           NEW e, rpc' = [rpc EXCEPT ![r] = e],
           \/ e \in ActivePCs
           \/ e = "closed" /\ close_at # -1
           \/ e = "lagged" /\ next[r] < head
    PROVE  Abstract!Next \/ UNCHANGED Abstract!vars
<1>0. TypeOK
  BY DEF ChannelInv
<1>1. /\ Phase' = [Phase EXCEPT ![r] = Phase'[r]]
      /\ Cursor' = [Cursor EXCEPT ![r] = Cursor'[r]]
  <2>1. \A q \in Receivers \ {r} : rpc'[q] = rpc[q] /\ next'[q] = next[q]
    BY <1>0 DEF TypeOK
  <2> QED
    BY <1>0, <2>1, OneReader
<1>2. Phase[r] = "in" /\ Cursor[r] = next[r] - Cap /\ rpc'[r] = e
  BY <1>0 DEF Phase, Cursor, TypeOK
<1>3. CASE e \in ActivePCs
  <2>1. Phase'[r] = Phase[r] /\ Cursor'[r] = Cursor[r]
    BY <1>2, <1>3 DEF Phase, Cursor
  <2>2. Phase' = Phase /\ Cursor' = Cursor
    BY <1>1, <2>1 DEF Phase, Cursor
  <2> QED
    BY <2>2, Stutter
<1>4. CASE e = "closed" /\ close_at # -1
  <2>1. Phase'[r] = "closed" /\ Cursor'[r] = 0
    BY <1>2, <1>4 DEF Phase, Cursor, ActivePCs
  <2>2. Abstract!End(r)
    BY <1>1, <1>2, <1>4, <2>1 DEF Abstract!End
  <2> QED
    BY <2>2 DEF Abstract!Next
<1>5. CASE e = "lagged" /\ next[r] < head
  <2>1. Phase'[r] = "lagged" /\ Cursor'[r] = 0
    BY <1>2, <1>5 DEF Phase, Cursor, ActivePCs
  <2>2. Cursor[r] < head - Cap
    <3>1. next[r] \in Nat /\ head \in Nat /\ Cap \in Nat
      BY <1>0, CapAssumption DEF TypeOK
    <3> QED
      BY <1>2, <1>5, <3>1
  <2>3. Abstract!Lag(r)
    BY <1>1, <1>2, <2>1, <2>2 DEF Abstract!Lag
  <2> QED
    BY <2>3 DEF Abstract!Next
<1> QED
  BY <1>3, <1>4, <1>5

\* An item is flagged only by close.
LEMMA ClosedOnlyIfClosing ==
    ASSUME ChannelInv
    PROVE  \A i \in Indices : buffer[i].closed => close_at # -1
BY CapAssumption DEF ChannelInv, SenderLocals, Indices

\* Every step of the channel is a step of the log or invisible to it.
LEMMA StepRefines ==
    ASSUME ChannelInv, ChannelInv', AbsentReset, [Next]_vars
    PROVE  [Abstract!Next]_(Abstract!vars)
<1>0. /\ TypeOK /\ TypeOK' /\ RingHoldsWindow /\ RingHoldsWindow' /\ SenderLocals
      /\ NoLostWakeup /\ ReaderPositions /\ TrackedSlotRetained
  BY DEF ChannelInv
<1>1. CASE UNCHANGED <<receivers, log, head, close_at>>
  BY <1>1, Stutter DEF Phase, Cursor, receivers
<1>2. CASE TakeHead /\ UNCHANGED <<tail, log, close_at, receivers, pc>> /\ pc # "idle"
  <2>1. close_at = -1
    BY <1>0, <1>2 DEF SenderLocals
  <2>2. head - Cap < Len(log) /\ head' - Cap = (head - Cap) + 1
    BY <1>0, <1>2, WindowTypes, WindowBounds DEF TakeHead
  <2>3. Phase' = Phase /\ Cursor' = Cursor
    BY <1>2 DEF Phase, Cursor, receivers
  <2>4. Abstract!Discard
    BY <1>2, <2>1, <2>2, <2>3 DEF Abstract!Discard, receivers
  <2> QED
    BY <2>4 DEF Abstract!Next
<1>3. CASE Store
  <2>1. pending # <<>> /\ close_at = -1
    BY <1>0, <1>3 DEF Store, SenderLocals
  <2>2. /\ log' = Append(log, Head(pending)) /\ Head(pending) \in Message
        /\ log \in Seq(Message)
    BY <1>0, <1>3, <2>1, StoreLog DEF TypeOK
  <2>3. Len(log') = Len(log) + 1 /\ log'[Len(log')] = Head(pending)
    BY <2>2
  <2>4. head' - Cap \in {head - Cap, (head - Cap) + 1} /\ head' - Cap <= Len(log)
    <3>1. \/ head = tail - Cap /\ head' = head + 1
          \/ head' = head
      BY <1>0, <1>3, <2>1, StoreWindow
    <3> QED
      BY <1>0, <3>1, WindowTypes, WindowBounds
  <2>5. Phase' = Phase /\ Cursor' = Cursor /\ UNCHANGED <<skip, got, close_at>>
    BY <1>3 DEF Store, Phase, Cursor, receivers
  <2>6. log' = Append(log, log'[Len(log')]) /\ log'[Len(log')] \in Message
    BY <2>2, <2>3, Zenon
  <2>7. Abstract!Publish
    BY <2>1, <2>3, <2>4, <2>5, <2>6 DEF Abstract!Publish
  <2> QED
    BY <2>7 DEF Abstract!Next
<1>4. CASE CloseBegin
  <2>1. Abstract!Close
    BY <1>4 DEF CloseBegin, state, receivers, Abstract!Close, Phase, Cursor
  <2> QED
    BY <2>1 DEF Abstract!Next
<1>5. CASE CloseItem
  BY <1>5, CapAssumption, Stutter
     DEF CloseItem, Indices, Phase, Cursor, receivers
<1>6. CASE PushEnd \/ CloseEnd
  <2>1. /\ WakeAll /\ UNCHANGED <<log, head, skip, got>>
        /\ (close_at # -1) <=> (close_at' # -1)
    BY <1>6, CapAssumption DEF PushEnd, CloseEnd, WakeAll, state
  <2>2. Phase' = Phase /\ Cursor' = Cursor
    BY <2>1, <1>0 DEF WakeAll, Phase, Cursor, ActivePCs, TypeOK
  <2> QED
    BY <2>1, <2>2, Stutter
<1>7. ASSUME NEW r \in Receivers, NEW replay \in Replays, NEW filter \in Filters,
             Subscribe(r, replay, filter)
      PROVE  [Abstract!Next]_(Abstract!vars)
  <2>1. /\ UNCHANGED <<head, tail, log, close_at, got, slots>> /\ rpc[r] = "none"
        /\ pc = "idle"
        /\ \A q \in Receivers \ {r} : rpc'[q] = rpc[q] /\ next'[q] = next[q]
    BY <1>7, <1>0 DEF Subscribe, state, TypeOK
  <2>2. /\ Phase' = [Phase EXCEPT ![r] = Phase'[r]]
        /\ Cursor' = [Cursor EXCEPT ![r] = Cursor'[r]]
    BY <1>0, <2>1, OneReader
  <2>3. Phase[r] = "out" /\ Cursor[r] = 0
    BY <2>1 DEF Phase, Cursor, ActivePCs
  <2>4. CASE replay = NoSlot \/ replay \in DOMAIN slots
    <3>1. rpc'[r] = "poll" /\ skip' = [skip EXCEPT ![r] = skip'[r]]
      BY <1>7, <2>4, <1>0 DEF Subscribe, TypeOK
    <3>2. next'[r] \in Nat /\ head <= next'[r] /\ next'[r] <= tail
      <4>1. CASE replay = NoSlot
        BY SMTT(30), <1>7, <4>1, <1>0, WindowTypes, WindowBounds DEF Subscribe, TypeOK
      <4>2. CASE replay # NoSlot
        <5>1. next'[r] = slots[replay].head
          BY <1>7, <2>4, <4>2, <1>0 DEF Subscribe, TypeOK
        <5>2. slots[replay].head \in Nat /\ replay \in DOMAIN slots
          BY <2>4, <4>2, <1>0, Fields DEF TypeOK
        <5>3. head <= slots[replay].head /\ slots[replay].head < tail
          BY <2>1, <5>2, <1>0 DEF TrackedSlotRetained, Storing
        <5> QED
          BY <5>1, <5>2, <5>3, <1>0, WindowTypes
      <4> QED
        BY <4>1, <4>2
    <3>3. Phase'[r] = "in" /\ Cursor'[r] = next'[r] - Cap
      BY <3>1 DEF Phase, Cursor, ActivePCs
    <3>4. Cursor'[r] \in (head - Cap) .. Len(log)
      BY <3>2, <3>3, <1>0, WindowTypes, WindowBounds
    <3>5. Abstract!Join(r)
      BY <2>1, <2>2, <2>3, <3>1, <3>3, <3>4 DEF Abstract!Join
    <3> QED
      BY <3>5 DEF Abstract!Next
  <2>5. CASE ~(replay = NoSlot \/ replay \in DOMAIN slots)
    <3>1. /\ rpc'[r] \in {"not_initialized", "slot_not_available"}
          /\ UNCHANGED skip
      BY <1>7, <2>5, <1>0 DEF Subscribe, TypeOK
    <3>2. Phase'[r] = Phase[r] /\ Cursor'[r] = Cursor[r]
      BY <3>1, <2>3 DEF Phase, Cursor, ActivePCs
    <3>3. Phase' = Phase /\ Cursor' = Cursor
      BY ZenonT(30), <2>2, <3>2 DEF Phase, Cursor
    <3> QED
      BY <2>1, <3>1, <3>3, Stutter
  <2> QED
    BY <2>4, <2>5
<1>8. ASSUME NEW r \in Receivers, Recv(r)
      PROVE  [Abstract!Next]_(Abstract!vars)
  <2> DEFINE item == buffer[get_idx(next[r])]
  <2>1. rpc[r] \in ActivePCs /\ UNCHANGED <<head, log, close_at>>
    BY <1>8 DEF Recv, RecvFast, RecvSlow, ActivePCs, state
  <2>2. next[r] \in Nat /\ Cap <= next[r] /\ next[r] <= tail
    <3>1. /\ next[r] \in Nat /\ start[r] \in Nat /\ Cap \in Nat
          /\ Cap <= start[r] /\ start[r] <= next[r] /\ next[r] <= tail
      BY <1>0, <2>1, CapAssumption DEF ReaderPositions, TypeOK
    <3> QED
      BY <3>1
  <2>3. item.pos > next[r] => next[r] < head
    BY <1>0, <2>2, ReadItem
  <2>4. item.closed => close_at # -1
    BY <1>0, ClosedOnlyIfClosing, HeadTypes
  <2>5. CASE Consume(r, item.data) /\ item.pos = next[r]
    BY <2>1, <2>5, <1>0, ConsumeRefines
  <2>6. CASE ~(Consume(r, item.data) /\ item.pos = next[r])
    <3>1. UNCHANGED <<next, skip, got>>
      BY <1>8, <2>6 DEF Recv, RecvFast, RecvSlow, EndStream
    <3>2. \E e \in ActivePCs \union {"closed", "lagged"} :
             /\ rpc' = [rpc EXCEPT ![r] = e]
             /\ e = "closed" => item.closed
             /\ e = "lagged" => item.pos > next[r]
      BY <1>8, <2>6 DEF Recv, RecvFast, RecvSlow, EndStream, ActivePCs
    <3>3. PICK e \in ActivePCs \union {"closed", "lagged"} :
             /\ rpc' = [rpc EXCEPT ![r] = e]
             /\ e = "closed" => item.closed
             /\ e = "lagged" => item.pos > next[r]
      BY <3>2
    <3>4. \/ e \in ActivePCs
          \/ e = "closed" /\ close_at # -1
          \/ e = "lagged" /\ next[r] < head
      BY <3>3, <2>3, <2>4
    <3> QED
      BY <2>1, <3>1, <3>3, <3>4, <1>0, EndRefines
  <2> QED
    BY <2>5, <2>6
<1>9. ASSUME NEW r \in Receivers, Repoll(r)
      PROVE  [Abstract!Next]_(Abstract!vars)
  <2>1. /\ rpc[r] \in ActivePCs /\ rpc' = [rpc EXCEPT ![r] = "poll"]
        /\ "poll" \in ActivePCs
        /\ UNCHANGED <<head, log, close_at, next, skip, got>>
    BY <1>9 DEF Repoll, ActivePCs, state
  <2> QED
    BY <2>1, <1>0, EndRefines
<1>10. ASSUME NEW r \in Receivers, Drop(r)
       PROVE  [Abstract!Next]_(Abstract!vars)
  <2>1. /\ UNCHANGED <<head, log, close_at>> /\ rpc'[r] = "none"
        /\ \A q \in Receivers \ {r} : rpc'[q] = rpc[q] /\ next'[q] = next[q]
        /\ skip' = [skip EXCEPT ![r] = {}] /\ got' = [got EXCEPT ![r] = <<>>]
    BY <1>10, <1>0 DEF Drop, state, TypeOK
  <2>2. /\ Phase' = [Phase EXCEPT ![r] = Phase'[r]]
        /\ Cursor' = [Cursor EXCEPT ![r] = Cursor'[r]]
    BY <1>0, <2>1, OneReader
  <2>3. Phase'[r] = "out" /\ Cursor'[r] = 0
    BY <2>1 DEF Phase, Cursor, ActivePCs
  <2>4. CASE Phase[r] # "out"
    <3>1. Abstract!Leave(r)
      BY <2>1, <2>2, <2>3, <2>4 DEF Abstract!Leave
    <3> QED
      BY <3>1 DEF Abstract!Next
  <2>5. CASE Phase[r] = "out"
    <3>1. Absent(r)
      BY <2>5 DEF Phase, Absent
    <3>2. skip' = skip /\ got' = got
      BY <2>1, <3>1, <1>0 DEF AbsentReset, TypeOK
    <3>3. Cursor[r] = 0
      BY <3>1 DEF Cursor, Absent
    <3>4. Phase' = Phase /\ Cursor' = Cursor
      BY <2>2, <2>3, <2>5, <3>3 DEF Phase, Cursor
    <3> QED
      BY <2>1, <3>2, <3>4, Stutter
  <2> QED
    BY <2>4, <2>5
<1>11. CASE Push \/ PushStep
  BY <1>1, <1>2, <1>3, <1>6, <1>11
     DEF Push, PushBegin, PushStep, WalkMissed, WalkEnd, UpdateEntry, PopFirstSlot,
         EvictUpTo, EvictUpToEnd, EvictSame, EvictSameEnd, SlotsUnderLimit, EvictBytes,
         Panic, state, sender
<1>12. CASE UNCHANGED vars
  BY <1>1, <1>12 DEF vars, state
<1> QED
  BY <1>4, <1>5, <1>6, <1>7, <1>8, <1>9, <1>10, <1>11, <1>12
     DEF Next, CloseStep, Terminated

\* The channel implements BroadcastLog for every size, limit and set of receivers.
THEOREM ChannelImplementsLog == Spec => ImplementsLog
<1>1. Init => Abstract!Init
  BY CapAssumption DEF Init, Abstract!Init, Phase, Cursor, ActivePCs
<1>2. Init => AbsentReset
  BY DEF Init, AbsentReset
<1>3. AbsentReset /\ ChannelInv /\ [Next]_vars => AbsentReset'
  BY AbsentStep DEF ChannelInv
<1>4. ChannelInv /\ ChannelInv' /\ AbsentReset /\ [Next]_vars
         => [Abstract!Next]_(Abstract!vars)
  BY StepRefines
<1> QED
  BY <1>1, <1>2, <1>3, <1>4, ChannelInvariant, PTL DEF Spec, ImplementsLog, Abstract!Spec

-----------------------------------------------------------------------------
(***************************************************************************)
(* The limits                                                              *)
(***************************************************************************)

\* Fewer tracked slots stay finitely many and no more.
LEMMA FewerSlots ==
    ASSUME IsFiniteSet(DOMAIN slots), DOMAIN slots' \subseteq DOMAIN slots
    PROVE  /\ IsFiniteSet(DOMAIN slots')
           /\ Cardinality(DOMAIN slots) \in Nat /\ Cardinality(DOMAIN slots') \in Nat
           /\ Cardinality(DOMAIN slots') <= Cardinality(DOMAIN slots)
BY FS_Subset, FS_CardinalityType

\* An eviction only lowers the byte count.
LEMMA TakeHeadBytes ==
    ASSUME TypeOK, TakeHead
    PROVE  bytes_total' <= bytes_total /\ bytes_total \in Int /\ bytes_total' \in Int
<1>1. buffer[get_idx(head)].data.size \in Nat
  BY TakeHeadTypes, Fields
<1>2. bytes_total \in Int /\ bytes_total' = bytes_total - buffer[get_idx(head)].data.size
  BY DEF TakeHead, TypeOK
<1> QED
  BY <1>1, <1>2

\* Every step keeps the limits as far as they are established.
LEMMA LimitsStep ==
    ASSUME TypeOK, SenderLocals, LimitsProgress, [Next]_vars
    PROVE  LimitsProgress'
<1>0. bytes_total \in Int /\ BytesMax \in Nat /\ SlotsMax \in Nat
  BY LimitsAssumption DEF TypeOK
<1>1. CASE UNCHANGED <<slots, bytes_total, pc>>
  BY <1>1 DEF LimitsProgress
<1>2. CASE Push \/ WalkMissed \/ WalkEnd \/ PushEnd \/ EvictUpToEnd \/ EvictSameEnd \/ Panic
  BY <1>2 DEF Push, PushBegin, WalkMissed, WalkEnd, PushEnd, EvictUpToEnd, EvictSameEnd,
              Panic, state, LimitsProgress
<1>3. CASE UpdateEntry
  <2>1. /\ DOMAIN slots' = DOMAIN slots \union {Head(pending).slot}
        /\ bytes_total' = bytes_total /\ pc = "entry" /\ pc' = "slots"
    BY <1>3 DEF UpdateEntry
  <2>2. IsFiniteSet(DOMAIN slots')
    BY <2>1, FS_AddElement DEF LimitsProgress
  <2> QED
    BY <2>1, <2>2 DEF LimitsProgress
<1>4. CASE PopFirstSlot
  <2>1. /\ DOMAIN slots' \subseteq DOMAIN slots
        /\ bytes_total' = bytes_total /\ pc = "slots" /\ pc' = "upto"
    BY <1>4 DEF PopFirstSlot
  <2> QED
    BY <2>1, FewerSlots DEF LimitsProgress
<1>5. CASE EvictUpTo \/ EvictSame
  <2>1. /\ DOMAIN slots' \subseteq DOMAIN slots /\ TakeHead
        /\ pc' = pc /\ pc \in {"upto", "same"}
    BY <1>5 DEF EvictUpTo, EvictSame, remove_slots, sender
  <2>2. bytes_total' <= BytesMax
    BY <2>1, <1>0, TakeHeadBytes DEF LimitsProgress
  <2> QED
    BY <2>1, <2>2, FewerSlots DEF LimitsProgress
<1>6. CASE SlotsUnderLimit
  BY <1>6 DEF SlotsUnderLimit, LimitsProgress
<1>7. CASE EvictBytes
  <2>1. DOMAIN slots' \subseteq DOMAIN slots /\ pc' = "bytes" /\ pc = "bytes"
    BY <1>7 DEF EvictBytes, remove_slots, sender
  <2> QED
    BY <2>1, <1>0, FewerSlots DEF LimitsProgress
<1>8. CASE Store
  <2> DEFINE old == buffer[get_idx(tail)]
  <2>1. DOMAIN slots' \subseteq DOMAIN slots /\ pc = "bytes" /\ pc' \in {"entry", "wake"}
    BY <1>8 DEF Store, remove_slots
  <2>2. old.data # NoData => old.data.size \in Nat
    BY HeadTypes, Fields DEF TypeOK
  <2>3. /\ bytes_total <= BytesMax
        /\ bytes_total' = bytes_total \/ (old.data # NoData /\ bytes_total' = bytes_total - old.data.size)
    BY <1>8 DEF Store
  <2> HIDE DEF old
  <2>4. bytes_total' <= BytesMax
    BY <1>0, <2>2, <2>3
  <2> QED
    BY <2>1, <2>4, <1>0, FewerSlots DEF LimitsProgress
<1> QED
  BY <1>1, <1>2, <1>3, <1>4, <1>5, <1>6, <1>7, <1>8
     DEF Next, vars, PushStep, CloseStep, Terminated, CloseBegin, CloseItem, CloseEnd,
         Subscribe, Recv, RecvFast, RecvSlow, Repoll, Drop, state, sender

\* Between pushes the configured numbers of slots and bytes are never exceeded.
THEOREM LimitsTheorem == Spec => []LimitsHold
<1>1. Init => LimitsProgress
  BY LimitsAssumption, FS_EmptySet DEF Init, LimitsProgress
<1>2. ChannelInv /\ LimitsProgress /\ [Next]_vars => LimitsProgress'
  BY LimitsStep DEF ChannelInv
<1>3. LimitsProgress => LimitsHold
  BY DEF LimitsProgress, LimitsHold
<1> QED
  BY <1>1, <1>2, <1>3, ChannelInvariant, PTL DEF Spec

-----------------------------------------------------------------------------
(***************************************************************************)
(* What the streams were handed                                            *)
(***************************************************************************)

\* The log only grows.
LEMMA LogGrows ==
    ASSUME ChannelInv, [Next]_vars
    PROVE  \A p \in Nat : Cap <= p /\ p < tail => Logged(p)' = Logged(p)
<1>1. CASE UNCHANGED log
  BY <1>1 DEF Logged
<1>2. CASE Store
  <2>1. TypeOK /\ RingHoldsWindow /\ pending # <<>>
    BY <1>2 DEF ChannelInv, SenderLocals, Store
  <2>2. \A p \in Nat : Cap <= p /\ p < tail => log'[p - Cap + 1] = log[p - Cap + 1]
    BY <1>2, <2>1, StoreLog
  <2> QED
    BY <2>2 DEF Logged
<1> QED
  BY <1>1, <1>2
     DEF Next, vars, Push, PushBegin, PushStep, CloseStep, Terminated, WalkMissed,
         WalkEnd, UpdateEntry, PopFirstSlot, EvictUpTo, EvictUpToEnd, EvictSame,
         EvictSameEnd, SlotsUnderLimit, EvictBytes, PushEnd, Panic, CloseBegin,
         CloseItem, CloseEnd, Subscribe, Recv, RecvFast, RecvSlow, Repoll, Drop, state

\* What a stream wants of the log it has passed stays what it wants.
LEMMA WantedStable ==
    ASSUME ChannelInv, [Next]_vars, NEW r \in Receivers, skip'[r] = skip[r],
           NEW a \in Nat, NEW b \in Nat, Cap <= a, b <= tail
    PROVE  Wanted(r, a, b)' = Wanted(r, a, b)
<1>1. \A p \in a .. b - 1 : Logged(p)' = Logged(p)
  <2>1. Cap \in Nat /\ tail \in Nat
    BY CapAssumption DEF ChannelInv, TypeOK
  <2>2. \A p \in a .. b - 1 : p \in Nat /\ Cap <= p /\ p < tail
    BY <2>1
  <2> QED
    BY <2>2, LogGrows
<1> QED
  BY <1>1 DEF Wanted

\* The wanted messages are finitely many; one more position adds one or none.
LEMMA WantedNext ==
    ASSUME NEW r \in Receivers, NEW a \in Nat, NEW b \in Nat, a <= b
    PROVE  /\ IsFiniteSet(Wanted(r, a, b)) /\ Cardinality(Wanted(r, a, b)) \in Nat
           /\ Logged(b).kind \in skip[r] => Wanted(r, a, b + 1) = Wanted(r, a, b)
           /\ Logged(b).kind \notin skip[r] =>
                 /\ Wanted(r, a, b + 1) = Wanted(r, a, b) \union {b}
                 /\ Cardinality(Wanted(r, a, b + 1)) = Cardinality(Wanted(r, a, b)) + 1
<1>1. IsFiniteSet(Wanted(r, a, b)) /\ Cardinality(Wanted(r, a, b)) \in Nat
  <2>1. IsFiniteSet(a .. b - 1)
    BY FS_Interval
  <2>2. Wanted(r, a, b) \in SUBSET (a .. b - 1)
    BY DEF Wanted
  <2>3. IsFiniteSet(Wanted(r, a, b))
    BY <2>1, <2>2, FS_Subset
  <2> QED
    BY <2>3, FS_CardinalityType
<1>2. a .. b + 1 - 1 = (a .. b - 1) \union {b}
  OBVIOUS
<1>3. b \notin Wanted(r, a, b)
  BY DEF Wanted
<1>4. Logged(b).kind \in skip[r] => Wanted(r, a, b + 1) = Wanted(r, a, b)
  BY <1>2 DEF Wanted
<1>5. Logged(b).kind \notin skip[r] => Wanted(r, a, b + 1) = Wanted(r, a, b) \union {b}
  BY <1>2 DEF Wanted
<1>6. Cardinality(Wanted(r, a, b) \union {b}) = Cardinality(Wanted(r, a, b)) + 1
  BY <1>1, <1>3, FS_AddElement
<1> QED
  BY <1>1, <1>4, <1>5, <1>6

\* The place of a wanted message is among those of the wanted messages.
LEMMA WantedPlace ==
    ASSUME NEW r \in Receivers, NEW a \in Nat, NEW b \in Nat, a <= b,
           NEW p \in Wanted(r, a, b)
    PROVE  /\ p \in a .. b - 1
           /\ Cardinality(Wanted(r, a, p)) + 1 \in 1 .. Cardinality(Wanted(r, a, b))
<1>1. p \in a .. b - 1 /\ Logged(p).kind \notin skip[r] /\ p \in Nat /\ a <= p /\ p + 1 <= b
  BY DEF Wanted
<1>2. /\ Cardinality(Wanted(r, a, p)) \in Nat
      /\ Cardinality(Wanted(r, a, p + 1)) = Cardinality(Wanted(r, a, p)) + 1
  BY <1>1, WantedNext
<1>3. Wanted(r, a, p + 1) \in SUBSET Wanted(r, a, b)
  BY <1>1 DEF Wanted
<1>4. IsFiniteSet(Wanted(r, a, b)) /\ Cardinality(Wanted(r, a, b)) \in Nat
  BY WantedNext
<1>5. Cardinality(Wanted(r, a, p + 1)) <= Cardinality(Wanted(r, a, b))
  BY <1>3, <1>4, FS_Subset
<1> QED
  BY <1>1, <1>2, <1>4, <1>5

\* A stream that is not polled keeps what it was handed.
LEMMA HandedStable ==
    ASSUME ChannelInv, [Next]_vars, NEW r \in Receivers, rpc[r] \in ActivePCs, Handed(r),
           skip'[r] = skip[r], start'[r] = start[r], next'[r] = next[r], got'[r] = got[r]
    PROVE  Handed(r)'
<1>1. PICK a \in Nat, b \in Nat : a = start[r] /\ b = next[r]
  BY DEF ChannelInv, TypeOK
<1>2. Cap \in Nat /\ Cap <= a /\ a <= b /\ b <= tail /\ tail \in Nat
  BY <1>1, CapAssumption DEF ChannelInv, TypeOK, ReaderPositions
<1>3. Wanted(r, a, b)' = Wanted(r, a, b)
  BY <1>2, WantedStable
<1>4. ASSUME NEW p \in Wanted(r, a, b)
      PROVE  got'[r][Cardinality(Wanted(r, a, p)') + 1] = Logged(p)'
  <2>1. p \in Nat /\ a <= p /\ p < b
    BY <1>2, WantedPlace
  <2>2. Wanted(r, a, p)' = Wanted(r, a, p)
    BY <1>2, <2>1, WantedStable
  <2>3. Logged(p)' = Logged(p)
    BY <1>2, <2>1, LogGrows
  <2> QED
    BY <1>1, <1>4, <2>2, <2>3 DEF Handed
<1>5. Len(got'[r]) = Cardinality(Wanted(r, a, b)')
  BY <1>1, <1>3 DEF Handed
<1>6. start'[r] = a /\ next'[r] = b
  BY <1>1
<1> QED
  BY <1>3, <1>4, <1>5, <1>6 DEF Handed, Wanted, Logged

\* A stream that is polled and takes the item at its position is handed it.
LEMMA HandedConsume ==
    ASSUME ChannelInv, [Next]_vars, NEW r \in Receivers, rpc[r] \in ActivePCs, Handed(r),
           UNCHANGED <<log, skip, start>>, NEW data, Consume(r, data),
           data = Logged(next[r]), data \in Message, data # NoData
    PROVE  Handed(r)'
<1>1. PICK a \in Nat, b \in Nat : a = start[r] /\ b = next[r]
  BY DEF ChannelInv, TypeOK
<1>2. Cap \in Nat /\ Cap <= a /\ a <= b /\ b <= tail /\ tail \in Nat
      /\ got \in [Receivers -> Seq(Message)] /\ next \in [Receivers -> Nat]
  BY <1>1, CapAssumption DEF ChannelInv, TypeOK, ReaderPositions
<1>3. /\ \A x, y : Wanted(r, x, y)' = Wanted(r, x, y)
      /\ \A p : Logged(p)' = Logged(p)
      /\ start'[r] = a /\ next'[r] = b + 1
  BY <1>1, <1>2 DEF Wanted, Logged, Consume
<1>4. /\ Len(got[r]) = Cardinality(Wanted(r, a, b))
      /\ \A p \in Wanted(r, a, b) : got[r][Cardinality(Wanted(r, a, p)) + 1] = Logged(p)
      /\ got[r] \in Seq(Message)
  BY <1>1, <1>2 DEF Handed
<1>5. CASE data.kind \in skip[r]
  <2>1. got' = got
    BY <1>5 DEF Consume
  <2>2. Wanted(r, a, b + 1) = Wanted(r, a, b)
    BY <1>1, <1>2, <1>5, WantedNext, ZenonT(30)
  <2>3. /\ Len(got'[r]) = Cardinality(Wanted(r, a, b + 1))
        /\ \A p \in Wanted(r, a, b + 1) : got'[r][Cardinality(Wanted(r, a, p)) + 1] = Logged(p)
    BY <1>4, <2>1, <2>2
  <2> QED
    BY <1>3, <2>3 DEF Handed, Wanted, Logged
<1>6. CASE data.kind \notin skip[r]
  <2>1. got'[r] = Append(got[r], data)
    BY <1>2, <1>6 DEF Consume
  <2>2. /\ Wanted(r, a, b + 1) = Wanted(r, a, b) \union {b}
        /\ Cardinality(Wanted(r, a, b + 1)) = Cardinality(Wanted(r, a, b)) + 1
        /\ Cardinality(Wanted(r, a, b)) \in Nat
    <3>1. Logged(b).kind \notin skip[r]
      BY <1>1, <1>6
    <3>2. a <= b
      BY <1>2
    <3> QED
      BY ONLY r \in Receivers, a \in Nat, b \in Nat, <3>1, <3>2, WantedNext
  <2>3. /\ Len(got'[r]) = Len(got[r]) + 1
        /\ got'[r][Len(got[r]) + 1] = data
        /\ \A i \in 1 .. Len(got[r]) : got'[r][i] = got[r][i]
    BY <1>4, <2>1
  <2>4. ASSUME NEW p \in Wanted(r, a, b + 1)
        PROVE  got'[r][Cardinality(Wanted(r, a, p)) + 1] = Logged(p)
    <3>1. CASE p = b
      BY <1>1, <1>4, <2>3, <3>1
    <3>2. CASE p \in Wanted(r, a, b)
      <4>1. Cardinality(Wanted(r, a, p)) + 1 \in 1 .. Len(got[r])
        BY <1>2, <1>4, <3>2, WantedPlace
      <4> QED
        BY <1>4, <2>3, <3>2, <4>1
    <3> QED
      BY <2>2, <3>1, <3>2
  <2>5. Len(got'[r]) = Cardinality(Wanted(r, a, b + 1))
    BY <1>4, <2>2, <2>3
  <2> QED
    BY <1>3, <2>4, <2>5 DEF Handed, Wanted, Logged
<1> QED
  BY <1>5, <1>6

\* A stream that begins was handed nothing and has passed nothing.
LEMMA HandedNothing ==
    ASSUME NEW r \in Receivers, NEW p \in Nat, start'[r] = p, next'[r] = p, got'[r] = <<>>
    PROVE  Handed(r)'
<1>1. Wanted(r, p, p)' = {}
  BY DEF Wanted
<1>2. Len(got'[r]) = Cardinality(Wanted(r, p, p)')
  BY <1>1, FS_EmptySet
<1> QED
  BY <1>1, <1>2 DEF Handed, Wanted

\* Every step keeps what the active streams were handed.
LEMMA HandedStep ==
    ASSUME ChannelInv, ChannelInv', AbsentReset, DeliveredInOrder, [Next]_vars
    PROVE  DeliveredInOrder'
<1> SUFFICES ASSUME NEW r \in Receivers, rpc'[r] \in ActivePCs PROVE Handed(r)'
  BY DEF DeliveredInOrder, ChannelInv, ReaderPositions
<1>0. /\ rpc \in [Receivers -> ReceiverPCs] /\ next \in [Receivers -> Nat]
      /\ start \in [Receivers -> Nat] /\ got \in [Receivers -> Seq(Message)]
      /\ skip \in [Receivers -> SUBSET FilterableKinds] /\ tail \in Nat
  BY DEF ChannelInv, TypeOK
<1>1. ASSUME skip'[r] = skip[r], start'[r] = start[r], next'[r] = next[r], got'[r] = got[r],
             rpc[r] \in ActivePCs
      PROVE  Handed(r)'
  BY <1>1, HandedStable DEF DeliveredInOrder
<1>2. CASE UNCHANGED receivers
  BY <1>1, <1>2 DEF receivers
<1>3. CASE WakeAll
  <2>1. UNCHANGED <<skip, start, next, got>> /\ rpc[r] \in ActivePCs
    BY <1>0, <1>3 DEF WakeAll, ActivePCs
  <2> QED
    BY <1>1, <2>1
<1>4. ASSUME NEW q \in Receivers, NEW replay \in Replays, NEW filter \in Filters,
             Subscribe(q, replay, filter)
      PROVE  Handed(r)'
  <2>1. CASE q # r
    BY <1>0, <1>1, <1>4, <2>1 DEF Subscribe
  <2>2. CASE q = r
    <3>1. replay = NoSlot \/ replay \in DOMAIN slots
      BY <1>0, <1>4, <2>2 DEF Subscribe, ActivePCs
    <3>2. PICK p : p = IF replay = NoSlot THEN tail ELSE slots[replay].head
      OBVIOUS
    <3>3. next'[r] = p /\ start'[r] = p /\ got'[r] = got[r] /\ rpc[r] = "none"
      BY <1>0, <1>4, <2>2, <3>1, <3>2 DEF Subscribe
    <3>4. p \in Nat
      BY <3>3 DEF ChannelInv, TypeOK
    <3>5. got[r] = <<>>
      BY <3>3 DEF AbsentReset, Absent, ActivePCs
    <3> QED
      BY <3>3, <3>4, <3>5, HandedNothing
  <2> QED
    BY <2>1, <2>2
<1>5. ASSUME NEW q \in Receivers, Recv(q) PROVE Handed(r)'
  <2>0. UNCHANGED log
    BY <1>5 DEF Recv, RecvFast, RecvSlow, state
  <2>1. CASE q # r
    <3>1. /\ skip'[r] = skip[r] /\ start'[r] = start[r] /\ next'[r] = next[r]
          /\ got'[r] = got[r] /\ rpc'[r] = rpc[r]
      BY <1>0, <1>5, <2>1 DEF Recv, RecvFast, RecvSlow, Consume, EndStream
    <3> QED
      BY <1>1, <3>1
  <2>2. CASE q = r
    <3>1. rpc[r] \in ActivePCs
      BY <1>5, <2>2 DEF Recv, RecvFast, RecvSlow, ActivePCs
    <3>2. CASE UNCHANGED <<next, skip, start, got>>
      BY <1>1, <3>1, <3>2
    <3>3. PICK data : data = buffer[get_idx(next[r])].data
      OBVIOUS
    <3>4. CASE Consume(r, data) /\ buffer[get_idx(next[r])].pos = next[r]
      <4>1. data # NoData
        BY <1>0, <3>4 DEF Consume, ActivePCs
      <4>2. next[r] \in Nat /\ Cap <= next[r] /\ next[r] <= tail /\ Cap \in Nat
        BY <1>0, <3>1, CapAssumption DEF ChannelInv, ReaderPositions
      <4>3. next[r] < tail /\ data = IF next[r] < head THEN NoData ELSE Logged(next[r])
        BY <3>3, <3>4, <4>2, ReadItem DEF ChannelInv
      <4>4. data = Logged(next[r]) /\ data \in Message
        BY <4>1, <4>2, <4>3, LoggedType DEF ChannelInv
      <4>5. Handed(r) /\ UNCHANGED <<skip, start>>
        BY <3>1, <3>4 DEF DeliveredInOrder, Consume
      <4> QED
        BY <2>0, <3>1, <3>4, <4>1, <4>4, <4>5, HandedConsume
    <3> QED
      BY <1>5, <2>2, <3>2, <3>3, <3>4 DEF Recv, RecvFast, RecvSlow, EndStream
  <2> QED
    BY <2>1, <2>2
<1>6. ASSUME NEW q \in Receivers, Repoll(q) PROVE Handed(r)'
  <2>1. UNCHANGED <<skip, start, next, got>> /\ rpc[r] \in ActivePCs
    BY <1>0, <1>6 DEF Repoll, ActivePCs
  <2> QED
    BY <1>1, <2>1
<1>7. ASSUME NEW q \in Receivers, Drop(q) PROVE Handed(r)'
  <2>1. q # r
    BY <1>0, <1>7 DEF Drop, ActivePCs
  <2>2. /\ skip'[r] = skip[r] /\ start'[r] = start[r] /\ next'[r] = next[r]
        /\ got'[r] = got[r] /\ rpc'[r] = rpc[r]
    BY <1>0, <1>7, <2>1 DEF Drop
  <2> QED
    BY <1>1, <2>2
<1> QED
  BY <1>2, <1>3, <1>4, <1>5, <1>6, <1>7
     DEF Next, vars, Push, PushBegin, PushStep, CloseStep, Terminated, WalkMissed,
         WalkEnd, UpdateEntry, PopFirstSlot, EvictUpTo, EvictUpToEnd, EvictSame,
         EvictSameEnd, SlotsUnderLimit, EvictBytes, Store, PushEnd, Panic, CloseBegin,
         CloseItem, CloseEnd

\* A stream was handed exactly the messages it wants between the position it
\* subscribed at and its next one, in the order of the log, although recv_ref
\* reads the items without the state lock.
THEOREM DeliveryTheorem == Spec => []DeliveredInOrder
<1>1. Init => AbsentReset /\ DeliveredInOrder
  BY DEF Init, AbsentReset, DeliveredInOrder, ActivePCs
<1>2. AbsentReset /\ ChannelInv /\ [Next]_vars => AbsentReset'
  BY AbsentStep DEF ChannelInv
<1>3. ChannelInv /\ ChannelInv' /\ AbsentReset /\ DeliveredInOrder /\ [Next]_vars
         => DeliveredInOrder'
  BY HandedStep
<1> QED
  BY <1>1, <1>2, <1>3, ChannelInvariant, PTL DEF Spec

-----------------------------------------------------------------------------
(***************************************************************************)
(* The statuses of the ancestors                                           *)
(***************************************************************************)

\* One more message: the last parent announced.
LEMMA ParentAppend ==
    ASSUME NEW seq \in Seq(Message), NEW m \in Message, NEW s, NEW p
    PROVE  ParentIs(Append(seq, m), s, p) <=>
              IF m.kind = "Slot" /\ m.slot = s /\ m.parent # NoSlot THEN p = m.parent
              ELSE ParentIs(seq, s, p)
<1>1. PICK new : new = Append(seq, m)
  OBVIOUS
<1>2. /\ Len(seq) \in Nat /\ Len(new) = Len(seq) + 1 /\ new[Len(seq) + 1] = m
      /\ \A k \in 1 .. Len(seq) : new[k] = seq[k]
  BY <1>1
<1>3. ASSUME ParentIs(seq, s, p),
             m.kind = "Slot" /\ m.slot = s => m.parent \in {NoSlot, p}
      PROVE  ParentIs(new, s, p)
  <2>1. PICK i \in 1 .. Len(seq) :
          /\ seq[i].kind = "Slot" /\ seq[i].slot = s /\ seq[i].parent = p /\ p # NoSlot
          /\ \A k \in i + 1 .. Len(seq) :
                seq[k].kind = "Slot" /\ seq[k].slot = s => seq[k].parent \in {NoSlot, p}
    BY <1>3 DEF ParentIs
  <2>2. i \in 1 .. Len(new) /\ new[i] = seq[i]
    BY <1>2
  <2>3. \A k \in i + 1 .. Len(new) : (k \in i + 1 .. Len(seq) /\ new[k] = seq[k]) \/ new[k] = m
    BY <1>2
  <2> QED
    BY <1>3, <2>1, <2>2, <2>3 DEF ParentIs
<1>4. ASSUME ParentIs(new, s, p)
      PROVE  IF m.kind = "Slot" /\ m.slot = s /\ m.parent # NoSlot THEN p = m.parent
             ELSE ParentIs(seq, s, p)
  <2>1. PICK i \in 1 .. Len(new) :
          /\ new[i].kind = "Slot" /\ new[i].slot = s /\ new[i].parent = p /\ p # NoSlot
          /\ \A k \in i + 1 .. Len(new) :
                new[k].kind = "Slot" /\ new[k].slot = s => new[k].parent \in {NoSlot, p}
    BY <1>4 DEF ParentIs
  <2>2. CASE i = Len(seq) + 1
    BY <1>2, <2>1, <2>2
  <2>3. CASE i # Len(seq) + 1
    <3>1. i \in 1 .. Len(seq) /\ Len(new) \in i + 1 .. Len(new) /\ new[Len(new)] = m
      BY <1>2, <2>3
    <3>2. \A k \in i + 1 .. Len(seq) : k \in i + 1 .. Len(new) /\ new[k] = seq[k]
      BY <1>2, <3>1
    <3>3. ParentIs(seq, s, p)
      BY <1>2, <2>1, <3>1, <3>2 DEF ParentIs
    <3>4. m.kind = "Slot" /\ m.slot = s => m.parent \in {NoSlot, p}
      BY <2>1, <3>1
    <3> QED
      BY <3>3, <3>4
  <2> QED
    BY <2>2, <2>3
<1>5. ASSUME m.kind = "Slot", m.slot = s, m.parent # NoSlot, p = m.parent
      PROVE  ParentIs(new, s, p)
  <2>1. Len(new) \in 1 .. Len(new) /\ new[Len(new)] = m /\ Len(new) + 1 .. Len(new) = {}
    BY <1>2
  <2> QED
    BY <1>5, <2>1 DEF ParentIs
<1> QED
  BY <1>1, <1>3, <1>4, <1>5

\* One more message: what was seen stays seen.
LEMMA StatusAppend ==
    ASSUME NEW seq \in Seq(Message), NEW m \in Message, NEW s, NEW status
    PROVE  /\ HasStatus(seq, s, status) => HasStatus(Append(seq, m), s, status)
           /\ m.kind = "Slot" /\ m.slot = s /\ m.status = status
                 => HasStatus(Append(seq, m), s, status)
<1>1. PICK new : new = Append(seq, m)
  OBVIOUS
<1>2. /\ Len(seq) \in Nat /\ Len(new) = Len(seq) + 1 /\ new[Len(seq) + 1] = m
      /\ \A k \in 1 .. Len(seq) : new[k] = seq[k]
  BY <1>1
<1>3. Len(new) \in 1 .. Len(new) /\ \A k \in 1 .. Len(seq) : k \in 1 .. Len(new)
  BY <1>2
<1> QED
  BY <1>1, <1>2, <1>3 DEF HasStatus

\* A parent is a slot that some message announces.
LEMMA ParentFacts ==
    ASSUME NEW seq \in Seq(Message), NEW s, NEW p, ParentIs(seq, s, p)
    PROVE  p \in Nat /\ Seen(seq, s)
<1>1. PICK i \in 1 .. Len(seq) : seq[i].slot = s /\ seq[i].parent = p /\ p # NoSlot
  BY DEF ParentIs
<1>2. seq[i] \in Message
  BY <1>1
<1> QED
  BY <1>1, <1>2 DEF Message, Seen, NoSlot

\* An entry taken into account: the entries follow one more message (push_msg).
LEMMA TracksUpdate ==
    ASSUME TypeOK, pc = "entry", pending # <<>>, Tracks(slots, log), UpdateEntry
    PROVE  Tracks(slots', Append(log, Head(pending)))
<1>1. PICK m : m = Head(pending)
  OBVIOUS
<1>2. m \in Message /\ log \in Seq(Message)
  BY <1>1 DEF TypeOK
<1>3. PICK new : new = Append(log, m)
  OBVIOUS
<1>4. /\ Len(log) \in Nat /\ Len(new) = Len(log) + 1 /\ new[Len(log) + 1] = m
      /\ \A k \in 1 .. Len(log) : new[k] = log[k]
  BY <1>2, <1>3
<1>5. /\ DOMAIN slots' = DOMAIN slots \union {m.slot} /\ slots'[m.slot] = UpdatedInfo(m)
      /\ \A s \in DOMAIN slots : s # m.slot => slots'[s] = slots[s]
  BY <1>1 DEF UpdateEntry
<1>6. \A k \in 1 .. Len(new) : new[k].slot \in DOMAIN slots'
  <2>1. \A k \in 1 .. Len(new) : (k \in 1 .. Len(log) /\ new[k] = log[k]) \/ new[k] = m
    BY <1>4
  <2> QED
    BY <1>5, <2>1 DEF Tracks
<1>7. ASSUME NEW s \in DOMAIN slots', s # m.slot
      PROVE  /\ \A p \in Nat : ParentIs(new, s, p) <=> slots'[s].parent_slot = p
             /\ slots'[s].confirmed => HasStatus(new, s, "Confirmed")
             /\ slots'[s].finalized => HasStatus(new, s, "Rooted")
  <2>1. s \in DOMAIN slots /\ slots'[s] = slots[s]
    BY <1>5, <1>7
  <2>2. /\ \A p \in Nat : ParentIs(log, s, p) <=> slots[s].parent_slot = p
        /\ slots[s].confirmed => HasStatus(log, s, "Confirmed")
        /\ slots[s].finalized => HasStatus(log, s, "Rooted")
    BY <2>1 DEF Tracks
  <2>3. \A p \in Nat : ParentIs(new, s, p) <=> ParentIs(log, s, p)
    BY <1>2, <1>3, <1>7, ParentAppend
  <2>4. \A status : HasStatus(log, s, status) => HasStatus(new, s, status)
    BY <1>2, <1>3, StatusAppend
  <2> QED
    BY <2>1, <2>2, <2>3, <2>4
<1>8. PICK old : old = IF m.slot \in DOMAIN slots THEN slots[m.slot]
                       ELSE [head |-> tail, parent_slot |-> NoSlot,
                             confirmed |-> FALSE, finalized |-> FALSE]
  OBVIOUS
<1>9. /\ \A p \in Nat : ParentIs(log, m.slot, p) <=> old.parent_slot = p
      /\ old.confirmed => HasStatus(log, m.slot, "Confirmed")
      /\ old.finalized => HasStatus(log, m.slot, "Rooted")
      /\ old \in SlotInfo
  <2>1. CASE m.slot \in DOMAIN slots
    BY <1>8, <2>1 DEF Tracks, TypeOK
  <2>2. CASE m.slot \notin DOMAIN slots
    <3>1. old = [head |-> tail, parent_slot |-> NoSlot, confirmed |-> FALSE, finalized |-> FALSE]
      BY <1>8, <2>2
    <3>2. ~Seen(log, m.slot)
      BY <2>2 DEF Tracks, Seen
    <3>3. \A p \in Nat : ~ParentIs(log, m.slot, p)
      BY <1>2, <3>2, ParentFacts
    <3>4. old \in SlotInfo
      BY <3>1 DEF SlotInfo, TypeOK, NoSlot
    <3> QED
      BY <3>1, <3>3, <3>4 DEF NoSlot
  <2> QED
    BY <2>1, <2>2
<1>10. PICK info : info = UpdatedInfo(m)
  OBVIOUS
<1>11. /\ info.parent_slot = IF m.kind = "Slot" /\ m.parent # NoSlot THEN m.parent
                             ELSE old.parent_slot
       /\ info.confirmed = (old.confirmed \/ (m.kind = "Slot" /\ m.status = "Confirmed"))
       /\ info.finalized = (old.finalized \/ (m.kind = "Slot" /\ m.status = "Rooted"))
  <2>1. info = [old EXCEPT
          !.parent_slot = IF m.kind = "Slot" /\ m.parent # NoSlot THEN m.parent ELSE @,
          !.confirmed = @ \/ (m.kind = "Slot" /\ m.status = "Confirmed"),
          !.finalized = @ \/ (m.kind = "Slot" /\ m.status = "Rooted")]
    BY <1>8, <1>10 DEF UpdatedInfo
  <2> QED
    BY <1>9, <2>1 DEF SlotInfo
<1>12. \A p \in Nat : ParentIs(new, m.slot, p) <=> info.parent_slot = p
  BY <1>2, <1>3, <1>9, <1>11, ParentAppend
<1>13. /\ info.confirmed => HasStatus(new, m.slot, "Confirmed")
       /\ info.finalized => HasStatus(new, m.slot, "Rooted")
  BY <1>2, <1>3, <1>9, <1>11, StatusAppend
<1>14. slots'[m.slot] = info
  BY <1>5, <1>10
<1> QED
  BY <1>1, <1>3, <1>6, <1>7, <1>12, <1>13, <1>14 DEF Tracks

\* A message that tells no news of a parent leaves the parents as they are.
LEMMA ParentKept ==
    ASSUME NEW seq \in Seq(Message), NEW m \in Message,
           m.kind = "Slot" /\ m.parent # NoSlot => ParentIs(seq, m.slot, m.parent),
           NEW s, NEW p \in Nat
    PROVE  ParentIs(Append(seq, m), s, p) <=> ParentIs(seq, s, p)
<1>1. ASSUME NEW q \in Nat, ParentIs(seq, s, p), ParentIs(seq, s, q) PROVE p = q
  <2>1. PICK i \in 1 .. Len(seq) :
          /\ seq[i].kind = "Slot" /\ seq[i].slot = s /\ seq[i].parent = p
          /\ \A k \in i + 1 .. Len(seq) :
                seq[k].kind = "Slot" /\ seq[k].slot = s => seq[k].parent \in {NoSlot, p}
    BY <1>1 DEF ParentIs
  <2>2. PICK j \in 1 .. Len(seq) :
          /\ seq[j].kind = "Slot" /\ seq[j].slot = s /\ seq[j].parent = q
          /\ \A k \in j + 1 .. Len(seq) :
                seq[k].kind = "Slot" /\ seq[k].slot = s => seq[k].parent \in {NoSlot, q}
    BY <1>1 DEF ParentIs
  <2>3. Len(seq) \in Nat /\ p # NoSlot /\ q # NoSlot
    BY DEF NoSlot
  <2>4. i = j \/ i \in j + 1 .. Len(seq) \/ j \in i + 1 .. Len(seq)
    BY <2>3
  <2> QED
    BY <2>1, <2>2, <2>3, <2>4
<1>2. m.parent \in Nat \union {NoSlot}
  BY Fields
<1> QED
  BY <1>1, <1>2, ParentAppend

\* What the parents of the earlier messages are does not change.
LEMMA FirstAppend ==
    ASSUME NEW seq \in Seq(Message), NEW m \in Message,
           \A j \in 1 .. Len(seq) : ParentsFirst(SubSeq(seq, 1, j - 1), seq[j]),
           ParentsFirst(seq, m),
           NEW j \in 1 .. Len(Append(seq, m))
    PROVE  ParentsFirst(SubSeq(Append(seq, m), 1, j - 1), Append(seq, m)[j])
<1>1. PICK new : new = Append(seq, m)
  OBVIOUS
<1>2. /\ Len(seq) \in Nat /\ Len(new) = Len(seq) + 1 /\ new[Len(seq) + 1] = m
      /\ new \in Seq(Message) /\ \A k \in 1 .. Len(seq) : new[k] = seq[k]
  BY <1>1
<1>3. j \in 1 .. Len(seq) + 1
  BY <1>1, <1>2
<1>4. PICK n \in Nat : n = j - 1 /\ n <= Len(seq)
  BY <1>2, <1>3
<1>5. /\ SubSeq(new, 1, n) \in Seq(Message) /\ Len(SubSeq(new, 1, n)) = n
      /\ \A k \in 1 .. n : SubSeq(new, 1, n)[k] = new[k]
  BY <1>2, <1>4
<1>6. /\ SubSeq(seq, 1, n) \in Seq(Message) /\ Len(SubSeq(seq, 1, n)) = n
      /\ \A k \in 1 .. n : SubSeq(seq, 1, n)[k] = seq[k]
  BY <1>2, <1>4
<1>7. \A k \in 1 .. n : new[k] = seq[k]
  BY <1>2, <1>4
<1>8. SubSeq(new, 1, n) = SubSeq(seq, 1, n)
  <2>1. PICK a, b : a = SubSeq(new, 1, n) /\ b = SubSeq(seq, 1, n)
    OBVIOUS
  <2>2. a \in Seq(Message) /\ b \in Seq(Message) /\ Len(a) = Len(b)
    BY <1>5, <1>6, <2>1
  <2>3. \A k \in 1 .. Len(a) : a[k] = b[k]
    BY <1>5, <1>6, <1>7, <2>1
  <2>4. a = b
    BY <2>2, <2>3, SeqEqual
  <2> QED
    BY <2>1, <2>4
<1>9. CASE j \in 1 .. Len(seq)
  <2>1. new[j] = seq[j] /\ ParentsFirst(SubSeq(seq, 1, j - 1), seq[j])
    BY <1>2, <1>9
  <2> QED
    BY <1>1, <1>4, <1>8, <2>1
<1>10. CASE j = Len(seq) + 1
  <2>1. n = Len(seq) /\ new[j] = m
    BY <1>2, <1>4, <1>10
  <2>2. SubSeq(seq, 1, n) = seq
    <3>1. PICK a : a = SubSeq(seq, 1, n)
      OBVIOUS
    <3>2. a \in Seq(Message) /\ Len(a) = Len(seq) /\ \A k \in 1 .. Len(a) : a[k] = seq[k]
      BY <1>6, <2>1, <3>1
    <3>3. a = seq
      BY <3>2, SeqEqual
    <3> QED
      BY <3>1, <3>3
  <2> QED
    BY <1>1, <1>4, <1>8, <2>1, <2>2
<1> QED
  BY <1>3, <1>9, <1>10

\* The walk adds the parent of the slot it is at.
LEMMA ChainWalk ==
    ASSUME TypeOK, pending # <<>>, Tracks(slots, log), Chain, WalkMissed
    PROVE  Chain'
<1>1. PICK p : p = slots[walk].parent_slot
  OBVIOUS
<1>2. PICK m : m = [kind |-> "Slot", slot |-> p, parent |-> slots[p].parent_slot,
                    status |-> LastPending.status, size |-> SlotMsgSize]
  OBVIOUS
<1>3. /\ pc = "walk" /\ pc' = "walk" /\ walk \in DOMAIN slots /\ p \in DOMAIN slots
      /\ pending' = <<m>> \o pending /\ walk' = p /\ log' = log
      /\ walk = Head(pending).slot
  BY <1>1, <1>2 DEF WalkMissed, MissedParent, Chain, state
<1>4. m \in Message /\ p \in Nat /\ log \in Seq(Message)
  <2>1. LastPending \in Message /\ p \in Nat /\ slots[p] \in SlotInfo
    BY <1>3, HeadTypes DEF TypeOK
  <2>2. LastPending.status \in Statuses /\ slots[p].parent_slot \in Nat \union {NoSlot}
    BY <2>1, Fields
  <2> QED
    BY <1>2, <2>1, <2>2, SizeAssumption DEF Message, Kinds, TypeOK
<1>5. PICK n \in Nat : n = Len(pending) /\ n > 0
  BY DEF TypeOK
<1>6. /\ Len(pending') = n + 1 /\ pending'[1] = m
      /\ \A k \in 1 .. n : pending'[k + 1] = pending[k]
  BY <1>3, <1>4, <1>5 DEF TypeOK
<1>7. LastPending' = LastPending /\ LastPending = pending[n]
  BY <1>5, <1>6 DEF LastPending
<1>8. Head(pending') = m /\ Head(pending) = pending[1]
  BY <1>3, <1>4, <1>5, <1>6 DEF TypeOK
<1>9. /\ m.kind = "Slot" /\ m.status = LastPending.status /\ m.slot = p
      /\ m.parent # NoSlot => ParentIs(log, m.slot, m.parent)
  <2>1. m.parent \in Nat \union {NoSlot}
    BY <1>4, Fields
  <2> QED
    BY <1>2, <1>3, <2>1 DEF Tracks
<1>10. \A q \in Nat : ParentIs(log, pending[1].slot, q) => q = m.slot
  BY <1>1, <1>3, <1>4, <1>8, <1>9 DEF Tracks
<1>11. ASSUME NEW k \in 1 .. n
       PROVE  /\ pending'[k].kind = "Slot" /\ pending'[k].status = LastPending.status
              /\ pending'[k].parent # NoSlot =>
                    ParentIs(log, pending'[k].slot, pending'[k].parent)
              /\ \A q \in Nat : ParentIs(log, pending'[k + 1].slot, q) => q = pending'[k].slot
  <2>1. CASE k = 1
    BY <1>6, <1>9, <1>10, <2>1
  <2>2. CASE k # 1
    <3>1. PICK l \in 1 .. Len(pending) - 1 : k = l + 1
      BY <1>5, <2>2
    <3>2. /\ pending[l].kind = "Slot" /\ pending[l].status = LastPending.status
          /\ pending[l].parent # NoSlot => ParentIs(log, pending[l].slot, pending[l].parent)
          /\ \A q \in Nat : ParentIs(log, pending[l + 1].slot, q) => q = pending[l].slot
      BY <3>1 DEF Chain
    <3>3. pending'[k] = pending[l] /\ pending'[k + 1] = pending[l + 1]
      BY <1>5, <1>6, <3>1
    <3> QED
      BY <3>2, <3>3
  <2> QED
    BY <2>1, <2>2
<1>12. 1 .. Len(pending') - 1 = 1 .. n
  BY <1>6
<1> QED
  BY <1>3, <1>7, <1>8, <1>9, <1>11, <1>12 DEF Chain

\* Where the walk ends nothing is missing before the first pending message.
LEMMA ChainReady ==
    ASSUME TypeOK, pending # <<>>, Tracks(slots, log), Chain, WalkEnd
    PROVE  Chain'
<1>1. PICK m : m = Head(pending)
  OBVIOUS
<1>2. /\ pc = "walk" /\ pc' = "entry" /\ ~MissedParent /\ walk = m.slot
      /\ UNCHANGED <<log, pending>>
  BY <1>1 DEF WalkEnd, Chain, state
<1>3. m.status = LastPending.status
  <2>1. Len(pending) \in Nat /\ Len(pending) > 0 /\ m = pending[1]
    BY <1>1 DEF TypeOK
  <2>2. CASE Len(pending) = 1
    BY <2>1, <2>2 DEF LastPending
  <2>3. CASE Len(pending) > 1
    <3>1. 1 \in 1 .. Len(pending) - 1
      BY <2>1, <2>3
    <3> QED
      BY <2>1, <3>1 DEF Chain
  <2>4. ASSUME NEW n \in Nat, n > 0 PROVE n = 1 \/ n > 1
    BY <2>4
  <2> QED
    BY <2>1, <2>2, <2>3, <2>4
<1>4. ASSUME NEW p, ParentIs(log, m.slot, p), Seen(log, p), m.status \in {"Confirmed", "Rooted"}
      PROVE  HasStatus(log, p, m.status)
  <2>1. log \in Seq(Message)
    BY DEF TypeOK
  <2>2. p \in Nat /\ Seen(log, m.slot)
    BY <1>4, <2>1, ParentFacts
  <2>3. m.slot \in DOMAIN slots /\ p \in DOMAIN slots
    BY <1>4, <2>2 DEF Tracks, Seen
  <2>4. slots[walk].parent_slot = p
    BY <1>2, <1>4, <2>2, <2>3 DEF Tracks
  <2>5. /\ m.status = "Confirmed" => slots[p].confirmed
        /\ m.status = "Rooted" => slots[p].finalized
    BY <1>2, <1>3, <2>3, <2>4 DEF MissedParent
  <2> QED
    BY <1>4, <2>3, <2>5 DEF Tracks
<1>5. ParentsFirst(log, m)
  BY <1>4 DEF ParentsFirst
<1> QED
  BY <1>1, <1>2, <1>5 DEF Chain, LastPending

\* Storing the first pending message makes the next one ready.
LEMMA ChainStore ==
    ASSUME TypeOK, pending # <<>>, Chain, Store, pc' = "entry", log' = Append(log, Head(pending))
    PROVE  Chain'
<1>1. PICK m : m = Head(pending)
  OBVIOUS
<1>2. PICK n \in Nat : n = Len(pending) /\ n > 1
  <2>1. Len(pending) \in Nat
    BY DEF TypeOK
  <2>2. pc' = IF Len(pending) > 1 THEN "entry" ELSE "wake"
    BY DEF Store
  <2>3. Len(pending) > 1
    BY ONLY <2>2, pc' = "entry"
  <2> QED
    BY <2>1, <2>3
<1>3. /\ m = pending[1] /\ m \in Message /\ log \in Seq(Message)
      /\ pending' = Tail(pending) /\ Len(pending') = n - 1
      /\ \A k \in 1 .. n - 1 : pending'[k] = pending[k + 1]
  BY <1>1, <1>2, HeadTypes DEF Store, TypeOK
<1>4. LastPending' = LastPending /\ LastPending = pending[n]
  BY <1>2, <1>3 DEF LastPending
<1>5. 1 \in 1 .. Len(pending) - 1
  BY <1>2
<1>6. /\ m.kind = "Slot" /\ m.status = LastPending.status
      /\ m.parent # NoSlot => ParentIs(log, m.slot, m.parent)
      /\ \A p \in Nat : ParentIs(log, pending[2].slot, p) => p = m.slot
  <2>1. /\ pending[1].kind = "Slot" /\ pending[1].status = LastPending.status
        /\ pending[1].parent # NoSlot => ParentIs(log, pending[1].slot, pending[1].parent)
        /\ \A p \in Nat : ParentIs(log, pending[1 + 1].slot, p) => p = pending[1].slot
    BY <1>5 DEF Chain
  <2> QED
    BY <1>3, <2>1
<1>7. \A s : \A p \in Nat : ParentIs(log', s, p) <=> ParentIs(log, s, p)
  BY <1>1, <1>3, <1>6, ParentKept
<1>8. ASSUME NEW k \in 1 .. n - 2
      PROVE  /\ pending'[k].kind = "Slot" /\ pending'[k].status = LastPending.status
             /\ pending'[k].parent # NoSlot =>
                   ParentIs(log', pending'[k].slot, pending'[k].parent)
             /\ \A p \in Nat : ParentIs(log', pending'[k + 1].slot, p) => p = pending'[k].slot
  <2>1. /\ k + 1 \in 1 .. Len(pending) - 1 /\ k \in 1 .. n - 1
        /\ k + 1 \in 1 .. n - 1 /\ k + 1 \in 1 .. n
    BY <1>2
  <2>2. PICK l : l = k + 1
    OBVIOUS
  <2>3. /\ pending[l].kind = "Slot" /\ pending[l].status = LastPending.status
        /\ pending[l].parent # NoSlot => ParentIs(log, pending[l].slot, pending[l].parent)
        /\ \A p \in Nat : ParentIs(log, pending[l + 1].slot, p) => p = pending[l].slot
    BY <2>1, <2>2 DEF Chain
  <2>4. pending'[k] = pending[l] /\ pending'[k + 1] = pending[l + 1]
    BY <1>3, <2>1, <2>2
  <2>5. pending[l].parent \in Nat \union {NoSlot}
    <3>1. pending[l] \in Message
      BY <1>2, <2>1, <2>2 DEF TypeOK
    <3> QED
      BY <3>1, Fields
  <2> QED
    BY <1>7, <2>3, <2>4, <2>5
<1>9. Head(pending') = pending[2] /\ pending[2].status = m.status
  <2>1. pending' # <<>> /\ 1 \in 1 .. n - 1
    BY <1>2, <1>3
  <2>2. Head(pending') = pending'[1] /\ pending'[1] = pending[1 + 1]
    BY <1>3, <2>1
  <2>3. CASE n = 2
    BY <1>4, <1>6, <2>2, <2>3
  <2>4. CASE n > 2
    <3>1. 2 \in 1 .. Len(pending) - 1
      BY <1>2, <2>4
    <3>2. pending[2].status = LastPending.status
      BY <3>1 DEF Chain
    <3> QED
      BY <1>6, <2>2, <3>2
  <2> QED
    BY <1>2, <2>2, <2>3, <2>4
<1>10. HasStatus(log', m.slot, m.status)
  BY <1>1, <1>3, <1>6, StatusAppend
<1>11. ParentsFirst(log', pending[2])
  <2>1. ASSUME NEW p, ParentIs(log', pending[2].slot, p)
        PROVE  HasStatus(log', p, pending[2].status)
    <3>1. log' \in Seq(Message)
      BY <1>1, <1>3
    <3>2. p \in Nat
      BY <2>1, <3>1, ParentFacts
    <3> QED
      BY <1>6, <1>7, <1>9, <1>10, <2>1, <3>2
  <2> QED
    BY <2>1 DEF ParentsFirst
<1>12. 1 .. Len(pending') - 1 = 1 .. n - 2
  BY <1>2, <1>3
<1> QED
  BY <1>4, <1>8, <1>9, <1>11, <1>12 DEF Chain

\* Every step of the sender keeps what it knows of the slots' parents.
LEMMA AncestorStep ==
    ASSUME ChannelInv, ChannelInv', AncestorInv, AncestorStatusFirst, [Next]_vars
    PROVE  AncestorInv' /\ AncestorStatusFirst'
<1>0. /\ TypeOK /\ RingHoldsWindow /\ TrackedSlotRetained /\ SenderLocals
      /\ head \in Nat /\ tail \in Nat /\ Cap \in Nat /\ Cap <= head /\ log \in Seq(Message)
  BY CapAssumption DEF ChannelInv, TypeOK, RingHoldsWindow
<1>1. CASE TakeHead
  <2>1. head' # Cap
    BY <1>0, <1>1 DEF TakeHead
  <2> QED
    BY <2>1 DEF AncestorInv, AncestorStatusFirst
<1>2. ASSUME UNCHANGED <<head, tail, log>>, head = Cap => AncestorInv'
      PROVE  AncestorInv' /\ AncestorStatusFirst'
  BY <1>2 DEF AncestorInv, AncestorStatusFirst
<1>3. CASE UNCHANGED <<head, tail, log, slots, sender>>
  BY <1>2, <1>3
     DEF AncestorInv, Tracks, Noted, Storing, Chain, LastPending, VictimInRing, Logged, sender
<1>4. ASSUME NEW m \in Inputs, PushBegin(m)
      PROVE  AncestorInv' /\ AncestorStatusFirst'
  <2>1. /\ pc = "idle" /\ pending' = <<m>> /\ UNCHANGED <<head, tail, log, slots>>
        /\ \/ m.kind = "Slot" /\ walk' = m.slot /\ pc' = "walk"
           \/ m.kind # "Slot" /\ pc' = "entry"
    BY <1>4 DEF PushBegin, state
  <2>2. Len(pending') = 1 /\ Head(pending') = m /\ 1 .. Len(pending') - 1 = {}
    BY <2>1
  <2>3. Chain'
    BY <2>1, <2>2 DEF Chain, ParentsFirst
  <2>4. Noted = log /\ Noted' = log
    BY <2>1 DEF Noted, Storing
  <2> QED
    BY <1>2, <2>1, <2>3, <2>4 DEF AncestorInv, VictimInRing
<1>5. CASE WalkMissed
  <2>1. pc = "walk" /\ pc' = "walk" /\ UNCHANGED <<head, tail, log, slots>> /\ pending # <<>>
    BY <1>0, <1>5 DEF WalkMissed, state, SenderLocals
  <2>2. Noted = log /\ Noted' = log
    BY <2>1 DEF Noted, Storing
  <2>3. head = Cap => Chain'
    BY <1>0, <1>5, <2>1, <2>2, ChainWalk DEF AncestorInv
  <2> QED
    BY <1>2, <2>1, <2>2, <2>3 DEF AncestorInv, VictimInRing
<1>6. CASE WalkEnd
  <2>1. pc = "walk" /\ pc' = "entry" /\ UNCHANGED <<head, tail, log, slots>> /\ pending # <<>>
    BY <1>0, <1>6 DEF WalkEnd, state, SenderLocals
  <2>2. Noted = log /\ Noted' = log
    BY <2>1 DEF Noted, Storing
  <2>3. head = Cap => Chain'
    BY <1>0, <1>6, <2>1, <2>2, ChainReady DEF AncestorInv
  <2> QED
    BY <1>2, <2>1, <2>2, <2>3 DEF AncestorInv, VictimInRing
<1>7. CASE UpdateEntry
  <2>1. pc = "entry" /\ pc' = "slots" /\ UNCHANGED <<head, tail, log, pending>> /\ pending # <<>>
    BY <1>0, <1>7 DEF UpdateEntry, SenderLocals
  <2>2. Noted = log /\ Noted' = Append(log, Head(pending))
    BY <2>1 DEF Noted, Storing
  <2>3. head = Cap => Tracks(slots', Append(log, Head(pending)))
    BY <1>0, <1>7, <2>1, <2>2, TracksUpdate DEF AncestorInv
  <2>4. Tracks(slots', Append(log, Head(pending))) => Tracks(slots, Noted)'
    BY <2>2 DEF Tracks
  <2>5. Chain => Chain'
    BY <2>1 DEF Chain, LastPending
  <2> QED
    BY <1>2, <2>1, <2>3, <2>4, <2>5 DEF AncestorInv, VictimInRing
<1>8. CASE PopFirstSlot
  <2>1. pc = "slots" /\ pc' = "upto" /\ UNCHANGED <<head, tail, log, pending>>
    BY <1>8 DEF PopFirstSlot
  <2>2. PICK s \in DOMAIN slots : victim' = [slot |-> s, head |-> slots[s].head]
    BY <1>8 DEF PopFirstSlot
  <2>3. \/ head <= slots[s].head /\ slots[s].head < tail /\ Logged(slots[s].head).slot = s
        \/ slots[s].head = tail
    BY <1>0 DEF TrackedSlotRetained
  <2>4. slots[s].head \in Nat
    BY <1>0, Fields DEF TypeOK
  <2>5. VictimInRing'
    BY <1>0, <2>1, <2>2, <2>3, <2>4 DEF VictimInRing, Logged
  <2>6. Chain => Chain'
    BY <2>1 DEF Chain, LastPending
  <2> QED
    BY <1>2, <2>1, <2>5, <2>6 DEF AncestorInv
<1>9. CASE EvictUpToEnd
  <2>1. pc = "upto" /\ pc' = "same" /\ UNCHANGED <<head, tail, log, slots, pending, victim>>
        /\ victim.head <= head
    BY <1>0, <1>9 DEF EvictUpToEnd, state, TypeOK
  <2>2. Chain => Chain'
    BY <2>1 DEF Chain, LastPending
  <2> QED
    BY <1>2, <2>1, <2>2 DEF AncestorInv, VictimInRing, Logged
<1>10. CASE EvictSameEnd
  <2>1. /\ pc = "same" /\ pc' = "slots" /\ UNCHANGED <<head, tail, log, slots, pending>>
        /\ head < tail /\ HeadSlot # victim.slot
    BY <1>10 DEF EvictSameEnd, state
  <2>2. HeadSlot = Logged(head).slot
    BY <1>0, <2>1, HeadItem
  <2>3. head # Cap
    <3> SUFFICES ASSUME head = Cap PROVE FALSE
      OBVIOUS
    <3>1. victim.head \in Nat
      BY <1>0 DEF TypeOK
    <3>2. VictimInRing
      BY <2>1 DEF AncestorInv
    <3> QED
      BY <1>0, <2>1, <2>2, <3>1, <3>2 DEF VictimInRing
  <2> QED
    BY <1>2, <2>1, <2>3
<1>11. CASE SlotsUnderLimit
  <2>1. pc = "slots" /\ pc' = "bytes" /\ UNCHANGED <<head, tail, log, slots, pending, victim>>
    BY <1>11 DEF SlotsUnderLimit
  <2>2. Chain => Chain'
    BY <2>1 DEF Chain, LastPending
  <2>3. Noted' = Noted
    BY <2>1 DEF Noted, Storing
  <2> QED
    BY <1>2, <2>1, <2>2, <2>3 DEF AncestorInv, VictimInRing, Tracks
<1>12. CASE Store
  <2>1. pc = "bytes" /\ pc' \in {"entry", "wake"} /\ pending # <<>>
    BY <1>0, <1>12 DEF Store, SenderLocals
  <2>2. log' = Append(log, Head(pending)) /\ Head(pending) \in Message
    BY <1>0, <1>12, <2>1, StoreLog
  <2>3. head' = head + 1 \/ UNCHANGED <<head, slots>>
    BY <1>12 DEF Store
  <2>4. CASE head' = head + 1
    <3>1. head' # Cap
      BY <1>0, <2>4
    <3> QED
      BY <3>1 DEF AncestorInv, AncestorStatusFirst
  <2>5. CASE UNCHANGED <<head, slots>>
    <3>1. Noted = Append(log, Head(pending)) /\ Noted' = log'
      BY <2>1 DEF Noted, Storing
    <3>2. head = Cap => Tracks(slots, Noted)'
      BY <2>1, <2>2, <2>5, <3>1 DEF AncestorInv, Tracks
    <3>3. head = Cap /\ pc' = "entry" => Chain'
      BY <1>0, <1>12, <2>1, <2>2, ChainStore DEF AncestorInv
    <3>4. head = Cap => ParentsFirst(log, Head(pending))
      BY <2>1 DEF AncestorInv, Chain
    <3>5. AncestorStatusFirst'
      BY <1>0, <2>2, <2>5, <3>4, FirstAppend DEF AncestorStatusFirst
    <3>6. AncestorInv'
      BY <2>1, <2>5, <3>2, <3>3 DEF AncestorInv, VictimInRing
    <3> QED
      BY <3>5, <3>6
  <2> QED
    BY <2>3, <2>4, <2>5
<1>13. CASE PushEnd
  <2>1. pc = "wake" /\ pc' = "idle" /\ UNCHANGED <<head, tail, log, slots, pending, victim>>
    BY <1>13 DEF PushEnd, state
  <2>2. Noted' = Noted
    BY <2>1 DEF Noted, Storing
  <2> QED
    BY <1>2, <2>1, <2>2 DEF AncestorInv, VictimInRing, Tracks
<1>14. CASE Panic
  <2>1. pc' = "panicked" /\ UNCHANGED <<head, tail, log>>
    BY <1>14 DEF Panic, state
  <2> QED
    BY <1>2, <2>1 DEF AncestorInv
<1>15. CASE CloseItem
  BY <1>3, <1>15 DEF CloseItem
<1> QED
  BY <1>1, <1>3, <1>4, <1>5, <1>6, <1>7, <1>8, <1>9, <1>10, <1>11, <1>12, <1>13, <1>14, <1>15
     DEF Next, vars, Push, PushStep, CloseStep, Recv, Terminated, EvictUpTo, EvictSame,
         EvictBytes, CloseBegin, CloseEnd, Subscribe, RecvFast, RecvSlow, Repoll, Drop, state

\* While the ring has evicted nothing, Sender::push stores the status of a slot only
\* behind that of its parent, whatever statuses the validator leaves out and in
\* whatever order it notifies them.
THEOREM AncestorTheorem == Spec => []AncestorStatusFirst
<1>1. Init => AncestorInv /\ AncestorStatusFirst
  <2> SUFFICES ASSUME Init PROVE AncestorInv /\ AncestorStatusFirst
    OBVIOUS
  <2>1. log = <<>> /\ Len(log) = 0 /\ pc = "idle" /\ DOMAIN slots = {}
    BY DEF Init
  <2>2. 1 .. Len(log) = {} /\ Noted = log
    BY <2>1 DEF Noted, Storing
  <2> QED
    BY <2>1, <2>2 DEF AncestorInv, AncestorStatusFirst, Tracks, VictimInRing
<1>2. ChannelInv /\ ChannelInv' /\ AncestorInv /\ AncestorStatusFirst /\ [Next]_vars
         => AncestorInv' /\ AncestorStatusFirst'
  BY AncestorStep
<1> QED
  BY <1>1, <1>2, ChannelInvariant, PTL DEF Spec

-----------------------------------------------------------------------------

\* The variables of the channel keep their types.
THEOREM ChannelTypes == Spec => []TypeOK
BY ChannelInvariant, PTL DEF ChannelInv

\* A reader that takes only an item's lock finds the last message stored at that
\* index, or learns that it was evicted.
THEOREM WindowTheorem == Spec => []RingHoldsWindow
BY ChannelInvariant, PTL DEF ChannelInv

\* A subscriber that replays from a tracked slot starts at a retained message of
\* that slot.
THEOREM TrackedTheorem == Spec => []TrackedSlotRetained
BY ChannelInvariant, PTL DEF ChannelInv

\* No stream parks with a message to read or without a waker.
THEOREM WakeupTheorem == Spec => []NoLostWakeup
BY ChannelInvariant, PTL DEF ChannelInv

=============================================================================
