-------------------------- MODULE RichatRingProofs --------------------------
(***************************************************************************)
(* Proofs about RichatRing, for every ring size, every limit, any messages *)
(* and any number of readers.                                              *)
(***************************************************************************)
EXTENDS RichatRing, FiniteSetTheorems, WellFoundedInduction, TLAPS

-----------------------------------------------------------------------------
(***************************************************************************)
(* The inductive invariant                                                 *)
(***************************************************************************)

\* What readers can load: a position, and heads of slots, of the log.
Published ==
    /\ Cap <= head
    /\ shared_tail \in Cap .. tail
    /\ \A s \in DOMAIN shared_slots : shared_slots[s] \in Cap .. tail - 1

\* What the parser thread knows where it is, of the message it pushes and of the
\* slot and the limits it clears for.
SenderAt ==
    /\ pc \in {"publish", "insert"} => head < tail
    /\ pc \in {"upto", "same"} => victim.slot \notin DOMAIN slots /\ victim.head < tail
    /\ pc \in {"slots", "upto", "same", "ready"} => bytes_total <= BytesMax
    /\ pc = "ready" => Cardinality(DOMAIN slots) <= SlotsMax

\* worth[p] is what the messages before position p are worth together.
Worth(worth) ==
    /\ worth \in [Nat -> Nat]
    /\ \A p \in Cap .. tail - 1 : worth[p + 1] = worth[p] + Logged(p).size
    /\ \A p, q \in Cap .. tail : p <= q => worth[p] <= worth[q]

\* bytes_total is what the messages from head to tail are worth.
Accounted ==
    \E worth \in [Nat -> Nat] : Worth(worth) /\ bytes_total = worth[tail] - worth[head]

\* A reader was handed a stretch of the log, and reads no further than the tail.
Follows(c) ==
    /\ start[c] >= Cap
    /\ next[c] = start[c] + Len(got[c])
    /\ next[c] <= tail
    /\ rpc[c] = "read" => next[c] < tail
    /\ \A i \in 1 .. Len(got[c]) : got[c][i] = Logged(start[c] + i - 1)

Following ==
    \A c \in Clients : /\ rpc[c] \in {"poll", "read"} => Follows(c)
                       /\ rpc[c] = "out" => got[c] = <<>>

RingInv ==
    /\ TypeOK
    /\ RingHoldsWindow
    /\ Published
    /\ KnownSlotRetained
    /\ SenderAt
    /\ Accounted
    /\ Following

-----------------------------------------------------------------------------
(***************************************************************************)
(* Positions and indices of the ring                                       *)
(***************************************************************************)

\* A position has an index of the ring (Shared::get_idx).
LEMMA IdxType ==
    ASSUME NEW p \in Nat
    PROVE  get_idx(p) \in Indices
BY CapAssumption DEF get_idx, Indices

\* Euclidean division by the ring's size.
LEMMA DivMod ==
    ASSUME NEW p \in Nat
    PROVE  /\ p \div Cap \in Nat
           /\ p = Cap * (p \div Cap) + (p % Cap)
           /\ p % Cap \in 0 .. Cap - 1
BY CapAssumption

\* A multiple of the ring's size that is less than a ring from 0 is 0.
LEMMA SmallMultiple ==
    ASSUME NEW k \in Int, -Cap < Cap * k, Cap * k < Cap
    PROVE  k = 0
<1>1. ASSUME k >= 1 PROVE FALSE
  <2>1. Cap * k >= Cap
    BY <1>1, CapAssumption
  <2> QED
    BY <2>1, CapAssumption
<1>2. ASSUME k <= -1 PROVE FALSE
  <2>1. Cap * k <= -Cap
    BY <1>2, CapAssumption
  <2> QED
    BY <2>1, CapAssumption
<1> QED
  BY <1>1, <1>2

\* Two positions less than a ring apart have different indices.
LEMMA IdxInjective ==
    ASSUME NEW p \in Nat, NEW q \in Nat, p < q + Cap, q < p + Cap,
           get_idx(p) = get_idx(q)
    PROVE  p = q
<1> DEFINE a == p \div Cap
           b == q \div Cap
<1>1. /\ a \in Nat /\ b \in Nat
      /\ p = Cap * a + (p % Cap)
      /\ q = Cap * b + (q % Cap)
      /\ p % Cap \in Int
  BY DivMod, CapAssumption
<1>2. q - p = Cap * (b - a)
  BY <1>1, CapAssumption DEF get_idx
<1>3. b - a = 0
  BY <1>1, <1>2, SmallMultiple, CapAssumption
<1> QED
  BY <1>1, <1>2, <1>3, CapAssumption

\* Positions a whole ring apart share an index.
LEMMA IdxPeriod ==
    ASSUME NEW p \in Nat
    PROVE  get_idx(p + Cap) = get_idx(p)
<1> DEFINE a == p \div Cap
           q == p + Cap
           b == q \div Cap
<1>1. /\ a \in Nat /\ b \in Nat
      /\ p = Cap * a + (p % Cap)
      /\ q = Cap * b + (q % Cap)
      /\ p % Cap \in 0 .. Cap - 1
      /\ q % Cap \in 0 .. Cap - 1
  <2>1. q \in Nat
    BY CapAssumption
  <2> QED
    BY <2>1, DivMod, CapAssumption
<1>2. (q % Cap) - (p % Cap) = Cap * (a + 1 - b)
  BY <1>1, CapAssumption
<1>3. a + 1 - b = 0
  BY <1>1, <1>2, SmallMultiple, CapAssumption
<1> QED
  BY <1>1, <1>2, <1>3, CapAssumption DEF get_idx

-----------------------------------------------------------------------------
(***************************************************************************)
(* Items, messages and the shapes of a step                                *)
(***************************************************************************)

\* The fields of messages and items.
LEMMA Fields ==
    /\ \A m \in Message : m.slot \in Nat /\ m.size \in Nat
    /\ \A it \in Item : /\ it.pos \in Nat /\ it.slot \in Nat
                        /\ it.data \in Message \union {NoData}
                        /\ [it EXCEPT !.data = NoData] \in Item
                        /\ [it EXCEPT !.data = NoData].pos = it.pos
                        /\ [it EXCEPT !.data = NoData].slot = it.slot
                        /\ [it EXCEPT !.data = NoData].data = NoData
<1>1. \A m \in Message : m.slot \in Nat /\ m.size \in Nat
  BY DEF Message
<1>2. \A it \in Item : /\ it.pos \in Nat /\ it.slot \in Nat
                       /\ it.data \in Message \union {NoData}
                       /\ [it EXCEPT !.data = NoData] \in Item
                       /\ [it EXCEPT !.data = NoData].pos = it.pos
                       /\ [it EXCEPT !.data = NoData].slot = it.slot
                       /\ [it EXCEPT !.data = NoData].data = NoData
  BY DEF Item
<1> QED
  BY <1>1, <1>2

\* The item a message is stored in.
LEMMA NewItem ==
    ASSUME NEW p \in Nat, NEW m \in Message
    PROVE  LET it == [pos |-> p, slot |-> m.slot, data |-> m]
           IN it \in Item /\ it.pos = p /\ it.slot = m.slot /\ it.data = m
BY Fields DEF Item

\* Every position before the tail has its message in the log.
LEMMA LoggedType ==
    ASSUME TypeOK, RingHoldsWindow, NEW p \in Cap .. tail - 1
    PROVE  Logged(p) \in Message
<1>1. p - Cap + 1 \in 1 .. Len(log)
  BY CapAssumption DEF TypeOK, RingHoldsWindow
<1> QED
  BY <1>1 DEF TypeOK, Logged

\* The item at the head is the oldest message, when there is one.
LEMMA HeadItem ==
    ASSUME TypeOK, RingHoldsWindow, Published, head < tail
    PROVE  /\ Logged(head) \in Message
           /\ buffer[get_idx(head)].pos = head
           /\ buffer[get_idx(head)].slot = Logged(head).slot
           /\ buffer[get_idx(head)].data = Logged(head)
           /\ Logged(head) # NoData
           /\ HeadSlot = Logged(head).slot
<1>1. head \in head .. tail - 1 /\ head \in Cap .. tail - 1
  BY CapAssumption DEF TypeOK, Published
<1>2. buffer[get_idx(head)] = [pos |-> head, slot |-> Logged(head).slot, data |-> Logged(head)]
  BY <1>1 DEF RingHoldsWindow
<1> QED
  BY <1>1, <1>2, LoggedType, NoDataAssumption DEF HeadSlot

\* The item the next message is written to holds one already exactly when the
\* ring is full, and then it is the oldest.
LEMMA TailItem ==
    ASSUME TypeOK, RingHoldsWindow, Published
    PROVE  LET old == buffer[get_idx(tail)]
           IN /\ old.data # NoData => /\ tail = head + Cap
                                      /\ get_idx(tail) = get_idx(head)
                                      /\ head < tail
              /\ old.data = NoData => tail < head + Cap
<1> DEFINE i == get_idx(tail)
           p == buffer[i].pos
<1>1. /\ tail \in Nat /\ head \in Nat /\ Cap \in Nat /\ Cap > 0
      /\ i \in Indices /\ buffer[i] \in Item /\ p \in Nat
      /\ head <= tail /\ tail <= head + Cap
  <2>1. tail \in Nat /\ i \in Indices /\ buffer[i] \in Item
    BY IdxType DEF TypeOK
  <2>2. Cap \in Nat /\ Cap > 0
    BY CapAssumption
  <2>3. p \in Nat
    BY <2>1, Fields
  <2> QED
    BY <2>1, <2>2, <2>3 DEF TypeOK, RingHoldsWindow
<1>2. ASSUME buffer[i].data # NoData
      PROVE  tail = head + Cap /\ get_idx(tail) = get_idx(head) /\ head < tail
  <2>1. get_idx(p) = i /\ p < tail /\ head <= p
    BY <1>1, <1>2 DEF RingHoldsWindow
  <2>2. ASSUME tail < p + Cap PROVE FALSE
    <3>1. p < tail + Cap
      BY <1>1, <2>1
    <3>2. p = tail
      BY <1>1, <2>1, <2>2, <3>1, IdxInjective
    <3> QED
      BY <1>1, <2>1, <3>2
  <2>3. tail = head + Cap
    BY <1>1, <2>1, <2>2
  <2> QED
    BY <1>1, <2>3, IdxPeriod
<1>3. ASSUME buffer[i].data = NoData, tail = head + Cap PROVE FALSE
  <2>1. head < tail /\ get_idx(tail) = get_idx(head)
    BY <1>1, <1>3, IdxPeriod
  <2> QED
    BY <1>3, <2>1, HeadItem
<1> QED
  BY <1>1, <1>2, <1>3

\* The ring is untouched, loses its head, or gains a message at its tail.
LEMMA Shapes ==
    ASSUME [Next]_vars
    PROVE  \/ UNCHANGED <<buffer, head, tail, bytes_total, log>>
           \/ TakeHead /\ UNCHANGED <<tail, log>>
           \/ \E m \in Inputs : PushItem(m)
BY DEF Next, vars, ring, PublishTail, InsertSlot, ClearBegin, Clear, ClearBytes, ClearBytesEnd,
       RemoveMinSlot, ClearUpTo, ClearUpToEnd, ClearSame, ClearSameEnd, ClearEnd, Panic,
       get_current_tail, try_recv, LoadTail, ReadItem, Leave

-----------------------------------------------------------------------------
(***************************************************************************)
(* The ring and its accounting                                             *)
(***************************************************************************)

\* What taking the head does, in terms of the log.
LEMMA TakeHeadIs ==
    ASSUME TypeOK, RingHoldsWindow, Published, TakeHead
    PROVE  /\ head' = head + 1
           /\ bytes_total' = bytes_total - Logged(head).size
           /\ buffer' \in [Indices -> Item]
           /\ get_idx(head) \in Indices
           /\ \A i \in Indices :
                 /\ buffer'[i].pos = buffer[i].pos
                 /\ i # get_idx(head) => buffer'[i] = buffer[i]
                 /\ i = get_idx(head) => buffer'[i].data = NoData
           /\ buffer[get_idx(head)].pos = head
           /\ Logged(head) \in Message
           /\ HeadSlot = Logged(head).slot
<1> DEFINE h == get_idx(head)
           taken == [buffer[h] EXCEPT !.data = NoData]
<1>1. head < tail /\ h \in Indices /\ buffer \in [Indices -> Item] /\ buffer[h] \in Item
  BY IdxType DEF TypeOK, TakeHead
<1>2. buffer' = [buffer EXCEPT ![h] = taken]
  BY <1>1 DEF TakeHead
<1>3. taken \in Item /\ taken.pos = buffer[h].pos /\ taken.data = NoData
  BY <1>1, Fields
<1> HIDE DEF taken
<1>4. /\ buffer' \in [Indices -> Item]
      /\ \A i \in Indices :
            /\ buffer'[i].pos = buffer[i].pos
            /\ i # h => buffer'[i] = buffer[i]
            /\ i = h => buffer'[i].data = NoData
  BY <1>1, <1>2, <1>3
<1>5. head' = head + 1 /\ bytes_total' = bytes_total - Logged(head).size
  BY <1>1, HeadItem DEF TakeHead
<1> QED
  BY <1>1, <1>4, <1>5, HeadItem

\* The positions after head have other indices than head.
LEMMA OtherIndex ==
    ASSUME TypeOK, RingHoldsWindow, NEW p \in head + 1 .. tail - 1
    PROVE  get_idx(p) # get_idx(head) /\ get_idx(p) \in Indices
<1>1. p \in Nat /\ head \in Nat /\ p < head + Cap /\ head < p + Cap
  BY CapAssumption DEF TypeOK, RingHoldsWindow
<1> QED
  BY <1>1, IdxInjective, IdxType

\* Taking the head leaves the window that begins one later.
LEMMA TakeHeadWindow ==
    ASSUME TypeOK, RingHoldsWindow, Published, TakeHead, UNCHANGED <<tail, log>>
    PROVE  RingHoldsWindow'
<1>1. /\ head \in Nat /\ tail \in Nat /\ Cap \in Nat /\ head < tail /\ head' = head + 1
      /\ tail' = tail /\ log' = log
      /\ head <= tail /\ tail <= head + Cap /\ tail = Cap + Len(log)
  BY CapAssumption, TakeHeadIs DEF TypeOK, RingHoldsWindow, TakeHead
<1>2. head' <= tail' /\ tail' <= head' + Cap /\ tail' = Cap + Len(log')
  BY <1>1
<1>3. ASSUME NEW p \in head' .. tail' - 1
      PROVE  buffer'[get_idx(p)]
               = [pos |-> p, slot |-> Logged(p)'.slot, data |-> Logged(p)']
  <2>1. p \in head + 1 .. tail - 1 /\ p \in head .. tail - 1
    BY <1>1
  <2>2. buffer'[get_idx(p)] = buffer[get_idx(p)]
    BY <2>1, OtherIndex, TakeHeadIs
  <2>3. Logged(p)' = Logged(p)
    BY <1>1 DEF Logged
  <2> QED
    BY <2>1, <2>2, <2>3 DEF RingHoldsWindow
<1>4. ASSUME NEW i \in Indices
      PROVE  /\ get_idx(buffer'[i].pos) = i
             /\ buffer'[i].pos < tail'
             /\ buffer'[i].data # NoData => head' <= buffer'[i].pos
  <2>1. /\ get_idx(buffer[i].pos) = i /\ buffer[i].pos < tail
        /\ buffer[i].data # NoData => head <= buffer[i].pos
        /\ buffer[i] \in Item /\ buffer[i].pos \in Nat
    BY Fields DEF RingHoldsWindow, TypeOK
  <2>2. buffer'[i].pos = buffer[i].pos
    BY TakeHeadIs
  <2>3. CASE i = get_idx(head)
    BY <1>1, <2>1, <2>2, <2>3, TakeHeadIs
  <2>4. CASE i # get_idx(head)
    <3>1. buffer'[i] = buffer[i] /\ buffer[i].pos # head
      BY <2>1, <2>4, TakeHeadIs
    <3> QED
      BY <1>1, <2>1, <3>1
  <2> QED
    BY <2>3, <2>4
<1> QED
  BY <1>2, <1>3, <1>4 DEF RingHoldsWindow, get_idx

\* What pushing a message does, in terms of the log.
LEMMA PushIs ==
    ASSUME TypeOK, RingHoldsWindow, Published, NEW m \in Inputs, PushItem(m)
    PROVE  /\ m \in Message
           /\ tail' = tail + 1
           /\ log' = Append(log, m)
           /\ get_idx(tail) \in Indices
           /\ buffer' \in [Indices -> Item]
           /\ buffer'[get_idx(tail)] = [pos |-> tail, slot |-> m.slot, data |-> m]
           /\ \A i \in Indices : i # get_idx(tail) => buffer'[i] = buffer[i]
           /\ \/ /\ tail = head + Cap /\ head < tail /\ head' = head + 1
                 /\ bytes_total' = bytes_total - Logged(head).size + m.size
                 /\ slots' = Without(slots, Logged(head).slot)
                 /\ shared_slots' = IF Logged(head).slot \in DOMAIN slots
                                    THEN Without(shared_slots, Logged(head).slot)
                                    ELSE shared_slots
              \/ /\ tail < head + Cap /\ head' = head
                 /\ bytes_total' = bytes_total + m.size
                 /\ slots' = slots /\ shared_slots' = shared_slots
           /\ \A p \in Cap .. tail - 1 : Logged(p)' = Logged(p)
           /\ log'[tail - Cap + 1] = m
<1> DEFINE i == get_idx(tail)
           old == buffer[i]
           new == [pos |-> tail, slot |-> m.slot, data |-> m]
<1>1. m \in Message /\ tail \in Nat /\ i \in Indices /\ buffer \in [Indices -> Item]
  BY InputsAssumption, IdxType DEF TypeOK
<1>2. new \in Item
  BY <1>1, NewItem
<1>3. buffer' = [buffer EXCEPT ![i] = new]
  BY DEF PushItem
<1> HIDE DEF new
<1>4. /\ buffer' \in [Indices -> Item] /\ buffer'[i] = new
      /\ \A j \in Indices : j # i => buffer'[j] = buffer[j]
  BY <1>1, <1>2, <1>3
<1>5. tail' = tail + 1 /\ log' = Append(log, m)
  BY DEF PushItem
<1>6. \/ /\ tail = head + Cap /\ head < tail /\ head' = head + 1
         /\ bytes_total' = bytes_total - Logged(head).size + m.size
         /\ slots' = Without(slots, Logged(head).slot)
         /\ shared_slots' = IF Logged(head).slot \in DOMAIN slots
                            THEN Without(shared_slots, Logged(head).slot)
                            ELSE shared_slots
      \/ /\ tail < head + Cap /\ head' = head
         /\ bytes_total' = bytes_total + m.size
         /\ slots' = slots /\ shared_slots' = shared_slots
  <2>1. CASE old.data # NoData
    <3>1. /\ tail = head + Cap /\ head < tail /\ i = get_idx(head)
          /\ old.data = Logged(head) /\ old.slot = Logged(head).slot
      BY <2>1, TailItem, HeadItem
    <3>2. /\ head' = head + 1
          /\ bytes_total' = bytes_total - old.data.size + m.size
          /\ slots' = Without(slots, old.slot)
          /\ shared_slots' = IF old.slot \in DOMAIN slots
                             THEN Without(shared_slots, old.slot) ELSE shared_slots
      BY <2>1 DEF PushItem
    <3> HIDE DEF old
    <3> QED
      BY <3>1, <3>2
  <2>2. CASE old.data = NoData
    BY <2>2, TailItem DEF PushItem
  <2> QED
    BY <2>1, <2>2
<1>7. /\ \A p \in Cap .. tail - 1 : Logged(p)' = Logged(p)
      /\ log'[tail - Cap + 1] = m
  <2>1. tail = Cap + Len(log) /\ Cap \in Nat /\ log \in Seq(Message)
    BY CapAssumption DEF RingHoldsWindow, TypeOK
  <2>2. /\ \A k \in 1 .. Len(log) : log'[k] = log[k]
        /\ log'[Len(log) + 1] = m
    BY <1>1, <1>5, <2>1
  <2>3. \A p \in Cap .. tail - 1 : p - Cap + 1 \in 1 .. Len(log)
    BY <2>1
  <2>4. tail - Cap + 1 = Len(log) + 1
    BY <2>1
  <2> QED
    BY <2>2, <2>3, <2>4 DEF Logged
<1> QED
  BY <1>1, <1>4, <1>5, <1>6, <1>7 DEF new

\* Pushing a message leaves the window that ends one later.
LEMMA PushWindow ==
    ASSUME TypeOK, RingHoldsWindow, Published, NEW m \in Inputs, PushItem(m)
    PROVE  RingHoldsWindow'
<1>1. /\ head \in Nat /\ tail \in Nat /\ Cap \in Nat /\ Cap > 0 /\ tail' = tail + 1
      /\ Cap <= head /\ head <= tail /\ tail <= head + Cap /\ tail = Cap + Len(log)
      /\ log \in Seq(Message)
  <2>1. Cap \in Nat /\ Cap > 0
    BY CapAssumption
  <2>2. tail' = tail + 1
    BY DEF PushItem
  <2> QED
    BY <2>1, <2>2 DEF TypeOK, RingHoldsWindow, Published
<1>2. head' \in Nat /\ head <= head' /\ head' <= tail' /\ tail' <= head' + Cap
  <2>1. \/ tail = head + Cap /\ head' = head + 1
        \/ tail < head + Cap /\ head' = head
    BY PushIs
  <2> QED
    BY <1>1, <2>1
<1>3. tail' = Cap + Len(log')
  <2>1. m \in Message /\ log' = Append(log, m)
    BY InputsAssumption DEF PushItem
  <2> QED
    BY <1>1, <2>1
<1>4. ASSUME NEW p \in head' .. tail' - 1
      PROVE  buffer'[get_idx(p)]
               = [pos |-> p, slot |-> Logged(p)'.slot, data |-> Logged(p)']
  <2>1. CASE p = tail
    <3>1. Logged(p)' = m
      BY <2>1, PushIs DEF Logged
    <3>2. buffer'[get_idx(tail)] = [pos |-> tail, slot |-> m.slot, data |-> m]
      BY PushIs
    <3> QED
      BY <2>1, <3>1, <3>2
  <2>2. CASE p # tail
    <3>1. p \in head .. tail - 1 /\ p \in Cap .. tail - 1 /\ p \in Nat
      BY <1>1, <1>2, <2>2
    <3>2. get_idx(p) # get_idx(tail) /\ get_idx(p) \in Indices
      <4>1. tail < p + Cap /\ p < tail + Cap
        BY <1>1, <1>2, <2>2
      <4> QED
        BY <1>1, <2>2, <3>1, <4>1, IdxInjective, IdxType
    <3>3. buffer'[get_idx(p)] = buffer[get_idx(p)] /\ Logged(p)' = Logged(p)
      BY <3>1, <3>2, PushIs
    <3> QED
      BY <3>1, <3>3 DEF RingHoldsWindow
  <2> QED
    BY <2>1, <2>2
<1>5. ASSUME NEW i \in Indices
      PROVE  /\ get_idx(buffer'[i].pos) = i
             /\ buffer'[i].pos < tail'
             /\ buffer'[i].data # NoData => head' <= buffer'[i].pos
  <2>1. CASE i = get_idx(tail)
    <3>1. buffer'[i].pos = tail
      <4>1. buffer'[i] = [pos |-> tail, slot |-> m.slot, data |-> m]
        BY <2>1, PushIs
      <4> QED
        BY <4>1
    <3>2. head' <= tail
      <4>1. (head' = head + 1 /\ head < tail) \/ head' = head
        BY PushIs
      <4> QED
        BY <1>1, <4>1
    <3> QED
      BY <1>1, <2>1, <3>1, <3>2
  <2>2. CASE i # get_idx(tail)
    <3>1. /\ buffer'[i] = buffer[i]
          /\ get_idx(buffer[i].pos) = i /\ buffer[i].pos < tail
          /\ buffer[i].data # NoData => head <= buffer[i].pos
          /\ buffer[i].pos \in Nat
      BY <2>2, PushIs, Fields DEF RingHoldsWindow, TypeOK
    <3>2. CASE head' = head
      BY <1>1, <3>1, <3>2
    <3>3. CASE head' = head + 1 /\ tail = head + Cap
      <4>1. buffer[i].pos # head
        BY <1>1, <2>2, <3>1, <3>3, IdxPeriod
      <4> QED
        BY <1>1, <3>1, <3>3, <4>1
    <3> QED
      BY <3>2, <3>3, PushIs
  <2> QED
    BY <2>1, <2>2
<1> QED
  BY <1>2, <1>3, <1>4, <1>5 DEF RingHoldsWindow, get_idx

\* Every step keeps the window.
LEMMA WindowStep ==
    ASSUME TypeOK, RingHoldsWindow, Published, [Next]_vars
    PROVE  RingHoldsWindow'
<1>1. CASE UNCHANGED <<buffer, head, tail, bytes_total, log>>
  BY <1>1 DEF RingHoldsWindow, Logged
<1> QED
  BY <1>1, Shapes, TakeHeadWindow, PushWindow

\* Every step keeps the account of the bytes.
LEMMA AccountedStep ==
    ASSUME TypeOK, RingHoldsWindow, Published, Accounted, [Next]_vars
    PROVE  Accounted'
<1>1. PICK worth \in [Nat -> Nat] : Worth(worth) /\ bytes_total = worth[tail] - worth[head]
  BY DEF Accounted
<1>2. /\ head \in Nat /\ tail \in Nat /\ Cap \in Nat /\ Cap > 0
      /\ Cap <= head /\ head <= tail
  BY CapAssumption DEF TypeOK, RingHoldsWindow, Published
<1>3. CASE UNCHANGED <<buffer, head, tail, bytes_total, log>>
  <2>1. Worth(worth)'
    BY <1>1, <1>3 DEF Worth, Logged
  <2> QED
    BY <1>1, <1>3, <2>1 DEF Accounted
<1>4. CASE TakeHead /\ UNCHANGED <<tail, log>>
  <2>1. Worth(worth)'
    BY <1>1, <1>4 DEF Worth, Logged
  <2>2. head < tail /\ head' = head + 1 /\ bytes_total' = bytes_total - Logged(head).size
        /\ Logged(head).size \in Nat
    BY <1>4, TakeHeadIs, Fields DEF TakeHead
  <2>3. worth[head + 1] = worth[head] + Logged(head).size
    BY <1>1, <1>2, <2>2 DEF Worth
  <2>4. bytes_total' = worth[tail'] - worth[head']
    <3>1. worth[head] \in Nat /\ worth[tail] \in Nat /\ tail' = tail
      BY <1>1, <1>2, <1>4
    <3> QED
      BY <1>1, <2>2, <2>3, <3>1
  <2> QED
    BY <2>1, <2>4 DEF Accounted
<1>5. ASSUME NEW m \in Inputs, PushItem(m) PROVE Accounted'
  <2>0. PICK more : more = [worth EXCEPT ![tail + 1] = worth[tail] + m.size]
    OBVIOUS
  <2>1. m.size \in Nat /\ tail' = tail + 1
    BY <1>5, PushIs, Fields
  <2>2. /\ more \in [Nat -> Nat] /\ more[tail + 1] = worth[tail] + m.size
        /\ \A p \in Cap .. tail : more[p] = worth[p]
    BY <1>2, <2>0, <2>1
  <2>3. ASSUME NEW p \in Cap .. tail' - 1
        PROVE  more[p + 1] = more[p] + Logged(p)'.size
    <3>1. CASE p = tail
      <4>1. Logged(p)' = m
        BY <1>5, <3>1, PushIs DEF Logged
      <4>2. tail \in Cap .. tail
        BY <1>2
      <4> QED
        BY <2>2, <3>1, <4>1, <4>2
    <3>2. CASE p # tail
      <4>1. p \in Cap .. tail - 1 /\ p \in Cap .. tail /\ p + 1 \in Cap .. tail
        BY <1>2, <2>1, <3>2
      <4>2. Logged(p)' = Logged(p)
        BY <1>5, <4>1, PushIs
      <4>3. worth[p + 1] = worth[p] + Logged(p).size
        BY <1>1, <4>1 DEF Worth
      <4> QED
        BY <2>2, <4>1, <4>2, <4>3
    <3> QED
      BY <3>1, <3>2
  <2>4. ASSUME NEW p \in Cap .. tail', NEW q \in Cap .. tail', p <= q
        PROVE  more[p] <= more[q]
    <3>1. \A a, b \in Cap .. tail : a <= b => worth[a] <= worth[b]
      BY <1>1 DEF Worth
    <3>2. CASE q \in Cap .. tail
      <4>1. p \in Cap .. tail
        BY <1>2, <2>1, <2>4, <3>2
      <4> QED
        BY <2>2, <2>4, <3>1, <3>2, <4>1
    <3>3. CASE q = tail + 1
      <4>1. CASE p = tail + 1
        BY <2>1, <2>2, <3>3, <4>1, <1>2
      <4>2. CASE p \in Cap .. tail
        <5>1. worth[p] <= worth[tail] /\ worth[p] \in Nat /\ worth[tail] \in Nat
          BY <1>1, <1>2, <3>1, <4>2
        <5> QED
          BY <2>1, <2>2, <3>3, <4>2, <5>1
      <4> QED
        BY <1>2, <2>1, <4>1, <4>2
    <3> QED
      BY <1>2, <2>1, <3>2, <3>3
  <2>5. Worth(more)'
    BY <2>2, <2>3, <2>4 DEF Worth
  <2>6. bytes_total' = more[tail'] - more[head']
    <3>1. /\ worth[tail] \in Nat /\ worth[head] \in Nat
          /\ more[tail'] = worth[tail] + m.size
          /\ more[head] = worth[head] /\ bytes_total = worth[tail] - worth[head]
      BY <1>1, <1>2, <2>1, <2>2
    <3>2. CASE head' = head /\ bytes_total' = bytes_total + m.size
      BY <2>1, <3>1, <3>2
    <3>3. CASE /\ head < tail /\ head' = head + 1
               /\ bytes_total' = bytes_total - Logged(head).size + m.size
      <4>1. worth[head + 1] = worth[head] + Logged(head).size /\ more[head + 1] = worth[head + 1]
        BY <1>1, <1>2, <2>2, <3>3 DEF Worth
      <4>2. Logged(head).size \in Nat
        BY <1>2, <3>3, LoggedType, Fields
      <4> QED
        BY <2>1, <3>1, <3>3, <4>1, <4>2
    <3> QED
      BY <1>5, <3>2, <3>3, PushIs
  <2> QED
    BY <2>2, <2>5, <2>6 DEF Accounted
<1> QED
  BY <1>3, <1>4, <1>5, Shapes

\* What the account says of bytes_total.
LEMMA BytesNat ==
    ASSUME head \in Nat, tail \in Nat, Cap <= head, head <= tail, Accounted
    PROVE  bytes_total \in Nat /\ (head = tail => bytes_total = 0)
<1>1. PICK worth \in [Nat -> Nat] : Worth(worth) /\ bytes_total = worth[tail] - worth[head]
  BY DEF Accounted
<1>2. worth[head] <= worth[tail] /\ worth[head] \in Nat /\ worth[tail] \in Nat
  BY <1>1, CapAssumption DEF Worth
<1> QED
  BY <1>1, <1>2

-----------------------------------------------------------------------------
(***************************************************************************)
(* Slots                                                                   *)
(***************************************************************************)

\* Forgetting a slot, as push and try_clear do when its message goes.
Forgets(s) ==
    /\ slots' = Without(slots, s)
    /\ shared_slots' = IF s \in DOMAIN slots THEN Without(shared_slots, s) ELSE shared_slots

\* Once the slot of the head is forgotten no other slot begins at the head.
LEMMA ForgetKeeps ==
    ASSUME TypeOK, KnownSlotRetained, NEW s, Forgets(s), s = Logged(head).slot
    PROVE  \A t \in DOMAIN slots' :
              /\ t \in DOMAIN slots /\ slots'[t] = slots[t]
              /\ slots[t] \in head + 1 .. tail - 1
              /\ Logged(slots[t]).slot = t
              /\ t \in DOMAIN shared_slots' /\ shared_slots'[t] = slots[t]
<1> SUFFICES ASSUME NEW t \in DOMAIN slots'
             PROVE  /\ t \in DOMAIN slots /\ slots'[t] = slots[t]
                    /\ slots[t] \in head + 1 .. tail - 1
                    /\ Logged(slots[t]).slot = t
                    /\ t \in DOMAIN shared_slots' /\ shared_slots'[t] = slots[t]
  OBVIOUS
<1>1. t \in DOMAIN slots /\ t # s /\ slots'[t] = slots[t]
  BY DEF Forgets, Without
<1>2. /\ slots[t] \in head .. tail - 1 /\ Logged(slots[t]).slot = t
      /\ t \in DOMAIN shared_slots /\ shared_slots[t] = slots[t]
  BY <1>1 DEF KnownSlotRetained
<1>3. slots[t] # head
  BY <1>1, <1>2
<1>4. slots[t] \in head + 1 .. tail - 1
  BY <1>2, <1>3 DEF TypeOK
<1>5. t \in DOMAIN shared_slots' /\ shared_slots'[t] = shared_slots[t]
  BY <1>1, <1>2 DEF Forgets, Without
<1> QED
  BY <1>1, <1>2, <1>4, <1>5

\* Every step keeps the known slots in the ring.
LEMMA KnownStep ==
    ASSUME TypeOK, RingHoldsWindow, Published, KnownSlotRetained, SenderAt, [Next]_vars
    PROVE  KnownSlotRetained'
<1>0. /\ head \in Nat /\ tail \in Nat /\ Cap \in Nat /\ Cap <= head
  BY CapAssumption DEF TypeOK, Published
<1>1. CASE UNCHANGED <<slots, shared_slots, head, tail, log>>
  BY <1>1 DEF KnownSlotRetained, Logged
<1>2. ASSUME TakeHead, Forgets(HeadSlot), UNCHANGED <<tail, log>> PROVE KnownSlotRetained'
  <2>1. head' = head + 1 /\ HeadSlot = Logged(head).slot
    BY <1>2, TakeHeadIs
  <2>2. \A t \in DOMAIN slots' :
           /\ slots'[t] = slots[t]
           /\ slots[t] \in head + 1 .. tail - 1
           /\ Logged(slots[t]).slot = t
           /\ t \in DOMAIN shared_slots' /\ shared_slots'[t] = slots[t]
    BY <1>2, <2>1, ForgetKeeps
  <2> QED
    BY <1>2, <2>1, <2>2 DEF KnownSlotRetained, Logged
<1>3. ASSUME NEW m \in Inputs, PushItem(m) PROVE KnownSlotRetained'
  <2>1. tail' = tail + 1 /\ \A p \in Cap .. tail - 1 : Logged(p)' = Logged(p)
    BY <1>3, PushIs
  <2>2. ASSUME NEW t \in DOMAIN slots'
        PROVE  /\ slots'[t] \in head' .. tail - 1
               /\ Logged(slots'[t]).slot = t
               /\ t \in DOMAIN shared_slots' /\ shared_slots'[t] = slots'[t]
    <3>1. CASE head' = head + 1 /\ Forgets(Logged(head).slot)
      BY <3>1, ForgetKeeps
    <3>2. CASE head' = head /\ slots' = slots /\ shared_slots' = shared_slots
      BY <3>2 DEF KnownSlotRetained
    <3> QED
      BY <1>3, <3>1, <3>2, PushIs DEF Forgets
  <2>3. head <= head' /\ head' \in Nat
    <3>1. head' = head + 1 \/ head' = head
      BY <1>3, PushIs
    <3> QED
      BY <1>0, <3>1
  <2>4. ASSUME NEW t \in DOMAIN slots'
        PROVE  /\ slots'[t] \in head' .. tail' - 1
               /\ log'[slots'[t] - Cap + 1].slot = t
    <3>1. slots'[t] \in Cap .. tail - 1 /\ slots'[t] \in head' .. tail' - 1
      BY <1>0, <2>1, <2>2, <2>3, <2>4
    <3>2. PICK p : p = slots'[t]
      OBVIOUS
    <3>3. Logged(p)' = Logged(p)
      BY <2>1, <3>1, <3>2
    <3> QED
      BY <2>2, <3>1, <3>2, <3>3 DEF Logged
  <2> QED
    BY <2>2, <2>4 DEF KnownSlotRetained, Logged
<1>4. CASE InsertSlot
  <2> DEFINE s == Logged(tail - 1).slot
  <2>1. CASE s \in DOMAIN slots
    <3>1. UNCHANGED <<slots, shared_slots, head, tail, log>>
      BY <1>4, <2>1 DEF InsertSlot
    <3> QED
      BY <1>1, <3>1
  <2>2. CASE s \notin DOMAIN slots
    <3>1. /\ slots' = With(slots, s, tail - 1)
          /\ shared_slots' = With(shared_slots, s, tail - 1)
          /\ UNCHANGED <<head, tail, log>> /\ head < tail
      BY <1>4, <2>2 DEF InsertSlot, SenderAt
    <3>2. tail - 1 \in head .. tail - 1
      BY <1>0, <3>1
    <3>3. ASSUME NEW t \in DOMAIN slots'
          PROVE  /\ slots'[t] \in head .. tail - 1
                 /\ Logged(slots'[t]).slot = t
                 /\ t \in DOMAIN shared_slots' /\ shared_slots'[t] = slots'[t]
      <4>1. CASE t = s
        <5>1. slots'[t] = tail - 1 /\ t \in DOMAIN shared_slots' /\ shared_slots'[t] = tail - 1
          BY <3>1, <4>1 DEF With
        <5> QED
          BY <3>2, <4>1, <5>1
      <4>2. CASE t # s
        <5>1. t \in DOMAIN slots
          BY <3>1, <4>2 DEF With
        <5>2. /\ slots[t] \in head .. tail - 1 /\ Logged(slots[t]).slot = t
              /\ t \in DOMAIN shared_slots /\ shared_slots[t] = slots[t]
          BY <5>1 DEF KnownSlotRetained
        <5>3. /\ slots'[t] = slots[t] /\ t \in DOMAIN shared_slots'
              /\ shared_slots'[t] = shared_slots[t]
          BY <3>1, <4>2, <5>1, <5>2 DEF With
        <5> QED
          BY <5>2, <5>3
      <4> QED
        BY <4>1, <4>2
    <3> QED
      BY <3>1, <3>3 DEF KnownSlotRetained, Logged
  <2> QED
    BY <2>1, <2>2
<1>5. CASE RemoveMinSlot
  <2>1. PICK s \in DOMAIN slots : slots' = Without(slots, s)
    BY <1>5 DEF RemoveMinSlot
  <2>2. \A t \in DOMAIN slots' : t \in DOMAIN slots /\ slots'[t] = slots[t]
    BY <2>1 DEF Without
  <2>3. UNCHANGED <<head, tail, log, shared_slots>>
    BY <1>5 DEF RemoveMinSlot, shared
  <2> QED
    BY <2>2, <2>3 DEF KnownSlotRetained, Logged
<1>6. CASE ClearSame
  <2>1. /\ victim.slot \notin DOMAIN slots /\ HeadSlot = victim.slot /\ TakeHead
        /\ UNCHANGED <<tail, log, slots, shared_slots>>
    BY <1>6 DEF ClearSame, SenderAt, shared
  <2>2. head' = head + 1 /\ Logged(head).slot \notin DOMAIN slots
    BY <2>1, TakeHeadIs
  <2>3. \A t \in DOMAIN slots : slots[t] \in head + 1 .. tail - 1
    <3> SUFFICES ASSUME NEW t \in DOMAIN slots PROVE slots[t] \in head + 1 .. tail - 1
      OBVIOUS
    <3>1. slots[t] \in head .. tail - 1 /\ Logged(slots[t]).slot = t
      BY DEF KnownSlotRetained
    <3>2. slots[t] # head
      BY <2>2, <3>1
    <3> QED
      BY <1>0, <3>1, <3>2
  <2> QED
    BY <2>1, <2>2, <2>3 DEF KnownSlotRetained, Logged
<1>7. CASE ClearBytes \/ ClearUpTo
  BY <1>2, <1>7 DEF ClearBytes, ClearUpTo, ForgetHeadSlot, Forgets
<1> QED
  BY <1>1, <1>3, <1>4, <1>5, <1>6, <1>7
     DEF Next, vars, ring, shared, PublishTail, ClearBegin, Clear, ClearBytesEnd, ClearUpToEnd,
         ClearSameEnd, ClearEnd, Panic, get_current_tail, try_recv, LoadTail, ReadItem, Leave

\* What is removed from a map, or added to it, leaves the other positions alone.
LEMMA SharedSlotsStep ==
    ASSUME TypeOK, Published, [Next]_vars
    PROVE  \/ \A s \in DOMAIN shared_slots' :
                 s \in DOMAIN shared_slots /\ shared_slots'[s] = shared_slots[s]
           \/ InsertSlot /\ \A s \in DOMAIN shared_slots' :
                 \/ s \in DOMAIN shared_slots /\ shared_slots'[s] = shared_slots[s]
                 \/ shared_slots'[s] = tail - 1
<1> DEFINE Fewer == \A s \in DOMAIN shared_slots' :
                       s \in DOMAIN shared_slots /\ shared_slots'[s] = shared_slots[s]
<1>1. CASE UNCHANGED shared_slots
  BY <1>1
<1>2. ASSUME NEW m \in Inputs, PushItem(m) PROVE Fewer
  BY <1>2 DEF PushItem, Without
<1>3. CASE ClearBytes \/ ClearUpTo
  BY <1>3 DEF ClearBytes, ClearUpTo, ForgetHeadSlot, Without
<1>4. CASE InsertSlot
  BY <1>4 DEF InsertSlot, With
<1> QED
  BY <1>1, <1>2, <1>3, <1>4
     DEF Next, vars, ring, shared, PublishTail, ClearBegin, Clear, ClearBytesEnd, RemoveMinSlot,
         ClearUpToEnd, ClearSame, ClearSameEnd, ClearEnd, Panic, get_current_tail, try_recv,
         LoadTail, ReadItem, Leave

\* The window only moves on.
LEMMA Onwards ==
    ASSUME TypeOK, RingHoldsWindow, Published, [Next]_vars
    PROVE  /\ head' \in Nat /\ tail' \in Nat
           /\ head <= head' /\ tail <= tail'
           /\ \A p \in Cap .. tail - 1 : Logged(p)' = Logged(p)
<1>0. head \in Nat /\ tail \in Nat
  BY DEF TypeOK
<1>1. CASE UNCHANGED <<buffer, head, tail, bytes_total, log>>
  BY <1>0, <1>1 DEF Logged
<1>2. CASE TakeHead /\ UNCHANGED <<tail, log>>
  BY <1>0, <1>2 DEF Logged, TakeHead
<1>3. ASSUME NEW m \in Inputs, PushItem(m)
      PROVE  /\ head' \in Nat /\ tail' \in Nat
             /\ head <= head' /\ tail <= tail'
             /\ \A p \in Cap .. tail - 1 : Logged(p)' = Logged(p)
  <2>1. /\ tail' = tail + 1 /\ \A p \in Cap .. tail - 1 : Logged(p)' = Logged(p)
        /\ head' = head + 1 \/ head' = head
    BY <1>3, PushIs
  <2> QED
    BY <1>0, <2>1
<1> QED
  BY <1>1, <1>2, <1>3, Shapes

\* Every step keeps what readers can load within the log.
LEMMA PublishedStep ==
    ASSUME TypeOK, RingHoldsWindow, Published, SenderAt, [Next]_vars
    PROVE  Published'
<1>0. /\ head \in Nat /\ tail \in Nat /\ Cap \in Nat /\ Cap <= head /\ head <= tail
      /\ shared_tail \in Cap .. tail
      /\ head' \in Nat /\ tail' \in Nat /\ head <= head' /\ tail <= tail'
  BY CapAssumption, Onwards DEF TypeOK, RingHoldsWindow, Published
<1>1. shared_tail' \in Cap .. tail'
  <2>1. CASE shared_tail' = shared_tail
    BY <1>0, <2>1
  <2>2. CASE PublishTail
    <3>1. shared_tail' = tail - 1 /\ tail' = tail /\ head < tail
      BY <2>2 DEF PublishTail, ring, SenderAt
    <3> QED
      BY <1>0, <3>1
  <2> QED
    BY <2>1, <2>2
       DEF Next, vars, ring, shared, PushItem, InsertSlot, ClearBegin, Clear, ClearBytes,
           ClearBytesEnd, RemoveMinSlot, ClearUpTo, ClearUpToEnd, ClearSame, ClearSameEnd,
           ClearEnd, Panic, get_current_tail, try_recv, LoadTail, ReadItem, Leave
<1>2. ASSUME NEW s \in DOMAIN shared_slots' PROVE shared_slots'[s] \in Cap .. tail' - 1
  <2>1. CASE s \in DOMAIN shared_slots /\ shared_slots'[s] = shared_slots[s]
    <3>1. shared_slots[s] \in Cap .. tail - 1
      BY <2>1 DEF Published
    <3> QED
      BY <1>0, <2>1, <3>1
  <2>2. CASE InsertSlot /\ shared_slots'[s] = tail - 1
    <3>1. head < tail /\ tail' = tail
      BY <2>2 DEF InsertSlot, SenderAt
    <3> QED
      BY <1>0, <2>2, <3>1
  <2> QED
    BY <2>1, <2>2, SharedSlotsStep
<1> QED
  BY <1>0, <1>1, <1>2 DEF Published

-----------------------------------------------------------------------------
(***************************************************************************)
(* The parser thread                                                       *)
(***************************************************************************)

\* Every step leaves the parser thread with what it knows.
LEMMA SenderAtStep ==
    ASSUME TypeOK, RingHoldsWindow, Published, KnownSlotRetained, SenderAt, Accounted, [Next]_vars
    PROVE  SenderAt'
<1>0. /\ head \in Nat /\ tail \in Nat /\ bytes_total \in Nat /\ BytesMax \in Nat
      /\ Cap \in Nat /\ Cap > 0 /\ head <= tail
  <2>1. Cap \in Nat /\ Cap > 0
    BY CapAssumption
  <2> QED
    BY <2>1, LimitsAssumption DEF TypeOK, RingHoldsWindow
<1>1. CASE UNCHANGED <<pc, head, tail, victim, slots, bytes_total>>
  BY <1>1 DEF SenderAt
<1>2. ASSUME NEW m \in Inputs, PushItem(m) PROVE SenderAt'
  <2>1. pc' = "publish" /\ tail' = tail + 1
    BY <1>2 DEF PushItem
  <2>2. (head' = head + 1 /\ head < tail) \/ head' = head
    BY <1>2, PushIs
  <2>3. head' < tail'
    BY <1>0, <2>1, <2>2
  <2> QED
    BY <2>1, <2>3 DEF SenderAt
<1>3. CASE PublishTail
  BY <1>3 DEF PublishTail, SenderAt, ring
<1>4. CASE InsertSlot \/ ClearBegin \/ Panic
  <2>1. pc' \in {"more", "bytes", "panicked"}
    BY <1>4 DEF InsertSlot, ClearBegin, Panic
  <2> QED
    BY <2>1 DEF SenderAt
<1>5. CASE ClearBytes
  BY <1>5 DEF ClearBytes, SenderAt
<1>6. CASE ClearBytesEnd
  BY <1>6 DEF ClearBytesEnd, SenderAt, ring
<1>7. CASE RemoveMinSlot
  <2>1. PICK s \in DOMAIN slots : victim' = [slot |-> s, head |-> slots[s]]
                                  /\ slots' = Without(slots, s)
    BY <1>7 DEF RemoveMinSlot
  <2>2. s \notin DOMAIN slots' /\ victim'.slot = s /\ victim'.head = slots[s]
    BY <2>1 DEF Without
  <2>3. slots[s] < tail /\ tail' = tail
    BY <1>0, <1>7 DEF KnownSlotRetained, RemoveMinSlot
  <2>4. pc' = "upto" /\ pc = "slots" /\ bytes_total' = bytes_total
    BY <1>7 DEF RemoveMinSlot
  <2> QED
    BY <2>2, <2>3, <2>4 DEF SenderAt
<1>8. CASE ClearUpTo \/ ClearSame
  <2>1. TakeHead /\ UNCHANGED <<pc, victim, tail>> /\ pc \in {"upto", "same"}
    BY <1>8 DEF ClearUpTo, ClearSame
  <2>2. DOMAIN slots' \subseteq DOMAIN slots
    BY <1>8 DEF ClearUpTo, ClearSame, ForgetHeadSlot, Without
  <2>3. bytes_total' <= bytes_total /\ bytes_total' \in Int
    <3>1. bytes_total' = bytes_total - Logged(head).size /\ Logged(head) \in Message
      BY <2>1, TakeHeadIs
    <3> QED
      BY <1>0, <3>1, Fields
  <2>4. bytes_total' <= BytesMax
    BY <1>0, <2>1, <2>3 DEF SenderAt
  <2> QED
    BY <2>1, <2>2, <2>4 DEF SenderAt
<1>9. CASE ClearUpToEnd
  BY <1>9 DEF ClearUpToEnd, SenderAt, ring
<1>10. CASE ClearSameEnd
  BY <1>10 DEF ClearSameEnd, SenderAt, ring
<1>11. CASE ClearEnd
  BY <1>11 DEF ClearEnd, SenderAt, ring
<1> QED
  BY <1>1, <1>2, <1>3, <1>4, <1>5, <1>6, <1>7, <1>8, <1>9, <1>10, <1>11
     DEF Next, vars, ring, Clear, get_current_tail, try_recv, LoadTail, ReadItem, Leave

-----------------------------------------------------------------------------
(***************************************************************************)
(* Readers                                                                 *)
(***************************************************************************)

\* A reader that reads finds its message, unless it was removed.
LEMMA ReadFinds ==
    ASSUME TypeOK, RingHoldsWindow, Published, NEW p \in Cap .. tail - 1
    PROVE  LET item == buffer[get_idx(p)]
           IN /\ item.pos = p /\ item.data # NoData => item.data = Logged(p)
              /\ item.pos # p \/ item.data = NoData => p < head
<1> DEFINE i == get_idx(p)
<1>1. p \in Nat /\ head \in Nat /\ tail \in Nat /\ Cap \in Nat
  BY CapAssumption DEF TypeOK
<1>2. i \in Indices
  BY <1>1, IdxType
<1>3. CASE p \in head .. tail - 1
  <2>1. buffer[i] = [pos |-> p, slot |-> Logged(p).slot, data |-> Logged(p)]
    BY <1>3 DEF RingHoldsWindow
  <2>2. Logged(p) # NoData
    BY LoggedType, NoDataAssumption
  <2> QED
    BY <2>1, <2>2
<1>4. CASE p < head
  <2>1. buffer[i].data # NoData => head <= buffer[i].pos
    BY <1>2 DEF RingHoldsWindow
  <2> QED
    BY <1>1, <1>4, <2>1
<1> QED
  BY <1>1, <1>3, <1>4

\* What a reader was handed stays a stretch of the log.
LEMMA FollowsStable ==
    ASSUME TypeOK, RingHoldsWindow, Published, [Next]_vars, NEW c \in Clients, Follows(c),
           next'[c] = next[c], start'[c] = start[c], got'[c] = got[c],
           rpc'[c] = "read" => rpc[c] = "read" \/ next[c] < shared_tail
    PROVE  Follows(c)'
<1>1. /\ Cap \in Nat /\ tail \in Nat /\ tail' \in Nat /\ tail <= tail' /\ start[c] \in Nat
      /\ next[c] \in Nat /\ Len(got[c]) \in Nat /\ shared_tail \in Nat /\ shared_tail <= tail
  <2>1. tail' \in Nat /\ tail <= tail'
    BY Onwards
  <2>2. shared_tail <= tail /\ Cap \in Nat
    BY CapAssumption DEF Published, TypeOK
  <2> QED
    BY <2>1, <2>2 DEF TypeOK
<1>2. ASSUME NEW i \in 1 .. Len(got[c]) PROVE got'[c][i] = Logged(start[c] + i - 1)'
  <2>1. start[c] + i - 1 \in Cap .. tail - 1
    BY <1>1 DEF Follows
  <2>2. PICK p : p = start[c] + i - 1
    OBVIOUS
  <2>3. Logged(p)' = Logged(p) /\ got[c][i] = Logged(p)
    BY <2>1, <2>2, Onwards DEF Follows
  <2>4. start'[c] + i - 1 = p
    BY <2>2
  <2> QED
    BY <2>2, <2>3, <2>4 DEF Logged
<1>3. next[c] <= tail' /\ (rpc'[c] = "read" => next[c] < tail')
  BY <1>1 DEF Follows
<1> QED
  BY <1>2, <1>3 DEF Follows, Logged

\* Every step keeps the readers on the log.
LEMMA FollowingStep ==
    ASSUME TypeOK, RingHoldsWindow, Published, Following, [Next]_vars
    PROVE  Following'
<1>a. ASSUME NEW c \in Clients, rpc'[c] = "out" PROVE got'[c] = <<>>
  <2>1. rpc \in [Clients -> ReaderPCs] /\ got \in [Clients -> Seq(Message)]
    BY DEF TypeOK
  <2>2. CASE UNCHANGED readers
    BY <1>a, <2>2 DEF Following, readers
  <2>3. ASSUME NEW d \in Clients,
               \/ \E replay \in Replays : get_current_tail(d, replay)
               \/ LoadTail(d) \/ ReadItem(d) \/ Leave(d)
        PROVE  got'[c] = <<>>
    BY <1>a, <2>1, <2>3 DEF Following, get_current_tail, Begin, LoadTail, ReadItem, Leave
  <2> QED
    BY <2>2, <2>3
       DEF Next, vars, PushItem, PublishTail, InsertSlot, ClearBegin, Clear, ClearBytes,
           ClearBytesEnd, RemoveMinSlot, ClearUpTo, ClearUpToEnd, ClearSame, ClearSameEnd,
           ClearEnd, Panic, try_recv
<1> SUFFICES ASSUME NEW c \in Clients, rpc'[c] \in {"poll", "read"} PROVE Follows(c)'
  BY <1>a DEF Following
<1>0. /\ Cap \in Nat /\ tail \in Nat /\ shared_tail \in Cap .. tail
      /\ \A s \in DOMAIN shared_slots : shared_slots[s] \in Cap .. tail - 1
      /\ rpc \in [Clients -> ReaderPCs] /\ next \in [Clients -> Nat]
      /\ start \in [Clients -> Nat] /\ got \in [Clients -> Seq(Message)]
  BY CapAssumption DEF Published, TypeOK
<1>1. ASSUME rpc'[c] = rpc[c], next'[c] = next[c], start'[c] = start[c], got'[c] = got[c]
      PROVE  Follows(c)'
  BY <1>1, FollowsStable DEF Following
<1>2. ASSUME NEW d \in Clients, NEW replay \in Replays, get_current_tail(d, replay)
      PROVE  Follows(c)'
  <2>1. CASE d # c
    BY <1>0, <1>1, <1>2, <2>1 DEF get_current_tail, Begin
  <2>2. CASE d = c
    <3>1. PICK p \in Cap .. tail : next'[c] = p /\ start'[c] = p /\ rpc'[c] = "poll"
      <4>1. rpc[c] = "out" /\ rpc'[c] # "refused"
        BY <1>2, <2>2 DEF get_current_tail
      <4>2. CASE replay = NoSlot /\ Begin(c, shared_tail)
        BY <1>0, <4>2 DEF Begin
      <4>3. CASE replay \in DOMAIN shared_slots /\ Begin(c, shared_slots[replay])
        <5>1. shared_slots[replay] \in Cap .. tail
          BY <1>0, <4>3
        <5> QED
          BY <1>0, <4>3, <5>1 DEF Begin
      <4> QED
        BY <1>0, <1>2, <2>2, <4>1, <4>2, <4>3 DEF get_current_tail
    <3>2. tail' = tail /\ got'[c] = got[c]
      BY <1>2 DEF get_current_tail, ring
    <3>3. got[c] = <<>>
      BY <1>2, <2>2 DEF get_current_tail, Following
    <3> QED
      BY <1>0, <3>1, <3>2, <3>3 DEF Follows
  <2> QED
    BY <2>1, <2>2
<1>3. ASSUME NEW d \in Clients, LoadTail(d) PROVE Follows(c)'
  <2>1. CASE d # c
    BY <1>0, <1>1, <1>3, <2>1 DEF LoadTail
  <2>2. CASE d = c
    <3>1. rpc[c] = "poll" /\ next[c] < shared_tail /\ UNCHANGED <<next, start, got>>
      BY <1>3, <2>2 DEF LoadTail
    <3>2. Follows(c)
      BY <3>1 DEF Following
    <3> QED
      BY <3>1, <3>2, FollowsStable
  <2> QED
    BY <2>1, <2>2
<1>4. ASSUME NEW d \in Clients, ReadItem(d) PROVE Follows(c)'
  <2>1. CASE d # c
    BY <1>0, <1>1, <1>4, <2>1 DEF ReadItem
  <2>2. CASE d = c
    <3> DEFINE item == buffer[get_idx(next[c])]
    <3>1. rpc[c] = "read" /\ start' = start /\ tail' = tail /\ log' = log
      BY <1>4, <2>2 DEF ReadItem, ring
    <3>2. Follows(c)
      BY <3>1 DEF Following
    <3>3. next[c] \in Cap .. tail - 1
      BY <1>0, <3>1, <3>2 DEF Follows
    <3>4. /\ item.pos = next[c] /\ item.data # NoData
          /\ got'[c] = Append(got[c], item.data) /\ next'[c] = next[c] + 1 /\ rpc'[c] = "poll"
      BY <1>0, <1>4, <2>2 DEF ReadItem
    <3>5. item.data = Logged(next[c]) /\ item.data \in Message
      BY <3>3, <3>4, ReadFinds, LoggedType
    <3> HIDE DEF item
    <3>6. /\ Len(got'[c]) = Len(got[c]) + 1
          /\ \A i \in 1 .. Len(got[c]) : got'[c][i] = got[c][i]
          /\ got'[c][Len(got[c]) + 1] = Logged(next[c])
      BY <1>0, <3>4, <3>5
    <3>7. \A i \in 1 .. Len(got'[c]) : got'[c][i] = Logged(start[c] + i - 1)
      <4> SUFFICES ASSUME NEW i \in 1 .. Len(got'[c]) PROVE got'[c][i] = Logged(start[c] + i - 1)
        OBVIOUS
      <4>1. CASE i \in 1 .. Len(got[c])
        BY <3>2, <3>6, <4>1 DEF Follows
      <4>2. CASE i = Len(got[c]) + 1
        <5>1. start[c] + i - 1 = next[c]
          BY <1>0, <3>2, <4>2 DEF Follows
        <5> QED
          BY <3>6, <4>2, <5>1
      <4> QED
        BY <1>0, <3>6, <4>1, <4>2
    <3>8. next'[c] = start'[c] + Len(got'[c]) /\ next'[c] <= tail' /\ start'[c] >= Cap
      BY <1>0, <3>1, <3>2, <3>4, <3>6, <3>3, SMTT(30) DEF Follows
    <3> QED
      BY <3>1, <3>4, <3>7, <3>8 DEF Follows, Logged
  <2> QED
    BY <2>1, <2>2
<1>5. ASSUME NEW d \in Clients, Leave(d) PROVE Follows(c)'
  BY <1>0, <1>1, <1>5 DEF Leave
<1>6. CASE UNCHANGED readers
  BY <1>1, <1>6 DEF readers
<1> QED
  BY <1>2, <1>3, <1>4, <1>5, <1>6
     DEF Next, vars, PushItem, PublishTail, InsertSlot, ClearBegin, Clear, ClearBytes,
         ClearBytesEnd, RemoveMinSlot, ClearUpTo, ClearUpToEnd, ClearSame, ClearSameEnd,
         ClearEnd, Panic, try_recv

-----------------------------------------------------------------------------
(***************************************************************************)
(* Types, and the theorems                                                 *)
(***************************************************************************)

\* The readers' variables keep their types.
LEMMA ReaderTypes ==
    ASSUME TypeOK, RingHoldsWindow, Published, Following, [Next]_vars
    PROVE  /\ rpc' \in [Clients -> ReaderPCs]
           /\ next' \in [Clients -> Nat]
           /\ start' \in [Clients -> Nat]
           /\ got' \in [Clients -> Seq(Message)]
<1> DEFINE Types == /\ rpc' \in [Clients -> ReaderPCs]
                    /\ next' \in [Clients -> Nat]
                    /\ start' \in [Clients -> Nat]
                    /\ got' \in [Clients -> Seq(Message)]
<1>0. /\ rpc \in [Clients -> ReaderPCs] /\ next \in [Clients -> Nat]
      /\ start \in [Clients -> Nat] /\ got \in [Clients -> Seq(Message)]
      /\ {"out", "poll", "read", "lagged", "refused"} \subseteq ReaderPCs
  BY DEF TypeOK, ReaderPCs
<1>1. CASE UNCHANGED readers
  BY <1>0, <1>1 DEF readers
<1>2. ASSUME NEW c \in Clients, NEW replay \in Replays, get_current_tail(c, replay) PROVE Types
  <2>1. shared_tail \in Nat /\ (replay \in DOMAIN shared_slots => shared_slots[replay] \in Nat)
    BY DEF TypeOK, Positions
  <2>2. ASSUME NEW p \in Nat, Begin(c, p), got' = got PROVE Types
    BY <1>0, <2>2 DEF Begin
  <2>3. CASE rpc' = [rpc EXCEPT ![c] = "refused"] /\ UNCHANGED <<next, start, got>>
    BY <1>0, <2>3
  <2> QED
    BY <1>2, <2>1, <2>2, <2>3 DEF get_current_tail
<1>3. ASSUME NEW c \in Clients, LoadTail(c) PROVE Types
  BY <1>0, <1>3 DEF LoadTail
<1>4. ASSUME NEW c \in Clients, ReadItem(c) PROVE Types
  <2> DEFINE item == buffer[get_idx(next[c])]
  <2>1. item.data # NoData => item.data \in Message
    <3>1. item \in Item
      BY <1>0, IdxType DEF TypeOK
    <3> QED
      BY <3>1, Fields
  <2>2. \/ /\ item.data # NoData
           /\ got' = [got EXCEPT ![c] = Append(@, item.data)]
           /\ next' = [next EXCEPT ![c] = @ + 1]
           /\ rpc' = [rpc EXCEPT ![c] = "poll"]
        \/ rpc' = [rpc EXCEPT ![c] = "lagged"] /\ UNCHANGED <<next, got>>
    BY <1>4 DEF ReadItem
  <2>3. start' = start
    BY <1>4 DEF ReadItem
  <2> HIDE DEF item
  <2>4. item.data # NoData => Append(got[c], item.data) \in Seq(Message)
    BY <1>0, <2>1
  <2>5. CASE /\ item.data # NoData
             /\ got' = [got EXCEPT ![c] = Append(@, item.data)]
             /\ next' = [next EXCEPT ![c] = @ + 1]
             /\ rpc' = [rpc EXCEPT ![c] = "poll"]
    <3>1. got' \in [Clients -> Seq(Message)]
      BY <1>0, <2>4, <2>5
    <3>2. next' \in [Clients -> Nat]
      BY <1>0, <2>5
    <3>3. rpc' \in [Clients -> ReaderPCs]
      BY <1>0, <2>5
    <3> QED
      BY <1>0, <2>3, <3>1, <3>2, <3>3
  <2>6. CASE rpc' = [rpc EXCEPT ![c] = "lagged"] /\ UNCHANGED <<next, got>>
    BY <1>0, <2>3, <2>6
  <2> QED
    BY <2>2, <2>5, <2>6
<1>5. ASSUME NEW c \in Clients, Leave(c) PROVE Types
  <2>1. <<>> \in Seq(Message)
    OBVIOUS
  <2> QED
    BY <1>0, <1>5, <2>1 DEF Leave
<1> QED
  BY <1>1, <1>2, <1>3, <1>4, <1>5
     DEF Next, vars, PushItem, PublishTail, InsertSlot, ClearBegin, Clear, ClearBytes,
         ClearBytesEnd, RemoveMinSlot, ClearUpTo, ClearUpToEnd, ClearSame, ClearSameEnd,
         ClearEnd, Panic, try_recv

\* So do the parser thread's and the shared ones.
LEMMA TypeStep ==
    ASSUME RingInv, [Next]_vars
    PROVE  TypeOK'
<1>0. TypeOK /\ RingHoldsWindow /\ Published /\ KnownSlotRetained /\ SenderAt /\ Following
  BY DEF RingInv
<1>1. buffer' \in [Indices -> Item] /\ log' \in Seq(Message)
  <2>1. CASE UNCHANGED <<buffer, log>>
    BY <1>0, <2>1 DEF TypeOK
  <2>2. CASE TakeHead /\ UNCHANGED <<tail, log>>
    BY <1>0, <2>2, TakeHeadIs DEF TypeOK
  <2>3. ASSUME NEW m \in Inputs, PushItem(m)
        PROVE  buffer' \in [Indices -> Item] /\ log' \in Seq(Message)
    <3>1. buffer' \in [Indices -> Item] /\ m \in Message /\ log' = Append(log, m)
      BY <1>0, <2>3, PushIs
    <3> QED
      BY <1>0, <3>1 DEF TypeOK
  <2> QED
    BY <2>1, <2>2, <2>3, Shapes
<1>2. head' \in Nat /\ tail' \in Nat
  BY <1>0, Onwards
<1>3. Published' /\ RingHoldsWindow' /\ Accounted'
  BY <1>0, PublishedStep, WindowStep, AccountedStep DEF RingInv
<1>4. bytes_total' \in Nat
  <2>1. Cap <= head' /\ head' <= tail'
    BY <1>3 DEF Published, RingHoldsWindow
  <2>2. PICK worth \in [Nat -> Nat] : Worth(worth)' /\ bytes_total' = worth[tail'] - worth[head']
    BY <1>3 DEF Accounted
  <2>3. worth[head'] <= worth[tail'] /\ worth[head'] \in Nat /\ worth[tail'] \in Nat
    BY <1>2, <2>1, <2>2, CapAssumption DEF Worth
  <2> QED
    BY <2>2, <2>3
<1>5. shared_tail' \in Nat /\ \A s \in DOMAIN shared_slots' : shared_slots'[s] \in Nat
  BY <1>2, <1>3, CapAssumption DEF Published
<1>6. DOMAIN slots' \subseteq Nat /\ DOMAIN shared_slots' \subseteq Nat
  <2>0. DOMAIN slots \subseteq Nat /\ DOMAIN shared_slots \subseteq Nat
    BY <1>0 DEF TypeOK
  <2>1. CASE UNCHANGED <<slots, shared_slots>>
    BY <2>0, <2>1
  <2>2. ASSUME NEW m \in Inputs, PushItem(m)
        PROVE  DOMAIN slots' \subseteq Nat /\ DOMAIN shared_slots' \subseteq Nat
    BY <2>0, <2>2 DEF PushItem, Without
  <2>3. CASE ClearBytes \/ ClearUpTo
    BY <2>0, <2>3 DEF ClearBytes, ClearUpTo, ForgetHeadSlot, Without
  <2>4. CASE InsertSlot
    <3>1. tail - 1 \in Cap .. tail - 1
      BY <1>0, <2>4, CapAssumption DEF InsertSlot, SenderAt, Published, TypeOK
    <3>2. Logged(tail - 1).slot \in Nat
      BY <1>0, <3>1, LoggedType, Fields
    <3> QED
      BY <2>0, <2>4, <3>2 DEF InsertSlot, With
  <2>5. CASE RemoveMinSlot
    BY <2>0, <2>5 DEF RemoveMinSlot, Without, shared
  <2> QED
    BY <2>1, <2>2, <2>3, <2>4, <2>5
       DEF Next, vars, ring, shared, PublishTail, ClearBegin, Clear, ClearBytesEnd,
           ClearUpToEnd, ClearSame, ClearSameEnd, ClearEnd, Panic, get_current_tail,
           try_recv, LoadTail, ReadItem, Leave
<1>7. Positions(slots)' /\ Positions(shared_slots)'
  <2>1. KnownSlotRetained'
    BY <1>0, KnownStep
  <2> QED
    BY <1>2, <1>5, <2>1 DEF Positions, KnownSlotRetained
<1>8. pc' \in SenderPCs
  BY <1>0
     DEF TypeOK, SenderPCs, Next, vars, PushItem, PublishTail, InsertSlot, ClearBegin, Clear,
         ClearBytes, ClearBytesEnd, RemoveMinSlot, ClearUpTo, ClearUpToEnd, ClearSame,
         ClearSameEnd, ClearEnd, Panic, get_current_tail, try_recv, LoadTail, ReadItem, Leave
<1>9. victim' \in [slot : Nat, head : Nat]
  <2>1. CASE UNCHANGED victim
    BY <1>0, <2>1 DEF TypeOK
  <2>2. CASE RemoveMinSlot
    <3>1. PICK s \in DOMAIN slots : victim' = [slot |-> s, head |-> slots[s]]
      BY <2>2 DEF RemoveMinSlot
    <3>2. s \in Nat /\ slots[s] \in Nat
      BY <1>0, <3>1 DEF TypeOK, Positions
    <3> QED
      BY <3>1, <3>2
  <2>3. CASE ClearSameEnd
    BY <2>3 DEF ClearSameEnd, NoVictim
  <2> QED
    BY <2>1, <2>2, <2>3
       DEF Next, vars, PushItem, PublishTail, InsertSlot, ClearBegin, Clear, ClearBytes,
           ClearBytesEnd, ClearUpTo, ClearUpToEnd, ClearSame, ClearEnd, Panic,
           get_current_tail, try_recv, LoadTail, ReadItem, Leave
<1>10. /\ rpc' \in [Clients -> ReaderPCs] /\ next' \in [Clients -> Nat]
       /\ start' \in [Clients -> Nat] /\ got' \in [Clients -> Seq(Message)]
  BY <1>0, ReaderTypes
<1> QED
  BY <1>1, <1>2, <1>4, <1>5, <1>6, <1>7, <1>8, <1>9, <1>10 DEF TypeOK

\* The ring begins empty, with nobody reading.
LEMMA InitInv == Init => RingInv
<1> SUFFICES ASSUME Init PROVE RingInv
  OBVIOUS
<1>1. Cap \in Nat /\ Cap > 0
  BY CapAssumption
<1>2. TypeOK
  <2>1. ASSUME NEW i \in Indices PROVE [pos |-> i, slot |-> 0, data |-> NoData] \in Item
    BY <1>1 DEF Indices, Item
  <2>2. buffer \in [Indices -> Item]
    BY <2>1 DEF Init
  <2>3. /\ rpc \in [Clients -> ReaderPCs] /\ next \in [Clients -> Nat]
        /\ start \in [Clients -> Nat]
    BY DEF Init, ReaderPCs
  <2>4. got \in [Clients -> Seq(Message)] /\ log \in Seq(Message)
    BY DEF Init
  <2>5. /\ DOMAIN shared_slots \subseteq Nat /\ Positions(shared_slots)
        /\ DOMAIN slots \subseteq Nat /\ Positions(slots)
    BY DEF Init, Positions
  <2>6. victim \in [slot : Nat, head : Nat] /\ pc \in SenderPCs
    BY DEF Init, NoVictim, SenderPCs
  <2> QED
    BY <1>1, <2>2, <2>3, <2>4, <2>5, <2>6 DEF Init, TypeOK
<1>3. RingHoldsWindow
  <2>1. head = Cap /\ tail = Cap /\ log = <<>>
    BY DEF Init
  <2>2. ASSUME NEW i \in Indices
        PROVE  /\ get_idx(buffer[i].pos) = i /\ buffer[i].pos < tail
               /\ buffer[i].data # NoData => head <= buffer[i].pos
    <3>1. buffer[i].pos = i /\ buffer[i].data = NoData
      BY DEF Init
    <3>2. i \in Nat /\ i < Cap
      BY <1>1 DEF Indices
    <3> QED
      BY <1>1, <2>1, <3>1, <3>2 DEF get_idx
  <2> QED
    BY <1>1, <2>1, <2>2 DEF RingHoldsWindow
<1>4. Published /\ KnownSlotRetained
  BY <1>1 DEF Init, Published, KnownSlotRetained
<1>5. SenderAt
  <2>1. DOMAIN slots = {} /\ bytes_total = 0 /\ pc = "ready"
    BY DEF Init
  <2>2. Cardinality(DOMAIN slots) = 0
    BY <2>1, FS_EmptySet
  <2> QED
    BY <2>1, <2>2, LimitsAssumption DEF SenderAt
<1>6. Accounted
  <2>1. PICK worth \in [Nat -> Nat] : worth = [p \in Nat |-> 0]
    OBVIOUS
  <2>2. Worth(worth) /\ bytes_total = worth[tail] - worth[head]
    BY <1>1, <2>1 DEF Init, Worth
  <2> QED
    BY <2>2 DEF Accounted
<1>7. Following
  BY DEF Init, Following
<1> QED
  BY <1>2, <1>3, <1>4, <1>5, <1>6, <1>7 DEF RingInv

\* Every reachable state has the types of TypeOK, the ring holds the last messages
\* of the log, every known slot is there from its first message on, bytes_total is
\* what the messages held are worth, and the readers follow the log.
THEOREM RingInvariant == Spec => []RingInv
<1>1. RingInv /\ [Next]_vars => RingInv'
  BY TypeStep, WindowStep, PublishedStep, KnownStep, SenderAtStep, AccountedStep, FollowingStep
     DEF RingInv
<1> QED
  BY <1>1, InitInv, PTL DEF Spec

\* A slot the sender knows is in the ring from its first message on, and readers
\* are given that position (SenderShared::push, try_clear, Messages::get_current_tail).
THEOREM KnownSlotRetainedTheorem == Spec => []KnownSlotRetained
<1>1. RingInv => KnownSlotRetained
  BY DEF RingInv
<1> QED
  BY <1>1, RingInvariant, PTL

\* A reader is handed the messages that follow its first position in the order
\* they were pushed, none twice, none left out (ReceiverSync::try_recv).
THEOREM DeliveredInOrderTheorem == Spec => []DeliveredInOrder
<1>1. RingInv => DeliveredInOrder
  BY DEF RingInv, Following, Follows, DeliveredInOrder
<1> QED
  BY <1>1, RingInvariant, PTL

\* A reader is told that it lags only if the message it wants was removed
\* (ReceiverSync::try_recv, RecvError::Lagged).
THEOREM LaggedTheorem == Spec => LaggedOnlyIfRemoved
<1>1. RingInv /\ [Next]_vars =>
        [\A c \in Clients : rpc[c] # "lagged" /\ rpc'[c] = "lagged" => next[c] < head]_vars
  <2> SUFFICES ASSUME RingInv, Next, NEW c \in Clients, rpc[c] # "lagged", rpc'[c] = "lagged"
               PROVE  next[c] < head
    OBVIOUS
  <2>1. ReadItem(c)
    BY DEF RingInv, TypeOK, Next, vars, readers, PushItem, PublishTail, InsertSlot, ClearBegin,
           Clear, ClearBytes, ClearBytesEnd, RemoveMinSlot, ClearUpTo, ClearUpToEnd, ClearSame,
           ClearSameEnd, ClearEnd, Panic, get_current_tail, Begin, try_recv, LoadTail, ReadItem,
           Leave
  <2>2. LET item == buffer[get_idx(next[c])]
        IN rpc[c] = "read" /\ (item.pos # next[c] \/ item.data = NoData)
    BY <2>1 DEF ReadItem, RingInv, TypeOK
  <2>3. next[c] \in Cap .. tail - 1
    <3>1. Follows(c)
      BY <2>2 DEF RingInv, Following
    <3> QED
      BY <2>2, <3>1, CapAssumption DEF Follows, RingInv, TypeOK
  <2> QED
    BY <2>2, <2>3, ReadFinds DEF RingInv
<1> QED
  BY <1>1, RingInvariant, PTL DEF Spec, LaggedOnlyIfRemoved

\* A nonempty set of natural numbers has a least element.
LEMMA LeastOf ==
    ASSUME NEW T \in SUBSET Nat, T # {}
    PROVE  \E x \in T : \A y \in T : x <= y
<1>1. PICK x \in T : \A y \in T : <<y, x>> \notin OpToRel(<, Nat)
  BY NatLessThanWellFounded, WFMin
<1>2. \A y \in T : ~(y < x)
  BY <1>1 DEF OpToRel
<1> QED
  BY <1>2

\* f are the sums of the sizes from position a to each position up to b.
Sums(f, a, b, size) ==
    f = [p \in a .. b |-> IF p = a THEN 0 ELSE f[p - 1] + size[p - 1]]

\* worth grows by the sizes from position a up to b.
Grows(worth, a, b, size) ==
    /\ a \in Nat /\ b \in Nat /\ size \in [a .. b - 1 -> Nat] /\ worth \in [Nat -> Nat]
    /\ \A p \in a .. b - 1 : worth[p + 1] = worth[p] + size[p]

\* One step of worth, read backwards.
StepBack(worth, a, b, size, p) ==
    /\ p - 1 \in a .. b /\ size[p - 1] \in Nat
    /\ worth[p - 1] \in Nat /\ worth[a] \in Nat /\ worth[p] = worth[p - 1] + size[p - 1]

\* Every position but the first has a step before it.
LEMMA WorthBack ==
    ASSUME NEW a, NEW b, NEW size, NEW worth, Grows(worth, a, b, size), NEW p \in a .. b, p # a
    PROVE  StepBack(worth, a, b, size, p)
<1>1. a \in Nat /\ b \in Nat /\ size \in [a .. b - 1 -> Nat] /\ worth \in [Nat -> Nat]
  BY DEF Grows
<1>2. p - 1 \in a .. b - 1 /\ p - 1 \in a .. b /\ p - 1 \in Nat /\ (p - 1) + 1 = p
  BY <1>1
<1>3. worth[(p - 1) + 1] = worth[p - 1] + size[p - 1]
  BY <1>2 DEF Grows
<1> QED
  BY <1>1, <1>2, <1>3 DEF StepBack

\* There are such sums, if there is such a worth.
LEMMA SumsExist ==
    ASSUME NEW a, NEW b, NEW size, NEW worth, Grows(worth, a, b, size)
    PROVE  \E f : Sums(f, a, b, size)
<1>0. a \in Nat /\ b \in Nat /\ worth \in [Nat -> Nat]
  BY DEF Grows
<1>1. PICK f : f = [p \in a .. b |-> worth[p] - worth[a]]
  OBVIOUS
<1>2. ASSUME NEW p \in a .. b
      PROVE  f[p] = IF p = a THEN 0 ELSE f[p - 1] + size[p - 1]
  <2>1. CASE p = a
    BY <1>0, <1>1, <2>1
  <2>2. CASE p # a
    <3>1. /\ p - 1 \in a .. b /\ size[p - 1] \in Nat /\ worth[p - 1] \in Nat
          /\ worth[p] = worth[p - 1] + size[p - 1] /\ worth[a] \in Nat
      BY <2>2, WorthBack DEF StepBack
    <3>2. f[p] = worth[p] - worth[a] /\ f[p - 1] = worth[p - 1] - worth[a]
      BY <1>1, <3>1
    <3> QED
      BY <2>2, <3>1, <3>2
  <2> QED
    BY <2>1, <2>2
<1>3. f = [p \in a .. b |-> IF p = a THEN 0 ELSE f[p - 1] + size[p - 1]]
  BY <1>1, <1>2
<1> QED
  BY <1>3 DEF Sums

\* The sums are what worth has grown by: there is no first position where they are not.
LEMMA SumsAre ==
    ASSUME NEW a, NEW b, NEW size, NEW worth, Grows(worth, a, b, size),
           NEW f, Sums(f, a, b, size), NEW q \in a .. b
    PROVE  f[q] = worth[q] - worth[a]
<1>0. a \in Nat /\ b \in Nat /\ worth \in [Nat -> Nat]
  BY DEF Grows
<1>1. PICK T : T = {p \in a .. b : f[p] # worth[p] - worth[a]}
  OBVIOUS
<1>2. \A p \in a .. b : f[p] = IF p = a THEN 0 ELSE f[p - 1] + size[p - 1]
  BY DEF Sums
<1>3. SUFFICES ASSUME T # {} PROVE FALSE
  BY <1>1
<1>4. T \in SUBSET Nat
  BY <1>0, <1>1
<1>5. PICK x \in T : \A y \in T : x <= y
  BY <1>3, <1>4, LeastOf
<1>6. x \in a .. b /\ f[x] # worth[x] - worth[a]
  BY <1>1
<1>7. x # a
  BY <1>0, <1>2, <1>6
<1>8. /\ x - 1 \in a .. b /\ size[x - 1] \in Nat /\ worth[x - 1] \in Nat
      /\ worth[x] = worth[x - 1] + size[x - 1] /\ worth[a] \in Nat
  BY <1>6, <1>7, WorthBack DEF StepBack
<1>9. x - 1 \notin T
  BY <1>0, <1>5, <1>6
<1>10. f[x - 1] = worth[x - 1] - worth[a]
  BY <1>1, <1>8, <1>9
<1>11. f[x] = f[x - 1] + size[x - 1]
  BY <1>2, <1>6, <1>7
<1> QED
  BY <1>6, <1>8, <1>10, <1>11

\* bytes_total is the sum of the sizes of the messages from head to tail.
LEMMA BytesAreSum ==
    ASSUME TypeOK, RingHoldsWindow, Published, Accounted
    PROVE  bytes_total = SizeBefore[tail] - SizeBefore[head]
<1>1. PICK worth \in [Nat -> Nat] : Worth(worth) /\ bytes_total = worth[tail] - worth[head]
  BY DEF Accounted
<1>2. /\ Cap \in Nat /\ head \in Nat /\ tail \in Nat /\ Cap <= head /\ head <= tail
      /\ tail = Cap + Len(log)
  BY CapAssumption DEF TypeOK, RingHoldsWindow, Published
<1>3. PICK size : size = [p \in Cap .. tail - 1 |-> Logged(p).size]
  OBVIOUS
<1>4. size \in [Cap .. tail - 1 -> Nat]
  <2>1. ASSUME NEW p \in Cap .. tail - 1
        PROVE  Logged(p).size \in Nat
    <3>1. p - Cap + 1 \in 1 .. Len(log) /\ log \in Seq(Message)
      BY <1>2 DEF TypeOK
    <3>2. log[p - Cap + 1] \in Message
      BY <3>1
    <3> QED
      BY <3>2 DEF Logged, Message
  <2> QED
    BY <1>3, <2>1
<1>5. Grows(worth, Cap, tail, size)
  BY <1>1, <1>2, <1>3, <1>4 DEF Worth, Grows
<1>6. PICK f : f = SizeBefore
  OBVIOUS
<1>7. Sums(f, Cap, tail, size)
  <2>1. ASSUME NEW g
        PROVE  [p \in Cap .. tail |-> IF p = Cap THEN 0 ELSE g[p - 1] + Logged(p - 1).size]
                 = [p \in Cap .. tail |-> IF p = Cap THEN 0 ELSE g[p - 1] + size[p - 1]]
    <3>1. \A p \in Cap .. tail : p # Cap => size[p - 1] = Logged(p - 1).size
      BY <1>2, <1>3
    <3> QED
      BY <3>1
  <2>2. \E g : g = [p \in Cap .. tail |-> IF p = Cap THEN 0
                                           ELSE g[p - 1] + Logged(p - 1).size]
    <3>1. PICK g : Sums(g, Cap, tail, size)
      BY <1>5, SumsExist
    <3>2. g = [p \in Cap .. tail |-> IF p = Cap THEN 0 ELSE g[p - 1] + size[p - 1]]
      BY ONLY <3>1 DEF Sums
    <3>3. g = [p \in Cap .. tail |-> IF p = Cap THEN 0 ELSE g[p - 1] + Logged(p - 1).size]
      BY ONLY <2>1, <3>2
    <3> WITNESS g
    <3> QED
      BY ONLY <3>3
  <2>3. SizeBefore = [p \in Cap .. tail |-> IF p = Cap THEN 0
                                          ELSE SizeBefore[p - 1] + Logged(p - 1).size]
    BY <2>2 DEF SizeBefore
  <2> QED
    BY <1>6, <2>1, <2>3 DEF Sums
<1>8. head \in Cap .. tail /\ tail \in Cap .. tail
  BY <1>2
<1>9. f[head] = worth[head] - worth[Cap] /\ f[tail] = worth[tail] - worth[Cap]
  BY <1>5, <1>7, <1>8, SumsAre
<1>10. worth[head] \in Nat /\ worth[tail] \in Nat /\ worth[Cap] \in Nat
  BY <1>2
<1> QED
  BY <1>1, <1>6, <1>9, <1>10

\* When try_clear has returned the ring is within both limits, bytes_total being
\* what the messages it holds are worth (SenderShared::try_clear).
THEOREM LimitsTheorem == Spec => []LimitsHold
<1>1. RingInv => LimitsHold
  BY BytesAreSum DEF RingInv, SenderAt, LimitsHold
<1> QED
  BY <1>1, RingInvariant, PTL

\* What a failing assertion of try_clear means.
OnlyIfEmptied ==
    [][pc # "panicked" /\ pc' = "panicked" => pc = "same" /\ head = tail]_vars

\* Of the assertions of try_clear only the one of the last loop can fail: the slot
\* it clears reaches to the tail, so that the ring is empty (SenderShared::try_clear).
THEOREM PanicOnlyIfEmptied == Spec => OnlyIfEmptied
<1>1. RingInv /\ [Next]_vars =>
        [pc # "panicked" /\ pc' = "panicked" => pc = "same" /\ head = tail]_vars
  <2> SUFFICES ASSUME RingInv, Next, pc # "panicked", pc' = "panicked"
               PROVE  pc = "same" /\ head = tail
    OBVIOUS
  <2>0. /\ TypeOK /\ RingHoldsWindow /\ Published /\ SenderAt /\ Accounted
        /\ head \in Nat /\ tail \in Nat /\ head <= tail /\ Cap <= head
        /\ bytes_total \in Nat /\ BytesMax \in Nat
    BY LimitsAssumption DEF RingInv, TypeOK, RingHoldsWindow, Published
  <2>1. Panic
    BY DEF Next, PushItem, PublishTail, InsertSlot, ClearBegin, Clear, ClearBytes, ClearBytesEnd,
           RemoveMinSlot, ClearUpTo, ClearUpToEnd, ClearSame, ClearSameEnd, ClearEnd,
           get_current_tail, try_recv, LoadTail, ReadItem, Leave
  <2>2. CannotTakeHead => head = tail
    BY <2>0, HeadItem DEF CannotTakeHead
  <2>3. pc = "bytes" /\ bytes_total > BytesMax /\ CannotTakeHead => FALSE
    BY <2>0, <2>2, BytesNat
  <2>4. pc = "upto" /\ head < victim.head /\ CannotTakeHead => FALSE
    <3>1. pc = "upto" => victim.head < tail /\ victim.head \in Nat
      BY <2>0 DEF SenderAt, TypeOK
    <3> QED
      BY <2>0, <2>2, <3>1
  <2> QED
    BY <2>0, <2>1, <2>2, <2>3, <2>4 DEF Panic
<1> QED
  BY <1>1, RingInvariant, PTL DEF Spec, OnlyIfEmptied

=============================================================================
