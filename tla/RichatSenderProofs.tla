------------------------- MODULE RichatSenderProofs -------------------------
(***************************************************************************)
(* Proofs about RichatSender, for any messages of the source in any order  *)
(* and any number of slots.                                                *)
(***************************************************************************)
EXTENDS RichatSender, FiniteSetTheorems, SequenceTheorems, TLAPS

\* The fields of a SlotInfo; the proofs need no types of them.
Fields ==
    {"block_created", "failed", "landed", "messages", "accounts_dedup",
     "transactions_count", "entries_count", "block_meta"}

Kinds == {"Slot", "Account", "Transaction", "Entry", "BlockMeta"}

IsInfo(info) == info = [f \in Fields |-> info[f]]

\* A SlotInfo between two messages: it has its block as soon as it can, and fails only
\* after that.
InfoSound(info) ==
    /\ IsInfo(info)
    /\ info.block_created \in BOOLEAN /\ info.failed \in BOOLEAN /\ info.landed \in BOOLEAN
    /\ ~info.block_created => ~info.failed /\ ~Complete(info)

\* A block of slot s has been pushed.
Built(s) == \E i \in 1 .. Len(processed) : processed[i].kind = "Block" /\ processed[i].slot = s

\* A failure of slot s was reported.
Told(s) == \E r \in reports : r.slot = s

\* Each SlotInfo is sound, and the block it has created was pushed.
SlotsSound ==
    \A s \in DOMAIN slots :
        InfoSound(slots[s]) /\ (slots[s].block_created => Built(s))

\* A slot that was confirmed or finalized is remembered as landed until it is settled.
LandedKnown ==
    \A j \in 1 .. Len(processed) :
        IsStatus(processed[j], {"Confirmed", "Finalized"}) =>
            LET s == processed[j].slot
            IN  (s \in DOMAIN slots /\ slots[s].landed) \/ Built(s) \/ Told(s)

\* The ring's history is a sequence.
IsSequence(seq) == \E S : seq \in Seq(S)

SenderInv == IsSequence(processed) /\ SlotsSound /\ LandedKnown

\* What SenderInv says of the sender, with infos for its slots.
Known(infos) ==
    /\ IsSequence(processed)
    /\ \A s \in DOMAIN infos : InfoSound(infos[s]) /\ (infos[s].block_created => Built(s))
    /\ \A j \in 1 .. Len(processed) :
          \A s : IsStatus(processed[j], {"Confirmed", "Finalized"}) /\ s = processed[j].slot =>
             (s \in DOMAIN infos /\ infos[s].landed) \/ Built(s) \/ Told(s)

\* A message is stored: the marks of the SlotInfo stay.
LEMMA StoreIs ==
    ASSUME NEW info, IsInfo(info), NEW m, m.kind \in Kinds
    PROVE  LET new == Store(info, m)
           IN  /\ IsInfo(new) /\ new.block_created = info.block_created
               /\ new.failed = info.failed /\ new.landed = info.landed
<1>1. DOMAIN info = Fields /\ info = [f \in Fields |-> info[f]]
  BY DEF IsInfo
<1>4. CASE m.kind = "Slot"
  <2>1. Store(info, m) = info
    BY <1>4 DEF Store
  <2> QED
    BY <2>1
<1>5. CASE m.kind = "Account"
  <2>1. Store(info, m) = StoreAccount(info, m)
    BY <1>5 DEF Store
  <2> QED
    BY <1>1, <2>1 DEF StoreAccount, IsInfo, Fields
<1>6. CASE m.kind = "Transaction"
  <2>1. Store(info, m) = [info EXCEPT !.messages = Append(@, m), !.transactions_count = @ + 1]
    BY <1>6 DEF Store
  <2> QED
    BY <1>1, <2>1 DEF IsInfo, Fields
<1>7. CASE m.kind = "Entry"
  <2>1. Store(info, m) = [info EXCEPT !.messages = Append(@, m), !.entries_count = @ + 1]
    BY <1>7 DEF Store
  <2> QED
    BY <1>1, <2>1 DEF IsInfo, Fields
<1>8. CASE m.kind = "BlockMeta"
  <2>1. Store(info, m) = [info EXCEPT !.messages = Append(@, m), !.block_meta = m]
    BY <1>8 DEF Store
  <2> QED
    BY <1>1, <2>1 DEF IsInfo, Fields
<1> QED
  BY <1>4, <1>5, <1>6, <1>7, <1>8 DEF Kinds

\* What get_block_message makes of a SlotInfo.
LEMMA BlockMessageIs ==
    ASSUME NEW old, InfoSound(old), NEW m, m.kind \in Kinds
    PROVE  LET r == get_block_message(old, m)
           IN  /\ InfoSound(r.info)
               /\ old.landed \/ IsStatus(m, {"Confirmed", "Finalized"}) => r.info.landed
               /\ \/ r.block = <<>> /\ (r.info.block_created => old.block_created)
                  \/ \E b : r.block = <<b>> /\ b.kind = "Block" /\ b.slot = m.slot
<1>1. PICK info : info = MarkLanded(old, m)
  OBVIOUS
<1>2. PICK stored : stored = Store(info, m)
  OBVIOUS
<1>3. PICK block : block = Block(m.slot, stored)
  OBVIOUS
<1>4. PICK r : r = get_block_message(old, m)
  OBVIOUS
<1>5. IsInfo(old) /\ DOMAIN old = Fields
  BY DEF InfoSound, IsInfo
<1>6. /\ IsInfo(info) /\ info.block_created = old.block_created /\ info.failed = old.failed
      /\ info.landed \in BOOLEAN
      /\ old.landed \/ IsStatus(m, {"Confirmed", "Finalized"}) => info.landed
  <2>1. CASE IsStatus(m, {"Confirmed", "Finalized"})
    <3>1. info = [old EXCEPT !.landed = TRUE]
      BY <1>1, <2>1 DEF MarkLanded
    <3> QED
      BY <1>5, <3>1 DEF IsInfo, Fields
  <2>2. CASE ~IsStatus(m, {"Confirmed", "Finalized"})
    <3>1. info = old
      BY <1>1, <2>2 DEF MarkLanded
    <3> QED
      BY <2>2, <3>1 DEF InfoSound
  <2> QED
    BY <2>1, <2>2
<1>7. /\ IsInfo(stored) /\ stored.block_created = info.block_created
      /\ stored.failed = info.failed /\ stored.landed = info.landed
  BY <1>2, <1>6, StoreIs
<1>8. block.kind = "Block" /\ block.slot = m.slot
  BY <1>3 DEF Block
<1>9. old.block_created \in BOOLEAN /\ old.failed \in BOOLEAN /\ (~old.block_created => ~old.failed)
  BY DEF InfoSound
<1>10. CASE info.block_created
  <2>1. r.info = [info EXCEPT !.failed = TRUE] /\ r.block = <<>>
    BY <1>1, <1>2, <1>4, <1>10 DEF get_block_message
  <2>2. /\ IsInfo(r.info) /\ r.info.block_created = info.block_created /\ r.info.failed = TRUE
        /\ r.info.landed = info.landed
    BY <1>6, <2>1 DEF IsInfo, Fields
  <2>3. InfoSound(r.info)
    BY <1>6, <1>9, <1>10, <2>2 DEF InfoSound
  <2> QED
    BY <1>4, <1>6, <2>1, <2>2, <2>3
<1>11. CASE ~info.block_created /\ Complete(stored)
  <2>1. /\ r.info = [stored EXCEPT !.block_created = TRUE, !.messages = Append(@, block)]
        /\ r.block = <<block>>
    BY <1>1, <1>2, <1>3, <1>4, <1>11 DEF get_block_message
  <2>2. /\ IsInfo(r.info) /\ r.info.block_created = TRUE /\ r.info.failed = stored.failed
        /\ r.info.landed = stored.landed
    BY <1>7, <2>1 DEF IsInfo, Fields
  <2>3. InfoSound(r.info)
    BY <1>6, <1>7, <1>9, <2>2 DEF InfoSound
  <2> QED
    BY <1>4, <1>6, <1>7, <1>8, <2>1, <2>2, <2>3
<1>12. CASE ~info.block_created /\ ~Complete(stored)
  <2>1. r.info = stored /\ r.block = <<>>
    BY <1>1, <1>2, <1>4, <1>12 DEF get_block_message
  <2>2. InfoSound(r.info)
    BY <1>6, <1>7, <1>9, <1>12, <2>1 DEF InfoSound
  <2> QED
    BY <1>4, <1>6, <1>7, <2>1, <2>2
<1> QED
  BY <1>10, <1>11, <1>12

\* A new SlotInfo.
LEMMA NewInfoSound == InfoSound(NewInfo)
BY DEF InfoSound, NewInfo, IsInfo, Fields, Complete, NoMeta

\* A slot that has landed does not go without its block or a report.
LEMMA DropTells ==
    ASSUME NEW info, InfoSound(info), info.landed, ~info.block_created
    PROVE  DropReasons(info) # {}
BY DEF InfoSound, DropReasons, Complete

\* A sequence with one more element.
LEMMA OneMore ==
    ASSUME NEW S, NEW q \in Seq(S), NEW b
    PROVE  /\ q \o <<b>> \in Seq(S \union {b}) /\ Len(q \o <<b>>) = Len(q) + 1
           /\ (q \o <<b>>)[Len(q) + 1] = b /\ \A i \in 1 .. Len(q) : (q \o <<b>>)[i] = q[i]
<1>1. q \in Seq(S \union {b}) /\ <<b>> \in Seq(S \union {b})
  OBVIOUS
<1> QED
  BY <1>1

\* The positions of a sequence are positions of a longer one.
LEMMA Within ==
    ASSUME NEW k \in Nat, NEW n \in Nat, k < n
    PROVE  \A i \in 1 .. k : i \in 1 .. n
OBVIOUS

\* A push adds at most a block behind the message.
AtMostOne(block) == block = <<>> \/ \E b : block = <<b>>

\* What was in the ring's history q stays in new, and only the message and a block
\* are added.
Extends(new, q, m, block) ==
    /\ IsSequence(new)
    /\ Len(q) \in Nat /\ Len(new) \in Nat /\ Len(q) < Len(new)
    /\ \A i \in 1 .. Len(q) : new[i] = q[i]
    /\ \A j \in 1 .. Len(new) :
          j \in 1 .. Len(q) \/ new[j] = m \/ \E b : block = <<b>> /\ new[j] = b
    /\ \A b : block = <<b>> => \E i \in 1 .. Len(new) : new[i] = b

\* A push extends the ring's history.
LEMMA PushedIs ==
    ASSUME NEW q, IsSequence(q), NEW m, NEW block, AtMostOne(block)
    PROVE  Extends(Append(q, m) \o block, q, m, block)
<1>1. PICK S : q \in Seq(S)
  BY DEF IsSequence
<1>2. q \in Seq(S \union {m})
  BY <1>1
<1>3. PICK one : one = Append(q, m)
  OBVIOUS
<1>4. /\ one \in Seq(S \union {m}) /\ Len(q) \in Nat /\ Len(one) = Len(q) + 1
      /\ one[Len(q) + 1] = m /\ \A i \in 1 .. Len(q) : one[i] = q[i]
  BY <1>2, <1>3
<1>5. CASE block = <<>>
  <2>1. one \o block = one
    BY <1>4, <1>5
  <2>2. IsSequence(one)
    BY <1>4 DEF IsSequence
  <2>3. \A j \in 1 .. Len(one) : j \in 1 .. Len(q) \/ one[j] = m
    BY <1>4
  <2>4. \A b : block # <<b>>
    BY <1>5
  <2> QED
    BY <1>3, <1>4, <2>1, <2>2, <2>3, <2>4 DEF Extends
<1>6. CASE \E b : block = <<b>>
  <2>1. PICK b : block = <<b>>
    BY <1>6
  <2>3. PICK two : two = one \o <<b>>
    OBVIOUS
  <2>4. /\ two \in Seq(S \union {m} \union {b}) /\ Len(two) = Len(one) + 1
        /\ two[Len(one) + 1] = b /\ \A i \in 1 .. Len(one) : two[i] = one[i]
    BY <1>4, <2>3, OneMore
  <2>5. IsSequence(two)
    BY <2>4 DEF IsSequence
  <2>6. \A j \in 1 .. Len(two) : j \in 1 .. Len(q) \/ two[j] = m \/ two[j] = b
    BY <1>4, <2>4
  <2>7. \A c : block = <<c>> => c = b
    BY <2>1
  <2>8. Len(two) \in 1 .. Len(two)
    BY <1>4, <2>4
  <2>9. \A i \in 1 .. Len(q) : two[i] = q[i]
    BY <1>4, <2>4
  <2>10. Len(two) \in Nat /\ Len(q) < Len(two)
    BY <1>4, <2>4
  <2> QED
    BY <1>3, <1>4, <2>1, <2>3, <2>4, <2>5, <2>6, <2>7, <2>8, <2>9, <2>10 DEF Extends
<1> QED
  BY <1>5, <1>6 DEF AtMostOne

\* The first state.
LEMMA SenderInit == Init => SenderInv
<1> SUFFICES ASSUME Init PROVE SenderInv
  OBVIOUS
<1>1. processed = <<>> /\ processed \in Seq({}) /\ Len(processed) = 0
  BY DEF Init
<1>2. DOMAIN slots = {}
  BY DEF Init
<1>3. IsSequence(processed)
  BY <1>1 DEF IsSequence
<1> QED
  BY <1>1, <1>2, <1>3 DEF SenderInv, SlotsSound, LandedKnown

\* What every push does to the SlotInfo of its slot, to the history and to the reports.
LEMMA PushKeeps ==
    ASSUME SenderInv, NEW m, m.kind \in Kinds,
           NEW r, r = get_block_message(InfoOf(m.slot), m),
           processed' = Append(processed, m) \o r.block, reports \subseteq reports',
           NEW infos, infos = Put(slots, m.slot, r.info)
    PROVE  Known(infos)'
<1>1. PICK old : old = InfoOf(m.slot)
  OBVIOUS
<1>2. InfoSound(old) /\ (old.block_created => Built(m.slot))
  <2>1. CASE m.slot \in DOMAIN slots
    BY <1>1, <2>1 DEF InfoOf, SenderInv, SlotsSound
  <2>2. CASE m.slot \notin DOMAIN slots
    <3>1. old = NewInfo /\ ~NewInfo.block_created
      BY <1>1, <2>2 DEF InfoOf, NewInfo
    <3> QED
      BY <3>1, NewInfoSound
  <2> QED
    BY <2>1, <2>2
<1>3. /\ InfoSound(r.info)
      /\ old.landed \/ IsStatus(m, {"Confirmed", "Finalized"}) => r.info.landed
      /\ \/ r.block = <<>> /\ (r.info.block_created => old.block_created)
         \/ \E b : r.block = <<b>> /\ b.kind = "Block" /\ b.slot = m.slot
  BY <1>1, <1>2, BlockMessageIs
<1>4. /\ IsSequence(processed')
      /\ Len(processed) \in Nat /\ Len(processed') \in Nat /\ Len(processed) < Len(processed')
      /\ \A i \in 1 .. Len(processed) : processed'[i] = processed[i]
      /\ \A j \in 1 .. Len(processed') :
            \/ j \in 1 .. Len(processed) \/ processed'[j] = m
            \/ \E b : r.block = <<b>> /\ processed'[j] = b
      /\ \A b : r.block = <<b>> => \E i \in 1 .. Len(processed') : processed'[i] = b
  <2>1. IsSequence(processed) /\ AtMostOne(r.block)
    BY <1>3 DEF SenderInv, AtMostOne
  <2>2. Extends(processed', processed, m, r.block)
    BY ONLY <2>1, processed' = Append(processed, m) \o r.block, PushedIs
  <2> QED
    BY ONLY <2>2 DEF Extends
<1>5. \A i \in 1 .. Len(processed) : i \in 1 .. Len(processed')
  BY ONLY <1>4, Within
<1>6. \A s : Built(s) => Built(s)'
  BY <1>4, <1>5 DEF Built
<1>7. \A s : Told(s) => Told(s)'
  BY DEF Told
<1>8. r.info.block_created => Built(m.slot)'
  <2>1. CASE r.block = <<>> /\ (r.info.block_created => old.block_created)
    BY <1>2, <1>6, <2>1
  <2>2. CASE \E b : r.block = <<b>> /\ b.kind = "Block" /\ b.slot = m.slot
    BY <1>4, <2>2 DEF Built
  <2> QED
    BY <1>3, <2>1, <2>2
<1>9. /\ DOMAIN infos = DOMAIN slots \union {m.slot} /\ infos[m.slot] = r.info
      /\ \A s \in DOMAIN slots : s # m.slot => infos[s] = slots[s]
  BY DEF Put
<1>10. ASSUME NEW s \in DOMAIN infos
       PROVE  InfoSound(infos[s]) /\ (infos[s].block_created => Built(s)')
  <2>1. CASE s = m.slot
    BY <1>3, <1>8, <1>9, <2>1
  <2>2. CASE s # m.slot
    <3>1. s \in DOMAIN slots /\ infos[s] = slots[s]
      BY <1>9, <2>2
    <3>2. InfoSound(slots[s]) /\ (slots[s].block_created => Built(s))
      BY <3>1 DEF SenderInv, SlotsSound
    <3> QED
      BY <1>6, <3>1, <3>2
  <2> QED
    BY <2>1, <2>2
<1>11. ASSUME NEW j \in 1 .. Len(processed'),
              IsStatus(processed'[j], {"Confirmed", "Finalized"}),
              NEW s, s = processed'[j].slot
       PROVE  (s \in DOMAIN infos /\ infos[s].landed) \/ Built(s)' \/ Told(s)'
  <2>1. CASE j \in 1 .. Len(processed)
    <3>1. (s \in DOMAIN slots /\ slots[s].landed) \/ Built(s) \/ Told(s)
      BY <1>4, <1>11, <2>1 DEF SenderInv, LandedKnown
    <3>2. CASE s \in DOMAIN slots /\ slots[s].landed /\ s = m.slot
      <4>1. old = slots[s]
        BY <1>1, <3>2 DEF InfoOf
      <4> QED
        BY <1>3, <1>9, <3>2, <4>1
    <3>3. CASE s \in DOMAIN slots /\ slots[s].landed /\ s # m.slot
      BY <1>9, <3>3
    <3> QED
      BY <1>6, <1>7, <3>1, <3>2, <3>3
  <2>2. CASE processed'[j] = m
    BY <1>3, <1>9, <1>11, <2>2
  <2>3. CASE \E b : r.block = <<b>> /\ processed'[j] = b
    <3>1. PICK b : r.block = <<b>> /\ processed'[j] = b
      BY <2>3
    <3>2. PICK c : r.block = <<c>> /\ c.kind = "Block"
      BY <1>3, <3>1
    <3>3. b = c
      BY <3>1, <3>2
    <3> QED
      BY <1>11, <3>1, <3>2, <3>3 DEF IsStatus
  <2> QED
    BY <1>4, <2>1, <2>2, <2>3
<1> QED
  BY <1>4, <1>10, <1>11 DEF Known

\* A slot that a push ends keeps what it was known for.
LEMMA SenderStep == SenderInv /\ [Next]_vars => SenderInv'
<1> SUFFICES ASSUME SenderInv, [Next]_vars PROVE SenderInv'
  OBVIOUS
<1>1. ASSUME NEW m \in Inputs, PushData(m)
      PROVE  SenderInv'
  <2>1. PICK r : r = get_block_message(InfoOf(m.slot), m)
    OBVIOUS
  <2>2. /\ slots' = Put(slots, m.slot, r.info) /\ processed' = Append(processed, m) \o r.block
        /\ reports \subseteq reports'
    BY <1>1, <2>1 DEF PushData
  <2>3. m.kind \in Kinds
    BY SenderAssumption DEF Kinds
  <2>4. PICK infos : infos = Put(slots, m.slot, r.info)
    OBVIOUS
  <2>5. Known(infos)'
    BY ONLY SenderInv, <2>1, <2>2, <2>3, <2>4, PushKeeps
  <2>6. slots' = infos
    BY <2>2, <2>4
  <2> QED
    BY <2>5, <2>6 DEF Known, SenderInv, SlotsSound, LandedKnown
<1>2. ASSUME NEW m \in Inputs, PushStatus(m)
      PROVE  SenderInv'
  <2>1. PICK r : r = get_block_message(InfoOf(m.slot), m)
    OBVIOUS
  <2>2. PICK infos : infos = Put(slots, m.slot, r.info)
    OBVIOUS
  <2>3. PICK ended : ended = {s \in DOMAIN infos : m.status = "Finalized" /\ s <= m.slot}
    OBVIOUS
  <2>4. /\ slots' = [s \in DOMAIN infos \ ended |-> infos[s]]
        /\ processed' = Append(processed, m) \o r.block
        /\ reports' = reports \union Report(m.slot, r.reasons)
                         \union UNION {Report(s, DropReasons(infos[s])) : s \in ended}
    BY <1>2, <2>1, <2>2, <2>3 DEF PushStatus
  <2>5. m.kind \in Kinds
    BY SenderAssumption DEF Kinds
  <2>6. reports \subseteq reports'
    BY <2>4
  <2>7. /\ Known(infos)'
        /\ \A s \in DOMAIN infos :
              InfoSound(infos[s]) /\ (infos[s].block_created => Built(s)')
    <3>1. Known(infos)'
      BY ONLY SenderInv, <2>1, <2>2, <2>4, <2>5, <2>6, PushKeeps
    <3> QED
      BY ONLY <3>1 DEF Known
  <2>8. ASSUME NEW s \in ended, infos[s].landed
        PROVE  Built(s)' \/ Told(s)'
    <3>1. s \in DOMAIN infos
      BY <2>3
    <3>2. CASE infos[s].block_created
      BY <2>7, <3>1, <3>2
    <3>3. CASE ~infos[s].block_created
      <4>1. DropReasons(infos[s]) # {}
        BY <2>7, <2>8, <3>1, <3>3, DropTells
      <4>2. [slot |-> s, reasons |-> DropReasons(infos[s])] \in Report(s, DropReasons(infos[s]))
        BY <4>1 DEF Report
      <4>3. [slot |-> s, reasons |-> DropReasons(infos[s])] \in reports'
        BY <2>4, <4>2
      <4> QED
        BY <4>3 DEF Told
    <3> QED
      BY <3>2, <3>3
  <2>9. /\ DOMAIN slots' = DOMAIN infos \ ended
        /\ \A s \in DOMAIN infos \ ended : slots'[s] = infos[s]
    BY <2>4
  <2>10. SlotsSound'
    BY <2>7, <2>9 DEF SlotsSound
  <2>11. LandedKnown'
    BY <2>7, <2>8, <2>9 DEF Known, LandedKnown
  <2> QED
    BY <2>7, <2>10, <2>11 DEF Known, SenderInv
<1>3. CASE UNCHANGED vars
  BY <1>3 DEF SenderInv, SlotsSound, LandedKnown, Built, Told, vars
<1> QED
  BY <1>1, <1>2, <1>3 DEF Next

\* Of every slot the sender remembers, the SlotInfo has its block as soon as it can
\* and fails only after it; and of every slot that was confirmed or finalized, it is
\* remembered as landed, or the block is pushed, or a failure reported.
THEOREM SenderInvariant == Spec => []SenderInv
<1>1. Init => SenderInv
  BY SenderInit
<1>2. SenderInv /\ [Next]_vars => SenderInv'
  BY SenderStep
<1> QED
  BY <1>1, <1>2, PTL DEF Spec

\* A slot that landed and was dropped by Sender::push (or by the finalization of a
\* later slot) has its block in the ring, or block_message_failed_inc told of it.
THEOREM LandedTheorem == Spec => []LandedBuiltOrReported
<1>1. SenderInv => LandedBuiltOrReported
  BY DEF SenderInv, LandedKnown, LandedBuiltOrReported, Built, Told
<1> QED
  BY <1>1, SenderInvariant, PTL

-----------------------------------------------------------------------------
(***************************************************************************)
(* The elements of a sequence at some of its positions                     *)
(***************************************************************************)

\* Some of the positions 1 .. n are finitely many.
LEMMA FewPositions ==
    ASSUME NEW n \in Nat, NEW K \in SUBSET (1 .. n)
    PROVE  IsFiniteSet(K) /\ Cardinality(K) \in Nat
<1>1. IsFiniteSet(1 .. n)
  BY FS_Interval
<1>2. IsFiniteSet(K)
  BY <1>1, FS_Subset
<1> QED
  BY <1>2, FS_CardinalityType

\* The rank of a position is a position of what is picked.
LEMMA RankBounds ==
    ASSUME NEW n \in Nat, NEW K \in SUBSET (1 .. n), NEW i \in K
    PROVE  Rank(i, K) \in 1 .. Cardinality(K)
<1>1. PICK L : L = {j \in K : j <= i}
  OBVIOUS
<1>2. IsFiniteSet(K) /\ Cardinality(K) \in Nat
  BY FewPositions
<1>3. L \in SUBSET K /\ i \in L
  BY <1>1
<1>4. IsFiniteSet(L) /\ Cardinality(L) <= Cardinality(K)
  BY <1>2, <1>3, FS_Subset
<1>5. Cardinality(L) \in Nat
  BY <1>4, FS_CardinalityType
<1>6. Cardinality(L) # 0
  BY <1>3, <1>4, FS_EmptySet
<1>7. Cardinality(L) \in 1 .. Cardinality(K)
  BY <1>2, <1>4, <1>5, <1>6
<1> QED
  BY <1>1, <1>7 DEF Rank

\* A later position has a larger rank.
LEMMA RankGrows ==
    ASSUME NEW n \in Nat, NEW K \in SUBSET (1 .. n), NEW i \in K, NEW j \in K, i < j
    PROVE  Rank(i, K) < Rank(j, K)
<1>1. PICK L : L = {k \in K : k <= i}
  OBVIOUS
<1>2. PICK M : M = {k \in K : k <= j}
  OBVIOUS
<1>3. IsFiniteSet(K)
  BY FewPositions
<1>4. L \in SUBSET M /\ j \in M /\ j \notin L /\ M \in SUBSET K
  <2>1. i \in Int /\ j \in Int /\ \A k \in K : k \in Int
    OBVIOUS
  <2>2. j \in M /\ j \notin L /\ M \in SUBSET K
    BY <1>1, <1>2, <2>1
  <2>3. \A k \in K : k <= i => k <= j
    BY <2>1
  <2> QED
    BY <1>1, <1>2, <2>2, <2>3
<1>5. IsFiniteSet(M)
  BY <1>3, <1>4, FS_Subset
<1>6. IsFiniteSet(L) /\ Cardinality(L) <= Cardinality(M) /\ Cardinality(L) # Cardinality(M)
  BY <1>4, <1>5, FS_Subset
<1>7. Cardinality(L) \in Nat /\ Cardinality(M) \in Nat
  BY <1>5, <1>6, FS_CardinalityType
<1>8. Cardinality(L) < Cardinality(M)
  BY <1>6, <1>7
<1> QED
  BY <1>1, <1>2, <1>8 DEF Rank

\* Two positions of the same rank are one.
LEMMA RankOnce ==
    ASSUME NEW n \in Nat, NEW K \in SUBSET (1 .. n), NEW i \in K, NEW j \in K,
           Rank(i, K) = Rank(j, K)
    PROVE  i = j
<1>1. Cardinality(K) \in Nat /\ Rank(i, K) \in 1 .. Cardinality(K)
  BY FewPositions, RankBounds
<1>2. Rank(i, K) \in Int /\ i \in Int /\ j \in Int
  BY <1>1
<1>3. CASE i < j
  <2>1. Rank(i, K) < Rank(j, K)
    BY <1>3, RankGrows
  <2> QED
    BY <1>2, <2>1
<1>4. CASE j < i
  <2>1. Rank(j, K) < Rank(i, K)
    BY <1>4, RankGrows
  <2> QED
    BY <1>2, <2>1
<1> QED
  BY <1>2, <1>3, <1>4

\* Every rank is taken: otherwise two positions would share one.
LEMMA RankTaken ==
    ASSUME NEW n \in Nat, NEW K \in SUBSET (1 .. n), NEW r \in 1 .. Cardinality(K)
    PROVE  \E i \in K : Rank(i, K) = r
<1> SUFFICES ASSUME \A i \in K : Rank(i, K) # r PROVE FALSE
  OBVIOUS
<1>1. IsFiniteSet(K) /\ Cardinality(K) \in Nat
  BY FewPositions
<1>2. PICK T : T = (1 .. Cardinality(K)) \ {r}
  OBVIOUS
<1>3. PICK f : f = [i \in K |-> Rank(i, K)]
  OBVIOUS
<1>4. f \in [K -> T]
  BY <1>2, <1>3, RankBounds
<1>5. IsFiniteSet(1 .. Cardinality(K)) /\ Cardinality(1 .. Cardinality(K)) = Cardinality(K)
  BY <1>1, FS_Interval
<1>6. IsFiniteSet(T) /\ Cardinality(T) = Cardinality(K) - 1
  BY <1>2, <1>5, FS_RemoveElement, ZenonT(30)
<1>7. Cardinality(T) < Cardinality(K)
  BY <1>1, <1>6
<1>8. \E x, y \in K : x # y /\ f[x] = f[y]
  BY <1>1, <1>4, <1>6, <1>7, FS_PigeonHole
<1> QED
  BY <1>3, <1>8, RankOnce

\* p is what q has at the positions K: each at its rank, and nothing else.
Picked(p, q, K) ==
    /\ IsSequence(p) /\ Len(p) = Cardinality(K)
    /\ \A i \in K : p[Rank(i, K)] = q[i]
    /\ \A r \in 1 .. Cardinality(K) : \E i \in K : Rank(i, K) = r /\ p[r] = q[i]

\* Pick picks.
LEMMA PickIs ==
    ASSUME NEW n \in Nat, NEW K \in SUBSET (1 .. n), NEW q
    PROVE  Picked(Pick(q, K), q, K)
<1>1. PICK N : N = Cardinality(K)
  OBVIOUS
<1>2. PICK at : at = [r \in 1 .. N |-> CHOOSE i \in K : Rank(i, K) = r]
  OBVIOUS
<1>3. N \in Nat
  BY <1>1, FewPositions
<1>4. \A r \in 1 .. N : at[r] \in K /\ Rank(at[r], K) = r
  BY <1>1, <1>2, RankTaken
<1>5. \A i \in K : Rank(i, K) \in 1 .. N
  BY <1>1, RankBounds
<1>6. \A i \in K : at[Rank(i, K)] = i
  BY <1>4, <1>5, RankOnce
<1>7. PICK p : p = Pick(q, K)
  OBVIOUS
<1>8. p = [r \in 1 .. N |-> q[at[r]]]
  BY <1>1, <1>2, <1>7 DEF Pick
<1>9. p \in [1 .. N -> {q[i] : i \in K}]
  BY <1>4, <1>8
<1>10. p \in Seq({q[i] : i \in K}) /\ Len(p) = N
  BY <1>3, <1>9
<1>11. IsSequence(p)
  BY <1>10 DEF IsSequence
<1>12. \A i \in K : p[Rank(i, K)] = q[i]
  BY <1>5, <1>6, <1>8
<1>13. \A r \in 1 .. N : at[r] \in K /\ Rank(at[r], K) = r /\ p[r] = q[at[r]]
  BY <1>4, <1>8
<1> QED
  BY <1>1, <1>7, <1>10, <1>11, <1>12, <1>13 DEF Picked

\* Picks of sequences that agree on the positions are equal.
LEMMA PickSame ==
    ASSUME NEW n \in Nat, NEW K \in SUBSET (1 .. n), NEW p, NEW q, \A i \in K : p[i] = q[i]
    PROVE  Pick(p, K) = Pick(q, K)
<1>1. PICK N : N = Cardinality(K)
  OBVIOUS
<1>2. PICK at : at = [r \in 1 .. N |-> CHOOSE i \in K : Rank(i, K) = r]
  OBVIOUS
<1>3. \A r \in 1 .. N : at[r] \in K
  BY <1>1, <1>2, RankTaken
<1>4. Pick(p, K) = [r \in 1 .. N |-> p[at[r]]] /\ Pick(q, K) = [r \in 1 .. N |-> q[at[r]]]
  BY <1>1, <1>2 DEF Pick
<1> QED
  BY <1>3, <1>4

\* A position behind the others is picked last.
LEMMA PickLast ==
    ASSUME NEW n \in Nat, NEW K \in SUBSET (1 .. n), NEW q
    PROVE  Pick(q, K \union {n + 1}) = Append(Pick(q, K), q[n + 1])
<1>1. PICK L : L = K \union {n + 1}
  OBVIOUS
<1>2. L \in SUBSET (1 .. (n + 1)) /\ n + 1 \in Nat /\ n + 1 \notin K
  BY <1>1
<1>3. IsFiniteSet(K) /\ Cardinality(K) \in Nat
  BY FewPositions
<1>4. Cardinality(L) = Cardinality(K) + 1
  BY <1>1, <1>2, <1>3, FS_AddElement
<1>5. \A i \in K : Rank(i, L) = Rank(i, K)
  <2>1. ASSUME NEW i \in K
        PROVE  {j \in L : j <= i} = {j \in K : j <= i}
    BY <1>1
  <2> QED
    BY <2>1 DEF Rank
<1>6. Rank(n + 1, L) = Cardinality(L)
  <2>1. \A j \in L : j <= n + 1
    BY <1>2
  <2>2. {j \in L : j <= n + 1} = L
    BY <2>1
  <2> QED
    BY <2>2 DEF Rank
<1>7. PICK p : p = Pick(q, K)
  OBVIOUS
<1>8. PICK w : w = Pick(q, L)
  OBVIOUS
<1>9. /\ IsSequence(p) /\ Len(p) = Cardinality(K)
      /\ \A r \in 1 .. Cardinality(K) : \E i \in K : Rank(i, K) = r /\ p[r] = q[i]
  <2>1. Picked(Pick(q, K), q, K)
    BY PickIs
  <2> QED
    BY ONLY <1>7, <2>1 DEF Picked
<1>10. /\ IsSequence(w) /\ Len(w) = Cardinality(L)
       /\ \A i \in L : w[Rank(i, L)] = q[i]
  <2>1. Picked(Pick(q, L), q, L)
    BY <1>2, PickIs
  <2> QED
    BY ONLY <1>8, <2>1 DEF Picked
<1>11. PICK S : p \in Seq(S)
  BY <1>9 DEF IsSequence
<1>12. PICK T : w \in Seq(T)
  BY <1>10 DEF IsSequence
<1>13. PICK U : U = S \union T \union {q[n + 1]}
  OBVIOUS
<1>14. p \in Seq(U) /\ w \in Seq(U) /\ q[n + 1] \in U
  BY <1>11, <1>12, <1>13
<1>15. PICK a : a = Append(p, q[n + 1])
  OBVIOUS
<1>16. /\ a \in Seq(U) /\ Len(a) = Len(p) + 1 /\ a[Len(p) + 1] = q[n + 1]
       /\ \A r \in 1 .. Len(p) : a[r] = p[r]
  BY <1>14, <1>15
<1>17. Len(w) = Len(a)
  BY <1>4, <1>9, <1>10, <1>16
<1>18. ASSUME NEW r \in 1 .. Len(w)
       PROVE  w[r] = a[r]
  <2>1. CASE r \in 1 .. Len(p)
    <3>1. PICK i \in K : Rank(i, K) = r /\ p[r] = q[i]
      BY <1>9, <2>1
    <3>2. i \in L /\ Rank(i, L) = r
      BY <1>1, <1>5, <3>1
    <3> QED
      BY <1>10, <1>16, <2>1, <3>1, <3>2
  <2>2. CASE r = Len(p) + 1
    <3>1. n + 1 \in L /\ Rank(n + 1, L) = r
      BY <1>1, <1>4, <1>6, <1>9, <2>2
    <3> QED
      BY <1>10, <1>16, <2>2, <3>1
  <2> QED
    BY <1>3, <1>9, <1>16, <1>17, <2>1, <2>2
<1>19. w = a
  BY <1>14, <1>16, <1>17, <1>18, SeqEqual
<1> QED
  BY <1>1, <1>7, <1>8, <1>15, <1>19

-----------------------------------------------------------------------------
(***************************************************************************)
(* What a SlotInfo has collected                                           *)
(***************************************************************************)

\* The sequence a is q with m behind it.
Grown(a, q, m) ==
    /\ IsSequence(a) /\ IsSequence(q) /\ Len(q) \in Nat
    /\ Len(a) = Len(q) + 1 /\ a[Len(q) + 1] = m
    /\ \A i \in 1 .. Len(q) : a[i] = q[i]

\* Append puts one element behind a sequence.
LEMMA AppendGrows ==
    ASSUME NEW q, IsSequence(q), NEW m
    PROVE  Grown(Append(q, m), q, m)
<1>1. PICK S : q \in Seq(S)
  BY DEF IsSequence
<1>2. q \in Seq(S \union {m})
  BY <1>1
<1>3. PICK a : a = Append(q, m)
  OBVIOUS
<1>4. /\ a \in Seq(S \union {m}) /\ Len(q) \in Nat /\ Len(a) = Len(q) + 1
      /\ a[Len(q) + 1] = m /\ \A i \in 1 .. Len(q) : a[i] = q[i]
  BY <1>2, <1>3
<1>5. IsSequence(a)
  BY <1>4 DEF IsSequence
<1> QED
  BY <1>3, <1>4, <1>5 DEF Grown

\* Picking from a longer sequence.
PicksMore(a, q, m, K) ==
    Pick(a, K) = Pick(q, K) /\ Pick(a, K \union {Len(q) + 1}) = Append(Pick(q, K), m)

\* The element behind the sequence is picked last, or not at all.
LEMMA PickGrown ==
    ASSUME NEW a, NEW q, NEW m, Grown(a, q, m), NEW K \in SUBSET (1 .. Len(q))
    PROVE  PicksMore(a, q, m, K)
<1>1. Len(q) \in Nat /\ a[Len(q) + 1] = m /\ \A i \in K : a[i] = q[i]
  BY DEF Grown
<1>2. Pick(a, K) = Pick(q, K)
  BY <1>1, PickSame
<1>3. Pick(a, K \union {Len(q) + 1}) = Append(Pick(a, K), a[Len(q) + 1])
  BY <1>1, PickLast
<1> QED
  BY ONLY <1>1, <1>2, <1>3 DEF PicksMore

\* The messages of one kind.
LEMMA KindGrown ==
    ASSUME NEW a, NEW q, NEW m, Grown(a, q, m), NEW kind
    PROVE  /\ m.kind = kind => OfKind(a, kind) = Append(OfKind(q, kind), m)
           /\ m.kind # kind => OfKind(a, kind) = OfKind(q, kind)
<1>1. PICK K : K = {i \in 1 .. Len(q) : q[i].kind = kind}
  OBVIOUS
<1>2. PICK L : L = {i \in 1 .. Len(a) : a[i].kind = kind}
  OBVIOUS
<1>3. K \in SUBSET (1 .. Len(q))
  BY <1>1
<1>4. OfKind(q, kind) = Pick(q, K) /\ OfKind(a, kind) = Pick(a, L)
  BY <1>1, <1>2 DEF OfKind
<1>5. /\ m.kind = kind => L = K \union {Len(q) + 1}
      /\ m.kind # kind => L = K
  BY <1>1, <1>2 DEF Grown
<1>6. PicksMore(a, q, m, K)
  BY ONLY <1>3, Grown(a, q, m), PickGrown
<1> QED
  BY ONLY <1>4, <1>5, <1>6 DEF PicksMore

\* The positions of the messages of a slot of one kind.
Of(q, s, kind) == {i \in 1 .. Len(q) : q[i].kind = kind /\ q[i].slot = s}

\* One more message is one more position at most.
LEMMA OfGrown ==
    ASSUME NEW a, NEW q, NEW m, Grown(a, q, m), NEW s, NEW kind
    PROVE  /\ m.kind = kind /\ m.slot = s => Of(a, s, kind) = Of(q, s, kind) \union {Len(q) + 1}
           /\ ~(m.kind = kind /\ m.slot = s) => Of(a, s, kind) = Of(q, s, kind)
BY DEF Grown, Of

\* The messages of a slot of one kind.
LEMMA PickOfGrown ==
    ASSUME NEW a, NEW q, NEW m, Grown(a, q, m), NEW s, NEW kind
    PROVE  /\ m.kind = kind /\ m.slot = s =>
                Pick(a, Of(a, s, kind)) = Append(Pick(q, Of(q, s, kind)), m)
           /\ ~(m.kind = kind /\ m.slot = s) =>
                Pick(a, Of(a, s, kind)) = Pick(q, Of(q, s, kind))
<1>1. PICK K : K = Of(q, s, kind)
  OBVIOUS
<1>2. K \in SUBSET (1 .. Len(q))
  BY <1>1 DEF Of
<1>3. PicksMore(a, q, m, K)
  BY ONLY <1>2, Grown(a, q, m), PickGrown
<1>4. /\ m.kind = kind /\ m.slot = s => Of(a, s, kind) = K \union {Len(q) + 1}
      /\ ~(m.kind = kind /\ m.slot = s) => Of(a, s, kind) = K
  BY <1>1, OfGrown
<1> QED
  BY ONLY <1>1, <1>3, <1>4 DEF PicksMore

\* The entry d of accounts_dedup points to the update of account a it is about.
PointsTo(messages, a, d) ==
    /\ d.idx \in 1 .. Len(messages) /\ d.write_version \in Nat
    /\ messages[d.idx].kind = "Account" /\ messages[d.idx].account = a
    /\ messages[d.idx].write_version = d.write_version

\* A SlotInfo has messages of its slot only.
Own(info, s) ==
    /\ IsSequence(info.messages)
    /\ \A i \in 1 .. Len(info.messages) :
          info.messages[i] # Superseded => info.messages[i].slot = s
    /\ \A a \in DOMAIN info.accounts_dedup :
          PointsTo(info.messages, a, info.accounts_dedup[a])

\* A SlotInfo has the transactions and entries of its slot in q, all of them in their
\* order and counted, and no account update in q is newer than the one it has.
Newest(info, s, q) ==
    \A i \in Of(q, s, "Account") :
        /\ q[i].account \in DOMAIN info.accounts_dedup
        /\ q[i].write_version \in Nat
        /\ info.accounts_dedup[q[i].account].write_version >= q[i].write_version

Collects(info, s, q) ==
    /\ OfKind(info.messages, "Transaction") = Pick(q, Of(q, s, "Transaction"))
    /\ OfKind(info.messages, "Entry") = Pick(q, Of(q, s, "Entry"))
    /\ info.transactions_count = Len(OfKind(info.messages, "Transaction"))
    /\ info.entries_count = Len(OfKind(info.messages, "Entry"))
    /\ Newest(info, s, q)

\* A message that is not stored for the slot changes nothing of it.
LEMMA OtherCollects ==
    ASSUME NEW info, NEW s, NEW q, Collects(info, s, q), NEW a, NEW m, Grown(a, q, m),
           m.slot # s \/ m.kind \in {"Slot", "BlockMeta", "Block"}
    PROVE  Collects(info, s, a)
<1>1. \A kind \in {"Transaction", "Entry", "Account"} : ~(m.kind = kind /\ m.slot = s)
  OBVIOUS
<1>2. /\ Pick(a, Of(a, s, "Transaction")) = Pick(q, Of(q, s, "Transaction"))
      /\ Pick(a, Of(a, s, "Entry")) = Pick(q, Of(q, s, "Entry"))
  BY <1>1, PickOfGrown
<1>3. Of(a, s, "Account") = Of(q, s, "Account")
  BY <1>1, OfGrown
<1>4. \A i \in Of(q, s, "Account") : a[i] = q[i]
  BY DEF Grown, Of
<1>5. Newest(info, s, a)
  BY <1>3, <1>4 DEF Newest, Collects
<1> QED
  BY <1>2, <1>5 DEF Collects

\* Superseded updates of accounts leave the other messages alone.
Rebased(base, q) ==
    /\ IsSequence(base) /\ IsSequence(q) /\ Len(base) = Len(q) /\ Len(q) \in Nat
    /\ \A i \in 1 .. Len(q) :
          base[i] = q[i] \/ (q[i].kind = "Account" /\ base[i] = Superseded)

\* What is superseded is neither a transaction nor an entry.
LEMMA KindRebased ==
    ASSUME NEW base, NEW q, Rebased(base, q), NEW kind \in {"Transaction", "Entry"}
    PROVE  OfKind(base, kind) = OfKind(q, kind)
<1>1. PICK K : K = {i \in 1 .. Len(q) : q[i].kind = kind}
  OBVIOUS
<1>2. K \in SUBSET (1 .. Len(q)) /\ Len(q) \in Nat
  BY <1>1 DEF Rebased
<1>3. {i \in 1 .. Len(base) : base[i].kind = kind} = K
  BY <1>1 DEF Rebased, Superseded
<1>4. \A i \in K : base[i] = q[i]
  BY <1>1 DEF Rebased
<1>5. Pick(base, K) = Pick(q, K)
  BY <1>2, <1>4, PickSame
<1> QED
  BY <1>1, <1>3, <1>5 DEF OfKind

\* What a plain message adds to the SlotInfo.
Stored(new, info, m, tx, en) ==
    /\ new.messages = Append(info.messages, m)
    /\ new.transactions_count = tx
    /\ new.entries_count = en
    /\ new.accounts_dedup = info.accounts_dedup

\* A transaction is stored and counted.
LEMMA StoreTransaction ==
    ASSUME NEW info, IsInfo(info), NEW m, m.kind = "Transaction"
    PROVE  Stored(Store(info, m), info, m, info.transactions_count + 1, info.entries_count)
<1>1. DOMAIN info = Fields /\ info = [f \in Fields |-> info[f]]
  BY DEF IsInfo
<1>2. Store(info, m) = [info EXCEPT !.messages = Append(@, m), !.transactions_count = @ + 1]
  BY DEF Store
<1>3. PICK new : new = Store(info, m)
  OBVIOUS
<1> QED
  BY <1>1, <1>2, <1>3 DEF Stored, Fields

\* An entry is stored and counted.
LEMMA StoreEntry ==
    ASSUME NEW info, IsInfo(info), NEW m, m.kind = "Entry"
    PROVE  Stored(Store(info, m), info, m, info.transactions_count, info.entries_count + 1)
<1>1. DOMAIN info = Fields /\ info = [f \in Fields |-> info[f]]
  BY DEF IsInfo
<1>2. Store(info, m) = [info EXCEPT !.messages = Append(@, m), !.entries_count = @ + 1]
  BY DEF Store
<1>3. PICK new : new = Store(info, m)
  OBVIOUS
<1> QED
  BY <1>1, <1>2, <1>3 DEF Stored, Fields

\* A block meta is stored.
LEMMA StoreBlockMeta ==
    ASSUME NEW info, IsInfo(info), NEW m, m.kind = "BlockMeta"
    PROVE  Stored(Store(info, m), info, m, info.transactions_count, info.entries_count)
<1>1. DOMAIN info = Fields /\ info = [f \in Fields |-> info[f]]
  BY DEF IsInfo
<1>2. Store(info, m) = [info EXCEPT !.messages = Append(@, m), !.block_meta = m]
  BY DEF Store
<1>3. PICK new : new = Store(info, m)
  OBVIOUS
<1> QED
  BY <1>1, <1>2, <1>3 DEF Stored, Fields

\* What an update of an account does to the SlotInfo: it is newer than the one that is
\* known, which it supersedes, or it is only stored.
Newer(info, m) ==
    m.account \in DOMAIN info.accounts_dedup =>
        info.accounts_dedup[m.account].write_version < m.write_version

Base(info, m) ==
    IF m.account \in DOMAIN info.accounts_dedup /\ Newer(info, m)
    THEN [info.messages EXCEPT ![info.accounts_dedup[m.account].idx] = Superseded]
    ELSE info.messages

\* An update of an account is stored, and noted if it is the newest.
LEMMA StoreAccountIs ==
    ASSUME NEW info, IsInfo(info), NEW m, m.kind = "Account"
    PROVE  LET new == Store(info, m)
               entry == [write_version |-> m.write_version, idx |-> Len(info.messages) + 1]
           IN  /\ new.messages = Append(Base(info, m), m)
               /\ new.transactions_count = info.transactions_count
               /\ new.entries_count = info.entries_count
               /\ Newer(info, m) =>
                    new.accounts_dedup = Put(info.accounts_dedup, m.account, entry)
               /\ ~Newer(info, m) => new.accounts_dedup = info.accounts_dedup
<1>1. DOMAIN info = Fields /\ info = [f \in Fields |-> info[f]]
  BY DEF IsInfo
<1>2. PICK entry : entry = [write_version |-> m.write_version, idx |-> Len(info.messages) + 1]
  OBVIOUS
<1>3. PICK msgs : msgs = Append(Base(info, m), m)
  OBVIOUS
<1>4. PICK dedup : dedup = IF Newer(info, m) THEN Put(info.accounts_dedup, m.account, entry)
                           ELSE info.accounts_dedup
  OBVIOUS
<1>5. Store(info, m) = [info EXCEPT !.messages = msgs, !.accounts_dedup = dedup]
  <2>1. Store(info, m) = StoreAccount(info, m)
    BY DEF Store
  <2> QED
    BY <2>1, <1>2, <1>3, <1>4 DEF StoreAccount, Newer, Base
<1>6. /\ Store(info, m).messages = msgs /\ Store(info, m).accounts_dedup = dedup
      /\ Store(info, m).transactions_count = info.transactions_count
      /\ Store(info, m).entries_count = info.entries_count
  BY <1>1, <1>5 DEF Fields
<1> QED
  BY <1>2, <1>3, <1>4, <1>6

\* The superseded update is one of the account.
LEMMA BaseRebased ==
    ASSUME NEW info, NEW s, Own(info, s), NEW m
    PROVE  Rebased(Base(info, m), info.messages)
<1>1. PICK msgs : msgs = info.messages
  OBVIOUS
<1>2. PICK S : msgs \in Seq(S)
  BY <1>1 DEF Own, IsSequence
<1>3. Len(msgs) \in Nat /\ IsSequence(msgs)
  BY <1>2 DEF IsSequence
<1>4. CASE m.account \in DOMAIN info.accounts_dedup /\ Newer(info, m)
  <2>1. PICK x : x = info.accounts_dedup[m.account].idx
    OBVIOUS
  <2>2. x \in 1 .. Len(msgs) /\ msgs[x].kind = "Account"
    BY <1>1, <1>4, <2>1 DEF Own, PointsTo
  <2>3. PICK base : base = [msgs EXCEPT ![x] = Superseded]
    OBVIOUS
  <2>4. msgs \in Seq(S \union {Superseded})
    BY <1>2
  <2>5. /\ base \in Seq(S \union {Superseded}) /\ Len(base) = Len(msgs)
        /\ \A i \in 1 .. Len(msgs) : base[i] = IF i = x THEN Superseded ELSE msgs[i]
    BY <2>2, <2>3, <2>4
  <2>6. IsSequence(base)
    BY <2>5 DEF IsSequence
  <2>7. Rebased(base, msgs)
    BY <1>3, <2>2, <2>5, <2>6 DEF Rebased
  <2>8. Base(info, m) = base
    BY <1>1, <1>4, <2>1, <2>3 DEF Base
  <2> QED
    BY <1>1, <2>7, <2>8
<1>5. CASE ~(m.account \in DOMAIN info.accounts_dedup /\ Newer(info, m))
  <2>1. Base(info, m) = msgs
    BY <1>1, <1>5 DEF Base
  <2>2. Rebased(msgs, msgs)
    BY <1>3 DEF Rebased
  <2> QED
    BY <1>1, <2>1, <2>2
<1> QED
  BY <1>4, <1>5

\* A block that is among the messages stays among them.
Keeps(new, old) ==
    \A k \in 1 .. Len(old) : old[k].kind = "Block" => \E n \in 1 .. Len(new) : new[n] = old[k]

\* More messages keep the block.
LEMMA KeepsGrown ==
    ASSUME NEW g, NEW q, NEW m, Grown(g, q, m), NEW old, Keeps(q, old)
    PROVE  Keeps(g, old)
<1>1. \A n \in 1 .. Len(q) : n \in 1 .. Len(g) /\ g[n] = q[n]
  BY DEF Grown
<1> QED
  BY <1>1 DEF Keeps

\* What is superseded is no block.
LEMMA KeepsRebased ==
    ASSUME NEW base, NEW q, Rebased(base, q)
    PROVE  Keeps(base, q)
<1>1. \A n \in 1 .. Len(q) : n \in 1 .. Len(base) /\ (q[n].kind = "Block" => base[n] = q[n])
  BY DEF Rebased
<1> QED
  BY <1>1 DEF Keeps

\* An entry of accounts_dedup does not move.
LEMMA PointsGrown ==
    ASSUME NEW g, NEW q, NEW m, Grown(g, q, m), NEW a, NEW d, PointsTo(q, a, d)
    PROVE  PointsTo(g, a, d)
<1>1. \A n \in 1 .. Len(q) : n \in 1 .. Len(g) /\ g[n] = q[n]
  BY DEF Grown
<1> QED
  BY <1>1 DEF PointsTo

\* The messages stay messages of the slot.
Belong(q, s) == \A i \in 1 .. Len(q) : q[i] # Superseded => q[i].slot = s

\* One more message of the slot.
LEMMA BelongGrown ==
    ASSUME NEW g, NEW q, NEW m, Grown(g, q, m), NEW s, Belong(q, s), m.slot = s
    PROVE  Belong(g, s)
<1>1. \A n \in 1 .. Len(g) : g[n] = m \/ (n \in 1 .. Len(q) /\ g[n] = q[n])
  BY DEF Grown
<1> QED
  BY <1>1 DEF Belong

\* A superseded message is of no slot.
LEMMA BelongRebased ==
    ASSUME NEW base, NEW q, Rebased(base, q), NEW s, Belong(q, s)
    PROVE  Belong(base, s)
BY DEF Rebased, Belong

\* A plain message is stored.
LEMMA PlainOwn ==
    ASSUME NEW info, NEW s, Own(info, s), NEW m, m.slot = s,
           NEW new, NEW tx, NEW en, Stored(new, info, m, tx, en)
    PROVE  Own(new, s) /\ Keeps(new.messages, info.messages)
<1>1. PICK q : q = info.messages
  OBVIOUS
<1>2. PICK g : g = Append(q, m)
  OBVIOUS
<1>3. IsSequence(q) /\ Belong(q, s)
  BY <1>1 DEF Own, Belong
<1>4. Grown(g, q, m)
  BY <1>2, <1>3, AppendGrows
<1>5. Belong(g, s) /\ IsSequence(g)
  <2>1. Belong(g, s)
    BY <1>3, <1>4, BelongGrown
  <2> QED
    BY <1>4, <2>1 DEF Grown
<1>6. new.messages = g /\ new.accounts_dedup = info.accounts_dedup
  BY <1>1, <1>2 DEF Stored
<1>7. ASSUME NEW a \in DOMAIN info.accounts_dedup
      PROVE  PointsTo(g, a, info.accounts_dedup[a])
  <2>1. PointsTo(q, a, info.accounts_dedup[a])
    BY <1>1 DEF Own
  <2> QED
    BY <1>4, <2>1, PointsGrown
<1>8. Own(new, s)
  BY <1>5, <1>6, <1>7 DEF Own, Belong
<1>9. Keeps(q, q)
  BY DEF Keeps
<1>10. Keeps(g, q)
  BY <1>4, <1>9, KeepsGrown
<1> QED
  BY <1>1, <1>6, <1>8, <1>10

\* An update of an account is stored.
LEMMA AccountOwn ==
    ASSUME NEW info, IsInfo(info), NEW s, Own(info, s),
           NEW m, m.kind = "Account", m.slot = s, m.write_version \in Nat
    PROVE  Own(Store(info, m), s) /\ Keeps(Store(info, m).messages, info.messages)
<1>1. PICK q : q = info.messages
  OBVIOUS
<1>2. PICK base : base = Base(info, m)
  OBVIOUS
<1>3. PICK g : g = Append(base, m)
  OBVIOUS
<1>4. PICK new : new = Store(info, m)
  OBVIOUS
<1>5. PICK entry : entry = [write_version |-> m.write_version, idx |-> Len(q) + 1]
  OBVIOUS
<1>6. /\ new.messages = g
      /\ Newer(info, m) => new.accounts_dedup = Put(info.accounts_dedup, m.account, entry)
      /\ ~Newer(info, m) => new.accounts_dedup = info.accounts_dedup
  BY <1>1, <1>2, <1>3, <1>4, <1>5, StoreAccountIs
<1>7. Rebased(base, q)
  BY <1>1, <1>2, BaseRebased
<1>8. IsSequence(base) /\ Len(base) = Len(q)
  BY <1>7 DEF Rebased
<1>9. Grown(g, base, m)
  BY <1>3, <1>8, AppendGrows
<1>10. Belong(g, s) /\ IsSequence(g)
  <2>1. Belong(q, s)
    BY <1>1 DEF Own, Belong
  <2>2. Belong(base, s)
    BY <1>7, <2>1, BelongRebased
  <2>3. Belong(g, s)
    BY <1>9, <2>2, BelongGrown
  <2> QED
    BY <1>9, <2>3 DEF Grown
<1>11. Keeps(g, q)
  BY <1>7, <1>9, KeepsRebased, KeepsGrown
<1>12. ASSUME NEW a \in DOMAIN info.accounts_dedup, a # m.account \/ ~Newer(info, m)
       PROVE  PointsTo(g, a, info.accounts_dedup[a])
  <2>1. PICK d : d = info.accounts_dedup[a]
    OBVIOUS
  <2>2. PointsTo(q, a, d)
    BY <1>1, <2>1 DEF Own
  <2>3. base[d.idx] = q[d.idx]
    <3>1. CASE m.account \in DOMAIN info.accounts_dedup /\ Newer(info, m)
      <4>1. PICK x : x = info.accounts_dedup[m.account].idx
        OBVIOUS
      <4>2. PointsTo(q, m.account, info.accounts_dedup[m.account])
        BY <1>1, <3>1 DEF Own
      <4>3. x # d.idx
        BY <1>12, <2>2, <3>1, <4>1, <4>2 DEF PointsTo
      <4>4. base = [q EXCEPT ![x] = Superseded]
        BY <1>1, <1>2, <3>1, <4>1 DEF Base
      <4>5. DOMAIN q = 1 .. Len(q)
        <5>1. PICK S : q \in Seq(S)
          BY <1>1 DEF Own, IsSequence
        <5> QED
          BY <5>1
      <4> QED
        BY <2>2, <4>3, <4>4, <4>5 DEF PointsTo
    <3>2. CASE ~(m.account \in DOMAIN info.accounts_dedup /\ Newer(info, m))
      BY <1>1, <1>2, <3>2 DEF Base
    <3> QED
      BY <3>1, <3>2
  <2>4. PointsTo(base, a, d)
    BY <1>8, <2>2, <2>3 DEF PointsTo
  <2> QED
    BY <1>9, <2>1, <2>4, PointsGrown
<1>13. PointsTo(g, m.account, entry)
  <2>1. g[Len(q) + 1] = m /\ Len(q) + 1 \in 1 .. Len(g)
    BY <1>8, <1>9 DEF Grown
  <2>2. entry.idx = Len(q) + 1 /\ entry.write_version = m.write_version
    BY <1>5
  <2> QED
    BY <2>1, <2>2 DEF PointsTo
<1>14. ASSUME NEW a \in DOMAIN new.accounts_dedup
       PROVE  PointsTo(g, a, new.accounts_dedup[a])
  <2>1. CASE ~Newer(info, m)
    BY <1>6, <1>12, <1>14, <2>1
  <2>2. CASE Newer(info, m)
    <3>1. new.accounts_dedup = Put(info.accounts_dedup, m.account, entry)
      BY <1>6, <2>2
    <3>2. CASE a = m.account
      <4>1. new.accounts_dedup[a] = entry
        BY <3>1, <3>2 DEF Put
      <4> QED
        BY <1>13, <3>2, <4>1
    <3>3. CASE a # m.account
      <4>1. a \in DOMAIN info.accounts_dedup /\ new.accounts_dedup[a] = info.accounts_dedup[a]
        BY <1>14, <3>1, <3>3 DEF Put
      <4> QED
        BY <1>12, <3>3, <4>1
    <3> QED
      BY <3>2, <3>3
  <2> QED
    BY <2>1, <2>2
<1>15. Own(new, s)
  BY <1>6, <1>10, <1>14 DEF Own, Belong
<1> QED
  BY <1>1, <1>4, <1>6, <1>11, <1>15

\* Whatever is stored, the SlotInfo has messages of its slot only.
LEMMA StoreOwn ==
    ASSUME NEW info, IsInfo(info), NEW s, Own(info, s), NEW m, m.kind \in Kinds, m.slot = s,
           m.kind = "Account" => m.write_version \in Nat
    PROVE  Own(Store(info, m), s) /\ Keeps(Store(info, m).messages, info.messages)
<1>1. CASE m.kind = "Slot"
  <2>1. Store(info, m) = info
    BY <1>1 DEF Store
  <2> QED
    BY <2>1 DEF Keeps
<1>2. CASE m.kind = "Account"
  BY <1>2, AccountOwn
<1>3. CASE m.kind = "Transaction"
  <2>1. Stored(Store(info, m), info, m, info.transactions_count + 1, info.entries_count)
    BY <1>3, StoreTransaction
  <2> QED
    BY <2>1, PlainOwn
<1>4. CASE m.kind = "Entry"
  <2>1. Stored(Store(info, m), info, m, info.transactions_count, info.entries_count + 1)
    BY <1>4, StoreEntry
  <2> QED
    BY <2>1, PlainOwn
<1>5. CASE m.kind = "BlockMeta"
  <2>1. Stored(Store(info, m), info, m, info.transactions_count, info.entries_count)
    BY <1>5, StoreBlockMeta
  <2> QED
    BY <2>1, PlainOwn
<1> QED
  BY <1>1, <1>2, <1>3, <1>4, <1>5 DEF Kinds

\* What is picked is a sequence.
LEMMA KindSequence ==
    ASSUME NEW q, IsSequence(q), NEW kind
    PROVE  IsSequence(OfKind(q, kind))
<1>1. PICK K : K = {i \in 1 .. Len(q) : q[i].kind = kind}
  OBVIOUS
<1>2. Len(q) \in Nat /\ K \in SUBSET (1 .. Len(q))
  BY <1>1 DEF IsSequence
<1>3. Picked(Pick(q, K), q, K)
  BY <1>2, PickIs
<1> QED
  BY <1>1, <1>3 DEF Picked, OfKind

\* One more transaction or entry is one more of its kind.
LEMMA OneMoreOfKind ==
    ASSUME NEW g, NEW q, NEW m, Grown(g, q, m), NEW kind, m.kind = kind
    PROVE  Len(OfKind(g, kind)) = Len(OfKind(q, kind)) + 1
<1>1. PICK p : p = OfKind(q, kind)
  OBVIOUS
<1>2. IsSequence(p)
  BY <1>1, KindSequence DEF Grown
<1>3. Grown(Append(p, m), p, m)
  BY <1>2, AppendGrows
<1>4. OfKind(g, kind) = Append(p, m)
  BY <1>1, KindGrown
<1> QED
  BY <1>1, <1>3, <1>4 DEF Grown

\* The transactions and the entries, as they are collected.
CollectsKind(messages, s, q, kind, count) ==
    OfKind(messages, kind) = Pick(q, Of(q, s, kind)) /\ count = Len(OfKind(messages, kind))

\* One more message is collected.
LEMMA CollectsMore ==
    ASSUME NEW q, NEW m, NEW s, m.slot = s, NEW a, Grown(a, q, m),
           NEW msgs, NEW g, Grown(g, msgs, m), NEW count, NEW kind,
           CollectsKind(msgs, s, q, kind, count)
    PROVE  /\ m.kind = kind => CollectsKind(g, s, a, kind, count + 1)
           /\ m.kind # kind => CollectsKind(g, s, a, kind, count)
<1>1. CASE m.kind = kind
  <2>1. PICK p : p = OfKind(msgs, kind)
    OBVIOUS
  <2>2. OfKind(g, kind) = Append(p, m)
    BY <1>1, <2>1, KindGrown
  <2>3. Pick(a, Of(a, s, kind)) = Append(Pick(q, Of(q, s, kind)), m)
    BY <1>1, PickOfGrown
  <2>4. Len(OfKind(g, kind)) = count + 1
    BY <1>1, OneMoreOfKind DEF CollectsKind
  <2>5. Pick(q, Of(q, s, kind)) = p
    BY <2>1 DEF CollectsKind
  <2> QED
    BY ONLY <1>1, <2>2, <2>3, <2>4, <2>5 DEF CollectsKind
<1>2. CASE m.kind # kind
  <2>1. OfKind(g, kind) = OfKind(msgs, kind)
    BY <1>2, KindGrown
  <2>2. Pick(a, Of(a, s, kind)) = Pick(q, Of(q, s, kind))
    BY <1>2, PickOfGrown
  <2> QED
    BY <1>2, <2>1, <2>2 DEF CollectsKind
<1> QED
  BY <1>1, <1>2

\* A SlotInfo collects its slot: in terms of the kinds.
LEMMA CollectsIs ==
    ASSUME NEW info, NEW s, NEW q
    PROVE  Collects(info, s, q) <=>
              /\ CollectsKind(info.messages, s, q, "Transaction", info.transactions_count)
              /\ CollectsKind(info.messages, s, q, "Entry", info.entries_count)
              /\ Newest(info, s, q)
BY DEF Collects, CollectsKind

\* A plain message is collected.
LEMMA PlainCollects ==
    ASSUME NEW info, NEW s, Own(info, s), NEW q, Collects(info, s, q),
           NEW m, m.slot = s, m.kind # "Account", NEW a, Grown(a, q, m),
           NEW new, NEW tx, NEW en, Stored(new, info, m, tx, en),
           tx = IF m.kind = "Transaction" THEN info.transactions_count + 1
                ELSE info.transactions_count,
           en = IF m.kind = "Entry" THEN info.entries_count + 1 ELSE info.entries_count
    PROVE  Collects(new, s, a)
<1>1. PICK msgs : msgs = info.messages
  OBVIOUS
<1>2. PICK g : g = Append(msgs, m)
  OBVIOUS
<1>3. IsSequence(msgs)
  BY <1>1 DEF Own
<1>4. Grown(g, msgs, m)
  BY <1>2, <1>3, AppendGrows
<1>5. /\ new.messages = g /\ new.transactions_count = tx /\ new.entries_count = en
      /\ new.accounts_dedup = info.accounts_dedup
  BY <1>1, <1>2 DEF Stored
<1>6. /\ CollectsKind(msgs, s, q, "Transaction", info.transactions_count)
      /\ CollectsKind(msgs, s, q, "Entry", info.entries_count)
      /\ Newest(info, s, q)
  BY <1>1, CollectsIs
<1>7. CollectsKind(g, s, a, "Transaction", tx)
  BY <1>4, <1>6, CollectsMore
<1>8. CollectsKind(g, s, a, "Entry", en)
  BY <1>4, <1>6, CollectsMore
<1>9. Of(a, s, "Account") = Of(q, s, "Account")
  BY OfGrown
<1>10. \A i \in Of(q, s, "Account") : a[i] = q[i]
  BY DEF Grown, Of
<1>11. Newest(new, s, a)
  BY <1>5, <1>6, <1>9, <1>10 DEF Newest
<1> QED
  BY <1>5, <1>7, <1>8, <1>11, CollectsIs

\* An update of an account is collected.
LEMMA AccountCollects ==
    ASSUME NEW info, IsInfo(info), NEW s, Own(info, s), NEW q, Collects(info, s, q),
           NEW m, m.slot = s, m.kind = "Account", m.write_version \in Nat,
           NEW a, Grown(a, q, m)
    PROVE  Collects(Store(info, m), s, a)
<1>1. PICK msgs : msgs = info.messages
  OBVIOUS
<1>2. PICK base : base = Base(info, m)
  OBVIOUS
<1>3. PICK g : g = Append(base, m)
  OBVIOUS
<1>4. PICK new : new = Store(info, m)
  OBVIOUS
<1>5. PICK entry : entry = [write_version |-> m.write_version, idx |-> Len(msgs) + 1]
  OBVIOUS
<1>6. /\ new.messages = g
      /\ new.transactions_count = info.transactions_count
      /\ new.entries_count = info.entries_count
      /\ Newer(info, m) => new.accounts_dedup = Put(info.accounts_dedup, m.account, entry)
      /\ ~Newer(info, m) => new.accounts_dedup = info.accounts_dedup
  BY <1>1, <1>2, <1>3, <1>4, <1>5, StoreAccountIs
<1>7. Rebased(base, msgs)
  BY <1>1, <1>2, BaseRebased
<1>8. Grown(g, base, m)
  BY <1>3, <1>7, AppendGrows DEF Rebased
<1>9. /\ CollectsKind(msgs, s, q, "Transaction", info.transactions_count)
      /\ CollectsKind(msgs, s, q, "Entry", info.entries_count)
      /\ Newest(info, s, q)
  BY <1>1, CollectsIs
<1>10. /\ CollectsKind(base, s, q, "Transaction", info.transactions_count)
       /\ CollectsKind(base, s, q, "Entry", info.entries_count)
  BY <1>7, <1>9, KindRebased DEF CollectsKind
<1>11. CollectsKind(g, s, a, "Transaction", info.transactions_count)
  BY <1>8, <1>10, CollectsMore
<1>12. CollectsKind(g, s, a, "Entry", info.entries_count)
  BY <1>8, <1>10, CollectsMore
<1>13. PICK dedup : dedup = info.accounts_dedup
  OBVIOUS
<1>14. PICK after : after = new.accounts_dedup
  OBVIOUS
<1>15. \A b \in DOMAIN dedup : dedup[b].write_version \in Nat
  BY <1>13 DEF Own, PointsTo
<1>16. /\ \A b \in DOMAIN dedup : b \in DOMAIN after
       /\ m.account \in DOMAIN after
       /\ \A b \in DOMAIN after : b = m.account \/ (b \in DOMAIN dedup /\ after[b] = dedup[b])
       /\ after[m.account].write_version \in Nat
       /\ after[m.account].write_version >= m.write_version
       /\ m.account \in DOMAIN dedup =>
             after[m.account].write_version >= dedup[m.account].write_version
  <2>1. CASE Newer(info, m)
    <3>1. after = Put(dedup, m.account, entry)
      BY <1>6, <1>13, <1>14, <2>1
    <3>2. after[m.account] = entry /\ entry.write_version = m.write_version
      BY <1>5, <3>1 DEF Put
    <3>3. m.account \in DOMAIN dedup => dedup[m.account].write_version < m.write_version
      BY <1>13, <2>1 DEF Newer
    <3>4. m.account \in DOMAIN dedup =>
             after[m.account].write_version >= dedup[m.account].write_version
      BY <1>15, <3>2, <3>3
    <3>5. /\ DOMAIN after = DOMAIN dedup \union {m.account}
          /\ \A b \in DOMAIN dedup : b # m.account => after[b] = dedup[b]
      BY <3>1 DEF Put
    <3> QED
      BY <3>2, <3>4, <3>5
  <2>2. CASE ~Newer(info, m)
    <3>1. after = dedup
      BY <1>6, <1>13, <1>14, <2>2
    <3>2. m.account \in DOMAIN dedup /\ ~(dedup[m.account].write_version < m.write_version)
      BY <1>13, <2>2 DEF Newer
    <3> QED
      BY <1>15, <3>1, <3>2
  <2> QED
    BY <2>1, <2>2
<1>17. ASSUME NEW i \in Of(a, s, "Account")
       PROVE  /\ a[i].account \in DOMAIN after /\ a[i].write_version \in Nat
              /\ after[a[i].account].write_version >= a[i].write_version
  <2>1. CASE i = Len(q) + 1
    <3>1. a[i] = m
      BY <2>1 DEF Grown
    <3> QED
      BY <1>16, <3>1
  <2>2. CASE i # Len(q) + 1
    <3>1. i \in Of(q, s, "Account") /\ a[i] = q[i]
      BY <2>2 DEF Grown, Of
    <3>2. /\ q[i].account \in DOMAIN dedup /\ q[i].write_version \in Nat
          /\ dedup[q[i].account].write_version >= q[i].write_version
      BY <1>9, <1>13, <3>1 DEF Newest
    <3>3. CASE q[i].account = m.account
      BY <1>15, <1>16, <3>1, <3>2, <3>3
    <3>4. CASE q[i].account # m.account
      BY <1>16, <3>1, <3>2, <3>4
    <3> QED
      BY <3>3, <3>4
  <2> QED
    BY <2>1, <2>2
<1>18. Newest(new, s, a)
  BY <1>14, <1>17 DEF Newest
<1> QED
  BY <1>4, <1>6, <1>11, <1>12, <1>18, CollectsIs

\* Whatever is stored is collected.
LEMMA StoreCollects ==
    ASSUME NEW info, IsInfo(info), NEW s, Own(info, s), NEW q, Collects(info, s, q),
           NEW m, m.slot = s, m.kind \in Kinds,
           m.kind = "Account" => m.write_version \in Nat, NEW a, Grown(a, q, m)
    PROVE  Collects(Store(info, m), s, a)
<1>1. CASE m.kind = "Slot"
  <2>1. Store(info, m) = info
    BY <1>1 DEF Store
  <2> QED
    BY <1>1, <2>1, OtherCollects
<1>2. CASE m.kind = "Account"
  BY <1>2, AccountCollects
<1>3. CASE m.kind = "Transaction"
  <2>1. Stored(Store(info, m), info, m, info.transactions_count + 1, info.entries_count)
    BY <1>3, StoreTransaction
  <2> QED
    BY <1>3, <2>1, PlainCollects
<1>4. CASE m.kind = "Entry"
  <2>1. Stored(Store(info, m), info, m, info.transactions_count, info.entries_count + 1)
    BY <1>4, StoreEntry
  <2> QED
    BY <1>4, <2>1, PlainCollects
<1>5. CASE m.kind = "BlockMeta"
  <2>1. Stored(Store(info, m), info, m, info.transactions_count, info.entries_count)
    BY <1>5, StoreBlockMeta
  <2> QED
    BY <1>5, <2>1, PlainCollects
<1> QED
  BY <1>1, <1>2, <1>3, <1>4, <1>5 DEF Kinds

-----------------------------------------------------------------------------
(***************************************************************************)
(* The block is whole                                                      *)
(***************************************************************************)

\* No status in q has ended slot s.
OpenIn(q, s) ==
    \A i \in 1 .. Len(q) : IsStatus(q[i], {"Finalized"}) => q[i].slot < s

\* The SlotInfo of slot s, when q has been pushed: until the slot ends or has its block,
\* it has collected what q has of the slot.
GoodInfo(info, s, q) ==
    Own(info, s) /\ (OpenIn(q, s) /\ ~info.block_created => Collects(info, s, q))

\* Block b has what q has of slot s.
WholeIn(b, s, q) ==
    /\ b.transactions = Pick(q, Of(q, s, "Transaction"))
    /\ b.entries = Pick(q, Of(q, s, "Entry"))
    /\ Len(b.transactions) = b.block_meta.transactions
    /\ Len(b.entries) = b.block_meta.entries
    /\ \A i \in Of(q, s, "Account") :
          \E k \in 1 .. Len(b.accounts) :
             /\ b.accounts[k].account = q[i].account
             /\ b.accounts[k].write_version >= q[i].write_version

\* b is among the messages.
Has(messages, b) == \E k \in 1 .. Len(messages) : messages[k] = b

\* The block a push builds: of the slot, stored, and whole.
GoodBlock(b, info, s, q) ==
    /\ b.kind = "Block" /\ b.slot = s /\ Has(info.messages, b)
    /\ OpenIn(q, s) => WholeIn(b, s, q)

\* A slot that is open was open before.
LEMMA OpenBefore ==
    ASSUME NEW a, NEW q, NEW m, Grown(a, q, m), NEW s, OpenIn(a, s)
    PROVE  OpenIn(q, s)
<1>1. \A i \in 1 .. Len(q) : i \in 1 .. Len(a) /\ a[i] = q[i]
  BY DEF Grown
<1> QED
  BY <1>1 DEF OpenIn

\* A block that is built from what a SlotInfo collected is whole.
LEMMA CollectedIsWhole ==
    ASSUME NEW info, NEW s, NEW q, Own(info, s), Collects(info, s, q), Complete(info),
           NEW b, b = Block(s, info)
    PROVE  WholeIn(b, s, q)
<1>1. PICK msgs : msgs = info.messages
  OBVIOUS
<1>2. PICK K : K = {i \in 1 .. Len(msgs) : msgs[i].kind = "Account"}
  OBVIOUS
<1>3. /\ b.transactions = OfKind(msgs, "Transaction") /\ b.entries = OfKind(msgs, "Entry")
      /\ b.accounts = Pick(msgs, K) /\ b.block_meta = info.block_meta
  BY <1>1, <1>2 DEF Block, OfKind
<1>4. /\ b.transactions = Pick(q, Of(q, s, "Transaction"))
      /\ b.entries = Pick(q, Of(q, s, "Entry"))
      /\ Len(b.transactions) = b.block_meta.transactions
      /\ Len(b.entries) = b.block_meta.entries
  BY <1>1, <1>3 DEF Collects, Complete
<1>5. Len(msgs) \in Nat /\ K \in SUBSET (1 .. Len(msgs))
  BY <1>1, <1>2 DEF Own, IsSequence
<1>6. Picked(b.accounts, msgs, K)
  BY <1>3, <1>5, PickIs
<1>7. ASSUME NEW i \in Of(q, s, "Account")
      PROVE  \E k \in 1 .. Len(b.accounts) :
                /\ b.accounts[k].account = q[i].account
                /\ b.accounts[k].write_version >= q[i].write_version
  <2>1. PICK d : d = info.accounts_dedup[q[i].account]
    OBVIOUS
  <2>2. q[i].account \in DOMAIN info.accounts_dedup /\ d.write_version >= q[i].write_version
    BY <2>1 DEF Collects, Newest
  <2>3. PointsTo(msgs, q[i].account, d)
    BY <1>1, <2>1, <2>2 DEF Own
  <2>4. d.idx \in K
    BY <1>2, <2>3 DEF PointsTo
  <2>5. Rank(d.idx, K) \in 1 .. Cardinality(K)
    BY <1>5, <2>4, RankBounds
  <2>6. Rank(d.idx, K) \in 1 .. Len(b.accounts) /\ b.accounts[Rank(d.idx, K)] = msgs[d.idx]
    BY <1>6, <2>4, <2>5 DEF Picked
  <2> QED
    BY <2>2, <2>3, <2>6 DEF PointsTo
<1> QED
  BY <1>4, <1>7 DEF WholeIn

\* The mark of a status leaves the messages of the SlotInfo alone.
LEMMA MarkIs ==
    ASSUME NEW old, IsInfo(old), NEW m
    PROVE  /\ IsInfo(MarkLanded(old, m))
           /\ MarkLanded(old, m).messages = old.messages
           /\ MarkLanded(old, m).accounts_dedup = old.accounts_dedup
           /\ MarkLanded(old, m).transactions_count = old.transactions_count
           /\ MarkLanded(old, m).entries_count = old.entries_count
           /\ MarkLanded(old, m).block_created = old.block_created
<1>1. DOMAIN old = Fields /\ old = [f \in Fields |-> old[f]]
  BY DEF IsInfo
<1>2. PICK info : info = MarkLanded(old, m)
  OBVIOUS
<1>3. CASE IsStatus(m, {"Confirmed", "Finalized"})
  <2>1. info = [old EXCEPT !.landed = TRUE]
    BY <1>2, <1>3 DEF MarkLanded
  <2> QED
    BY <1>1, <1>2, <2>1 DEF IsInfo, Fields
<1>4. CASE ~IsStatus(m, {"Confirmed", "Finalized"})
  <2>1. info = old
    BY <1>2, <1>4 DEF MarkLanded
  <2> QED
    BY <1>2, <2>1
<1> QED
  BY <1>3, <1>4

\* GoodInfo looks at these fields only.
LEMMA GoodInfoSame ==
    ASSUME NEW old, NEW s, NEW q, GoodInfo(old, s, q), NEW info,
           info.messages = old.messages, info.accounts_dedup = old.accounts_dedup,
           info.transactions_count = old.transactions_count,
           info.entries_count = old.entries_count, info.block_created = old.block_created
    PROVE  GoodInfo(info, s, q)
<1>1. Own(info, s)
  BY DEF GoodInfo, Own
<1>2. Collects(old, s, q) => Collects(info, s, q)
  BY DEF Collects, Newest
<1> QED
  BY <1>1, <1>2 DEF GoodInfo

\* A message of the source.
Valid(m) ==
    /\ m.kind \in Kinds /\ m.slot \in Nat
    /\ m.kind = "Account" => m.write_version \in Nat

\* Whatever get_block_message does, the SlotInfo stays good, and so is the block.
LEMMA BlockMessageGood ==
    ASSUME NEW old, InfoSound(old), NEW q, NEW m, Valid(m), GoodInfo(old, m.slot, q),
           NEW a, Grown(a, q, m), NEW r, r = get_block_message(old, m)
    PROVE  /\ GoodInfo(r.info, m.slot, a) /\ Keeps(r.info.messages, old.messages)
           /\ \A b : r.block = <<b>> => GoodBlock(b, r.info, m.slot, a)
<1>1. PICK s : s = m.slot
  OBVIOUS
<1>2. PICK info : info = MarkLanded(old, m)
  OBVIOUS
<1>3. PICK stored : stored = Store(info, m)
  OBVIOUS
<1>4. PICK block : block = Block(s, stored)
  OBVIOUS
<1>5. IsInfo(old) /\ old.block_created \in BOOLEAN
  BY DEF InfoSound
<1>6. /\ IsInfo(info) /\ info.messages = old.messages /\ info.block_created = old.block_created
      /\ info.accounts_dedup = old.accounts_dedup
      /\ info.transactions_count = old.transactions_count
      /\ info.entries_count = old.entries_count
  BY <1>2, <1>5, MarkIs
<1>7. GoodInfo(info, s, q)
  BY <1>1, <1>6, GoodInfoSame
<1>8. Own(stored, s) /\ Keeps(stored.messages, old.messages)
  BY <1>1, <1>3, <1>6, <1>7, StoreOwn DEF GoodInfo, Valid
<1>9. OpenIn(a, s) => OpenIn(q, s)
  BY OpenBefore
<1>10. OpenIn(a, s) /\ ~info.block_created => Collects(stored, s, a)
  <2>1. SUFFICES ASSUME OpenIn(a, s), ~info.block_created PROVE Collects(stored, s, a)
    OBVIOUS
  <2>2. Own(info, s) /\ Collects(info, s, q)
    BY <1>7, <1>9, <2>1 DEF GoodInfo
  <2> QED
    BY <1>1, <1>3, <1>6, <2>2, StoreCollects DEF Valid
<1>11. IsInfo(stored) /\ stored.block_created = info.block_created
  BY <1>3, <1>6, StoreIs DEF Valid
<1>12. CASE info.block_created
  <2>1. r.info = [info EXCEPT !.failed = TRUE] /\ r.block = <<>>
    BY <1>2, <1>3, <1>12 DEF get_block_message
  <2>2. /\ r.info.messages = old.messages /\ r.info.block_created = info.block_created
        /\ r.info.accounts_dedup = old.accounts_dedup
    BY <1>6, <2>1 DEF IsInfo, Fields
  <2>3. Own(r.info, s)
    BY <1>6, <1>7, <2>2 DEF GoodInfo, Own
  <2>4. GoodInfo(r.info, s, a)
    BY <1>12, <2>2, <2>3 DEF GoodInfo
  <2>5. Keeps(r.info.messages, old.messages)
    BY <2>2 DEF Keeps
  <2>6. \A b : r.block # <<b>>
    BY <2>1
  <2> QED
    BY <1>1, <2>4, <2>5, <2>6
<1>13. CASE ~info.block_created /\ Complete(stored)
  <2>1. /\ r.info = [stored EXCEPT !.block_created = TRUE, !.messages = Append(@, block)]
        /\ r.block = <<block>>
    BY <1>1, <1>2, <1>3, <1>4, <1>13 DEF get_block_message
  <2>2. /\ r.info.messages = Append(stored.messages, block) /\ r.info.block_created = TRUE
        /\ r.info.accounts_dedup = stored.accounts_dedup
    BY <1>11, <2>1 DEF IsInfo, Fields
  <2>3. block.kind = "Block" /\ block.slot = s
    BY <1>4 DEF Block
  <2>4. PICK g : g = Append(stored.messages, block)
    OBVIOUS
  <2>5. Grown(g, stored.messages, block)
    BY <1>8, <2>4, AppendGrows DEF Own
  <2>6. Belong(g, s)
    BY <1>8, <2>3, <2>5, BelongGrown DEF Own, Belong
  <2>7. \A b \in DOMAIN stored.accounts_dedup : PointsTo(g, b, stored.accounts_dedup[b])
    BY <1>8, <2>5, PointsGrown DEF Own
  <2>8. Own(r.info, s)
    BY <2>2, <2>4, <2>5, <2>6, <2>7 DEF Own, Belong, Grown
  <2>9. GoodInfo(r.info, s, a)
    BY <2>2, <2>8 DEF GoodInfo
  <2>10. Keeps(r.info.messages, old.messages)
    BY <1>8, <2>2, <2>4, <2>5, KeepsGrown
  <2>11. Has(g, block)
    <3>1. Len(stored.messages) + 1 \in 1 .. Len(g) /\ g[Len(stored.messages) + 1] = block
      BY <2>5 DEF Grown
    <3> QED
      BY <3>1 DEF Has
  <2>12. OpenIn(a, s) => WholeIn(block, s, a)
    BY <1>4, <1>8, <1>10, <1>13, CollectedIsWhole
  <2>13. GoodBlock(block, r.info, s, a)
    BY <2>2, <2>3, <2>4, <2>11, <2>12 DEF GoodBlock
  <2>14. \A b : r.block = <<b>> => b = block
    BY <2>1
  <2> QED
    BY <1>1, <2>9, <2>10, <2>13, <2>14
<1>14. CASE ~info.block_created /\ ~Complete(stored)
  <2>1. r.info = stored /\ r.block = <<>>
    BY <1>2, <1>3, <1>14 DEF get_block_message
  <2>2. GoodInfo(r.info, s, a)
    BY <1>8, <1>10, <1>14, <2>1 DEF GoodInfo
  <2>3. \A b : r.block # <<b>>
    BY <2>1
  <2> QED
    BY <1>1, <1>8, <2>1, <2>2, <2>3
<1> QED
  BY <1>12, <1>13, <1>14

\* The sender after q has been pushed: every SlotInfo is good, and an open slot that has
\* a message in q has a SlotInfo, which has the block if that is in q.
Held(f, x) == x.slot \in DOMAIN f /\ (x.kind = "Block" => Has(f[x.slot].messages, x))

Good(f, q) ==
    /\ IsSequence(q) /\ DOMAIN f \subseteq Nat
    /\ \A s \in DOMAIN f : GoodInfo(f[s], s, q)
    /\ \A i \in 1 .. Len(q) : OpenIn(q, q[i].slot) => Held(f, q[i])

\* Nothing is collected of nothing.
LEMMA PickNone ==
    ASSUME NEW p, NEW q
    PROVE  Pick(p, {}) = Pick(q, {}) /\ Len(Pick(p, {})) = 0
<1>1. 0 \in Nat /\ {} \in SUBSET (1 .. 0)
  OBVIOUS
<1>2. Pick(p, {}) = Pick(q, {})
  BY <1>1, PickSame
<1>3. Picked(Pick(p, {}), p, {})
  BY <1>1, PickIs
<1>4. Len(Pick(p, {})) = 0
  BY <1>3, FS_EmptySet DEF Picked
<1> QED
  BY <1>2, <1>4

\* A slot without a SlotInfo gets one that is good.
LEMMA NewGood ==
    ASSUME NEW f, NEW q, Good(f, q), NEW s, s \notin DOMAIN f
    PROVE  GoodInfo(NewInfo, s, q)
<1>1. /\ NewInfo.messages = <<>> /\ NewInfo.transactions_count = 0 /\ NewInfo.entries_count = 0
      /\ DOMAIN NewInfo.accounts_dedup = {}
  BY DEF NewInfo
<1>2. <<>> \in Seq({}) /\ Len(<<>>) = 0
  OBVIOUS
<1>3. Own(NewInfo, s)
  BY <1>1, <1>2 DEF Own, IsSequence
<1>4. ASSUME OpenIn(q, s)
      PROVE  Collects(NewInfo, s, q)
  <2>1. \A i \in 1 .. Len(q) : q[i].slot # s
    BY <1>4 DEF Good, Held
  <2>2. \A kind : Of(q, s, kind) = {}
    BY <2>1 DEF Of
  <2>3. \A kind : OfKind(<<>>, kind) = Pick(<<>>, {})
    BY <1>2 DEF OfKind
  <2>4. \A kind : CollectsKind(<<>>, s, q, kind, 0)
    BY <2>2, <2>3, PickNone DEF CollectsKind
  <2>5. Newest(NewInfo, s, q)
    BY <2>2 DEF Newest
  <2> QED
    BY <1>1, <2>4, <2>5, CollectsIs
<1> QED
  BY <1>3, <1>4 DEF GoodInfo

\* The SlotInfo of another slot stays good.
LEMMA OtherGood ==
    ASSUME NEW info, NEW s, NEW q, GoodInfo(info, s, q), NEW a, NEW m, Grown(a, q, m),
           m.slot # s \/ m.kind \in {"Slot", "BlockMeta", "Block"}
    PROVE  GoodInfo(info, s, a)
BY OpenBefore, OtherCollects DEF GoodInfo

\* A message has been pushed.
LEMMA PushGood ==
    ASSUME NEW f, NEW q, Good(f, q), NEW m, Valid(m), NEW a, Grown(a, q, m),
           NEW old, old = (IF m.slot \in DOMAIN f THEN f[m.slot] ELSE NewInfo), NEW info,
           GoodInfo(info, m.slot, a), Keeps(info.messages, old.messages)
    PROVE  Good(Put(f, m.slot, info), a)
<1>1. PICK s : s = m.slot
  OBVIOUS
<1>2. PICK g : g = Put(f, s, info)
  OBVIOUS
<1>3. /\ DOMAIN g = DOMAIN f \union {s} /\ g[s] = info
      /\ \A t \in DOMAIN f : t # s => g[t] = f[t]
  BY <1>2 DEF Put
<1>4. IsSequence(a) /\ DOMAIN g \subseteq Nat
  BY <1>1, <1>3 DEF Grown, Good, Valid
<1>5. ASSUME NEW t \in DOMAIN g
      PROVE  GoodInfo(g[t], t, a)
  <2>1. CASE t = s
    BY <1>1, <1>3, <2>1
  <2>2. CASE t # s
    <3>1. t \in DOMAIN f /\ g[t] = f[t]
      BY <1>3, <2>2
    <3>2. GoodInfo(f[t], t, q)
      BY <3>1 DEF Good
    <3> QED
      BY <1>1, <2>2, <3>1, <3>2, OtherGood
  <2> QED
    BY <2>1, <2>2
<1>6. ASSUME NEW i \in 1 .. Len(a), OpenIn(a, a[i].slot)
      PROVE  Held(g, a[i])
  <2>1. CASE a[i] = m
    BY <1>1, <1>3, <2>1 DEF Held, Valid, Kinds
  <2>2. CASE i \in 1 .. Len(q) /\ a[i] = q[i]
    <3>1. PICK x : x = q[i]
      OBVIOUS
    <3>2. OpenIn(q, x.slot)
      BY <1>6, <2>2, <3>1, OpenBefore
    <3>3. Held(f, x)
      BY <2>2, <3>1, <3>2 DEF Good
    <3>4. CASE x.slot # s
      BY <1>3, <2>2, <3>1, <3>3, <3>4 DEF Held
    <3>5. CASE x.slot = s
      <4>1. old = f[s]
        BY <1>1, <3>3, <3>5 DEF Held
      <4>2. x.kind = "Block" => Has(info.messages, x)
        BY <3>3, <3>5, <4>1 DEF Held, Has, Keeps
      <4> QED
        BY <1>3, <2>2, <3>1, <3>5, <4>2 DEF Held
    <3> QED
      BY <3>4, <3>5
  <2> QED
    BY <2>1, <2>2 DEF Grown
<1> QED
  BY <1>1, <1>2, <1>4, <1>5, <1>6 DEF Good

\* A block has been pushed.
LEMMA PushBlockGood ==
    ASSUME NEW f, NEW q, Good(f, q), NEW b, b.kind = "Block", Held(f, b),
           NEW a, Grown(a, q, b)
    PROVE  Good(f, a)
<1>1. IsSequence(a) /\ DOMAIN f \subseteq Nat
  BY DEF Grown, Good
<1>2. \A s \in DOMAIN f : GoodInfo(f[s], s, a)
  BY OtherGood DEF Good
<1>3. ASSUME NEW i \in 1 .. Len(a), OpenIn(a, a[i].slot)
      PROVE  Held(f, a[i])
  <2>1. CASE a[i] = b
    BY <2>1
  <2>2. CASE i \in 1 .. Len(q) /\ a[i] = q[i]
    BY <1>3, <2>2, OpenBefore DEF Good
  <2> QED
    BY <2>1, <2>2 DEF Grown
<1> QED
  BY <1>1, <1>2, <1>3 DEF Good

\* Slots that have ended are dropped.
LEMMA DropGood ==
    ASSUME NEW f, NEW q, Good(f, q), NEW D, \A s \in D : ~OpenIn(q, s)
    PROVE  Good([s \in DOMAIN f \ D |-> f[s]], q)
<1>1. PICK g : g = [s \in DOMAIN f \ D |-> f[s]]
  OBVIOUS
<1>2. DOMAIN g = DOMAIN f \ D /\ \A s \in DOMAIN g : s \in DOMAIN f /\ g[s] = f[s]
  BY <1>1
<1>3. IsSequence(q) /\ DOMAIN g \subseteq Nat
  BY <1>2 DEF Good
<1>4. \A s \in DOMAIN g : GoodInfo(g[s], s, q)
  BY <1>2 DEF Good
<1>5. \A i \in 1 .. Len(q) : OpenIn(q, q[i].slot) => Held(g, q[i])
  BY <1>2 DEF Good, Held
<1> QED
  BY <1>1, <1>3, <1>4, <1>5 DEF Good

\* Element j of q, if it is a block of an open slot, has what is before it of the slot.
Prior(q, j, kind) == {i \in 1 .. j - 1 : q[i].kind = kind /\ q[i].slot = q[j].slot}

OpenUntil(q, s, j) == \A i \in 1 .. j - 1 : IsStatus(q[i], {"Finalized"}) => q[i].slot < s

WholeAt(q, j) ==
    q[j].kind = "Block" /\ OpenUntil(q, q[j].slot, j) =>
        /\ q[j].transactions = Pick(q, Prior(q, j, "Transaction"))
        /\ q[j].entries = Pick(q, Prior(q, j, "Entry"))
        /\ Len(q[j].transactions) = q[j].block_meta.transactions
        /\ Len(q[j].entries) = q[j].block_meta.entries
        /\ \A i \in Prior(q, j, "Account") :
              \E k \in 1 .. Len(q[j].accounts) :
                 /\ q[j].accounts[k].account = q[i].account
                 /\ q[j].accounts[k].write_version >= q[i].write_version

AllWhole(q) == \A j \in 1 .. Len(q) : WholeAt(q, j)

\* What comes later does not change what was before.
LEMMA WholeStays ==
    ASSUME NEW a, NEW q, NEW m, Grown(a, q, m), NEW j \in 1 .. Len(q), WholeAt(q, j)
    PROVE  WholeAt(a, j)
<1>1. a[j] = q[j] /\ \A i \in 1 .. j - 1 : i \in 1 .. Len(q) /\ a[i] = q[i]
  BY DEF Grown
<1>2. \A kind : Prior(a, j, kind) = Prior(q, j, kind)
  BY <1>1 DEF Prior
<1>3. Len(q) \in Nat
  BY DEF Grown
<1>4. \A kind : Prior(q, j, kind) \in SUBSET (1 .. Len(q))
  BY <1>1 DEF Prior
<1>5. \A kind : \A i \in Prior(q, j, kind) : a[i] = q[i]
  BY <1>1 DEF Prior
<1>6. \A kind : Pick(a, Prior(q, j, kind)) = Pick(q, Prior(q, j, kind))
  BY <1>3, <1>4, <1>5, PickSame
<1>7. OpenUntil(a, q[j].slot, j) => OpenUntil(q, q[j].slot, j)
  BY <1>1 DEF OpenUntil
<1> QED
  BY <1>1, <1>2, <1>5, <1>6, <1>7 DEF WholeAt

\* The block that is pushed last.
LEMMA WholeLast ==
    ASSUME NEW a, NEW q, NEW b, Grown(a, q, b), OpenIn(q, b.slot) => WholeIn(b, b.slot, q)
    PROVE  WholeAt(a, Len(a))
<1>1. PICK j : j = Len(a)
  OBVIOUS
<1>2. Len(q) \in Nat /\ j - 1 = Len(q) /\ a[j] = b /\ \A i \in 1 .. Len(q) : a[i] = q[i]
  BY <1>1 DEF Grown
<1>3. \A kind : Prior(a, j, kind) = Of(q, b.slot, kind)
  BY <1>2 DEF Prior, Of
<1>4. \A kind : Of(q, b.slot, kind) \in SUBSET (1 .. Len(q))
  BY DEF Of
<1>5. \A kind : \A i \in Of(q, b.slot, kind) : a[i] = q[i]
  BY <1>2, <1>4
<1>6. \A kind : Pick(a, Of(q, b.slot, kind)) = Pick(q, Of(q, b.slot, kind))
  BY <1>2, <1>4, <1>5, PickSame
<1>7. OpenUntil(a, b.slot, j) => OpenIn(q, b.slot)
  BY <1>2 DEF OpenUntil, OpenIn
<1>8. WholeAt(a, j)
  BY <1>2, <1>3, <1>5, <1>6, <1>7 DEF WholeAt, WholeIn
<1> QED
  BY <1>1, <1>8

\* One more message.
LEMMA AllWholeGrown ==
    ASSUME NEW a, NEW q, NEW m, Grown(a, q, m), AllWhole(q), WholeAt(a, Len(a))
    PROVE  AllWhole(a)
<1>1. \A j \in 1 .. Len(a) : j = Len(a) \/ j \in 1 .. Len(q)
  BY DEF Grown
<1> QED
  BY <1>1, WholeStays DEF AllWhole

-----------------------------------------------------------------------------
(***************************************************************************)
(* The rings of the settled slots                                          *)
(***************************************************************************)

\* A block before a status of its slot is in the ring of that status.
Delivered(q, ring, status) ==
    \A i, j \in 1 .. Len(q) :
       /\ i < j /\ q[i].kind = "Block" /\ q[j].slot = q[i].slot
       /\ OpenUntil(q, q[i].slot, j) /\ IsStatus(q[j], {status})
       => Has(ring, q[i])

\* What is pushed to a ring by a status: the status, and the messages it brings.
Fed(new, ring, m, feed) ==
    /\ IsSequence(new) /\ Len(ring) \in Nat /\ Len(feed) \in Nat
    /\ Len(new) = Len(ring) + 1 + Len(feed)
    /\ \A n \in 1 .. Len(ring) : new[n] = ring[n]
    /\ new[Len(ring) + 1] = m
    /\ \A n \in 1 .. Len(feed) : new[Len(ring) + 1 + n] = feed[n]

\* What a status adds to a ring.
LEMMA FeedIs ==
    ASSUME NEW ring, IsSequence(ring), NEW m, NEW feed, IsSequence(feed)
    PROVE  Fed(Append(ring, m) \o feed, ring, m, feed)
<1>1. PICK S : ring \in Seq(S)
  BY DEF IsSequence
<1>2. PICK T : feed \in Seq(T)
  BY DEF IsSequence
<1>3. PICK U : U = S \union T \union {m}
  OBVIOUS
<1>4. ring \in Seq(U) /\ feed \in Seq(U) /\ m \in U
  BY <1>1, <1>2, <1>3
<1>5. PICK one : one = Append(ring, m)
  OBVIOUS
<1>6. /\ one \in Seq(U) /\ Len(ring) \in Nat /\ Len(one) = Len(ring) + 1 /\ one[Len(ring) + 1] = m
      /\ \A n \in 1 .. Len(ring) : one[n] = ring[n]
  BY <1>4, <1>5
<1>7. PICK new : new = one \o feed
  OBVIOUS
<1>8. /\ new \in Seq(U) /\ Len(feed) \in Nat /\ Len(new) = Len(one) + Len(feed)
      /\ \A n \in 1 .. Len(one) : new[n] = one[n]
      /\ \A n \in 1 .. Len(feed) : new[Len(one) + n] = feed[n]
  <2>1. /\ new \in Seq(U) /\ Len(new) = Len(one) + Len(feed)
        /\ \A i \in 1 .. Len(one) + Len(feed) :
              new[i] = IF i <= Len(one) THEN one[i] ELSE feed[i - Len(one)]
    <3>1. one \in Seq(U) /\ feed \in Seq(U)
      BY <1>4, <1>6
    <3>2. /\ one \o feed \in Seq(U) /\ Len(one \o feed) = Len(one) + Len(feed)
          /\ \A i \in 1 .. Len(one) + Len(feed) :
                (one \o feed)[i] = IF i <= Len(one) THEN one[i] ELSE feed[i - Len(one)]
      BY ONLY <3>1, ConcatProperties, Zenon
    <3> QED
      BY ONLY <1>7, <3>2, Zenon
  <2>2. Len(feed) \in Nat /\ Len(one) \in Nat
    BY <1>4, <1>6
  <2>3. \A n \in 1 .. Len(one) : new[n] = one[n]
    BY <2>1, <2>2
  <2>4. \A n \in 1 .. Len(feed) :
           /\ Len(one) + n \in 1 .. Len(one) + Len(feed) /\ ~(Len(one) + n <= Len(one))
           /\ (Len(one) + n) - Len(one) = n
    BY <2>2
  <2>5. \A n \in 1 .. Len(feed) : new[Len(one) + n] = feed[n]
    BY <2>1, <2>4
  <2> QED
    BY <2>1, <2>2, <2>3, <2>5
<1>9. IsSequence(new)
  BY <1>8 DEF IsSequence
<1>10. \A n \in 1 .. Len(ring) : new[n] = ring[n]
  BY <1>6, <1>8
<1>11. new[Len(ring) + 1] = m
  BY <1>6, <1>8
<1>12. \A n \in 1 .. Len(feed) : new[Len(ring) + 1 + n] = feed[n]
  BY <1>6, <1>8
<1> QED
  BY <1>5, <1>6, <1>7, <1>8, <1>9, <1>10, <1>11, <1>12 DEF Fed

\* get_messages: the messages of the slot, all of them that are not superseded.
LEMMA MessagesAre ==
    ASSUME NEW info, NEW s, Own(info, s)
    PROVE  /\ IsSequence(Messages(info))
           /\ \A n \in 1 .. Len(Messages(info)) : Messages(info)[n].slot = s
           /\ \A b : b.kind = "Block" /\ Has(info.messages, b) => Has(Messages(info), b)
<1>1. PICK q : q = info.messages
  OBVIOUS
<1>2. PICK K : K = {i \in 1 .. Len(q) : q[i] # Superseded}
  OBVIOUS
<1>3. PICK p : p = Messages(info)
  OBVIOUS
<1>4. p = Pick(q, K)
  BY <1>1, <1>2, <1>3 DEF Messages
<1>5. Len(q) \in Nat /\ K \in SUBSET (1 .. Len(q))
  BY <1>1, <1>2 DEF Own, IsSequence
<1>6. Picked(p, q, K)
  BY <1>4, <1>5, PickIs
<1>7. \A i \in K : q[i].slot = s
  BY <1>1, <1>2 DEF Own
<1>8. \A n \in 1 .. Len(p) : p[n].slot = s
  BY <1>6, <1>7 DEF Picked
<1>9. ASSUME NEW b, b.kind = "Block", Has(q, b)
      PROVE  Has(p, b)
  <2>1. PICK i \in 1 .. Len(q) : q[i] = b
    BY <1>9 DEF Has
  <2>2. i \in K
    BY <1>2, <1>9, <2>1 DEF Superseded
  <2>3. Rank(i, K) \in 1 .. Cardinality(K)
    BY <1>5, <2>2, RankBounds
  <2> QED
    BY <1>6, <2>1, <2>2, <2>3 DEF Picked, Has
<1> QED
  BY <1>1, <1>3, <1>6, <1>8, <1>9 DEF Picked

\* A ring that is fed stays in one piece per status.
LEMMA PieceFed ==
    ASSUME NEW ring, NEW status, InOnePiece(ring, status), NEW m, m.kind = "Slot", NEW feed,
           NEW new, Fed(new, ring, m, feed),
           Len(feed) = 0 \/ (m.status = status /\ \A n \in 1 .. Len(feed) : feed[n].slot = m.slot)
    PROVE  InOnePiece(new, status)
<1>1. Len(ring) \in Nat /\ Len(feed) \in Nat /\ Len(new) = Len(ring) + 1 + Len(feed)
  BY DEF Fed
<1>2. ASSUME NEW k \in 1 .. Len(new), new[k].kind # "Slot"
      PROVE  \E i \in 1 .. k - 1 :
                IsStatus(new[i], {status}) /\ \A n \in i .. k : new[n].slot = new[k].slot
  <2>1. CASE k <= Len(ring)
    <3>1. k \in 1 .. Len(ring) /\ new[k] = ring[k]
      BY <1>1, <2>1 DEF Fed
    <3>2. PICK i \in 1 .. k - 1 :
             IsStatus(ring[i], {status}) /\ \A n \in i .. k : ring[n].slot = ring[k].slot
      BY <1>2, <3>1 DEF InOnePiece
    <3>3. \A n \in i .. k : n \in 1 .. Len(ring)
      BY <1>1, <2>1
    <3>4. \A n \in i .. k : new[n] = ring[n]
      BY <3>3 DEF Fed
    <3>5. i \in i .. k
      BY <3>1
    <3> QED
      BY <3>1, <3>2, <3>4, <3>5
  <2>2. CASE k = Len(ring) + 1
    BY <1>2, <2>2 DEF Fed
  <2>3. CASE k > Len(ring) + 1
    <3>1. PICK i : i = Len(ring) + 1
      OBVIOUS
    <3>2. i \in 1 .. k - 1 /\ new[i] = m
      BY <1>1, <2>3, <3>1 DEF Fed
    <3>3. Len(feed) # 0
      BY <1>1, <2>3
    <3>4. IsStatus(new[i], {status})
      BY <3>2, <3>3 DEF IsStatus
    <3>5. ASSUME NEW n \in i .. k
          PROVE  new[n].slot = m.slot
      <4>1. CASE n = i
        BY <3>2, <4>1
      <4>2. CASE n # i
        <5>1. n - i \in 1 .. Len(feed) /\ n = Len(ring) + 1 + (n - i)
          BY <1>1, <3>1, <4>2
        <5>2. new[n] = feed[n - i]
          BY <5>1 DEF Fed
        <5> QED
          BY <3>3, <5>1, <5>2
      <4> QED
        BY <4>1, <4>2
    <3>6. k \in i .. k
      BY <1>1, <3>1, <3>2
    <3> QED
      BY <3>2, <3>4, <3>5, <3>6
  <2>4. k <= Len(ring) \/ k = Len(ring) + 1 \/ k > Len(ring) + 1
    BY <1>1
  <2> QED
    BY ONLY <2>1, <2>2, <2>3, <2>4
<1> QED
  BY <1>2 DEF InOnePiece

\* Nothing leaves a ring that is fed.
LEMMA FedHas ==
    ASSUME NEW new, NEW ring, NEW m, NEW feed, Fed(new, ring, m, feed), NEW b,
           Has(ring, b) \/ Has(feed, b)
    PROVE  Has(new, b)
<1>1. CASE Has(ring, b)
  <2>1. \A n \in 1 .. Len(ring) : n \in 1 .. Len(new) /\ new[n] = ring[n]
    BY DEF Fed
  <2> QED
    BY <1>1, <2>1 DEF Has
<1>2. CASE Has(feed, b)
  <2>1. \A n \in 1 .. Len(feed) :
           Len(ring) + 1 + n \in 1 .. Len(new) /\ new[Len(ring) + 1 + n] = feed[n]
    BY DEF Fed
  <2> QED
    BY <1>2, <2>1 DEF Has
<1> QED
  BY <1>1, <1>2

\* A message that is no status delivers nothing.
LEMMA DeliveredSame ==
    ASSUME NEW q, NEW ring, NEW status, Delivered(q, ring, status),
           NEW a, NEW m, Grown(a, q, m), m.kind # "Slot"
    PROVE  Delivered(a, ring, status)
<1> SUFFICES ASSUME NEW i \in 1 .. Len(a), NEW j \in 1 .. Len(a), i < j,
                    a[i].kind = "Block", a[j].slot = a[i].slot, OpenUntil(a, a[i].slot, j),
                    IsStatus(a[j], {status})
             PROVE  Has(ring, a[i])
  BY DEF Delivered
<1>1. j # Len(q) + 1
  BY DEF IsStatus, Grown
<1>2. Len(q) \in Nat /\ Len(a) = Len(q) + 1
  BY DEF Grown
<1>3. i \in 1 .. Len(q) /\ j \in 1 .. Len(q)
  BY <1>1, <1>2
<1>4. a[i] = q[i] /\ a[j] = q[j]
  BY <1>3 DEF Grown
<1>5. \A n \in 1 .. j - 1 : a[n] = q[n]
  BY <1>2, <1>3 DEF Grown
<1>6. OpenUntil(q, q[i].slot, j)
  BY <1>4, <1>5 DEF OpenUntil
<1> QED
  BY <1>3, <1>4, <1>6 DEF Delivered

\* A status delivers the block its slot has.
LEMMA DeliveredStatus ==
    ASSUME NEW f, NEW q, Good(f, q), NEW ring, NEW status, Delivered(q, ring, status),
           NEW a, NEW m, Grown(a, q, m), m.kind = "Slot",
           NEW old, old = (IF m.slot \in DOMAIN f THEN f[m.slot] ELSE NewInfo), NEW info,
           Own(info, m.slot), Keeps(info.messages, old.messages),
           NEW feed, m.status = status => feed = Messages(info),
           NEW new, Fed(new, ring, m, feed)
    PROVE  Delivered(a, new, status)
<1> SUFFICES ASSUME NEW i \in 1 .. Len(a), NEW j \in 1 .. Len(a), i < j,
                    a[i].kind = "Block", a[j].slot = a[i].slot, OpenUntil(a, a[i].slot, j),
                    IsStatus(a[j], {status})
             PROVE  Has(new, a[i])
  BY DEF Delivered
<1>1. Len(q) \in Nat /\ Len(a) = Len(q) + 1
  BY DEF Grown
<1>2. i \in 1 .. Len(q) /\ a[i] = q[i]
  BY <1>1 DEF Grown
<1>3. \A n \in 1 .. j - 1 : n \in 1 .. Len(q) /\ a[n] = q[n]
  BY <1>1 DEF Grown
<1>4. CASE j \in 1 .. Len(q)
  <2>1. a[j] = q[j]
    BY <1>4 DEF Grown
  <2>2. OpenUntil(q, q[i].slot, j)
    BY <1>2, <1>3 DEF OpenUntil
  <2>3. Has(ring, q[i])
    BY <1>2, <1>4, <2>1, <2>2 DEF Delivered
  <2> QED
    BY <1>2, <2>3, FedHas
<1>5. CASE j = Len(q) + 1
  <2>1. PICK b : b = q[i]
    OBVIOUS
  <2>2. a[j] = m
    BY <1>5 DEF Grown
  <2>3. OpenIn(q, b.slot)
    BY <1>1, <1>2, <1>3, <1>5, <2>1 DEF OpenUntil, OpenIn
  <2>4. Held(f, b) /\ b.kind = "Block" /\ b.slot = m.slot
    BY <1>2, <2>1, <2>2, <2>3 DEF Good
  <2>5. Has(old.messages, b)
    BY <2>4 DEF Held
  <2>6. Has(info.messages, b)
    BY <2>4, <2>5 DEF Has, Keeps
  <2>7. m.status = status
    BY <2>2 DEF IsStatus
  <2>8. Has(feed, b)
    BY <2>4, <2>6, <2>7, MessagesAre
  <2> QED
    BY <1>2, <2>1, <2>8, FedHas
<1> QED
  BY <1>1, <1>4, <1>5

\* What processed has after a push: the message, and the block if there is one.
Pushed(f, q, m, old, info, p) ==
    /\ Good(Put(f, m.slot, info), p) /\ AllWhole(p)
    /\ Own(info, m.slot) /\ Keeps(info.messages, old.messages)
    /\ Grown(Append(q, m), q, m)
    /\ p = Append(q, m) \/ \E b : b.kind = "Block" /\ Grown(p, Append(q, m), b)

\* A push keeps the sender good, and the blocks whole.
LEMMA PushStep ==
    ASSUME NEW f, NEW q, Good(f, q), AllWhole(q), NEW m, Valid(m),
           NEW old, old = (IF m.slot \in DOMAIN f THEN f[m.slot] ELSE NewInfo), InfoSound(old),
           NEW r, r = get_block_message(old, m), NEW p, p = Append(q, m) \o r.block
    PROVE  Pushed(f, q, m, old, r.info, p)
<1>1. PICK a : a = Append(q, m)
  OBVIOUS
<1>2. PICK g : g = Put(f, m.slot, r.info)
  OBVIOUS
<1>3. Grown(a, q, m)
  BY <1>1, AppendGrows DEF Good
<1>4. GoodInfo(old, m.slot, q)
  BY NewGood DEF Good
<1>5. /\ GoodInfo(r.info, m.slot, a) /\ Keeps(r.info.messages, old.messages)
      /\ \A b : r.block = <<b>> => GoodBlock(b, r.info, m.slot, a)
  BY <1>3, <1>4, BlockMessageGood
<1>6. Good(g, a)
  BY <1>2, <1>3, <1>5, PushGood
<1>7. AllWhole(a)
  <2>1. a[Len(a)] = m /\ m.kind # "Block"
    BY <1>3 DEF Grown, Valid, Kinds
  <2>2. WholeAt(a, Len(a))
    BY <2>1 DEF WholeAt
  <2> QED
    BY <1>3, <2>2, AllWholeGrown
<1>8. r.block = <<>> \/ \E b : r.block = <<b>>
  BY BlockMessageIs DEF Valid
<1>9. Own(r.info, m.slot)
  BY <1>5 DEF GoodInfo
<1>10. PICK S : a \in Seq(S)
  BY <1>3 DEF Grown, IsSequence
<1>11. CASE r.block = <<>>
  <2>1. p = a \o <<>>
    BY <1>1, <1>11
  <2>2. p = a
    BY ONLY <1>10, <2>1, ConcatEmptySeq
  <2> QED
    BY <1>1, <1>2, <1>3, <1>5, <1>6, <1>7, <1>9, <2>2 DEF Pushed
<1>12. CASE \E b : r.block = <<b>>
  <2>1. PICK b : r.block = <<b>>
    BY <1>12
  <2>2. p = a \o <<b>>
    BY <1>1, <2>1
  <2>3. Grown(p, a, b)
    <3>1. /\ p \in Seq(S \union {b}) /\ Len(p) = Len(a) + 1 /\ p[Len(a) + 1] = b
          /\ \A i \in 1 .. Len(a) : p[i] = a[i]
      BY ONLY <1>10, <2>2, OneMore
    <3>2. IsSequence(p) /\ IsSequence(a) /\ Len(a) \in Nat
      BY <1>10, <3>1 DEF IsSequence
    <3> QED
      BY <3>1, <3>2 DEF Grown
  <2>4. GoodBlock(b, r.info, m.slot, a)
    BY <1>5, <2>1
  <2>5. b.kind = "Block" /\ b.slot = m.slot
    BY <2>4 DEF GoodBlock
  <2>6. Held(g, b)
    <3>1. m.slot \in DOMAIN g /\ g[m.slot] = r.info
      BY <1>2 DEF Put
    <3> QED
      BY <2>4, <2>5, <3>1 DEF GoodBlock, Held
  <2>7. Good(g, p)
    BY <1>6, <2>3, <2>5, <2>6, PushBlockGood
  <2>8. OpenIn(a, b.slot) => WholeIn(b, b.slot, a)
    BY <2>4, <2>5 DEF GoodBlock
  <2>9. WholeAt(p, Len(p))
    BY <2>3, <2>8, WholeLast
  <2>10. AllWhole(p)
    BY <1>7, <2>3, <2>9, AllWholeGrown
  <2> QED
    BY <1>1, <1>2, <1>3, <1>5, <1>9, <2>3, <2>5, <2>7, <2>10 DEF Pushed
<1> QED
  BY <1>8, <1>11, <1>12

\* A ring of settled slots, when q has been pushed.
RingGood(q, ring, status) ==
    IsSequence(ring) /\ InOnePiece(ring, status) /\ Delivered(q, ring, status)

\* A message that is no status is not pushed to the ring.
LEMMA RingSame ==
    ASSUME NEW q, NEW ring, NEW status, RingGood(q, ring, status), NEW m, m.kind # "Slot",
           NEW a, Grown(a, q, m), NEW p, p = a \/ \E b : b.kind = "Block" /\ Grown(p, a, b)
    PROVE  RingGood(p, ring, status)
<1>1. Delivered(a, ring, status)
  BY DeliveredSame DEF RingGood
<1>2. Delivered(p, ring, status)
  BY <1>1, DeliveredSame
<1> QED
  BY <1>2 DEF RingGood

\* A status is pushed to the ring, the messages of the slot with it if it settles it.
LEMMA RingFed ==
    ASSUME NEW f, NEW q, Good(f, q), NEW ring, NEW status, RingGood(q, ring, status),
           NEW m, m.kind = "Slot", NEW a, Grown(a, q, m),
           NEW p, p = a \/ \E b : b.kind = "Block" /\ Grown(p, a, b),
           NEW old, old = (IF m.slot \in DOMAIN f THEN f[m.slot] ELSE NewInfo), NEW info,
           Own(info, m.slot), Keeps(info.messages, old.messages),
           NEW feed, feed = (IF m.status = status THEN Messages(info) ELSE <<>>),
           NEW new, new = Append(ring, m) \o feed
    PROVE  RingGood(p, new, status)
<1>1. /\ IsSequence(Messages(info))
      /\ \A n \in 1 .. Len(Messages(info)) : Messages(info)[n].slot = m.slot
  BY MessagesAre
<1>2. <<>> \in Seq({}) /\ Len(<<>>) = 0
  OBVIOUS
<1>3. IsSequence(feed)
  BY <1>1, <1>2 DEF IsSequence
<1>4. Len(feed) = 0 \/ (m.status = status /\ \A n \in 1 .. Len(feed) : feed[n].slot = m.slot)
  BY <1>1, <1>2
<1>5. IsSequence(ring) /\ InOnePiece(ring, status) /\ Delivered(q, ring, status)
  BY DEF RingGood
<1>6. Fed(new, ring, m, feed)
  BY <1>3, <1>5, FeedIs
<1>7. InOnePiece(new, status)
  BY <1>4, <1>5, <1>6, PieceFed
<1>8. m.status = status => feed = Messages(info)
  OBVIOUS
<1>9. Delivered(a, new, status)
  BY <1>5, <1>6, <1>8, DeliveredStatus
<1>10. Delivered(p, new, status)
  BY <1>9, DeliveredSame
<1> QED
  BY <1>6, <1>7, <1>10 DEF RingGood, Fed

\* The sender and its rings.
FeedInv ==
    /\ Good(slots, processed) /\ AllWhole(processed)
    /\ RingGood(processed, confirmed, "Confirmed") /\ RingGood(processed, finalized, "Finalized")

\* Nothing has been pushed.
LEMMA FeedInit == Init => FeedInv
<1> SUFFICES ASSUME Init PROVE FeedInv
  OBVIOUS
<1>1. DOMAIN slots = {} /\ processed = <<>> /\ confirmed = <<>> /\ finalized = <<>>
  BY DEF Init
<1>2. <<>> \in Seq({}) /\ Len(<<>>) = 0 /\ IsSequence(<<>>)
  BY DEF IsSequence
<1>3. Good(slots, processed)
  BY <1>1, <1>2 DEF Good
<1>4. AllWhole(processed)
  BY <1>1, <1>2 DEF AllWhole
<1>5. \A status : RingGood(<<>>, <<>>, status)
  BY <1>2 DEF RingGood, InOnePiece, Delivered
<1> QED
  BY <1>1, <1>3, <1>4, <1>5 DEF FeedInv

\* A message of the source is valid.
LEMMA InputValid == \A m \in Inputs : Valid(m)
BY SenderAssumption DEF Valid, Kinds

\* The SlotInfo a push starts from is sound.
LEMMA OldSound ==
    ASSUME SenderInv, NEW s
    PROVE  InfoSound(IF s \in DOMAIN slots THEN slots[s] ELSE NewInfo)
BY NewInfoSound DEF SenderInv, SlotsSound

\* Every push keeps it.
LEMMA FeedStep == SenderInv /\ FeedInv /\ [Next]_vars => FeedInv'
<1> SUFFICES ASSUME SenderInv, FeedInv, [Next]_vars PROVE FeedInv'
  OBVIOUS
<1>1. /\ Good(slots, processed) /\ AllWhole(processed)
      /\ RingGood(processed, confirmed, "Confirmed")
      /\ RingGood(processed, finalized, "Finalized")
  BY DEF FeedInv
<1>2. ASSUME NEW m \in Inputs, PushData(m) \/ PushStatus(m)
      PROVE  FeedInv'
  <2>1. PICK old : old = IF m.slot \in DOMAIN slots THEN slots[m.slot] ELSE NewInfo
    OBVIOUS
  <2>2. PICK r : r = get_block_message(old, m)
    OBVIOUS
  <2>3. PICK a : a = Append(processed, m)
    OBVIOUS
  <2>4. PICK p : p = Append(processed, m) \o r.block
    OBVIOUS
  <2>5. PICK f : f = Put(slots, m.slot, r.info)
    OBVIOUS
  <2>6. Valid(m) /\ InfoSound(old)
    BY <2>1, InputValid, OldSound
  <2>7. /\ Good(f, p) /\ AllWhole(p)
        /\ Own(r.info, m.slot) /\ Keeps(r.info.messages, old.messages)
        /\ Grown(a, processed, m)
        /\ p = a \/ \E b : b.kind = "Block" /\ Grown(p, a, b)
    <3>1. Pushed(slots, processed, m, old, r.info, p)
      BY ONLY <1>1, <2>1, <2>2, <2>4, <2>6, PushStep
    <3> QED
      BY ONLY <2>3, <2>5, <3>1 DEF Pushed
  <2>8. old = InfoOf(m.slot)
    BY <2>1 DEF InfoOf
  <2>9. CASE PushData(m)
    <3>1. /\ m.kind # "Slot" /\ slots' = f /\ processed' = p
          /\ confirmed' = confirmed /\ finalized' = finalized
      BY <2>2, <2>4, <2>5, <2>8, <2>9 DEF PushData
    <3>2. RingGood(p, confirmed, "Confirmed") /\ RingGood(p, finalized, "Finalized")
      BY <1>1, <2>7, <3>1, RingSame
    <3> QED
      BY <2>7, <3>1, <3>2 DEF FeedInv
  <2>10. CASE PushStatus(m)
    <3>1. PICK ended : ended = {s \in DOMAIN f : m.status = "Finalized" /\ s <= m.slot}
      OBVIOUS
    <3>2. PICK g : g = [s \in DOMAIN f \ ended |-> f[s]]
      OBVIOUS
    <3>3. PICK feedC : feedC = IF m.status = "Confirmed" THEN Messages(r.info) ELSE <<>>
      OBVIOUS
    <3>4. PICK feedF : feedF = IF m.status = "Finalized" THEN Messages(r.info) ELSE <<>>
      OBVIOUS
    <3>5. PICK ringC : ringC = Append(confirmed, m) \o feedC
      OBVIOUS
    <3>6. PICK ringF : ringF = Append(finalized, m) \o feedF
      OBVIOUS
    <3>7. /\ m.kind = "Slot" /\ slots' = g /\ processed' = p
          /\ confirmed' = ringC /\ finalized' = ringF
      BY <2>2, <2>4, <2>5, <2>8, <2>10, <3>1, <3>2, <3>3, <3>4, <3>5, <3>6 DEF PushStatus
    <3>8. ASSUME NEW s \in ended
          PROVE  ~OpenIn(p, s)
      <4>1. m.status = "Finalized" /\ s <= m.slot /\ s \in Nat /\ m.slot \in Nat
        BY <2>6, <2>7, <3>1, <3>8 DEF Good, Valid
      <4>2. IsStatus(m, {"Finalized"}) /\ ~(m.slot < s)
        BY <3>7, <4>1 DEF IsStatus
      <4>3. ~OpenIn(a, s)
        <5>1. Len(processed) + 1 \in 1 .. Len(a) /\ a[Len(processed) + 1] = m
          BY <2>7 DEF Grown
        <5> QED
          BY <4>2, <5>1 DEF OpenIn
      <4> QED
        BY <2>7, <4>3, OpenBefore
    <3>9. Good(g, p)
      BY <2>7, <3>2, <3>8, DropGood
    <3>10. RingGood(p, ringC, "Confirmed")
      BY <1>1, <2>1, <2>7, <3>3, <3>5, <3>7, RingFed
    <3>11. RingGood(p, ringF, "Finalized")
      BY <1>1, <2>1, <2>7, <3>4, <3>6, <3>7, RingFed
    <3> QED
      BY <2>7, <3>7, <3>9, <3>10, <3>11 DEF FeedInv
  <2> QED
    BY <1>2, <2>9, <2>10
<1>3. CASE UNCHANGED vars
  <2>1. /\ slots' = slots /\ processed' = processed
        /\ confirmed' = confirmed /\ finalized' = finalized
    BY <1>3 DEF vars
  <2> QED
    BY <1>1, <2>1 DEF FeedInv
<1> QED
  BY <1>2, <1>3 DEF Next

\* Until its slot ends or has its block, a SlotInfo has collected what was pushed of the
\* slot; every block is whole; and every ring of settled slots has what it should.
THEOREM FeedInvariant == Spec => []FeedInv
<1>1. Init => FeedInv
  BY FeedInit
<1>2. SenderInv /\ FeedInv /\ [Next]_vars => FeedInv'
  BY FeedStep
<1> QED
  BY <1>1, <1>2, SenderInvariant, PTL DEF Spec

\* A block Sender::push builds has the transactions and entries of its slot in their order,
\* as many as the block meta says, and of every account an update as new as any that came.
THEOREM BlockTheorem == Spec => []BlockIsWhole
<1>1. FeedInv => BlockIsWhole
  <2> SUFFICES ASSUME FeedInv, NEW j \in 1 .. Len(processed) PROVE WholeAt(processed, j) =>
          LET b == processed[j]
          IN b.kind = "Block" /\ Open(b.slot, j) =>
                /\ b.transactions = Pick(processed, Earlier(j, "Transaction"))
                /\ b.entries = Pick(processed, Earlier(j, "Entry"))
                /\ Len(b.transactions) = b.block_meta.transactions
                /\ Len(b.entries) = b.block_meta.entries
                /\ \A i \in Earlier(j, "Account") :
                      \E k \in 1 .. Len(b.accounts) :
                         /\ b.accounts[k].account = processed[i].account
                         /\ b.accounts[k].write_version >= processed[i].write_version
    BY DEF BlockIsWhole, FeedInv, AllWhole
  <2>1. \A kind : Earlier(j, kind) = Prior(processed, j, kind)
    BY DEF Earlier, Prior
  <2>2. Open(processed[j].slot, j) = OpenUntil(processed, processed[j].slot, j)
    BY DEF Open, OpenUntil
  <2> QED
    BY <2>1, <2>2 DEF WholeAt
<1> QED
  BY <1>1, FeedInvariant, PTL

\* A block that is built before its slot is confirmed, or finalized, is in that ring; and
\* a ring has the messages of a slot in one piece behind the status that settled it.
THEOREM SettledTheorem == Spec => []SettledBlockDelivered
<1>1. FeedInv => SettledBlockDelivered
  <2> SUFFICES ASSUME FeedInv PROVE SettledBlockDelivered
    OBVIOUS
  <2>1. /\ RingGood(processed, confirmed, "Confirmed")
        /\ RingGood(processed, finalized, "Finalized")
    BY DEF FeedInv
  <2>2. InOnePiece(confirmed, "Confirmed") /\ InOnePiece(finalized, "Finalized")
    BY <2>1 DEF RingGood
  <2>3. ASSUME NEW i \in 1 .. Len(processed), NEW j \in 1 .. Len(processed), i < j,
               processed[i].kind = "Block", processed[j].slot = processed[i].slot,
               Open(processed[i].slot, j)
        PROVE  /\ IsStatus(processed[j], {"Confirmed"}) =>
                     processed[i] \in {confirmed[k] : k \in DOMAIN confirmed}
               /\ IsStatus(processed[j], {"Finalized"}) =>
                     processed[i] \in {finalized[k] : k \in DOMAIN finalized}
    <3>1. OpenUntil(processed, processed[i].slot, j)
      BY <2>3 DEF Open, OpenUntil
    <3>2. /\ IsStatus(processed[j], {"Confirmed"}) => Has(confirmed, processed[i])
          /\ IsStatus(processed[j], {"Finalized"}) => Has(finalized, processed[i])
      BY <2>1, <2>3, <3>1 DEF RingGood, Delivered
    <3>3. DOMAIN confirmed = 1 .. Len(confirmed) /\ DOMAIN finalized = 1 .. Len(finalized)
      BY <2>1 DEF RingGood, IsSequence
    <3> QED
      BY <3>2, <3>3 DEF Has
  <2> QED
    BY <2>2, <2>3 DEF SettledBlockDelivered
<1> QED
  BY <1>1, FeedInvariant, PTL

=============================================================================
