-------------------------- MODULE RichatMainProofs --------------------------
(***************************************************************************)
(* Proofs about BinaryChannel for every number of cells and every mapping  *)
(* of positions to cells: the ring is a bounded first-in first-out queue.  *)
(*                                                                         *)
(* Proofs about RichatMain for every channel, every number of messages and *)
(* every order of signals, failures and steps of the two threads: what the *)
(* source stream yields is in the channel, in hand, or given up after a    *)
(* shutdown, and nothing is stored behind a message that was given up.     *)
(***************************************************************************)
EXTENDS RichatMain, FunctionTheorems, FiniteSetTheorems, SequenceTheorems, TLAPS

(***************************************************************************)
(* The binary channel                                                      *)
(***************************************************************************)
\* Positions stay within the bound for which get_idx is assumed to be a cell.
PositionsBounded ==
    /\ tail <= MaxLog
    /\ hand # NoData => tail < MaxLog

\* The inductive invariant.  CellsHoldWindow is the heart of it: send may look
\* at one cell only because an occupied cell is one of the window's.
BinaryInv == TypeOK /\ CellsHoldWindow /\ ReceivedPrefix /\ PositionsBounded

\* The empty channel satisfies the invariant.
LEMMA InitInv == Init => BinaryInv
BY LogAssumption
   DEF Init, BinaryInv, TypeOK, CellsHoldWindow, ReceivedPrefix, PositionsBounded

\* Sending: the message goes to an empty cell, so to one of no position of the
\* window.
LEMMA StoreInv ==
    ASSUME BinaryInv, Send, buffer[get_idx(tail)] = NoData
    PROVE  BinaryInv'
<1>1. /\ hand \in Messages /\ hand # NoData
      /\ buffer' = [buffer EXCEPT ![get_idx(tail)] = hand]
      /\ tail' = tail + 1
      /\ log' = Append(log, hand)
      /\ hand' = NoData
      /\ head' = head /\ got' = got
    BY DataAssumption DEF Send, BinaryInv, TypeOK
<1>2. TypeOK /\ CellsHoldWindow /\ ReceivedPrefix /\ PositionsBounded
    BY DEF BinaryInv
<1>3. get_idx(tail) \in Cells
    BY <1>1, <1>2, LogAssumption, CellsAssumption DEF PositionsBounded, TypeOK
<1>4. TypeOK'
    BY <1>1, <1>2, <1>3 DEF TypeOK
<1>5. /\ Len(log') = tail + 1
      /\ log'[tail + 1] = hand
      /\ \A i \in 1 .. tail : log'[i] = log[i] /\ log[i] \in Messages
    BY <1>1, <1>2 DEF TypeOK, CellsHoldWindow
<1>6. \A p \in head .. tail - 1 : get_idx(p) # get_idx(tail)
    <2>. TAKE p \in head .. tail - 1
    <2>1. p + 1 \in 1 .. tail
        BY <1>2 DEF TypeOK
    <2>2. buffer[get_idx(p)] = log[p + 1] /\ log[p + 1] \in Messages
        BY <1>2, <1>5, <2>1 DEF CellsHoldWindow
    <2>. QED
        BY <2>2, DataAssumption
<1>7. CellsHoldWindow'
    <2>1. head' <= tail' /\ Len(log') = tail'
        BY <1>1, <1>2, <1>5 DEF CellsHoldWindow, TypeOK
    <2>2. \A p \in head .. tail : p \in head .. tail - 1 \/ p = tail
        BY <1>2 DEF TypeOK
    <2>3. ASSUME NEW p \in head .. tail PROVE buffer'[get_idx(p)] = log'[p + 1]
        <3>1. CASE p = tail
            BY <1>1, <1>2, <1>3, <1>5, <3>1 DEF TypeOK
        <3>2. CASE p \in head .. tail - 1
            <4>1. p \in 0 .. MaxLog /\ p + 1 \in 1 .. tail
                BY <1>2, <3>2, LogAssumption DEF TypeOK, PositionsBounded
            <4>2. get_idx(p) \in Cells /\ get_idx(p) # get_idx(tail)
                BY <4>1, <3>2, <1>6, CellsAssumption
            <4>. QED
                BY <1>1, <1>2, <1>5, <3>2, <4>1, <4>2 DEF TypeOK, CellsHoldWindow
        <3>. QED
            BY <2>2, <3>1, <3>2
    <2>4. ASSUME NEW p \in head .. tail, NEW q \in head .. tail, get_idx(p) = get_idx(q)
          PROVE  p = q
        BY <1>2, <1>6, <2>2, <2>4 DEF CellsHoldWindow
    <2>5. ASSUME NEW c \in Cells, buffer'[c] # NoData
          PROVE  \E p \in head .. tail : c = get_idx(p)
        <3>1. CASE c = get_idx(tail)
            <4>1. tail \in head .. tail
                BY <1>2 DEF TypeOK, CellsHoldWindow
            <4>. QED
                BY <3>1, <4>1
        <3>2. CASE c # get_idx(tail)
            <4>1. buffer[c] # NoData
                BY <1>1, <1>2, <2>5, <3>2 DEF TypeOK
            <4>2. PICK p \in head .. tail - 1 : c = get_idx(p)
                BY <1>2, <4>1 DEF CellsHoldWindow
            <4>3. p \in head .. tail
                BY <1>2 DEF TypeOK
            <4>. QED
                BY <4>2, <4>3
        <3>. QED
            BY <3>1, <3>2
    <2>6. head' .. tail' - 1 = head .. tail
        BY <1>1, <1>2 DEF TypeOK
    <2>. QED
        BY <2>1, <2>3, <2>4, <2>5, <2>6 DEF CellsHoldWindow
<1>8. ReceivedPrefix'
    <2>1. \A i \in 1 .. head : i \in 1 .. tail
        BY <1>2 DEF TypeOK, CellsHoldWindow
    <2>. QED
        BY <1>1, <1>2, <1>5, <2>1 DEF ReceivedPrefix
<1>9. PositionsBounded'
    BY <1>1, <1>2, LogAssumption DEF PositionsBounded, TypeOK
<1>. QED
    BY <1>4, <1>7, <1>8, <1>9 DEF BinaryInv

\* Receiving: an occupied cell at the receiver's position holds the message of
\* that very position, the oldest of the window.
LEMMA ReceiveHead ==
    ASSUME BinaryInv, Recv
    PROVE  /\ head < tail
           /\ head \in 0 .. MaxLog
           /\ buffer[get_idx(head)] = log[head + 1]
           /\ log[head + 1] \in Messages
<1>1. TypeOK /\ CellsHoldWindow /\ PositionsBounded
    BY DEF BinaryInv
<1>2. head \in 0 .. MaxLog
    BY <1>1, LogAssumption DEF TypeOK, CellsHoldWindow, PositionsBounded
<1>3. get_idx(head) \in Cells
    BY <1>2, CellsAssumption
<1>4. head < tail
    <2>1. PICK p \in head .. tail - 1 : get_idx(head) = get_idx(p)
        BY <1>1, <1>3 DEF CellsHoldWindow, Recv
    <2>. QED
        BY <1>1 DEF TypeOK
<1>5. head \in head .. tail - 1 /\ head + 1 \in 1 .. Len(log)
    BY <1>1, <1>4 DEF TypeOK, CellsHoldWindow
<1>6. log[head + 1] \in Messages
    BY <1>1, <1>5 DEF TypeOK
<1>. QED
    BY <1>1, <1>2, <1>4, <1>5, <1>6 DEF CellsHoldWindow

\* recv keeps the invariant: it empties the cell of the oldest message in flight.
LEMMA RecvInv == ASSUME BinaryInv, Recv PROVE BinaryInv'
<1>1. /\ head < tail
      /\ head \in 0 .. MaxLog
      /\ buffer[get_idx(head)] = log[head + 1]
      /\ log[head + 1] \in Messages
    BY ReceiveHead
<1>2. /\ buffer' = [buffer EXCEPT ![get_idx(head)] = NoData]
      /\ head' = head + 1
      /\ got' = Append(got, log[head + 1])
      /\ tail' = tail /\ hand' = hand /\ log' = log
    BY <1>1 DEF Recv
<1>3. TypeOK /\ CellsHoldWindow /\ ReceivedPrefix /\ PositionsBounded
    BY DEF BinaryInv
<1>4. get_idx(head) \in Cells
    BY <1>1, CellsAssumption
<1>5. TypeOK'
    BY <1>1, <1>2, <1>3, <1>4 DEF TypeOK
<1>6. CellsHoldWindow'
    <2>1. head' <= tail' /\ Len(log') = tail'
        BY <1>1, <1>2, <1>3 DEF TypeOK, CellsHoldWindow
    <2>2. \A p \in head' .. tail' - 1 :
             /\ p \in head .. tail - 1
             /\ p # head
             /\ p \in 0 .. MaxLog
        BY <1>2, <1>3, LogAssumption DEF TypeOK, PositionsBounded
    <2>3. head \in head .. tail - 1
        BY <1>1, <1>3 DEF TypeOK
    <2>4. ASSUME NEW p \in head' .. tail' - 1 PROVE buffer'[get_idx(p)] = log'[p + 1]
        <3>1. get_idx(p) \in Cells /\ get_idx(p) # get_idx(head)
            BY <1>3, <2>2, <2>3, CellsAssumption DEF CellsHoldWindow
        <3>2. buffer'[get_idx(p)] = buffer[get_idx(p)]
            BY <1>2, <1>3, <3>1 DEF TypeOK
        <3>3. buffer[get_idx(p)] = log[p + 1]
            BY <1>3, <2>2 DEF CellsHoldWindow
        <3>. QED
            BY <1>2, <3>2, <3>3
    <2>5. ASSUME NEW p \in head' .. tail' - 1, NEW q \in head' .. tail' - 1,
                 get_idx(p) = get_idx(q)
          PROVE  p = q
        BY <1>3, <2>2, <2>5 DEF CellsHoldWindow
    <2>6. ASSUME NEW c \in Cells, buffer'[c] # NoData
          PROVE  \E p \in head' .. tail' - 1 : c = get_idx(p)
        <3>1. c # get_idx(head) /\ buffer[c] # NoData
            BY <1>2, <1>3, <2>6 DEF TypeOK
        <3>2. PICK p \in head .. tail - 1 : c = get_idx(p)
            BY <1>3, <3>1 DEF CellsHoldWindow
        <3>3. p # head
            BY <3>1, <3>2
        <3>4. p \in head' .. tail' - 1
            BY <1>2, <1>3, <3>3 DEF TypeOK
        <3>. QED
            BY <3>2, <3>4
    <2>. QED
        BY <2>1, <2>4, <2>5, <2>6 DEF CellsHoldWindow
<1>7. ReceivedPrefix'
    <2>1. got \in Seq(Messages) /\ Len(got) = head /\ head \in Nat
        BY <1>3 DEF TypeOK, ReceivedPrefix
    <2>2. Len(got') = head + 1 /\ got'[head + 1] = log[head + 1]
        BY <1>1, <1>2, <2>1
    <2>3. \A i \in 1 .. head : got'[i] = got[i]
        BY <1>1, <1>2, <2>1
    <2>4. \A i \in 1 .. head + 1 : i \in 1 .. head \/ i = head + 1
        BY <2>1
    <2>. QED
        BY <1>2, <1>3, <2>2, <2>3, <2>4 DEF ReceivedPrefix
<1>8. PositionsBounded'
    BY <1>2, <1>3 DEF PositionsBounded
<1>. QED
    BY <1>5, <1>6, <1>7, <1>8 DEF BinaryInv

\* Every step of the channel keeps its invariant.
LEMMA StepInv == BinaryInv /\ [Next]_vars => BinaryInv'
<1>. SUFFICES ASSUME BinaryInv, [Next]_vars PROVE BinaryInv'
    OBVIOUS
<1>1. ASSUME NEW m \in Messages, Offer(m) PROVE BinaryInv'
    <2>1. UNCHANGED <<buffer, tail, head, log, got>> /\ hand' = m /\ Len(log) < MaxLog
        BY <1>1 DEF Offer
    <2>2. TypeOK' /\ CellsHoldWindow' /\ ReceivedPrefix'
        BY <2>1 DEF BinaryInv, TypeOK, CellsHoldWindow, ReceivedPrefix
    <2>3. PositionsBounded'
        BY <2>1, LogAssumption DEF BinaryInv, TypeOK, CellsHoldWindow, PositionsBounded
    <2>. QED
        BY <2>2, <2>3 DEF BinaryInv
<1>2. CASE Send /\ buffer[get_idx(tail)] = NoData
    BY <1>2, StoreInv
<1>3. CASE UNCHANGED vars
    BY <1>3 DEF vars, BinaryInv, TypeOK, CellsHoldWindow, ReceivedPrefix, PositionsBounded
<1>4. CASE Send /\ buffer[get_idx(tail)] # NoData
    BY <1>3, <1>4 DEF Send, vars
<1>5. CASE Recv
    BY <1>5, RecvInv
<1>6. CASE Terminated
    BY <1>3, <1>6 DEF Terminated
<1>. QED
    BY <1>1, <1>2, <1>3, <1>4, <1>5, <1>6 DEF Next

\* The inductive invariant holds in every behaviour of the binary channel.
THEOREM BinaryInvariant == Spec => []BinaryInv
BY InitInv, StepInv, PTL DEF Spec

\* The cells hold the window of positions in flight, for any mapping.
THEOREM WindowTheorem == Spec => []CellsHoldWindow
<1>1. BinaryInv => CellsHoldWindow
    BY DEF BinaryInv
<1>. QED
    BY <1>1, BinaryInvariant, PTL

\* Nothing is lost, duplicated or reordered between send and recv.
THEOREM PrefixTheorem == Spec => []ReceivedPrefix
<1>1. BinaryInv => ReceivedPrefix
    BY DEF BinaryInv
<1>. QED
    BY <1>1, BinaryInvariant, PTL

\* An empty cell at the receiver, or a full one at the sender, tells the truth
\* about the whole ring.
THEOREM NeverStuckTheorem == Spec => []NeverStuck
<1>1. BinaryInv => NeverStuck
    <2>. SUFFICES ASSUME BinaryInv PROVE NeverStuck
        OBVIOUS
    <2>1. TypeOK /\ CellsHoldWindow /\ PositionsBounded
        BY DEF BinaryInv
    <2>2. ASSUME buffer[get_idx(head)] = NoData, head # tail PROVE FALSE
        <3>1. head \in head .. tail - 1 /\ head + 1 \in 1 .. Len(log)
            BY <2>1, <2>2 DEF TypeOK, CellsHoldWindow
        <3>2. log[head + 1] \in Messages /\ buffer[get_idx(head)] = log[head + 1]
            BY <2>1, <3>1 DEF TypeOK, CellsHoldWindow
        <3>. QED
            BY <2>2, <3>2, DataAssumption
    <2>3. ASSUME buffer[get_idx(tail)] # NoData PROVE head < tail
        <3>1. get_idx(tail) \in Cells
            BY <2>1, LogAssumption, CellsAssumption DEF TypeOK, PositionsBounded
        <3>2. PICK p \in head .. tail - 1 : get_idx(tail) = get_idx(p)
            BY <2>1, <2>3, <3>1 DEF CellsHoldWindow
        <3>. QED
            BY <2>1 DEF TypeOK
    <2>. QED
        BY <2>2, <2>3 DEF NeverStuck
<1>. QED
    BY <1>1, BinaryInvariant, PTL

-----------------------------------------------------------------------------

\* Positions with cells of their own are no more than the cells.
LEMMA AtMostCells ==
    ASSUME NEW a \in Nat, NEW b \in Nat, a <= b,
           \A p \in a .. b : get_idx(p) \in Cells,
           \A p, q \in a .. b : get_idx(p) = get_idx(q) => p = q
    PROVE  b - a + 1 <= Cardinality(Cells)
<1>. DEFINE f == [p \in a .. b |-> get_idx(p)]
<1>1. f \in Injection(a .. b, Cells)
    BY Fun_IsInj
<1>2. Cardinality(a .. b) <= Cardinality(Cells)
    BY <1>1, CellsAssumption, FS_Injection
<1>3. Cardinality(a .. b) = b - a + 1
    BY FS_Interval
<1>. QED
    BY <1>2, <1>3

\* Every step of the ring is a step of the queue or leaves it alone.
LEMMA StepRefines == BinaryInv /\ BinaryInv' /\ [Next]_vars => [Fifo!Next]_(Fifo!vars)
<1>. DEFINE queue == [i \in 1 .. tail - head |-> log[head + i]]
<1>. SUFFICES ASSUME BinaryInv, BinaryInv', [Next]_vars
              PROVE  Fifo!Next \/ UNCHANGED <<queue, got>>
    BY DEF Fifo!vars
<1>1. TypeOK /\ CellsHoldWindow /\ TypeOK' /\ CellsHoldWindow' /\ PositionsBounded'
    BY DEF BinaryInv
<1>2. CASE UNCHANGED <<tail, head, log, got>>
    BY <1>2
<1>3. CASE Send /\ buffer[get_idx(tail)] = NoData
    <2>1. /\ hand \in Messages
          /\ tail' = tail + 1
          /\ log' = Append(log, hand)
          /\ head' = head /\ got' = got
        BY <1>1, <1>3, DataAssumption DEF Send, TypeOK
    <2>2. head \in Nat /\ tail \in Nat /\ head <= tail /\ log \in Seq(Messages) /\ Len(log) = tail
        BY <1>1 DEF TypeOK, CellsHoldWindow
    <2>3. Len(queue) < Cardinality(Cells)
        <3>1. \A p \in head .. tail : get_idx(p) \in Cells
            <4>1. \A p \in head .. tail : p \in 0 .. MaxLog
                BY <1>1, <2>1, <2>2, LogAssumption DEF PositionsBounded
            <4>. QED
                BY <4>1, CellsAssumption
        <3>2. head' .. tail' - 1 = head .. tail
            BY <2>1, <2>2
        <3>3. \A p, q \in head .. tail : get_idx(p) = get_idx(q) => p = q
            BY <1>1, <3>2 DEF CellsHoldWindow
        <3>4. tail - head + 1 <= Cardinality(Cells)
            BY <2>2, <3>1, <3>3, AtMostCells
        <3>5. Cardinality(Cells) \in Nat
            BY CellsAssumption, FS_CardinalityType
        <3>6. Len(queue) = tail - head
            BY <2>2
        <3>. QED
            BY <2>2, <3>4, <3>5, <3>6
    <2>4. queue' = Append(queue, hand)
        <3>1. queue \in Seq(Messages) /\ Len(queue) = tail - head
            BY <2>2
        <3>2. Append(queue, hand) \in Seq(Messages)
              /\ Len(Append(queue, hand)) = tail - head + 1
              /\ \A i \in 1 .. tail - head + 1 :
                    Append(queue, hand)[i] = IF i <= tail - head THEN log[head + i] ELSE hand
            BY <2>1, <2>2, <3>1
        <3>3. queue' = [i \in 1 .. tail - head + 1 |-> log'[head + i]]
            BY <2>1, <2>2
        <3>4. \A i \in 1 .. tail - head + 1 :
                 log'[head + i] = IF i <= tail - head THEN log[head + i] ELSE hand
            BY <2>1, <2>2
        <3>. DEFINE a == Append(queue, hand)
        <3>5. a = [i \in 1 .. tail - head + 1 |-> a[i]]
            <4>1. a \in Seq(Messages) /\ Len(a) = tail - head + 1
                BY <3>2
            <4>. HIDE DEF a
            <4>. QED
                BY <4>1
        <3>6. \A i \in 1 .. tail - head + 1 : a[i] = log'[head + i]
            BY <3>2, <3>4
        <3>. HIDE DEF queue, a
        <3>7. [i \in 1 .. tail - head + 1 |-> a[i]] = [i \in 1 .. tail - head + 1 |-> log'[head + i]]
            BY <3>6
        <3>. QED
            BY <3>3, <3>5, <3>7 DEF a
    <2>. QED
        BY <2>1, <2>3, <2>4 DEF Fifo!Next, Fifo!Enqueue
<1>4. CASE Recv
    <2>1. head < tail /\ buffer[get_idx(head)] = log[head + 1]
        BY <1>4, ReceiveHead
    <2>2. /\ head' = head + 1
          /\ got' = Append(got, log[head + 1])
          /\ tail' = tail /\ log' = log
        BY <1>4, <2>1 DEF Recv
    <2>3. head \in Nat /\ tail \in Nat /\ log \in Seq(Messages) /\ Len(log) = tail
        BY <1>1 DEF TypeOK, CellsHoldWindow
    <2>4. queue \in Seq(Messages) /\ Len(queue) = tail - head
        BY <2>1, <2>3
    <2>5. queue # <<>> /\ Head(queue) = log[head + 1]
        BY <2>1, <2>3, <2>4
    <2>6. queue' = Tail(queue)
        <3>1. queue' = [i \in 1 .. tail - head - 1 |-> log[head + 1 + i]]
            BY <2>2, <2>3
        <3>2. Tail(queue) = [i \in 1 .. tail - head - 1 |-> queue[i + 1]]
            BY <2>1, <2>3, <2>4
        <3>3. \A i \in 1 .. tail - head - 1 : queue[i + 1] = log[head + 1 + i]
            BY <2>1, <2>3
        <3>. QED
            BY <3>1, <3>2, <3>3
    <2>. QED
        BY <2>2, <2>5, <2>6 DEF Fifo!Next, Fifo!Dequeue
<1>5. CASE Send /\ buffer[get_idx(tail)] # NoData
    BY <1>2, <1>5 DEF Send
<1>6. CASE (\E m \in Messages : Offer(m)) \/ Terminated \/ UNCHANGED vars
    BY <1>2, <1>6 DEF Offer, Terminated, vars
<1>. QED
    BY <1>3, <1>4, <1>5, <1>6 DEF Next

\* The ring of cells is a bounded first-in first-out queue, whatever its size
\* and whichever cells pos & mask uses.
THEOREM BinaryImplementsFifo == Spec => ImplementsFifo
<1>1. Init => Fifo!Init
    BY DEF Init, Fifo!Init
<1>. QED
    BY <1>1, BinaryInvariant, StepRefines, PTL DEF Spec, ImplementsFifo, Fifo!Spec

(***************************************************************************)
(* The source thread and the channel                                       *)
(***************************************************************************)
MainTypes ==
    /\ source \in {"subscribe", "select", "send", "refused", "ok", "error"}
    /\ main \in {"signals", "join", "ok", "error", "forced"}
    /\ stop \in BOOLEAN
    /\ sigint \in BOOLEAN
    /\ arrived \in Seq(Messages)
    /\ dropped \in Nat

\* What the source thread has in hand, and that the channel stays full once it
\* has refused a message: nobody receives at this commit.
SourceInHand ==
    /\ hand # NoData => /\ source \in {"send", "refused"}
                        /\ arrived # <<>> /\ hand = arrived[Len(arrived)]
    /\ source \in {"send", "refused"} => hand # NoData
    /\ source = "refused" \/ dropped > 0 => buffer[get_idx(tail)] # NoData

\* NothingLost is inductive only with SourceInHand: a message stored after one
\* was given up would break the prefix.
MainInv == BinaryInv /\ MainTypes /\ SourceInHand /\ NothingLost

\* A prefix, item by item.
LEMMA PrefixItems ==
    ASSUME NEW S, NEW a \in Seq(S), NEW b \in Seq(S), Len(a) <= Len(b)
    PROVE  a = SubSeq(b, 1, Len(a)) <=> \A i \in 1 .. Len(a) : a[i] = b[i]
<1>1. /\ SubSeq(b, 1, Len(a)) \in Seq(S)
      /\ Len(SubSeq(b, 1, Len(a))) = Len(a)
      /\ \A i \in 1 .. Len(a) : SubSeq(b, 1, Len(a))[i] = b[i]
    OBVIOUS
<1>. DEFINE c == SubSeq(b, 1, Len(a))
<1>2. ASSUME \A i \in 1 .. Len(a) : a[i] = b[i] PROVE a = c
    <2>1. c \in Seq(S) /\ Len(c) = Len(a) /\ \A i \in 1 .. Len(a) : c[i] = a[i]
        BY <1>1, <1>2
    <2>. HIDE DEF c
    <2>. QED
        BY <2>1, SeqEqual
<1>. QED
    BY <1>1, <1>2

\* The process starts within its invariant.
LEMMA MainInitInv == MainInit => MainInv
<1>. SUFFICES ASSUME MainInit PROVE MainInv
    OBVIOUS
<1>1. BinaryInv
    BY InitInv DEF MainInit
<1>2. MainTypes
    <2>1. arrived \in Seq(Messages) /\ dropped \in Nat
        BY DEF MainInit
    <2>2. /\ source \in {"subscribe", "select", "send", "refused", "ok", "error"}
          /\ main \in {"signals", "join", "ok", "error", "forced"}
          /\ stop \in BOOLEAN /\ sigint \in BOOLEAN
        BY Zenon DEF MainInit
    <2>. QED
        BY <2>1, <2>2 DEF MainTypes
<1>4. SourceInHand
    BY DEF MainInit, Init, SourceInHand
<1>3. NothingLost
    BY DEF MainInit, Init, NothingLost
<1>. QED
    BY <1>1, <1>2, <1>3, <1>4 DEF MainInv

\* A step that leaves the channel, the message in hand and the history alone, and
\* does not take a shutdown back.
LEMMA QuietStep ==
    ASSUME MainInv, MainTypes', UNCHANGED <<vars, arrived, dropped>>, stop => stop',
           source' = source \/ {source, source'} \cap {"send", "refused"} = {}
    PROVE  MainInv'
<1>1. BinaryInv'
    BY StepInv DEF MainInv
<1>2. SourceInHand'
    BY DEF MainInv, SourceInHand, vars
<1>3. NothingLost'
    BY DEF MainInv, NothingLost, vars
<1>. QED
    BY <1>1, <1>2, <1>3 DEF MainInv

\* Taking a message of the source keeps the invariant: it is next in the stream.
LEMMA TakeMessageInv ==
    ASSUME MainInv, NEW m \in Messages, TakeMessage(m)
    PROVE  MainInv'
<1>1. /\ UNCHANGED <<buffer, tail, head, log, got, main, stop, sigint, dropped>>
      /\ hand = NoData /\ hand' = m /\ source' = "send" /\ source = "select"
      /\ arrived' = Append(arrived, m)
    BY DEF TakeMessage, Offer
<1>2. BinaryInv'
    BY StepInv DEF MainInv, TakeMessage, Next
<1>3. arrived \in Seq(Messages) /\ MainTypes'
    BY <1>1 DEF MainInv, MainTypes
<1>4. /\ Len(arrived') = Len(arrived) + 1 /\ arrived' # <<>>
      /\ arrived'[Len(arrived) + 1] = m
      /\ \A i \in 1 .. Len(arrived) : arrived'[i] = arrived[i]
    BY <1>1, <1>3
<1>5. SourceInHand'
    BY <1>1, <1>4, DataAssumption DEF MainInv, SourceInHand
<1>6. log \in Seq(Messages) /\ dropped \in Nat
    BY DEF MainInv, MainTypes, BinaryInv, TypeOK
<1>7. Len(arrived) = Len(log) + dropped /\ log = SubSeq(arrived, 1, Len(log))
    BY <1>1, <1>6 DEF MainInv, NothingLost
<1>8. \A i \in 1 .. Len(log) : log[i] = arrived[i] /\ i \in 1 .. Len(arrived)
    BY <1>3, <1>6, <1>7, PrefixItems
<1>9. log = SubSeq(arrived', 1, Len(log))
    BY <1>3, <1>4, <1>6, <1>7, <1>8, PrefixItems DEF MainTypes
<1>10. NothingLost'
    BY <1>1, <1>3, <1>4, <1>6, <1>7, <1>9, DataAssumption DEF MainInv, NothingLost
<1>. QED
    BY <1>2, <1>3, <1>5, <1>10 DEF MainInv

\* A send keeps the invariant, whether the cell is free or refuses it.
LEMMA SendMessageInv == ASSUME MainInv, SendMessage PROVE MainInv'
<1>1. UNCHANGED <<head, got, main, stop, sigint, arrived, dropped>> /\ source = "send" /\ Send
    BY DEF SendMessage, Send
<1>2. BinaryInv'
    BY <1>1, StepInv DEF MainInv, Next
<1>3. MainTypes'
    BY <1>1 DEF MainInv, MainTypes, SendMessage
<1>4. CASE buffer[get_idx(tail)] # NoData
    <2>1. UNCHANGED vars /\ hand # NoData /\ source' = "refused"
        BY <1>1, <1>4 DEF Send, SendMessage, vars
    <2>2. SourceInHand'
        BY <1>1, <1>4, <2>1 DEF MainInv, SourceInHand, vars
    <2>3. NothingLost'
        BY <1>1, <2>1 DEF MainInv, NothingLost, vars
    <2>. QED
        BY <1>2, <1>3, <2>2, <2>3 DEF MainInv
<1>5. CASE buffer[get_idx(tail)] = NoData
    <2>1. /\ hand' = NoData /\ source' = "select"
          /\ log' = Append(log, hand)
        BY <1>1, <1>5 DEF Send, SendMessage
    <2>2. dropped = 0 /\ hand = arrived[Len(arrived)] /\ hand \in Messages
        BY <1>1, <1>5 DEF MainInv, SourceInHand, BinaryInv, TypeOK, MainTypes, Send
    <2>3. SourceInHand'
        BY <1>1, <2>1, <2>2 DEF SourceInHand
    <2>4. /\ log \in Seq(Messages) /\ arrived \in Seq(Messages)
          /\ Len(arrived) = Len(log) + 1 /\ log = SubSeq(arrived, 1, Len(log))
        BY <1>1, <2>2 DEF MainInv, MainTypes, BinaryInv, TypeOK, NothingLost, Send
    <2>5. \A i \in 1 .. Len(log) : log[i] = arrived[i]
        BY <2>4, PrefixItems
    <2>6. /\ log' \in Seq(Messages) /\ Len(log') = Len(log) + 1
          /\ \A i \in 1 .. Len(log') : log'[i] = arrived[i]
        BY <2>1, <2>2, <2>4, <2>5
    <2>7. log' = SubSeq(arrived', 1, Len(log'))
        BY <1>1, <2>4, <2>6, PrefixItems
    <2>8. NothingLost'
        BY <1>1, <2>1, <2>2, <2>4, <2>6, <2>7 DEF NothingLost
    <2>. QED
        BY <1>2, <1>3, <2>3, <2>8 DEF MainInv
<1>. QED
    BY <1>4, <1>5

\* Giving up a message, after a shutdown only, keeps the invariant.
LEMMA GiveUpInv == ASSUME MainInv, GiveUp PROVE MainInv'
<1>1. UNCHANGED <<buffer, tail, head, log, got, main, stop, sigint, arrived>> /\ source = "refused"
    BY DEF GiveUp
<1>2. hand # NoData /\ buffer[get_idx(tail)] # NoData
    BY <1>1 DEF MainInv, SourceInHand
<1>3. CASE stop /\ source' = "select" /\ hand' = NoData /\ dropped' = dropped + 1
    <2>1. BinaryInv'
        BY <1>1, <1>3 DEF MainInv, BinaryInv, TypeOK, CellsHoldWindow, ReceivedPrefix,
                          PositionsBounded
    <2>2. MainTypes'
        BY <1>1, <1>3 DEF MainInv, MainTypes
    <2>3. SourceInHand'
        BY <1>1, <1>2, <1>3 DEF SourceInHand
    <2>4. NothingLost'
        BY <1>1, <1>2, <1>3 DEF MainInv, MainTypes, NothingLost, BinaryInv, TypeOK
    <2>. QED
        BY <2>1, <2>2, <2>3, <2>4 DEF MainInv
<1>4. CASE source' = "send" /\ UNCHANGED <<hand, dropped>>
    <2>1. UNCHANGED vars
        BY <1>1, <1>4 DEF vars
    <2>2. BinaryInv'
        BY <2>1, StepInv DEF MainInv
    <2>3. MainTypes'
        BY <1>1, <1>4 DEF MainInv, MainTypes
    <2>4. SourceInHand'
        BY <1>1, <1>2, <1>4 DEF MainInv, SourceInHand
    <2>5. NothingLost'
        BY <1>1, <1>4 DEF MainInv, NothingLost
    <2>. QED
        BY <2>2, <2>3, <2>4, <2>5 DEF MainInv
<1>. QED
    BY <1>3, <1>4 DEF GiveUp

\* Every step of the process keeps its invariant.
LEMMA MainStepInv == MainInv /\ [MainNext]_mainVars => MainInv'
<1>. SUFFICES ASSUME MainInv, [MainNext]_mainVars PROVE MainInv'
    OBVIOUS
<1>1. CASE Subscribe
    <2>1. MainTypes'
        BY <1>1 DEF MainInv, MainTypes, Subscribe
    <2>. QED
        BY <1>1, <2>1, QuietStep DEF Subscribe
<1>2. CASE StreamEnds
    <2>1. MainTypes'
        BY <1>2 DEF MainInv, MainTypes, StreamEnds
    <2>. QED
        BY <1>2, <2>1, QuietStep DEF StreamEnds
<1>3. CASE StopSelected
    <2>1. MainTypes'
        BY <1>3 DEF MainInv, MainTypes, StopSelected
    <2>. QED
        BY <1>3, <2>1, QuietStep DEF StopSelected
<1>4. CASE SendMessage
    BY <1>4, SendMessageInv
<1>5. CASE GiveUp
    BY <1>5, GiveUpInv
<1>6. ASSUME NEW m \in Messages, TakeMessage(m) PROVE MainInv'
    BY <1>6, TakeMessageInv
<1>7. CASE Interrupt
    <2>1. MainTypes'
        BY <1>7 DEF MainInv, MainTypes, Interrupt
    <2>. QED
        BY <1>7, <2>1, QuietStep DEF Interrupt
<1>8. CASE HandleSignals
    <2>1. MainTypes'
        BY <1>8 DEF MainInv, MainTypes, HandleSignals
    <2>2. stop => stop'
        BY <1>8 DEF HandleSignals
    <2>. QED
        BY <1>8, <2>1, <2>2, QuietStep DEF HandleSignals
<1>9. CASE JoinThreads
    <2>1. MainTypes'
        BY <1>9 DEF MainInv, MainTypes, JoinThreads
    <2>. QED
        BY <1>9, <2>1, QuietStep DEF JoinThreads
<1>10. CASE UNCHANGED mainVars
    <2>1. MainTypes'
        BY <1>10 DEF MainInv, MainTypes, mainVars
    <2>. QED
        BY <1>10, <2>1, QuietStep DEF mainVars, vars
<1>. QED
    BY <1>1, <1>2, <1>3, <1>4, <1>5, <1>6, <1>7, <1>8, <1>9, <1>10 DEF MainNext, Ended

\* The process keeps the channel within what the channel's proofs assume of its
\* callers, whatever the signals and failures.
THEOREM MainInvariant == MainSpec => []MainInv
BY MainInitInv, MainStepInv, PTL DEF MainSpec

\* No message of the source stream is given up before a shutdown, and none is
\* stored behind one that was (the send loop of richat.rs).
THEOREM NothingLostTheorem == MainSpec => []NothingLost
<1>1. MainInv => NothingLost
    BY DEF MainInv
<1>. QED
    BY <1>1, MainInvariant, PTL

=============================================================================
