--------------------------- MODULE BinaryChannel ---------------------------
(***************************************************************************)
(* The channel of undecoded messages (richat/src/channel.rs, mod binary):  *)
(* one Sender and one Receiver with private positions, and a ring of cells *)
(* with a Mutex each.  A cell is the only thing the two share, so sending  *)
(* and receiving are atomic.  send gives the message back when its cell is *)
(* taken, and the caller holds it and tries again.                         *)
(***************************************************************************)
EXTENDS Integers, Sequences, FiniteSets

CONSTANTS
    Messages,     \* messages of the source stream
    NoData,       \* an empty cell: None
    Cells,        \* indices of Shared::buffer
    get_idx(_),   \* Shared::get_idx: pos & mask, whatever max_messages is
    MaxLog        \* bound on the messages sent

ASSUME LogAssumption == MaxLog \in Nat
ASSUME CellsAssumption ==
    /\ IsFiniteSet(Cells)
    /\ \A pos \in 0 .. MaxLog : get_idx(pos) \in Cells
ASSUME DataAssumption == NoData \notin Messages

VARIABLES
    buffer,       \* Shared::buffer
    tail,         \* Sender::tail
    head,         \* Receiver::head
    hand,         \* the message the caller of send holds
    log,          \* history: messages stored by send, in order
    got           \* history: messages recv returned, in order

vars == <<buffer, tail, head, hand, log, got>>

\* binary::channel
Init ==
    /\ buffer = [c \in Cells |-> NoData]
    /\ tail = 0
    /\ head = 0
    /\ hand = NoData
    /\ log = <<>>
    /\ got = <<>>

\* The caller has another message to send.
Offer(m) ==
    /\ hand = NoData
    /\ Len(log) < MaxLog
    /\ hand' = m
    /\ UNCHANGED <<buffer, tail, head, log, got>>

\* Faulty variant: the message is stored over the one that is still there.
SendOver ==
    /\ hand # NoData
    /\ buffer' = [buffer EXCEPT ![get_idx(tail)] = hand]
    /\ tail' = tail + 1
    /\ log' = Append(log, hand)
    /\ hand' = NoData
    /\ UNCHANGED <<head, got>>

\* Sender::send of the message in hand
Send ==
    /\ hand # NoData
    /\ \/ /\ buffer[get_idx(tail)] # NoData
          /\ UNCHANGED <<buffer, tail, hand, log>>
       \/ /\ buffer[get_idx(tail)] = NoData
          /\ buffer' = [buffer EXCEPT ![get_idx(tail)] = hand]
          /\ tail' = tail + 1
          /\ log' = Append(log, hand)
          /\ hand' = NoData
    /\ UNCHANGED <<head, got>>

\* Faulty variant: the position moves although nothing was received.
RecvSkips ==
    LET item == buffer[get_idx(head)]
    IN /\ buffer' = [buffer EXCEPT ![get_idx(head)] = NoData]
       /\ head' = head + 1
       /\ head <= MaxLog
       /\ got' = IF item # NoData THEN Append(got, item) ELSE got
       /\ UNCHANGED <<tail, hand, log>>

\* Receiver::recv; None leaves everything as it is
Recv ==
    LET item == buffer[get_idx(head)]
    IN /\ item # NoData
       /\ buffer' = [buffer EXCEPT ![get_idx(head)] = NoData]
       /\ head' = head + 1
       /\ got' = Append(got, item)
       /\ UNCHANGED <<tail, hand, log>>

\* The bound is reached and everything was received.
Terminated ==
    /\ Len(log) = MaxLog
    /\ hand = NoData
    /\ head = tail
    /\ UNCHANGED vars

Next == (\E m \in Messages : Offer(m)) \/ Send \/ Recv \/ Terminated

Spec == Init /\ [][Next]_vars

\* The parser polls recv forever, and the source loop repeats send.
FairSpec == Spec /\ WF_vars(Recv) /\ WF_vars(Send)

-----------------------------------------------------------------------------

TypeOK ==
    /\ buffer \in [Cells -> Messages \union {NoData}]
    /\ tail \in Nat
    /\ head \in Nat
    /\ hand \in Messages \union {NoData}
    /\ log \in Seq(Messages)
    /\ got \in Seq(Messages)

\* The cells hold the messages sent and not received, each in the cell of its
\* position and no two in the same cell, and nothing else.  It holds for every
\* mapping of positions to cells, so for sizes that are no power of two, where
\* pos & mask repeats some cells and leaves out others.
CellsHoldWindow ==
    /\ head <= tail
    /\ Len(log) = tail
    /\ \A p \in head .. tail - 1 : buffer[get_idx(p)] = log[p + 1]
    /\ \A p, q \in head .. tail - 1 : get_idx(p) = get_idx(q) => p = q
    /\ \A c \in Cells :
          buffer[c] # NoData => \E p \in head .. tail - 1 : c = get_idx(p)

\* recv returned exactly the first messages sent, in their order.
ReceivedPrefix == Len(got) = head /\ \A i \in 1 .. head : got[i] = log[i]

\* None from recv means that nothing is in flight, and a message given back by
\* send that something is: a caller never waits for an idle peer.
NeverStuck ==
    /\ buffer[get_idx(head)] = NoData => head = tail
    /\ buffer[get_idx(tail)] # NoData => head < tail

Fifo ==
    INSTANCE BoundedFifo
        WITH queue <- [i \in 1 .. tail - head |-> log[head + i]],
             Bound <- Cardinality(Cells)

\* The ring is a first-in first-out queue no longer than its number of cells.
ImplementsFifo == Fifo!Spec

=============================================================================
