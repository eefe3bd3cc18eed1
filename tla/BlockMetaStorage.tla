-------------------------- MODULE BlockMetaStorage --------------------------
(***************************************************************************)
(* The actor behind the unary requests (richat/src/grpc/block_meta.rs):    *)
(* BlockMetaStorage::work takes block metas and slot statuses from an      *)
(* unbounded queue and requests from a bounded one, messages first, and    *)
(* answers each request through a oneshot channel.                         *)
(***************************************************************************)
EXTENDS Integers, Sequences, FiniteSets, TLC

CONSTANTS
    Callers,            \* tasks that serve a unary request
    Inputs,             \* messages: block metas and slot statuses
    Requests,           \* requests of the callers
    QueueSize,          \* request_queue_size
    MaxAge,             \* MAX_PROCESSING_AGE
    MaxPush             \* bound on the messages pushed

ASSUME QueueAssumption == QueueSize \in Nat \ {0}
ASSUME AgeAssumption == MaxAge \in Nat \ {0}

VARIABLES
    messages,           \* messages_rx
    requests,           \* requests_rx
    blocks,             \* slot -> BlockMeta
    blockhashes,        \* blockhash -> BlockStatus
    processed, confirmed, finalized,
    turn,               \* the branch of the select that is polled next
    caller,             \* where each caller is: its request and the answer
    handled             \* history: messages handled

storage == <<blocks, blockhashes, processed, confirmed, finalized>>
vars == <<messages, requests, storage, turn, caller, handled>>

NoHash == "none"        \* String::default()

DefaultBlock ==
    [slot |-> 0, blockhash |-> NoHash, block_height |-> 0,
     processed |-> FALSE, confirmed |-> FALSE, finalized |-> FALSE]

DefaultStatus ==
    [last_valid_block_height |-> 0, processed |-> FALSE, confirmed |-> FALSE, finalized |-> FALSE]

Nothing == [kind |-> "None"]      \* Option::None

At(where, request, answer) == [at |-> where, request |-> request, answer |-> answer]
Idle == At("idle", Nothing, Nothing)

Init ==
    /\ messages = <<>>
    /\ requests = <<>>
    /\ blocks = [s \in {} |-> DefaultBlock]
    /\ blockhashes = [h \in {} |-> DefaultStatus]
    /\ processed = 0
    /\ confirmed = 0
    /\ finalized = 0
    /\ turn = "messages"
    /\ caller = [c \in Callers |-> Idle]
    /\ handled = <<>>

\* HashMap::entry(k).or_default()
Entry(f, k, default) == IF k \in DOMAIN f THEN f[k] ELSE default

-----------------------------------------------------------------------------
(***************************************************************************)
(* The handle: push and send_request                                       *)
(***************************************************************************)

push(m) ==
    /\ Len(handled) + Len(messages) < MaxPush
    /\ messages' = Append(messages, m)
    /\ UNCHANGED <<requests, storage, turn, caller, handled>>

\* try_send: a full queue is an error at once, otherwise the caller waits.
send_request(c, r) ==
    /\ caller[c] = Idle
    /\ \/ /\ Len(requests) < QueueSize
          /\ requests' = Append(requests, [caller |-> c, request |-> r, open |-> TRUE])
          /\ caller' = [caller EXCEPT ![c] = At("waiting", r, Nothing)]
       \/ /\ Len(requests) = QueueSize
          /\ caller' = [caller EXCEPT ![c] = At("exhausted", r, Nothing)]
          /\ UNCHANGED requests
    /\ UNCHANGED <<messages, storage, turn, handled>>

\* The client goes away: its oneshot receiver is dropped, its request stays.
Cancel(c) ==
    /\ caller[c].at = "waiting"
    /\ caller' = [caller EXCEPT ![c] = Idle]
    /\ requests' = [i \in DOMAIN requests |->
                      IF requests[i].caller = c THEN [requests[i] EXCEPT !.open = FALSE]
                      ELSE requests[i]]
    /\ UNCHANGED <<messages, storage, turn, handled>>

\* The answer goes to the client, which may ask again.
Return(c) ==
    /\ caller[c].at \in {"answered", "exhausted"}
    /\ caller' = [caller EXCEPT ![c] = Idle]
    /\ UNCHANGED <<messages, requests, storage, turn, handled>>

-----------------------------------------------------------------------------
(***************************************************************************)
(* BlockMetaStorage::work                                                  *)
(***************************************************************************)

TakeMessage ==
    /\ turn = "messages"
    /\ messages # <<>>
    /\ messages' = Tail(messages)
    /\ handled' = Append(handled, Head(messages))
    /\ UNCHANGED <<requests, turn, caller>>

HandleConfirmed ==
    /\ TakeMessage
    /\ LET m == Head(messages)
           entry == [Entry(blocks, m.slot, DefaultBlock) EXCEPT !.confirmed = TRUE]
           bentry == [Entry(blockhashes, entry.blockhash, DefaultStatus) EXCEPT !.confirmed = TRUE]
       IN /\ m.kind = "Slot" /\ m.status = "Confirmed"
          /\ blocks' = (m.slot :> entry) @@ blocks
          /\ blockhashes' = (entry.blockhash :> bentry) @@ blockhashes
          /\ confirmed' = m.slot
    /\ UNCHANGED <<processed, finalized>>

\* What the cleanup keeps of the blockhashes, and of the blocks.
KeptHashes(f, entry) ==
    {h \in DOMAIN f : f[h].last_valid_block_height < entry.block_height}

KeptBlocks(f, slot) == {s \in DOMAIN f : s >= slot}

HandleFinalized ==
    /\ TakeMessage
    /\ LET m == Head(messages)
           entry == [Entry(blocks, m.slot, DefaultBlock) EXCEPT !.finalized = TRUE]
           bentry == [Entry(blockhashes, entry.blockhash, DefaultStatus) EXCEPT !.finalized = TRUE]
           bs == (m.slot :> entry) @@ blocks
           hs == (entry.blockhash :> bentry) @@ blockhashes
       IN /\ m.kind = "Slot" /\ m.status = "Finalized"
          /\ blocks' = [s \in KeptBlocks(bs, m.slot) |-> bs[s]]
          /\ blockhashes' = [h \in KeptHashes(hs, entry) |-> hs[h]]
          /\ finalized' = m.slot
    /\ UNCHANGED <<processed, confirmed>>

\* Faulty variant: the last block meta is taken for that of the last slot.
HandleBlockMetaLast ==
    /\ TakeMessage
    /\ LET m == Head(messages)
           entry == [Entry(blocks, m.slot, DefaultBlock) EXCEPT
                       !.slot = m.slot, !.blockhash = m.blockhash,
                       !.block_height = m.block_height, !.processed = TRUE]
           bentry == [Entry(blockhashes, m.blockhash, DefaultStatus) EXCEPT
                        !.last_valid_block_height = m.block_height + MaxAge,
                        !.processed = TRUE]
       IN /\ m.kind = "BlockMeta"
          /\ blocks' = (m.slot :> entry) @@ blocks
          /\ blockhashes' = (m.blockhash :> bentry) @@ blockhashes
          /\ processed' = m.slot
    /\ UNCHANGED <<confirmed, finalized>>

HandleBlockMeta ==
    /\ TakeMessage
    /\ LET m == Head(messages)
           entry == [Entry(blocks, m.slot, DefaultBlock) EXCEPT
                       !.slot = m.slot, !.blockhash = m.blockhash,
                       !.block_height = m.block_height, !.processed = TRUE]
           bentry == [Entry(blockhashes, m.blockhash, DefaultStatus) EXCEPT
                        !.last_valid_block_height = m.block_height + MaxAge,
                        !.processed = TRUE]
       IN /\ m.kind = "BlockMeta"
          /\ blocks' = (m.slot :> entry) @@ blocks
          /\ blockhashes' = (m.blockhash :> bentry) @@ blockhashes
          /\ processed' = IF m.slot > processed THEN m.slot ELSE processed
    /\ UNCHANGED <<confirmed, finalized>>

\* Every other message.
HandleOther ==
    /\ TakeMessage
    /\ Head(messages).kind = "Slot" /\ Head(messages).status = "Processed"
    /\ UNCHANGED storage

\* Faulty variant: the task sleeps until there is a message.
NoMessageSleeps ==
    /\ turn = "messages"
    /\ messages = <<>>
    /\ UNCHANGED vars

\* The select is biased: requests are looked at when there was no message.  A
\* message may be pushed before they are.
NoMessage ==
    /\ turn = "messages"
    /\ messages = <<>>
    /\ turn' = "requests"
    /\ UNCHANGED <<messages, requests, storage, caller, handled>>

\* Nothing to do: the task sleeps until one of the queues wakes it.
NoRequest ==
    /\ turn = "requests"
    /\ requests = <<>>
    /\ turn' = "messages"
    /\ UNCHANGED <<messages, requests, storage, caller, handled>>

\* The block of a commitment, if there is one.
BlockAt(commitment) ==
    LET slot == CASE commitment = "Processed" -> processed
                  [] commitment = "Confirmed" -> confirmed
                  [] commitment = "Finalized" -> finalized
    IN Entry(blocks, slot, Nothing)

AnswerTo(r) ==
    LET block == BlockAt(r.commitment)
    IN CASE r.kind = "GetBlock" -> block
         [] r.kind = "IsBlockhashValid" ->
              IF block # Nothing /\ r.blockhash \in DOMAIN blockhashes
              THEN [valid |-> block.block_height
                                < blockhashes[r.blockhash].last_valid_block_height,
                    slot |-> block.slot]
              ELSE Nothing

\* tx.send: nobody may be waiting any more.
HandleRequest ==
    /\ turn = "requests"
    /\ requests # <<>>
    /\ requests' = Tail(requests)
    /\ turn' = "messages"
    /\ LET q == Head(requests)
       IN caller' = IF q.open
                    THEN [caller EXCEPT ![q.caller] = At("answered", q.request, AnswerTo(q.request))]
                    ELSE caller
    /\ UNCHANGED <<messages, storage, handled>>

work ==
    \/ HandleConfirmed \/ HandleFinalized \/ HandleBlockMeta \/ HandleOther
    \/ NoMessage \/ NoRequest \/ HandleRequest

Next ==
    \/ work
    \/ \E m \in Inputs : push(m)
    \/ \E c \in Callers :
          \/ \E r \in Requests : send_request(c, r)
          \/ Cancel(c)
          \/ Return(c)

Spec == Init /\ [][Next]_vars

\* The task is polled when it is woken.
FairSpec == Spec /\ WF_vars(work)

-----------------------------------------------------------------------------

Metas == {i \in DOMAIN handled : handled[i].kind = "BlockMeta"}

\* A slot above the given one was finalized after the i-th message.
EndedAfter(i, slot) ==
    \E j \in i + 1 .. Len(handled) :
       /\ handled[j].kind = "Slot" /\ handled[j].status = "Finalized"
       /\ handled[j].slot > slot

\* The i-th message is the newest block meta: none of a later slot, and none of
\* its slot later.
Newest(i) ==
    /\ i \in Metas
    /\ \A j \in Metas :
          \/ handled[j].slot < handled[i].slot
          \/ handled[j].slot = handled[i].slot /\ j <= i

\* Whatever order metas and statuses come in, get_block at the processed level
\* is answered with the newest block meta, unless a later slot was finalized.
NewestAnswered ==
    [][\A c \in Callers, i \in Metas :
          /\ caller[c].at = "waiting" /\ caller'[c].at = "answered"
          /\ caller[c].request.kind = "GetBlock" /\ caller[c].request.commitment = "Processed"
          /\ Newest(i) /\ ~EndedAfter(i, handled[i].slot)
          => /\ caller'[c].answer # Nothing
             /\ caller'[c].answer.blockhash = handled[i].blockhash
             /\ caller'[c].answer.slot = handled[i].slot]_vars

\* A caller that was queued and stays is answered, and requests come in no order
\* that makes it wait for ever.
EveryoneAnswered == \A c \in Callers : caller[c].at = "waiting" ~> caller[c].at # "waiting"

=============================================================================
