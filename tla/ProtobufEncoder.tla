-------------------------- MODULE ProtobufEncoder --------------------------
(***************************************************************************)
(* ProtobufMessage::encode (plugin-agave/src/protobuf/message.rs) on the   *)
(* threads of the validator that notify the plugin.  The threads share     *)
(* nothing but the code, and each has a BUFFER for the error of a          *)
(* transaction, which outlives the message it was filled for.              *)
(***************************************************************************)
EXTENDS ProtobufMessages

CONSTANTS
    Threads,     \* threads of the validator that notify the plugin
    Messages,    \* per thread: the notifications it makes
    CreatedAt    \* the time of encoding

VARIABLES
    BUFFER,  \* per thread: the bytes of an error
    call     \* per thread: the call of encode_raw, or its result

vars == <<BUFFER, call>>

Idle == [pc |-> "idle", message |-> None, counted |-> Empty, size |-> 0, vec |-> <<>>]

Init ==
    /\ BUFFER = [t \in Threads |-> Empty]
    /\ call = [t \in Threads |-> Idle]

\* The error of a transaction that failed.
HasError(m) == m.kind = "transaction" /\ m.transaction.meta.err # None

\* Faulty variant: the buffer is not cleared.
SerializeAfter(buffer, m) ==
    IF HasError(m)
    THEN [len |-> buffer.len + m.transaction.meta.err.len, of |-> buffer.of \o m.transaction.meta.err.of]
    ELSE buffer

\* What the encoded_len of TransactionErrorWrapper leaves in the buffer; other
\* messages do not touch it.
Serialize(buffer, m) == IF HasError(m) THEN m.transaction.meta.err ELSE buffer

Tag(m) ==
    CASE m.kind = "account" -> 2 [] m.kind = "slot" -> 3 [] m.kind = "transaction" -> 4
      [] m.kind = "block_meta" -> 7 [] m.kind = "entry" -> 8

EncodedLen(m, counted) ==
    CASE m.kind = "account"     -> AccountLen(m)
      [] m.kind = "slot"        -> SlotLen(m)
      [] m.kind = "transaction" -> TransactionLen(m, counted)
      [] m.kind = "block_meta"  -> BlockMetaLen(m)
      [] m.kind = "entry"       -> EntryLen(m)

EncodeRaw(m, counted, written) ==
    CASE m.kind = "account"     -> AccountRaw(m)
      [] m.kind = "slot"        -> SlotRaw(m)
      [] m.kind = "transaction" -> TransactionRaw(m, counted, written)
      [] m.kind = "block_meta"  -> BlockMetaRaw(m)
      [] m.kind = "entry"       -> EntryRaw(m)

\* encode_prost
EncodeProst(m) ==
    Sized(Tag(m), CASE m.kind = "account"     -> AccountProst(m)
                    [] m.kind = "slot"        -> SlotProst(m)
                    [] m.kind = "transaction" -> TransactionProst(m)
                    [] m.kind = "block_meta"  -> BlockMetaProst(m)
                    [] m.kind = "entry"       -> EntryProst(m))
    \o Sized(11, Timestamp(CreatedAt))

\* let size = ..., Vec::with_capacity(size)
Reserve(t, m) ==
    LET buffer == Serialize(BUFFER[t], m)
    IN /\ call[t].pc \in {"idle", "done"}
       /\ BUFFER' = [BUFFER EXCEPT ![t] = buffer]
       /\ call' = [call EXCEPT ![t] =
             [pc |-> "reserved", message |-> m, counted |-> Empty, vec |-> <<>>,
              size |-> MessageLen(Tag(m), EncodedLen(m, buffer)) + MessageLen(11, SizeOf(Timestamp(CreatedAt)))]]

\* message::encode: the lengths, down to that of the error, which fill the buffer
\* once more.
Count(t) ==
    /\ call[t].pc = "reserved"
    /\ BUFFER' = [BUFFER EXCEPT ![t] = Serialize(@, call[t].message)]
    /\ call' = [call EXCEPT ![t].pc = "counted", ![t].counted = BUFFER'[t]]

\* The bytes of the error, from the buffer, and of all the rest.
Write(t) ==
    LET m == call[t].message
        counted == call[t].counted
    IN /\ call[t].pc = "counted"
       /\ call' = [call EXCEPT ![t].pc = "done", ![t].counted = Empty,
             ![t].vec = Message(Tag(m), EncodedLen(m, counted), EncodeRaw(m, counted, BUFFER[t]))
                        \o Sized(11, Timestamp(CreatedAt))]
       /\ UNCHANGED BUFFER

Next ==
    \E t \in Threads :
        \/ \E m \in Messages[t] : Reserve(t, m)
        \/ Count(t)
        \/ Write(t)

Spec == Init /\ [][Next]_vars

-----------------------------------------------------------------------------
\* Both encoders write the same bytes (test_encode_... in protobuf/mod.rs compares
\* them for recorded blocks), in particular every length is that of what follows
\* it, the error is that of the transaction itself whatever the thread has encoded
\* before, and the vector is filled to the size it was made with.
RawIsProst ==
    \A t \in Threads : call[t].pc = "done" =>
        /\ call[t].vec = EncodeProst(call[t].message)
        /\ SizeOf(call[t].vec) = call[t].size

=============================================================================
