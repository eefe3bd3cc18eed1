------------------------------ MODULE Protobuf ------------------------------
(***************************************************************************)
(* The wire format as prost writes it.  Encoded bytes are a sequence of    *)
(* tokens: keys, varints, doubles and byte strings.                        *)
(***************************************************************************)
EXTENDS Integers, SequencesExt

CONSTANT None

\* A byte string: its length, and what it is made of.
Empty == [len |-> 0, of |-> <<>>]

Key(tag)  == <<"key", tag, <<>>>>
Varint(n) == <<"varint", n, <<>>>>
Double(x) == <<"double", x, <<>>>>
Data(b)   == <<"bytes", b.len, b.of>>

\* The sum of a sequence, value by value.
Total(lens) ==
    MapThenSumSet(LAMBDA n : n * Cardinality({i \in DOMAIN lens : lens[i] = n}), ToSet(lens))

Map(Op(_), s) == [i \in DOMAIN s |-> Op(s[i])]

(***************************************************************************)
(* prost::encoding                                                         *)
(***************************************************************************)
\* Seven bits a byte; a negative number is a large one of 64 bits.
encoded_len_varint(n) ==
    IF n < 0 THEN 10 ELSE 1 + Cardinality({k \in 1 .. 4 : n >= 128 ^ k})

key_len(tag) == encoded_len_varint(8 * tag)

SizeOf(tokens) ==
    Total(Map(LAMBDA t : CASE t[1] = "key"    -> key_len(t[2])
                           [] t[1] = "varint" -> encoded_len_varint(t[2])
                           [] t[1] = "double" -> 8
                           [] t[1] = "bytes"  -> t[2], tokens))

\* uint32, uint64, int32, int64 and bool
Num(tag, n)    == <<Key(tag), Varint(n)>>
NumLen(tag, n) == key_len(tag) + encoded_len_varint(n)

Packed(tag, s) ==
    IF s = <<>> THEN <<>>
    ELSE <<Key(tag), Varint(Total(Map(encoded_len_varint, s)))>> \o Map(Varint, s)

PackedLen(tag, s) ==
    LET len == Total(Map(encoded_len_varint, s))
    IN IF s = <<>> THEN 0 ELSE key_len(tag) + encoded_len_varint(len) + len

\* message::encode writes what encoded_len returns, then what encode_raw writes.
Message(tag, len, raw) == <<Key(tag), Varint(len)>> \o raw
MessageLen(tag, len) == key_len(tag) + encoded_len_varint(len) + len

Repeated(tag, Len1(_), Raw1(_), s) == FlattenSeq(Map(LAMBDA x : Message(tag, Len1(x), Raw1(x)), s))
RepeatedLen(tag, Len1(_), s) == Total(Map(LAMBDA x : MessageLen(tag, Len1(x)), s))

\* repeated strings
EachBytes(tag, s) == FlattenSeq(Map(LAMBDA b : <<Key(tag), Varint(b.len), Data(b)>>, s))
EachBytesLen(tag, s) == Total(Map(LAMBDA b : key_len(tag) + encoded_len_varint(b.len) + b.len, s))

\* if condition { encode }, if condition { encoded_len } else { 0 }
When(condition, tokens) == IF condition THEN tokens ELSE <<>>
LenWhen(condition, len) == IF condition THEN len ELSE 0

(***************************************************************************)
(* Generated code: fields that have their default are left out, unless     *)
(* they are optional; a length is that of what follows it.                 *)
(***************************************************************************)
Sized(tag, tokens) == Message(tag, SizeOf(tokens), tokens)

Field(tag, n) == When(n # 0, Num(tag, n))
Flag(tag, b)  == When(b, Num(tag, 1))
OptField(tag, n) == When(n # None, Num(tag, n))
OptBytes(tag, b) == When(b # None, <<Key(tag), Varint(b.len), Data(b)>>)
BytesField(tag, b) == When(b.len # 0, OptBytes(tag, b))
EachSized(tag, Prost(_), s) == FlattenSeq(Map(LAMBDA x : Sized(tag, Prost(x)), s))
OptSeq(s) == IF s = None THEN <<>> ELSE s

\* Timestamp, UnixTimestamp, BlockHeight and NumPartitions come from prost in both
\* encoders.
Timestamp(at) == Field(1, at.seconds) \o Field(2, at.nanos)
Wrapped(n) == Field(1, n)

=============================================================================
