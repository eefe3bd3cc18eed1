-------------------------- MODULE TransportsProofs --------------------------
(***************************************************************************)
(* Proofs about Transports, for every set of subscriptions, any number of  *)
(* streams, messages and failures, and any receive window.                 *)
(*                                                                         *)
(* ServerInv is about the connection task: each stream of QUIC is free or  *)
(* has a task, ids under way are within the backlog, and the message n was *)
(* given to the stream that lane[n] names.  DeliveryInv follows a message  *)
(* from there, through the wire and the hands of a reader, to where it     *)
(* arrives.  Reported is about what the subscriber is told.                *)
(***************************************************************************)
EXTENDS Transports, FiniteSetTheorems, WellFoundedInduction, TLAPS

-----------------------------------------------------------------------------
(***************************************************************************)
(* The smallest of some numbers                                            *)
(***************************************************************************)

\* The order of the natural numbers as a relation.
Below == {p \in Nat \X Nat : p[1] < p[2]}

\* It is well-founded.
LEMMA BelowWellFounded == IsWellFoundedOn(Below, Nat)
<1>1. OpToRel(<, Nat) = Below
  BY DEF OpToRel, Below
<1> QED
  BY <1>1, NatLessThanWellFounded

\* Some natural numbers, if there are any, have a smallest.
LEMMA MinIs ==
    ASSUME NEW S \in SUBSET Nat, S # {}
    PROVE  Min(S) \in S /\ \A y \in S : Min(S) <= y
<1>1. PICK x \in S : \A y \in S : ~(<<y, x>> \in Below)
  BY BelowWellFounded, WFMin
<1>2. ASSUME NEW y \in S PROVE x <= y
  <2>1. <<y, x>> \in Nat \X Nat
    OBVIOUS
  <2>2. ~(y < x)
    BY <1>1, <2>1 DEF Below
  <2> QED
    BY <2>2
<1> QED
  BY <1>2 DEF Min

-----------------------------------------------------------------------------
(***************************************************************************)
(* The answers to a request                                                *)
(***************************************************************************)

\* FirstError is None if every check passes, or the error of one that fails.
LEMMA FirstErrorIs ==
    ASSUME NEW checks, NEW n \in Nat, DOMAIN checks = 1 .. n
    PROVE  \/ FirstError(checks) = None /\ \A i \in 1 .. n : ~checks[i][1]
           \/ \E i \in 1 .. n : /\ checks[i][1] /\ FirstError(checks) = checks[i][2]
                                /\ \A j \in 1 .. i - 1 : ~checks[j][1]
<1> DEFINE failed == {i \in DOMAIN checks : checks[i][1]}
<1>1. CASE failed = {}
  BY <1>1 DEF FirstError
<1>2. CASE failed # {}
  <2>1. failed \in SUBSET Nat
    OBVIOUS
  <2>2. Min(failed) \in failed /\ \A j \in failed : Min(failed) <= j
    BY <1>2, <2>1, MinIs
  <2>3. FirstError(checks) = checks[Min(failed)][2]
    BY <1>2 DEF FirstError
  <2>4. ASSUME NEW j \in 1 .. Min(failed) - 1 PROVE ~checks[j][1]
    <3>1. Min(failed) \in 1 .. n
      BY <2>2
    <3>2. j \in 1 .. n /\ j < Min(failed)
      BY <3>1
    <3>3. j \notin failed
      <4> DEFINE least == Min(failed)
      <4>1. least \in Nat /\ j \in Nat /\ j < least /\ \A k \in failed : least <= k
        BY <2>2, <3>1, <3>2
      <4> HIDE DEF failed, least
      <4> QED
        BY <4>1
    <3> QED
      BY <3>2, <3>3
  <2> QED
    BY <2>2, <2>3, <2>4
<1> QED
  BY <1>1, <1>2

\* The checks of QuicServer::handle_request, one after the other.
LEMMA QuicRefusalIs ==
    ASSUME NEW x_tokens, NEW request, NEW channel
    PROVE  LET e == QuicRefusal(x_tokens, request, channel)
               missing == x_tokens # {} /\ request.x_token = None
               invalid == x_tokens # {} /\ request.x_token \notin x_tokens
           IN \/ /\ e = None /\ ~(request.size > MaxRequestSize)
                 /\ ~missing /\ ~invalid
                 /\ request.recv_streams # 0 /\ ~(request.recv_streams > MaxRecvStreams)
                 /\ channel = None
              \/ e = "RequestSizeTooLarge" /\ request.size > MaxRequestSize
              \/ e = "XTokenRequired" /\ missing
              \/ e = "XTokenInvalid" /\ invalid /\ ~missing
              \/ e = "ZeroRecvStreams" /\ request.recv_streams = 0
              \/ e = "ExceedRecvStreams" /\ request.recv_streams > MaxRecvStreams
              \/ /\ e = channel /\ channel # None /\ ~(request.size > MaxRequestSize)
                 /\ ~missing /\ ~invalid
                 /\ request.recv_streams # 0 /\ ~(request.recv_streams > MaxRecvStreams)
<1> DEFINE missing == x_tokens # {} /\ request.x_token = None
           invalid == x_tokens # {} /\ request.x_token \notin x_tokens
           checks == <<<<request.size > MaxRequestSize, "RequestSizeTooLarge">>,
                       <<missing, "XTokenRequired">>, <<invalid, "XTokenInvalid">>,
                       <<request.recv_streams = 0, "ZeroRecvStreams">>,
                       <<request.recv_streams > MaxRecvStreams, "ExceedRecvStreams">>,
                       <<channel # None, channel>>>>
<1>1. QuicRefusal(x_tokens, request, channel) = FirstError(checks)
  BY DEF QuicRefusal
<1>2. DOMAIN checks = 1 .. 6
  OBVIOUS
<1> HIDE DEF checks
<1>3. \/ FirstError(checks) = None /\ \A i \in 1 .. 6 : ~checks[i][1]
      \/ \E i \in 1 .. 6 : /\ checks[i][1] /\ FirstError(checks) = checks[i][2]
                           /\ \A j \in 1 .. i - 1 : ~checks[j][1]
  BY <1>2, FirstErrorIs
<1> USE DEF checks
<1>4. CASE FirstError(checks) = None /\ \A i \in 1 .. 6 : ~checks[i][1]
  <2>1. ~checks[1][1] /\ ~checks[2][1] /\ ~checks[3][1] /\ ~checks[4][1] /\ ~checks[5][1]
        /\ ~checks[6][1]
    BY <1>4
  <2> QED
    BY <1>1, <1>4, <2>1
<1>5. ASSUME NEW i \in 1 .. 6, checks[i][1], FirstError(checks) = checks[i][2],
             \A j \in 1 .. i - 1 : ~checks[j][1]
      PROVE  \/ FirstError(checks) = "RequestSizeTooLarge" /\ request.size > MaxRequestSize
             \/ FirstError(checks) = "XTokenRequired" /\ missing
             \/ FirstError(checks) = "XTokenInvalid" /\ invalid /\ ~missing
             \/ FirstError(checks) = "ZeroRecvStreams" /\ request.recv_streams = 0
             \/ FirstError(checks) = "ExceedRecvStreams"
                   /\ request.recv_streams > MaxRecvStreams
             \/ /\ FirstError(checks) = channel /\ channel # None
                /\ ~(request.size > MaxRequestSize) /\ ~missing /\ ~invalid
                /\ request.recv_streams # 0 /\ ~(request.recv_streams > MaxRecvStreams)
  <2>1. CASE i = 1
    BY <1>5, <2>1, ZenonT(30)
  <2>2. CASE i = 2
    BY <1>5, <2>2
  <2>3. CASE i = 3
    <3>1. ~checks[2][1]
      BY <1>5, <2>3
    <3> QED
      BY <1>5, <2>3, <3>1
  <2>4. CASE i = 4
    BY <1>5, <2>4
  <2>5. CASE i = 5
    BY <1>5, <2>5, ZenonT(30)
  <2>6. CASE i = 6
    <3>1. ~checks[1][1] /\ ~checks[2][1] /\ ~checks[3][1] /\ ~checks[4][1] /\ ~checks[5][1]
      BY <1>5, <2>6
    <3> QED
      BY <1>5, <2>6, <3>1
  <2> QED
    BY <2>1, <2>2, <2>3, <2>4, <2>5, <2>6
<1> QED
  BY <1>1, <1>3, <1>4, <1>5

\* Those of TcpServer::handle_request.
LEMMA TcpRefusalIs ==
    ASSUME NEW x_tokens, NEW request, NEW channel
    PROVE  LET e == TcpRefusal(x_tokens, request, channel)
               missing == x_tokens # {} /\ request.x_token = None
               invalid == x_tokens # {} /\ request.x_token \notin x_tokens
           IN \/ /\ e = None /\ ~(request.size > MaxRequestSize)
                 /\ ~missing /\ ~invalid /\ channel = None
              \/ e = "RequestSizeTooLarge" /\ request.size > MaxRequestSize
              \/ e = "XTokenRequired" /\ missing
              \/ e = "XTokenInvalid" /\ invalid /\ ~missing
              \/ /\ e = channel /\ channel # None /\ ~(request.size > MaxRequestSize)
                 /\ ~missing /\ ~invalid
<1> DEFINE missing == x_tokens # {} /\ request.x_token = None
           invalid == x_tokens # {} /\ request.x_token \notin x_tokens
           checks == <<<<request.size > MaxRequestSize, "RequestSizeTooLarge">>,
                       <<missing, "XTokenRequired">>, <<invalid, "XTokenInvalid">>,
                       <<channel # None, channel>>>>
<1>1. TcpRefusal(x_tokens, request, channel) = FirstError(checks)
  BY DEF TcpRefusal
<1>2. DOMAIN checks = 1 .. 4
  OBVIOUS
<1> HIDE DEF checks
<1>3. \/ FirstError(checks) = None /\ \A i \in 1 .. 4 : ~checks[i][1]
      \/ \E i \in 1 .. 4 : /\ checks[i][1] /\ FirstError(checks) = checks[i][2]
                           /\ \A j \in 1 .. i - 1 : ~checks[j][1]
  BY <1>2, FirstErrorIs
<1> USE DEF checks
<1>4. CASE FirstError(checks) = None /\ \A i \in 1 .. 4 : ~checks[i][1]
  <2>1. ~checks[1][1] /\ ~checks[2][1] /\ ~checks[3][1] /\ ~checks[4][1]
    BY <1>4
  <2> QED
    BY <1>1, <1>4, <2>1
<1>5. ASSUME NEW i \in 1 .. 4, checks[i][1], FirstError(checks) = checks[i][2],
             \A j \in 1 .. i - 1 : ~checks[j][1]
      PROVE  \/ FirstError(checks) = "RequestSizeTooLarge" /\ request.size > MaxRequestSize
             \/ FirstError(checks) = "XTokenRequired" /\ missing
             \/ FirstError(checks) = "XTokenInvalid" /\ invalid /\ ~missing
             \/ /\ FirstError(checks) = channel /\ channel # None
                /\ ~(request.size > MaxRequestSize) /\ ~missing /\ ~invalid
  <2>1. CASE i = 1
    BY <1>5, <2>1
  <2>2. CASE i = 2
    BY <1>5, <2>2
  <2>3. CASE i = 3
    <3>1. ~checks[2][1]
      BY <1>5, <2>3
    <3> QED
      BY <1>5, <2>3, <3>1
  <2>4. CASE i = 4
    <3>1. ~checks[1][1] /\ ~checks[2][1] /\ ~checks[3][1]
      BY <1>5, <2>4
    <3> QED
      BY <1>5, <2>4, <3>1
  <2> QED
    BY <2>1, <2>2, <2>3, <2>4
<1> QED
  BY <1>1, <1>3, <1>4, <1>5

\* Those of the interceptor and of GrpcServer::subscribe.
LEMMA GrpcRefusalIs ==
    ASSUME NEW x_tokens, NEW request, NEW channel
    PROVE  LET e == GrpcRefusal(x_tokens, request, channel)
               bad == x_tokens # {} /\ request.x_token \notin x_tokens
           IN \/ /\ e = None /\ ~bad /\ ~(request.size > MaxRequestSize)
                 /\ channel \notin ChannelErrors
              \/ e = "unauthenticated" /\ bad
              \/ e = "aborted" /\ request.size > MaxRequestSize
              \/ /\ e = "internal" /\ channel = "NotInitialized"
                 /\ ~bad /\ ~(request.size > MaxRequestSize)
              \/ /\ e = "invalid_argument" /\ channel = "SlotNotAvailable"
                 /\ ~bad /\ ~(request.size > MaxRequestSize)
<1> DEFINE bad == x_tokens # {} /\ request.x_token \notin x_tokens
           checks == <<<<bad, "unauthenticated">>, <<request.size > MaxRequestSize, "aborted">>,
                       <<channel = "NotInitialized", "internal">>,
                       <<channel = "SlotNotAvailable", "invalid_argument">>>>
<1>1. GrpcRefusal(x_tokens, request, channel) = FirstError(checks)
  BY DEF GrpcRefusal, Unauthenticated
<1>2. DOMAIN checks = 1 .. 4
  OBVIOUS
<1> HIDE DEF checks
<1>3. \/ FirstError(checks) = None /\ \A i \in 1 .. 4 : ~checks[i][1]
      \/ \E i \in 1 .. 4 : /\ checks[i][1] /\ FirstError(checks) = checks[i][2]
                           /\ \A j \in 1 .. i - 1 : ~checks[j][1]
  BY <1>2, FirstErrorIs
<1> USE DEF checks
<1>4. CASE FirstError(checks) = None /\ \A i \in 1 .. 4 : ~checks[i][1]
  <2>1. ~checks[1][1] /\ ~checks[2][1] /\ ~checks[3][1] /\ ~checks[4][1]
    BY <1>4
  <2> QED
    BY <1>1, <1>4, <2>1 DEF ChannelErrors
<1>5. ASSUME NEW i \in 1 .. 4, checks[i][1], FirstError(checks) = checks[i][2],
             \A j \in 1 .. i - 1 : ~checks[j][1]
      PROVE  \/ FirstError(checks) = "unauthenticated" /\ bad
             \/ FirstError(checks) = "aborted" /\ request.size > MaxRequestSize
             \/ /\ FirstError(checks) = "internal" /\ channel = "NotInitialized"
                /\ ~bad /\ ~(request.size > MaxRequestSize)
             \/ /\ FirstError(checks) = "invalid_argument" /\ channel = "SlotNotAvailable"
                /\ ~bad /\ ~(request.size > MaxRequestSize)
  <2>1. CASE i = 1
    BY <1>5, <2>1
  <2>2. CASE i = 2
    BY <1>5, <2>2
  <2>3. CASE i = 3
    <3>1. ~checks[1][1] /\ ~checks[2][1]
      BY <1>5, <2>3
    <3> QED
      BY <1>5, <2>3, <3>1
  <2>4. CASE i = 4
    <3>1. ~checks[1][1] /\ ~checks[2][1] /\ ~checks[3][1]
      BY <1>5, <2>4
    <3> QED
      BY <1>5, <2>4, <3>1
  <2> QED
    BY <2>1, <2>2, <2>3, <2>4
<1> QED
  BY <1>1, <1>3, <1>4, <1>5

-----------------------------------------------------------------------------
(***************************************************************************)
(* Types                                                                   *)
(***************************************************************************)

\* The locals of the send loop.
LoopType ==
    [msg_id : Nat, msg_ids : SUBSET Nat, next : Nat \cup {None}, free : Seq(Streams),
     task : [Streams -> Task \cup {None}], lane : Seq(Streams)]

\* The words of what a subscriber is told.
Words ==
    {"Io", "QuicConnection", "None", "unauthenticated", "aborted", "internal",
     "invalid_argument", "out_of_range", "XTokenRequired", "XTokenInvalid",
     "RequestSizeTooLarge", "ZeroRecvStreams", "ExceedRecvStreams", "NotInitialized",
     "ReplayFromSlotNotAvailable", "SlotNotAvailable", "Lagged", "Closed"}

\* What a subscriber is told, if anything.
ToldType == [error : Words, detail : Nat \cup {None, FirstSlot}] \cup {None}

\* A record for Kafka, or what a consumer gets.
RecordType == [msg : Nat \cup {None}, via : Streams]

\* A stream, as the client has yet to read it.
WireType == [frames : Seq(Frame), fin : BOOLEAN]

\* process_reader on a stream.
ReaderType ==
    [pc : {"off", "read", "send", "ended"}, msg : Nat \cup {None}, told : ToldType]

\* Where the client is.
ClientType ==
    [pc : {"response", "accept", "poll", "wait", "ended", "failed", "panicked", "exited"},
     accepted : Nat, told : ToldType]

\* What the server answers to a request.
Answer(channel) ==
    IF Transport = "grpc" THEN [error |-> Refusal(channel)] ELSE Response(Refusal(channel))

\* The reply on its way is the answer to some outcome of subscribe, and after a
\* refusal the end of the receiver is what subscribe has said, if it was asked.
ReplyFrom ==
    reply # None => \E channel \in ChannelErrors \cup {None} :
        /\ reply = Answer(channel)
        /\ Refusal(channel) # None =>
              /\ server = "ended"
              /\ rx.end = IF Refusal(None) = None THEN channel ELSE None

\* The streams are numbers, and there is one at least.
LEMMA StreamsFacts == 1 \in Streams /\ Streams \subseteq Nat
BY TransportsAssumption DEF Streams

\* The close frame of QuicSubscribeClose, and its two codes.
LEMMA CloseIs ==
    ASSUME NEW e \in DOMAIN CloseCode
    PROVE  /\ e \in {"Lagged", "Closed"} /\ e \in Errors
           /\ Close(e) \in Frame
           /\ Close(e).msg = None /\ Close(e).close = CloseCode[e] /\ Close(e).cut = FALSE
           /\ CloseCode[e] = IF e = "Lagged" THEN 0 ELSE 1
<1>1. e \in {"Lagged", "Closed"}
  BY DEF CloseCode
<1>2. CloseCode[e] = IF e = "Lagged" THEN 0 ELSE 1
  BY <1>1 DEF CloseCode
<1> QED
  BY <1>1, <1>2 DEF Errors, Close, Frame

\* The frame of a message.
LEMMA DataIs ==
    ASSUME NEW id \in Nat \cup {None}, NEW m \in Nat
    PROVE  /\ Data(id, m) \in Frame
           /\ Data(id, m).msg = m /\ Data(id, m).close = None /\ Data(id, m).cut = FALSE
BY DEF Data, Frame

\* set.join_next() of a task that is there.
LEMMA JoinedIs ==
    ASSUME NEW l \in LoopType, NEW s \in Streams, l.task[s] # None
    PROVE  LET d == Joined(l, s) IN
           /\ d \in LoopType
           /\ d.msg_id = l.msg_id /\ d.next = l.next /\ d.lane = l.lane
           /\ d.msg_ids = l.msg_ids \ {l.task[s].id}
           /\ d.free = Append(l.free, s)
           /\ d.task = [l.task EXCEPT ![s] = None]
<1> DEFINE d == Joined(l, s)
<1>1. /\ d.msg_id = l.msg_id /\ d.next = l.next /\ d.lane = l.lane
      /\ d.msg_ids = l.msg_ids \ {l.task[s].id}
      /\ d.free = Append(l.free, s)
      /\ d.task = [l.task EXCEPT ![s] = None]
  BY DEF Joined, LoopType
<1>2. /\ Append(l.free, s) \in Seq(Streams) /\ l.msg_ids \ {l.task[s].id} \in SUBSET Nat
      /\ [l.task EXCEPT ![s] = None] \in [Streams -> Task \cup {None}]
  BY DEF LoopType
<1>3. d \in LoopType
  BY <1>2 DEF Joined, LoopType
<1> QED
  BY <1>1, <1>3

\* A task is spawned on the first free stream.
LEMMA SpawnIs ==
    ASSUME NEW l \in LoopType, l.free # <<>>, NEW id \in Nat, NEW frame \in Frame
    PROVE  LET d == Spawn(l, Head(l.free), id, frame) IN
           /\ d \in LoopType
           /\ d.msg_id = l.msg_id /\ d.next = l.next /\ d.lane = l.lane
           /\ d.msg_ids = l.msg_ids
           /\ d.free = Tail(l.free)
           /\ d.task = [l.task EXCEPT ![Head(l.free)] =
                            [id |-> id, frame |-> frame, written |-> FALSE]]
<1> DEFINE t == [id |-> id, frame |-> frame, written |-> FALSE]
           h == Head(l.free)
           d == Spawn(l, h, id, frame)
<1>1. h \in Streams /\ Tail(l.free) \in Seq(Streams)
  BY DEF LoopType
<1>2. t \in Task
  BY DEF Task
<1> HIDE DEF h
<1>3. /\ d.msg_id = l.msg_id /\ d.next = l.next /\ d.lane = l.lane
      /\ d.msg_ids = l.msg_ids
      /\ d.free = Tail(l.free)
      /\ d.task = [l.task EXCEPT ![h] = t]
  BY DEF Spawn, LoopType
<1>4. [l.task EXCEPT ![h] = t] \in [Streams -> Task \cup {None}]
  BY <1>1, <1>2 DEF LoopType
<1>5. d \in LoopType
  BY <1>1, <1>4 DEF Spawn, LoopType
<1> QED
  BY <1>3, <1>5 DEF h

\* The backlog is a number, also when the request gives none.
LEMMA BacklogIs == subscription \in Subscriptions => Backlog \in Nat
BY TransportsAssumption DEF Backlog, Request

\* The top of the loop leaves things alone, or hands the message to the first free
\* stream, when every id under way is younger than the backlog.
LEMMA DispatchIs ==
    ASSUME NEW l \in LoopType, subscription \in Subscriptions
    PROVE  LET d == Dispatch(l) IN
           /\ d \in LoopType
           /\ \/ d = l
              \/ /\ l.next \in Nat /\ l.free # <<>>
                 /\ (\A id \in l.msg_ids : id < l.msg_id) =>
                       0 < Backlog /\ \A id \in l.msg_ids : l.msg_id - id < Backlog
                 /\ d.msg_id = l.msg_id + 1 /\ d.next = None
                 /\ d.lane = Append(l.lane, Head(l.free))
                 /\ d.msg_ids = l.msg_ids \cup {l.msg_id}
                 /\ d.free = Tail(l.free)
                 /\ d.task = [l.task EXCEPT ![Head(l.free)] =
                        [id |-> l.msg_id, frame |-> Data(l.msg_id, l.next), written |-> FALSE]]
<1> DEFINE first == IF l.msg_ids = {} THEN l.msg_id ELSE Min(l.msg_ids)
<1>1. CASE l.next = None \/ l.free = <<>> \/ l.msg_id - first >= Backlog
  BY <1>1 DEF Dispatch
<1>2. CASE ~(l.next = None \/ l.free = <<>> \/ l.msg_id - first >= Backlog)
  <2>1. /\ l.next \in Nat /\ l.free # <<>> /\ l.msg_id \in Nat /\ Head(l.free) \in Streams
        /\ l.msg_ids \in SUBSET Nat /\ l.lane \in Seq(Streams)
    BY <1>2 DEF LoopType
  <2>2. Backlog \in Nat
    BY BacklogIs
  <2>3. ASSUME \A id \in l.msg_ids : id < l.msg_id
        PROVE  0 < Backlog /\ \A id \in l.msg_ids : l.msg_id - id < Backlog
    <3>1. first \in Nat /\ first <= l.msg_id /\ \A id \in l.msg_ids : first <= id
      BY <2>1, <2>3, MinIs
    <3> HIDE DEF first
    <3> QED
      BY <1>2, <2>1, <2>2, <3>1
  <2> DEFINE e == Spawn(l, Head(l.free), l.msg_id, Data(l.msg_id, l.next))
  <2>4. /\ e \in LoopType
        /\ e.msg_id = l.msg_id /\ e.next = l.next /\ e.lane = l.lane
        /\ e.msg_ids = l.msg_ids
        /\ e.free = Tail(l.free)
        /\ e.task = [l.task EXCEPT ![Head(l.free)] =
                [id |-> l.msg_id, frame |-> Data(l.msg_id, l.next), written |-> FALSE]]
    <3>1. Data(l.msg_id, l.next) \in Frame
      BY <2>1, DataIs
    <3> QED
      BY <2>1, <3>1, SpawnIs
  <2>5. Dispatch(l) = [e EXCEPT !.msg_id = @ + 1, !.msg_ids = @ \cup {l.msg_id}, !.next = None,
                                !.lane = Append(@, Head(l.free))]
    BY <1>2 DEF Dispatch
  <2> HIDE DEF e
  <2> DEFINE d == [msg_id |-> l.msg_id + 1, msg_ids |-> l.msg_ids \cup {l.msg_id}, next |-> None,
                   free |-> e.free, task |-> e.task, lane |-> Append(l.lane, Head(l.free))]
  <2>6. Dispatch(l) = d
    BY <2>4, <2>5 DEF LoopType
  <2>7. d \in LoopType
    BY <2>1, <2>4 DEF LoopType
  <2> QED
    BY <2>1, <2>3, <2>4, <2>6, <2>7
<1> QED
  BY <1>1, <1>2

-----------------------------------------------------------------------------
(***************************************************************************)
(* What a refused subscriber is told                                       *)
(***************************************************************************)

\* A subscription as the assumption types it.
LEMMA SubscriptionIs ==
    ASSUME subscription \in Subscriptions
    PROVE  /\ Transport \in {"quic", "tcp", "grpc"}
           /\ Request.size \in Nat /\ Request.recv_streams \in Nat
           /\ MaxRecvStreams \in Nat /\ MaxRequestSize \in Nat
BY TransportsAssumption DEF Transport, Request

\* The reasons have the type of what a subscriber is told.
LEMMA ReasonsTyped ==
    ASSUME NEW r \in Reasons PROVE r \in ToldType
<1>1. MaxRecvStreams \in Nat
  BY TransportsAssumption
<1>2. \/ r \in {Told("Io", None), Told("QuicConnection", None), End}
      \/ r \in {Told("unauthenticated", None), Told("XTokenRequired", None),
                Told("XTokenInvalid", None)}
      \/ r \in {Told("aborted", None), Told("RequestSizeTooLarge", None),
                Told("ZeroRecvStreams", None)}
      \/ r = Told("ExceedRecvStreams", MaxRecvStreams)
      \/ r \in {Told("NotInitialized", None), Told("internal", None)}
      \/ r \in {Told("ReplayFromSlotNotAvailable", FirstSlot), Told("invalid_argument", None)}
      \/ r \in {Told("Lagged", None), Told("Closed", None)}
      \/ r \in {Told("out_of_range", CloseCode["Lagged"]), Told("out_of_range", CloseCode["Closed"])}
  BY DEF Reasons
<1>3. CloseCode["Lagged"] = 0 /\ CloseCode["Closed"] = 1
  BY DEF CloseCode
<1>4. CASE r = Told("ExceedRecvStreams", MaxRecvStreams)
  BY <1>1, <1>4 DEF Told, Words, ToldType
<1>5. CASE r \in {Told("out_of_range", CloseCode["Lagged"]), Told("out_of_range", CloseCode["Closed"])}
  BY <1>3, <1>5 DEF Told, Words, ToldType
<1> QED
  BY <1>2, <1>4, <1>5 DEF Told, Words, ToldType, End

\* Only what subscribe has said is held against it.
LEMMA RefusedByChannel ==
    ASSUME subscription \in Subscriptions, NEW channel \in ChannelErrors \cup {None},
           Refusal(channel) # None
    PROVE  \/ Request.size > MaxRequestSize
              /\ Refusal(channel) = (IF Transport = "grpc" THEN "aborted" ELSE "RequestSizeTooLarge")
           \/ BadToken /\ Request.x_token = None /\ Transport # "grpc" /\ Refusal(channel) = "XTokenRequired"
           \/ BadToken /\ Request.x_token # None /\ Transport # "grpc" /\ Refusal(channel) = "XTokenInvalid"
           \/ BadToken /\ Transport = "grpc" /\ Refusal(channel) = "unauthenticated"
           \/ Request.recv_streams = 0 /\ Transport = "quic" /\ Refusal(channel) = "ZeroRecvStreams"
           \/ Request.recv_streams > MaxRecvStreams /\ Transport = "quic"
              /\ Refusal(channel) = "ExceedRecvStreams"
           \/ Refusal(None) = None /\ Transport # "grpc" /\ channel # None /\ Refusal(channel) = channel
           \/ Refusal(None) = None /\ Transport = "grpc" /\ channel = "NotInitialized"
              /\ Refusal(channel) = "internal"
           \/ Refusal(None) = None /\ Transport = "grpc" /\ channel = "SlotNotAvailable"
              /\ Refusal(channel) = "invalid_argument"
<1>1. Transport \in {"quic", "tcp", "grpc"} /\ None \notin subscription.x_tokens
  BY TransportsAssumption DEF Transport
<1>2. CASE Transport = "quic"
  <2>1. /\ Refusal(channel) = QuicRefusal(subscription.x_tokens, Request, channel)
        /\ Refusal(None) = QuicRefusal(subscription.x_tokens, Request, None)
    BY <1>2 DEF Refusal
  <2> QED
    BY <1>1, <1>2, <2>1, QuicRefusalIs DEF BadToken
<1>3. CASE Transport = "tcp"
  <2>1. /\ Refusal(channel) = TcpRefusal(subscription.x_tokens, Request, channel)
        /\ Refusal(None) = TcpRefusal(subscription.x_tokens, Request, None)
    BY <1>3 DEF Refusal
  <2> QED
    BY <1>1, <1>3, <2>1, TcpRefusalIs DEF BadToken
<1>4. CASE Transport = "grpc"
  <2>1. /\ Refusal(channel) = GrpcRefusal(subscription.x_tokens, Request, channel)
        /\ Refusal(None) = GrpcRefusal(subscription.x_tokens, Request, None)
    BY <1>4 DEF Refusal
  <2>2. None \notin ChannelErrors
    BY TransportsAssumption DEF ChannelErrors, Errors, ErrorCode
  <2> QED
    BY <1>1, <1>4, <2>1, <2>2, GrpcRefusalIs DEF BadToken, ChannelErrors
<1> QED
  BY <1>1, <1>2, <1>3, <1>4

\* What parse_quic_response makes of the response to a refusal.
LEMMA ParsedIs ==
    ASSUME NEW e \in DOMAIN ErrorCode
    PROVE  /\ Response(e).error # None
           /\ ParseCode(Response(e)) =
                 CASE e = "ExceedRecvStreams" -> Told(e, MaxRecvStreams)
                   [] e = "SlotNotAvailable" -> Told("ReplayFromSlotNotAvailable", FirstSlot)
                   [] OTHER -> Told(e, None)
<1>1. e # None /\ None \notin Nat
  BY TransportsAssumption DEF Errors
<1>2. Response(e).error = ErrorCode[e]
  BY <1>1 DEF Response
<1>3. Response(e).max_recv_streams =
         IF e \in {"ZeroRecvStreams", "ExceedRecvStreams"} THEN MaxRecvStreams ELSE None
  BY DEF Response
<1>4. Response(e).first_available_slot = IF e = "SlotNotAvailable" THEN FirstSlot ELSE None
  BY DEF Response
<1> DEFINE r == Response(e)
<1> HIDE DEF r
<1>5. CASE e = "ZeroRecvStreams"
  <2>1. r.error = 0
    BY <1>2, <1>5 DEF r, ErrorCode
  <2> QED
    BY <1>1, <1>5, <2>1 DEF ParseCode, r
<1>6. CASE e = "ExceedRecvStreams"
  <2>1. r.error = 1 /\ r.max_recv_streams = MaxRecvStreams
    BY <1>2, <1>3, <1>6 DEF r, ErrorCode
  <2> QED
    BY <1>1, <1>6, <2>1 DEF ParseCode, r
<1>7. CASE e = "NotInitialized"
  <2>1. r.error = 2
    BY <1>2, <1>7 DEF r, ErrorCode
  <2> QED
    BY <1>1, <1>7, <2>1 DEF ParseCode, r
<1>8. CASE e = "SlotNotAvailable"
  <2>1. r.error = 3 /\ r.first_available_slot = FirstSlot
    BY <1>2, <1>4, <1>8 DEF r, ErrorCode
  <2> QED
    BY <1>1, <1>8, <2>1 DEF ParseCode, r
<1>9. CASE e = "RequestSizeTooLarge"
  <2>1. r.error = 4
    BY <1>2, <1>9 DEF r, ErrorCode
  <2> QED
    BY <1>1, <1>9, <2>1 DEF ParseCode, r
<1>10. CASE e = "XTokenRequired"
  <2>1. r.error = 5
    BY <1>2, <1>10 DEF r, ErrorCode
  <2> QED
    BY <1>1, <1>10, <2>1 DEF ParseCode, r
<1>11. CASE e = "XTokenInvalid"
  <2>1. r.error = 6
    BY <1>2, <1>11 DEF r, ErrorCode
  <2> QED
    BY <1>1, <1>11, <2>1 DEF ParseCode, r
<1> QED
  BY <1>5, <1>6, <1>7, <1>8, <1>9, <1>10, <1>11 DEF ErrorCode

\* A refusal tells the subscriber its reason.
LEMMA AnswerTold ==
    ASSUME subscription \in Subscriptions, NEW channel \in ChannelErrors \cup {None},
           Refusal(channel) # None, rx.end = IF Refusal(None) = None THEN channel ELSE None
    PROVE  /\ Answer(channel).error # None
           /\ (IF Transport = "grpc" THEN Told(Answer(channel).error, None)
               ELSE ParseCode(Answer(channel))) \in Reasons
<1> DEFINE e == Refusal(channel)
<1>1. CASE Transport = "grpc"
  <2>1. Answer(channel).error = e
    BY <1>1 DEF Answer
  <2>2. \/ Request.size > MaxRequestSize /\ e = "aborted"
        \/ BadToken /\ e = "unauthenticated"
        \/ rx.end = "NotInitialized" /\ e = "internal"
        \/ rx.end = "SlotNotAvailable" /\ e = "invalid_argument"
    BY <1>1, RefusedByChannel
  <2>3. Told(e, None) \in Reasons
    BY <2>2 DEF Reasons
  <2> QED
    BY <1>1, <2>1, <2>3
<1>2. CASE Transport # "grpc"
  <2>1. Answer(channel) = Response(e)
    BY <1>2 DEF Answer
  <2>2. \/ Request.size > MaxRequestSize /\ e = "RequestSizeTooLarge"
        \/ BadToken /\ Request.x_token = None /\ e = "XTokenRequired"
        \/ BadToken /\ Request.x_token # None /\ e = "XTokenInvalid"
        \/ Request.recv_streams = 0 /\ e = "ZeroRecvStreams"
        \/ Request.recv_streams > MaxRecvStreams /\ e = "ExceedRecvStreams"
        \/ rx.end = "NotInitialized" /\ e = "NotInitialized"
        \/ rx.end = "SlotNotAvailable" /\ e = "SlotNotAvailable"
    BY <1>2, RefusedByChannel DEF ChannelErrors
  <2>3. e \in DOMAIN ErrorCode
    BY <2>2 DEF ErrorCode
  <2> HIDE DEF e
  <2>4. (CASE e = "ExceedRecvStreams" -> Told(e, MaxRecvStreams)
           [] e = "SlotNotAvailable" -> Told("ReplayFromSlotNotAvailable", FirstSlot)
           [] OTHER -> Told(e, None)) \in Reasons
    BY <2>2 DEF Reasons
  <2> QED
    BY <1>2, <2>1, <2>3, <2>4, ParsedIs
<1> QED
  BY <1>1, <1>2

\* Who is served: the token was accepted, and the streams are within the limit.
LEMMA ServedIs ==
    ASSUME subscription \in Subscriptions, NEW channel \in ChannelErrors \cup {None},
           Refusal(channel) = None
    PROVE  ~BadToken /\ (Quic => Request.recv_streams \in 1 .. MaxRecvStreams)
<1>1. /\ Transport \in {"quic", "tcp", "grpc"} /\ Request.recv_streams \in Nat
      /\ MaxRecvStreams \in Nat
  BY SubscriptionIs
<1>2. {"RequestSizeTooLarge", "XTokenRequired", "XTokenInvalid", "ZeroRecvStreams",
       "ExceedRecvStreams", "unauthenticated", "aborted", "internal", "invalid_argument"}
        \cap {None} = {}
  BY TransportsAssumption DEF Errors, ErrorCode
<1>3. CASE Transport = "quic"
  <2>1. QuicRefusal(subscription.x_tokens, Request, channel) = None
    BY <1>3 DEF Refusal
  <2>2. /\ ~(subscription.x_tokens # {} /\ Request.x_token \notin subscription.x_tokens)
        /\ Request.recv_streams # 0 /\ ~(Request.recv_streams > MaxRecvStreams)
    <3> DEFINE e == QuicRefusal(subscription.x_tokens, Request, channel)
    <3>1. \/ /\ ~(subscription.x_tokens # {} /\ Request.x_token \notin subscription.x_tokens)
             /\ Request.recv_streams # 0 /\ ~(Request.recv_streams > MaxRecvStreams)
          \/ e \in {"RequestSizeTooLarge", "XTokenRequired", "XTokenInvalid", "ZeroRecvStreams",
                    "ExceedRecvStreams"}
      BY QuicRefusalIs
    <3> HIDE DEF e
    <3>2. e = None
      BY <2>1 DEF e
    <3> QED
      BY <1>2, <3>1, <3>2
  <2> QED
    BY <1>1, <2>2 DEF BadToken
<1>4. CASE Transport = "tcp"
  <2>1. TcpRefusal(subscription.x_tokens, Request, channel) = None
    BY <1>4 DEF Refusal
  <2> QED
    BY <1>2, <1>4, <2>1, TcpRefusalIs DEF BadToken, Quic
<1>5. CASE Transport = "grpc"
  <2>1. GrpcRefusal(subscription.x_tokens, Request, channel) = None
    BY <1>5 DEF Refusal
  <2> QED
    BY <1>2, <1>5, <2>1, GrpcRefusalIs DEF BadToken, Quic
<1> QED
  BY <1>1, <1>3, <1>4, <1>5

\* The locals of a loop that starts.
LEMMA LocalsIs ==
    ASSUME NEW f \in Seq(Streams)
    PROVE  LET d == Locals(f) IN
           /\ d \in LoopType
           /\ d.msg_id = 0 /\ d.msg_ids = {} /\ d.next = None /\ d.free = f /\ d.lane = <<>>
           /\ \A s \in Streams : d.task[s] = None
BY DEF Locals, LoopType

\* What a connection that is gone has left.
LEMMA TruncatedIs ==
    ASSUME NEW w \in WireType, NEW v \in Truncated(w)
    PROVE  /\ v \in WireType
           /\ Len(v.frames) <= Len(w.frames)
           /\ \A i \in 1 .. Len(v.frames) : v.frames[i] = w.frames[i]
           /\ v.fin => w.fin /\ Len(v.frames) = Len(w.frames)
<1>1. w.frames \in Seq(Frame) /\ w.fin \in BOOLEAN
  BY DEF WireType
<1>2. PICK n \in 0 .. Len(w.frames) :
        v = [frames |-> SubSeq(w.frames, 1, n), fin |-> w.fin /\ n = Len(w.frames)]
  BY DEF Truncated
<1>3. v.frames = SubSeq(w.frames, 1, n) /\ v.fin = (w.fin /\ n = Len(w.frames))
  BY <1>2
<1>4. /\ SubSeq(w.frames, 1, n) \in Seq(Frame) /\ Len(SubSeq(w.frames, 1, n)) = n
      /\ \A i \in 1 .. n : SubSeq(w.frames, 1, n)[i] = w.frames[i]
  BY <1>1
<1>5. v \in WireType
  BY <1>2, <1>4 DEF WireType
<1>6. /\ Len(v.frames) = n /\ n <= Len(w.frames)
      /\ \A i \in 1 .. Len(v.frames) : v.frames[i] = w.frames[i]
  BY <1>1, <1>3, <1>4
<1>7. v.fin => w.fin /\ n = Len(w.frames)
  BY <1>3
<1> QED
  BY <1>5, <1>6, <1>7

\* A connection that goes leaves a beginning of every wire.
LEMMA DisconnectIs ==
    ASSUME NEW w \in [Streams -> WireType], Disconnect(w)
    PROVE  /\ conn' = "gone" /\ wire' \in [Streams -> WireType]
           /\ \A s \in Streams : wire'[s] \in Truncated(w[s])
<1>1. /\ conn' = "gone"
      /\ wire' \in [Streams -> UNION {Truncated(w[s]) : s \in Streams}]
      /\ \A s \in Streams : wire'[s] \in Truncated(w[s])
  BY DEF Disconnect
<1>2. \A s \in Streams : wire'[s] \in WireType
  BY <1>1, TruncatedIs
<1> QED
  BY <1>1, <1>2

\* What ends the reading of a stream.
LEMMA ReadEndIs ==
    ASSUME wire \in [Streams -> WireType], NEW s \in Streams, ~IsData(s)
    PROVE  \/ ReadEnd(s) = End /\ AtEof(s)
           \/ ReadEnd(s) = Told("Io", None)
           \/ /\ Frames(s) # <<>> /\ Head(Frames(s)).close = 0
              /\ ReadEnd(s) = IF Transport = "grpc" THEN Told("out_of_range", 0)
                              ELSE Told("Lagged", None)
           \/ /\ Frames(s) # <<>> /\ Head(Frames(s)).close = 1
              /\ ReadEnd(s) = IF Transport = "grpc" THEN Told("out_of_range", 1)
                              ELSE Told("Closed", None)
<1>1. CASE AtEof(s)
  BY <1>1 DEF ReadEnd
<1>2. CASE ~AtEof(s) /\ Frames(s) = <<>>
  BY <1>2 DEF ReadEnd
<1>3. CASE ~AtEof(s) /\ Frames(s) # <<>>
  <2>1. Frames(s) \in Seq(Frame)
    BY DEF Frames, WireType
  <2>2. Head(Frames(s)) \in Frame
    BY <1>3, <2>1
  <2>3. Head(Frames(s)).close \in {0, 1}
    BY <1>3, <2>2 DEF IsData, Frame
  <2>4. ReadEnd(s) = IF Transport = "grpc" THEN Told("out_of_range", Head(Frames(s)).close)
                     ELSE ParseClose(Head(Frames(s)).close)
    BY <1>3 DEF ReadEnd
  <2>5. ParseClose(0) = Told("Lagged", None) /\ ParseClose(1) = Told("Closed", None)
    BY DEF ParseClose
  <2> QED
    BY <1>3, <2>3, <2>4, <2>5
<1> QED
  BY <1>1, <1>2, <1>3

\* What ends the reading has the type of what a subscriber is told.
LEMMA ReadEndTyped ==
    ASSUME wire \in [Streams -> WireType], NEW s \in Streams, ~IsData(s)
    PROVE  ReadEnd(s) \in ToldType
<1>1. {End, Told("Io", None), Told("out_of_range", 0), Told("out_of_range", 1),
       Told("Lagged", None), Told("Closed", None)} \subseteq ToldType
  BY DEF End, Told, ToldType, Words
<1> QED
  BY <1>1, ReadEndIs

\* A frame is taken from the wire.
LEMMA ConsumeIs ==
    ASSUME wire \in [Streams -> WireType], NEW s \in Streams, Frames(s) # <<>>, Consume(s)
    PROVE  /\ wire' \in [Streams -> WireType]
           /\ Head(Frames(s)) \in Frame /\ Head(Frames(s)) = Frames(s)[1]
           /\ wire'[s].frames = Tail(Frames(s)) /\ wire'[s].fin = wire[s].fin
           /\ Len(Tail(Frames(s))) = Len(Frames(s)) - 1
           /\ \A i \in 1 .. Len(Frames(s)) - 1 : Tail(Frames(s))[i] = Frames(s)[i + 1]
           /\ \A q \in Streams \ {s} : wire'[q] = wire[q]
<1>1. wire[s] \in WireType /\ Frames(s) \in Seq(Frame) /\ Frames(s) = wire[s].frames
  BY DEF Frames, WireType
<1>2. wire' = [wire EXCEPT ![s] = [wire[s] EXCEPT !.frames = Tail(wire[s].frames)]]
  BY DEF Consume
<1>3. /\ Tail(Frames(s)) \in Seq(Frame) /\ Head(Frames(s)) \in Frame
      /\ Head(Frames(s)) = Frames(s)[1]
      /\ Len(Tail(Frames(s))) = Len(Frames(s)) - 1
      /\ \A i \in 1 .. Len(Frames(s)) - 1 : Tail(Frames(s))[i] = Frames(s)[i + 1]
  BY <1>1
<1>4. [wire[s] EXCEPT !.frames = Tail(wire[s].frames)] \in WireType
  BY <1>1, <1>3 DEF WireType
<1>5. wire'[s] = [wire[s] EXCEPT !.frames = Tail(wire[s].frames)]
  BY <1>2
<1>6. wire'[s].frames = Tail(Frames(s)) /\ wire'[s].fin = wire[s].fin
  BY <1>1, <1>5 DEF WireType
<1> QED
  BY <1>2, <1>3, <1>4, <1>6

\* The next message is stored, and the loop goes to its top.
LEMMA TakenIs ==
    ASSUME NEW l \in LoopType, NEW m \in Nat
    PROVE  LET d == [l EXCEPT !.next = m] IN
           /\ d \in LoopType
           /\ d.msg_id = l.msg_id /\ d.msg_ids = l.msg_ids /\ d.next = m
           /\ d.free = l.free /\ d.task = l.task /\ d.lane = l.lane
BY DEF LoopType

\* A task has written its frame, for QUIC and for the others.
LEMMA WrittenIs ==
    ASSUME NEW l \in LoopType, NEW s \in Streams, l.task[s] # None
    PROVE  LET d == [l EXCEPT !.task[s].written = TRUE] IN
           /\ d \in LoopType
           /\ d.msg_id = l.msg_id /\ d.msg_ids = l.msg_ids /\ d.next = l.next
           /\ d.free = l.free /\ d.lane = l.lane
           /\ d.task[s] # None /\ d.task[s].written
           /\ d.task[s].id = l.task[s].id /\ d.task[s].frame = l.task[s].frame
           /\ \A q \in Streams \ {s} : d.task[q] = l.task[q]
<1> DEFINE t == [l.task[s] EXCEPT !.written = TRUE]
           d == [l EXCEPT !.task[s].written = TRUE]
<1>1. l.task \in [Streams -> Task \cup {None}] /\ l.task[s] \in Task
  BY DEF LoopType
<1>2. t \in Task /\ t.id = l.task[s].id /\ t.frame = l.task[s].frame
  BY <1>1 DEF Task
<1>3. t.written /\ t # None
  BY <1>1, <1>2, TransportsAssumption DEF Task
<1> HIDE DEF t
<1>4. /\ d.msg_id = l.msg_id /\ d.msg_ids = l.msg_ids /\ d.next = l.next
      /\ d.free = l.free /\ d.lane = l.lane
      /\ d.task = [l.task EXCEPT ![s] = t]
  BY DEF LoopType, t
<1>5. [l.task EXCEPT ![s] = t] \in [Streams -> Task \cup {None}]
  BY <1>1, <1>2
<1>6. d = [l EXCEPT !.task = [l.task EXCEPT ![s] = t]]
  BY DEF t
<1>7. d \in LoopType
  BY <1>5, <1>6 DEF LoopType
<1>8. /\ [l.task EXCEPT ![s] = t][s] = t
      /\ \A q \in Streams \ {s} : [l.task EXCEPT ![s] = t][q] = l.task[q]
  BY <1>1
<1> QED
  BY <1>2, <1>3, <1>4, <1>7, <1>8

\* The task of TCP and gRPC is over once its frame is written.
LEMMA DroppedIs ==
    ASSUME NEW l \in LoopType, NEW s \in Streams
    PROVE  LET d == [l EXCEPT !.task[s] = None] IN
           /\ d \in LoopType
           /\ d.msg_id = l.msg_id /\ d.msg_ids = l.msg_ids /\ d.next = l.next
           /\ d.free = l.free /\ d.lane = l.lane
           /\ d.task = [l.task EXCEPT ![s] = None]
<1>1. [l.task EXCEPT ![s] = None] \in [Streams -> Task \cup {None}]
  BY DEF LoopType
<1> QED
  BY <1>1 DEF LoopType

\* The loops of TCP and gRPC write a frame.
LEMMA WriteIs ==
    ASSUME loop \in LoopType, NEW f \in Frame, Write(f)
    PROVE  /\ loop' \in LoopType
           /\ loop'.msg_id = loop.msg_id /\ loop'.msg_ids = loop.msg_ids /\ loop'.next = loop.next
           /\ loop'.free = loop.free
           /\ loop'.lane = IF f.msg = None THEN loop.lane ELSE Append(loop.lane, 1)
           /\ loop'.task = [loop.task EXCEPT ![1] = [id |-> None, frame |-> f, written |-> FALSE]]
<1> DEFINE t == [id |-> None, frame |-> f, written |-> FALSE]
           lane == IF f.msg = None THEN loop.lane ELSE Append(loop.lane, 1)
           task == [loop.task EXCEPT ![1] = t]
<1>1. 1 \in Streams
  BY StreamsFacts
<1>2. t \in Task
  BY DEF Task
<1>3. lane \in Seq(Streams) /\ task \in [Streams -> Task \cup {None}]
  BY <1>1, <1>2 DEF LoopType
<1>4. loop' = [loop EXCEPT !.task = task, !.lane = lane]
  BY DEF Write, LoopType
<1> HIDE DEF task, lane
<1>5. /\ loop' \in LoopType
      /\ loop'.msg_id = loop.msg_id /\ loop'.msg_ids = loop.msg_ids /\ loop'.next = loop.next
      /\ loop'.free = loop.free /\ loop'.lane = lane /\ loop'.task = task
  BY <1>3, <1>4 DEF LoopType
<1> QED
  BY <1>5 DEF lane, task

\* A frame is put on the wire.
LEMMA PutIs ==
    ASSUME wire \in [Streams -> WireType], NEW s \in Streams, NEW f \in Frame,
           wire' = [wire EXCEPT ![s].frames = Append(@, f)]
    PROVE  /\ wire' \in [Streams -> WireType]
           /\ wire'[s].fin = wire[s].fin
           /\ wire'[s].frames = Append(wire[s].frames, f)
           /\ \A q \in Streams \ {s} : wire'[q] = wire[q]
<1> DEFINE w == [wire[s] EXCEPT !.frames = Append(wire[s].frames, f)]
<1>1. wire[s] \in WireType /\ wire[s].frames \in Seq(Frame)
  BY DEF WireType
<1>2. Append(wire[s].frames, f) \in Seq(Frame)
  BY <1>1
<1>3. w \in WireType /\ w.fin = wire[s].fin /\ w.frames = Append(wire[s].frames, f)
  BY <1>1, <1>2 DEF WireType
<1>4. wire' = [wire EXCEPT ![s] = w]
  OBVIOUS
<1> HIDE DEF w
<1> QED
  BY <1>3, <1>4

-----------------------------------------------------------------------------
(***************************************************************************)
(* The send loop                                                           *)
(***************************************************************************)

\* Free streams are told apart and have no task; an id under way is no older than
\* the backlog b; a task has an id under way of its own, or the id of the close
\* frame, if there is one (c).
LoopGood(l, c, b) ==
    /\ \A i, j \in DOMAIN l.free : l.free[i] = l.free[j] => i = j
    /\ \A i \in DOMAIN l.free : l.task[l.free[i]] = None
    /\ \A id \in l.msg_ids : id < l.msg_id /\ l.msg_id - id <= b
    /\ \A s \in Streams : l.task[s] # None =>
          l.task[s].id \in l.msg_ids \/ (c /\ l.task[s].id = l.msg_id)
    /\ \A s, t \in Streams :
          l.task[s] # None /\ l.task[t] # None /\ l.task[s].id = l.task[t].id => s = t

\* The streams that are free or have a task.
Known(l) == Range(l.free) \cup {s \in Streams : l.task[s] # None}

\* Known streams, one by one.
LEMMA KnownIs ==
    ASSUME NEW l \in LoopType, NEW s
    PROVE  s \in Known(l) <=> \/ \E i \in 1 .. Len(l.free) : s = l.free[i]
                              \/ s \in Streams /\ l.task[s] # None
<1>1. l.free \in Seq(Streams) /\ DOMAIN l.free = 1 .. Len(l.free)
  BY DEF LoopType
<1> QED
  BY <1>1 DEF Known, Range

\* A stream that is given back stays known.
LEMMA JoinedGood ==
    ASSUME NEW l \in LoopType, NEW s \in Streams, l.task[s] # None, NEW c \in BOOLEAN, NEW b \in Nat,
           LoopGood(l, c, b)
    PROVE  LoopGood(Joined(l, s), c, b) /\ Known(Joined(l, s)) = Known(l)
<1>1. PICK d : d = Joined(l, s)
  OBVIOUS
<1>2. /\ d \in LoopType /\ d.msg_id = l.msg_id /\ d.free = Append(l.free, s)
      /\ d.msg_ids = l.msg_ids \ {l.task[s].id}
      /\ d.task = [l.task EXCEPT ![s] = None]
  BY <1>1, JoinedIs
<1>3. /\ l.free \in Seq(Streams) /\ DOMAIN l.free = 1 .. Len(l.free) /\ Len(l.free) \in Nat
      /\ l.task \in [Streams -> Task \cup {None}]
      /\ l.msg_ids \in SUBSET Nat /\ l.msg_id \in Nat
  BY DEF LoopType
<1>4. /\ DOMAIN d.free = 1 .. Len(l.free) + 1 /\ Len(d.free) = Len(l.free) + 1
      /\ \A i \in 1 .. Len(l.free) : d.free[i] = l.free[i] /\ l.free[i] \in Streams
      /\ d.free[Len(l.free) + 1] = s
  BY <1>2, <1>3
<1>5. d.task[s] = None /\ \A q \in Streams \ {s} : d.task[q] = l.task[q]
  BY <1>2, <1>3
<1>6. \A i \in 1 .. Len(l.free) : l.free[i] # s
  BY <1>3 DEF LoopGood
<1>7. \A i, j \in DOMAIN d.free : d.free[i] = d.free[j] => i = j
  <2> SUFFICES ASSUME NEW i \in 1 .. Len(l.free) + 1, NEW j \in 1 .. Len(l.free) + 1,
                      d.free[i] = d.free[j]
               PROVE  i = j
    BY <1>4
  <2>1. i \in 1 .. Len(l.free) \/ i = Len(l.free) + 1
    BY <1>3
  <2>2. j \in 1 .. Len(l.free) \/ j = Len(l.free) + 1
    BY <1>3
  <2> QED
    BY <1>3, <1>4, <1>6, <2>1, <2>2 DEF LoopGood
<1>8. \A i \in DOMAIN d.free : d.task[d.free[i]] = None
  <2> SUFFICES ASSUME NEW i \in 1 .. Len(l.free) + 1 PROVE d.task[d.free[i]] = None
    BY <1>4
  <2>1. i \in 1 .. Len(l.free) \/ i = Len(l.free) + 1
    BY <1>3
  <2> QED
    BY <1>3, <1>4, <1>5, <1>6, <2>1 DEF LoopGood
<1>9. \A id \in d.msg_ids : id < d.msg_id /\ d.msg_id - id <= b
  BY <1>2 DEF LoopGood
<1>10. \A q \in Streams : d.task[q] # None =>
          d.task[q].id \in d.msg_ids \/ (c /\ d.task[q].id = d.msg_id)
  BY <1>2, <1>5 DEF LoopGood
<1>11. \A q, t \in Streams :
          d.task[q] # None /\ d.task[t] # None /\ d.task[q].id = d.task[t].id => q = t
  BY <1>5 DEF LoopGood
<1>12. LoopGood(d, c, b)
  BY <1>7, <1>8, <1>9, <1>10, <1>11 DEF LoopGood
<1>13. Known(d) = Known(l)
  <2>1. ASSUME NEW q \in Known(l) PROVE q \in Known(d)
    <3>1. CASE q = s
      BY <1>2, <1>3, <1>4, <3>1, KnownIs
    <3>2. CASE q # s
      <4>1. \/ \E i \in 1 .. Len(l.free) : q = l.free[i]
            \/ q \in Streams /\ l.task[q] # None
        BY KnownIs
      <4>2. CASE \E i \in 1 .. Len(l.free) : q = l.free[i]
        <5>1. PICK i \in 1 .. Len(l.free) : q = l.free[i]
          BY <4>2
        <5>2. i \in 1 .. Len(d.free) /\ q = d.free[i]
          BY <1>3, <1>4, <5>1
        <5> QED
          BY <1>2, <5>2, KnownIs
      <4>3. CASE q \in Streams /\ l.task[q] # None
        BY <1>2, <1>5, <3>2, <4>3, KnownIs
      <4> QED
        BY <4>1, <4>2, <4>3
    <3> QED
      BY <3>1, <3>2
  <2>2. ASSUME NEW q \in Known(d) PROVE q \in Known(l)
    <3>1. \/ \E i \in 1 .. Len(d.free) : q = d.free[i]
          \/ q \in Streams /\ d.task[q] # None
      BY <1>2, KnownIs
    <3>2. CASE \E i \in 1 .. Len(d.free) : q = d.free[i]
      <4>1. PICK i \in 1 .. Len(l.free) + 1 : q = d.free[i]
        BY <1>4, <3>2
      <4>2. i \in 1 .. Len(l.free) \/ i = Len(l.free) + 1
        BY <1>3
      <4>3. q = s \/ \E k \in 1 .. Len(l.free) : q = l.free[k]
        BY <1>4, <4>1, <4>2
      <4> QED
        BY <4>3, KnownIs
    <3>3. CASE q \in Streams /\ d.task[q] # None
      BY <1>5, <3>3, KnownIs
    <3> QED
      BY <3>1, <3>2, <3>3
  <2> QED
    BY <2>1, <2>2
<1> QED
  BY <1>1, <1>12, <1>13

\* A task is spawned on the first free stream, under the next id.  It is a message,
\* which puts the id under way, or the close frame.
LEMMA SpawnGood ==
    ASSUME NEW l \in LoopType, NEW d \in LoopType, l.free # <<>>, NEW b \in Nat,
           LoopGood(l, FALSE, b), NEW t \in Task, t.id = l.msg_id,
           d.free = Tail(l.free), d.task = [l.task EXCEPT ![Head(l.free)] = t]
    PROVE  /\ Known(d) = Known(l)
           /\ d.msg_ids = l.msg_ids /\ d.msg_id = l.msg_id => LoopGood(d, TRUE, b)
           /\ /\ d.msg_ids = l.msg_ids \cup {l.msg_id} /\ d.msg_id = l.msg_id + 1
              /\ 0 < b /\ \A id \in l.msg_ids : l.msg_id - id < b
              => LoopGood(d, FALSE, b)
<1>1. PICK h : h = Head(l.free)
  OBVIOUS
<1>2. /\ l.free \in Seq(Streams) /\ DOMAIN l.free = 1 .. Len(l.free)
      /\ Len(l.free) \in Nat /\ Len(l.free) > 0
      /\ l.task \in [Streams -> Task \cup {None}]
      /\ l.msg_ids \in SUBSET Nat /\ l.msg_id \in Nat
  BY DEF LoopType
<1>3. h \in Streams /\ h = l.free[1]
  BY <1>1, <1>2
<1>4. /\ DOMAIN d.free = 1 .. Len(l.free) - 1 /\ Len(d.free) = Len(l.free) - 1
      /\ \A i \in 1 .. Len(l.free) - 1 : d.free[i] = l.free[i + 1] /\ d.free[i] \in Streams
  BY <1>2
<1>5. d.task[h] = t /\ \A q \in Streams \ {h} : d.task[q] = l.task[q]
  BY <1>1, <1>2, <1>3
<1>6. l.task[h] = None /\ t # None
  <2>1. l.task[h] = None
    BY <1>2, <1>3 DEF LoopGood
  <2>2. t # None
    BY TransportsAssumption
  <2> QED
    BY <2>1, <2>2
<1>7. \A i \in 1 .. Len(l.free) - 1 : d.free[i] # h
  <2> SUFFICES ASSUME NEW i \in 1 .. Len(l.free) - 1, d.free[i] = h PROVE FALSE
    OBVIOUS
  <2>1. i + 1 \in DOMAIN l.free /\ 1 \in DOMAIN l.free /\ i + 1 # 1
    BY <1>2
  <2>2. l.free[i + 1] = l.free[1]
    BY <1>3, <1>4
  <2> QED
    BY <2>1, <2>2 DEF LoopGood
<1>8. \A i, j \in DOMAIN d.free : d.free[i] = d.free[j] => i = j
  <2> SUFFICES ASSUME NEW i \in 1 .. Len(l.free) - 1, NEW j \in 1 .. Len(l.free) - 1,
                      d.free[i] = d.free[j]
               PROVE  i = j
    BY <1>4
  <2>1. i + 1 \in DOMAIN l.free /\ j + 1 \in DOMAIN l.free
    BY <1>2
  <2>2. l.free[i + 1] = l.free[j + 1]
    BY <1>4
  <2>3. i + 1 = j + 1
    BY <2>1, <2>2 DEF LoopGood
  <2> QED
    BY <2>3
<1>9. \A i \in DOMAIN d.free : d.task[d.free[i]] = None
  <2> SUFFICES ASSUME NEW i \in 1 .. Len(l.free) - 1 PROVE d.task[d.free[i]] = None
    BY <1>4
  <2>1. i + 1 \in DOMAIN l.free
    BY <1>2
  <2>2. l.task[l.free[i + 1]] = None
    BY <2>1 DEF LoopGood
  <2> QED
    BY <1>4, <1>5, <1>7, <2>2
<1>10. \A q \in Streams : l.task[q] # None => l.task[q].id \in l.msg_ids /\ l.task[q].id # l.msg_id
  <2>1. \A q \in Streams : l.task[q] # None => l.task[q].id \in l.msg_ids
    BY DEF LoopGood
  <2>2. \A id \in l.msg_ids : id # l.msg_id
    BY <1>2 DEF LoopGood
  <2> QED
    BY <2>1, <2>2
<1>11. \A q, r \in Streams :
          d.task[q] # None /\ d.task[r] # None /\ d.task[q].id = d.task[r].id => q = r
  BY <1>5, <1>10 DEF LoopGood
<1>12. ASSUME d.msg_ids = l.msg_ids, d.msg_id = l.msg_id PROVE LoopGood(d, TRUE, b)
  <2>1. \A id \in d.msg_ids : id < d.msg_id /\ d.msg_id - id <= b
    <3>1. \A id \in l.msg_ids : id < l.msg_id /\ l.msg_id - id <= b
      BY DEF LoopGood
    <3> QED
      BY <1>12, <3>1
  <2>2. \A q \in Streams : d.task[q] # None =>
          d.task[q].id \in d.msg_ids \/ (TRUE /\ d.task[q].id = d.msg_id)
    BY <1>5, <1>10, <1>12
  <2> QED
    BY <1>8, <1>9, <1>11, <2>1, <2>2 DEF LoopGood
<1>13. ASSUME d.msg_ids = l.msg_ids \cup {l.msg_id}, d.msg_id = l.msg_id + 1,
              0 < b, \A id \in l.msg_ids : l.msg_id - id < b
       PROVE  LoopGood(d, FALSE, b)
  <2>1. \A id \in d.msg_ids : id < d.msg_id /\ d.msg_id - id <= b
    <3> TAKE id \in d.msg_ids
    <3>1. id = l.msg_id \/ id \in l.msg_ids
      BY <1>13
    <3>2. CASE id = l.msg_id
      BY <1>2, <1>13, <3>2
    <3>3. CASE id \in l.msg_ids
      <4>1. id \in Nat /\ id < l.msg_id /\ l.msg_id - id < b
        BY <1>2, <1>13, <3>3 DEF LoopGood
      <4> QED
        BY <1>2, <1>13, <4>1
    <3> QED
      BY <3>1, <3>2, <3>3
  <2>2. \A q \in Streams : d.task[q] # None =>
          d.task[q].id \in d.msg_ids \/ (FALSE /\ d.task[q].id = d.msg_id)
    BY <1>5, <1>10, <1>13
  <2> QED
    BY <1>8, <1>9, <1>11, <2>1, <2>2 DEF LoopGood
<1>14. Known(d) = Known(l)
  <2>1. ASSUME NEW q \in Known(l) PROVE q \in Known(d)
    <3>1. CASE q = h
      BY <1>3, <1>5, <1>6, <3>1, KnownIs
    <3>2. CASE q # h
      <4>1. \/ \E i \in 1 .. Len(l.free) : q = l.free[i]
            \/ q \in Streams /\ l.task[q] # None
        BY KnownIs
      <4>2. CASE \E i \in 1 .. Len(l.free) : q = l.free[i]
        <5>1. PICK i \in 1 .. Len(l.free) : q = l.free[i]
          BY <4>2
        <5>2. i # 1
          BY <1>3, <3>2, <5>1
        <5>3. i - 1 \in 1 .. Len(l.free) - 1 /\ (i - 1) + 1 = i
          BY <1>2, <5>2
        <5>4. i - 1 \in 1 .. Len(d.free) /\ q = d.free[i - 1]
          BY <1>4, <5>1, <5>3
        <5> QED
          BY <5>4, KnownIs
      <4>3. CASE q \in Streams /\ l.task[q] # None
        BY <1>5, <3>2, <4>3, KnownIs
      <4> QED
        BY <4>1, <4>2, <4>3
    <3> QED
      BY <3>1, <3>2
  <2>2. ASSUME NEW q \in Known(d) PROVE q \in Known(l)
    <3>1. \/ \E i \in 1 .. Len(d.free) : q = d.free[i]
          \/ q \in Streams /\ d.task[q] # None
      BY KnownIs
    <3>2. CASE \E i \in 1 .. Len(d.free) : q = d.free[i]
      <4>1. PICK i \in 1 .. Len(l.free) - 1 : q = d.free[i]
        BY <1>4, <3>2
      <4>2. i + 1 \in 1 .. Len(l.free) /\ q = l.free[i + 1]
        BY <1>2, <1>4, <4>1
      <4> QED
        BY <4>2, KnownIs
    <3>3. CASE q \in Streams /\ d.task[q] # None
      <4>1. CASE q = h
        <5>1. 1 \in 1 .. Len(l.free) /\ q = l.free[1]
          BY <1>2, <1>3, <4>1
        <5> QED
          BY <5>1, KnownIs
      <4>2. CASE q # h
        BY <1>5, <3>3, <4>2, KnownIs
      <4> QED
        BY <4>1, <4>2
    <3> QED
      BY <3>1, <3>2, <3>3
  <2> QED
    BY <2>1, <2>2
<1> QED
  BY <1>12, <1>13, <1>14

\* So the top of the loop keeps both.
LEMMA DispatchGood ==
    ASSUME NEW l \in LoopType, subscription \in Subscriptions, NEW c \in BOOLEAN,
           LoopGood(l, c, Backlog), l.next = None \/ ~c
    PROVE  LoopGood(Dispatch(l), c, Backlog) /\ Known(Dispatch(l)) = Known(l)
<1>1. PICK d : d = Dispatch(l)
  OBVIOUS
<1>2. CASE d = l
  BY <1>1, <1>2
<1>3. CASE d # l
  <2>1. \A id \in l.msg_ids : id < l.msg_id
    BY DEF LoopGood
  <2>2. /\ d \in LoopType
        /\ l.next \in Nat /\ l.free # <<>>
        /\ 0 < Backlog /\ \A id \in l.msg_ids : l.msg_id - id < Backlog
        /\ d.msg_id = l.msg_id + 1
        /\ d.msg_ids = l.msg_ids \cup {l.msg_id}
        /\ d.free = Tail(l.free)
        /\ d.task = [l.task EXCEPT ![Head(l.free)] =
                        [id |-> l.msg_id, frame |-> Data(l.msg_id, l.next), written |-> FALSE]]
    BY <1>1, <1>3, <2>1, DispatchIs
  <2> DEFINE t == [id |-> l.msg_id, frame |-> Data(l.msg_id, l.next), written |-> FALSE]
  <2>3. t \in Task /\ t.id = l.msg_id
    <3>1. l.msg_id \in Nat /\ Data(l.msg_id, l.next) \in Frame
      BY <2>2, DataIs DEF LoopType
    <3> QED
      BY <3>1 DEF Task
  <2>4. c = FALSE /\ Backlog \in Nat
    BY <2>2, BacklogIs, TransportsAssumption
  <2> HIDE DEF t
  <2>5. d.task = [l.task EXCEPT ![Head(l.free)] = t]
    BY <2>2 DEF t
  <2>6. LoopGood(l, FALSE, Backlog)
    BY <2>4
  <2> QED
    BY <1>1, <2>2, <2>3, <2>4, <2>5, <2>6, SpawnGood
<1> QED
  BY <1>2, <1>3

\* And the close frame.
LEMMA CloseGood ==
    ASSUME NEW l \in LoopType, l.free # <<>>, NEW b \in Nat, LoopGood(l, FALSE, b),
           NEW e \in DOMAIN CloseCode
    PROVE  LET d == SpawnClose(l, e) IN
           /\ d \in LoopType /\ d.next = l.next /\ d.lane = l.lane
           /\ d.task = [l.task EXCEPT ![Head(l.free)] =
                            [id |-> l.msg_id, frame |-> Close(e), written |-> FALSE]]
           /\ LoopGood(d, TRUE, b) /\ Known(d) = Known(l)
<1>1. PICK d : d = SpawnClose(l, e)
  OBVIOUS
<1>2. l.msg_id \in Nat /\ Close(e) \in Frame
  BY CloseIs DEF LoopType
<1>3. /\ d \in LoopType
      /\ d.msg_id = l.msg_id /\ d.next = l.next /\ d.lane = l.lane
      /\ d.msg_ids = l.msg_ids
      /\ d.free = Tail(l.free)
      /\ d.task = [l.task EXCEPT ![Head(l.free)] =
                       [id |-> l.msg_id, frame |-> Close(e), written |-> FALSE]]
  BY <1>1, <1>2, SpawnIs DEF SpawnClose
<1> DEFINE t == [id |-> l.msg_id, frame |-> Close(e), written |-> FALSE]
<1>4. t \in Task /\ t.id = l.msg_id
  BY <1>2 DEF Task
<1> HIDE DEF t
<1>5. d.task = [l.task EXCEPT ![Head(l.free)] = t]
  BY <1>3 DEF t
<1>6. LoopGood(d, TRUE, b) /\ Known(d) = Known(l)
  BY <1>3, <1>4, <1>5, SpawnGood
<1> QED
  BY <1>1, <1>3, <1>6

\* Nothing depends on the message at hand or on what the tasks write.
LEMMA SameGood ==
    ASSUME NEW l \in LoopType, NEW d \in LoopType, NEW c \in BOOLEAN, NEW b \in Nat,
           d.free = l.free, d.msg_id = l.msg_id, d.msg_ids = l.msg_ids,
           \A s \in Streams : /\ d.task[s] # None <=> l.task[s] # None
                              /\ d.task[s] # None => d.task[s].id = l.task[s].id,
           LoopGood(l, c, b)
    PROVE  LoopGood(d, c, b) /\ Known(d) = Known(l)
<1>1. Known(d) = Known(l)
  BY DEF Known
<1>2. \A i \in DOMAIN l.free : l.free[i] \in Streams
  BY DEF LoopType
<1>3. /\ \A i, j \in DOMAIN d.free : d.free[i] = d.free[j] => i = j
      /\ \A i \in DOMAIN d.free : d.task[d.free[i]] = None
  BY <1>2 DEF LoopGood
<1>4. \A id \in d.msg_ids : id < d.msg_id /\ d.msg_id - id <= b
  BY DEF LoopGood
<1>5. \A s \in Streams : d.task[s] # None =>
          d.task[s].id \in d.msg_ids \/ (c /\ d.task[s].id = d.msg_id)
  BY DEF LoopGood
<1>6. \A s, t \in Streams :
          d.task[s] # None /\ d.task[t] # None /\ d.task[s].id = d.task[t].id => s = t
  BY DEF LoopGood
<1> QED
  BY <1>1, <1>3, <1>4, <1>5, <1>6 DEF LoopGood

\* A loop without tasks and with streams that are all free.
LEMMA LocalsGood ==
    ASSUME NEW f \in Seq(Streams), NEW c \in BOOLEAN, NEW b \in Nat,
           \A i, j \in DOMAIN f : f[i] = f[j] => i = j
    PROVE  LoopGood(Locals(f), c, b) /\ Known(Locals(f)) = Range(f)
<1>1. PICK d : d = Locals(f)
  OBVIOUS
<1>2. /\ d.msg_id = 0 /\ d.msg_ids = {} /\ d.free = f
      /\ \A s \in Streams : d.task[s] = None
  BY <1>1, LocalsIs
<1>3. \A i \in DOMAIN f : f[i] \in Streams
  OBVIOUS
<1>4. LoopGood(d, c, b)
  BY <1>2, <1>3 DEF LoopGood
<1>5. Known(d) = Range(f)
  BY <1>2 DEF Known
<1> QED
  BY <1>1, <1>4, <1>5

-----------------------------------------------------------------------------
(***************************************************************************)
(* The invariant of the server                                             *)
(***************************************************************************)

\* Where the connection task is, and what its receiver and its loop are like there.
Phases ==
    /\ server # "panicked"
    /\ server = "request" => rx.end = None /\ rx.taken = 0 /\ loop = Locals(<<>>)
    /\ server = "close" => Quic /\ rx.end \in DOMAIN CloseCode /\ loop.free = <<>>
    /\ rx.end # None => loop.next = None
    /\ ~Quic => /\ loop.free = <<>> /\ loop.next = None /\ server \notin {"close", "drain"}
                /\ \A s \in Streams \ {1} : loop.task[s] = None
    /\ BadToken => server \in {"request", "ended"} /\ loop.lane = <<>>

\* The loop of QUIC and its streams.
LoopSound ==
    Quic => /\ LoopGood(loop, rx.end # None /\ server # "close", Backlog)
            /\ server \in {"send", "close"} =>
                  /\ Request.recv_streams \in 1 .. MaxRecvStreams
                  /\ Known(loop) = 1 .. Request.recv_streams

\* Types of what the server keeps.
ServerTypes ==
    /\ subscription \in Subscriptions
    /\ rx \in [taken : Nat, end : Errors \cup {None}]
    /\ server \in {"request", "send", "close", "drain", "ended", "panicked"}
    /\ loop \in LoopType

\* Every message that was taken is at hand or was given to a stream.
Counted(l, taken) ==
    IF l.next = None THEN taken = Len(l.lane) ELSE l.next = Len(l.lane) + 1 /\ taken = l.next

\* The invariant of the server.
ServerInv == ServerTypes /\ Phases /\ LoopSound /\ Counted(loop, rx.taken)

\* A connection task that waits for its request.
LEMMA ServerInit == Init => ServerInv
<1> SUFFICES ASSUME Init PROVE ServerInv
  OBVIOUS
<1>1. /\ <<>> \in Seq(Streams) /\ rx \in [taken : Nat, end : Errors \cup {None}]
      /\ rx.end = None /\ rx.taken = 0 /\ server = "request" /\ loop = Locals(<<>>)
      /\ subscription \in Subscriptions
  BY DEF Init
<1>2. /\ loop \in LoopType
      /\ loop.next = None /\ loop.free = <<>> /\ loop.lane = <<>>
      /\ \A s \in Streams : loop.task[s] = None
  BY <1>1, LocalsIs
<1>3. ServerTypes
  BY <1>1, <1>2 DEF ServerTypes
<1>4. Phases
  BY <1>1, <1>2 DEF Phases
<1>5. LoopGood(loop, rx.end # None /\ server # "close", Backlog)
  <2>1. Backlog \in Nat /\ \A i, j \in DOMAIN <<>> : <<>>[i] = <<>>[j] => i = j
    BY <1>1, BacklogIs
  <2>2. LoopGood(loop, FALSE, Backlog)
    BY <1>1, <2>1, LocalsGood
  <2>3. (rx.end # None /\ server # "close") = FALSE
    BY <1>1
  <2> QED
    BY <2>2, <2>3
<1>6. Counted(loop, rx.taken)
  BY <1>1, <1>2 DEF Counted
<1> QED
  BY <1>1, <1>3, <1>4, <1>5, <1>6 DEF ServerInv, LoopSound

\* What does not concern the server.
LEMMA ServerKept == ServerInv /\ UNCHANGED <<subscription, rx, server, loop>> => ServerInv'
BY DEF ServerInv, ServerTypes, Phases, LoopSound, Quic, Transport, Request, Backlog, BadToken

\* The subscription stays.
LEMMA SubscriptionKept ==
    ASSUME subscription' = subscription
    PROVE  /\ Transport' = Transport /\ Request' = Request /\ Quic' = Quic
           /\ Backlog' = Backlog /\ BadToken' = BadToken /\ Consumer' = Consumer
BY DEF Transport, Request, Quic, Backlog, BadToken, Consumer

\* The weaker form holds wherever the stronger one does.
LEMMA WeakerGood ==
    ASSUME NEW l, NEW c \in BOOLEAN, NEW b, LoopGood(l, FALSE, b)
    PROVE  LoopGood(l, c, b)
BY DEF LoopGood

\* The request.
LEMMA ServerRequest ==
    ASSUME ServerInv, NEW channel \in ChannelErrors \cup {None}, HandleRequest(channel)
    PROVE  ServerInv'
<1>1. /\ subscription \in Subscriptions /\ subscription' = subscription
      /\ rx \in [taken : Nat, end : Errors \cup {None}]
      /\ server = "request" /\ loop = Locals(<<>>) /\ rx.end = None /\ rx.taken = 0
  BY DEF ServerInv, ServerTypes, Phases, HandleRequest
<1>2. /\ Transport' = Transport /\ Request' = Request /\ Quic' = Quic
      /\ Backlog' = Backlog /\ BadToken' = BadToken /\ Backlog \in Nat
  BY <1>1, SubscriptionKept, BacklogIs
<1>3. CASE Refusal(channel) = None
  <2>1. /\ server' = "send" /\ rx' = rx
        /\ loop' = Locals(IF Quic THEN [i \in 1 .. Request.recv_streams |-> i] ELSE <<>>)
    BY <1>3 DEF HandleRequest
  <2>2. ~BadToken /\ (Quic => Request.recv_streams \in 1 .. MaxRecvStreams)
    BY <1>1, <1>3, ServedIs
  <2> DEFINE f == IF Quic THEN [i \in 1 .. Request.recv_streams |-> i] ELSE <<>>
  <2>3. /\ f \in Seq(Streams) /\ \A i, j \in DOMAIN f : f[i] = f[j] => i = j
        /\ Quic => Range(f) = 1 .. Request.recv_streams
        /\ ~Quic => f = <<>>
    <3>1. CASE Quic
      <4>1. \A i \in 1 .. Request.recv_streams : i \in Streams
        BY <2>2, <3>1, SubscriptionIs, <1>1 DEF Streams
      <4>2. Request.recv_streams \in Nat
        BY SubscriptionIs, <1>1
      <4>3. f \in Seq(Streams) /\ DOMAIN f = 1 .. Request.recv_streams
            /\ \A i \in 1 .. Request.recv_streams : f[i] = i
        BY <3>1, <4>1, <4>2
      <4> HIDE DEF f
      <4> QED
        BY <3>1, <4>3 DEF Range
    <3>2. CASE ~Quic
      BY <3>2
    <3> QED
      BY <3>1, <3>2
  <2> HIDE DEF f
  <2>4. loop' = Locals(f)
    BY <2>1 DEF f
  <2>5. /\ loop' \in LoopType
        /\ loop'.next = None /\ loop'.free = f /\ loop'.lane = <<>>
        /\ \A s \in Streams : loop'.task[s] = None
    BY <2>3, <2>4, LocalsIs
  <2>6. LoopGood(loop', FALSE, Backlog) /\ Known(loop') = Range(f)
    BY <1>2, <2>3, <2>4, LocalsGood
  <2>7. LoopSound'
    <3>1. (rx.end # None /\ server # "close")' = FALSE
      BY <1>1, <2>1
    <3> QED
      BY <1>2, <2>2, <2>3, <2>6, <3>1 DEF LoopSound
  <2>8. ServerTypes'
    BY <1>1, <2>1, <2>5 DEF ServerTypes
  <2>9. Phases'
    BY <1>1, <1>2, <2>1, <2>2, <2>3, <2>5 DEF Phases
  <2>10. Counted(loop', rx'.taken)
    BY <1>1, <2>1, <2>5 DEF Counted
  <2> QED
    BY <2>7, <2>8, <2>9, <2>10 DEF ServerInv
<1>4. CASE Refusal(channel) # None
  <2>1. /\ server' = "ended" /\ loop' = loop
        /\ rx' = [rx EXCEPT !.end = IF Refusal(None) = None THEN channel ELSE None]
    BY <1>4 DEF HandleRequest
  <2>2. /\ loop' \in LoopType
        /\ loop'.next = None /\ loop'.free = <<>> /\ loop'.lane = <<>>
        /\ \A s \in Streams : loop'.task[s] = None
    <3>1. <<>> \in Seq(Streams)
      OBVIOUS
    <3>2. loop' = Locals(<<>>)
      BY <1>1, <2>1
    <3> QED
      BY <3>1, <3>2, LocalsIs
  <2>3. channel \in Errors \cup {None}
    BY DEF ChannelErrors, Errors, ErrorCode
  <2>4. ServerTypes'
    BY <1>1, <2>1, <2>2, <2>3 DEF ServerTypes
  <2>5. Phases'
    BY <1>1, <1>2, <2>1, <2>2 DEF Phases
  <2>6. \A c \in BOOLEAN : LoopGood(loop', c, Backlog)
    <3>1. <<>> \in Seq(Streams) /\ \A i, j \in DOMAIN <<>> : <<>>[i] = <<>>[j] => i = j
      OBVIOUS
    <3>2. loop' = Locals(<<>>)
      BY <1>1, <2>1
    <3> QED
      BY <1>2, <3>1, <3>2, LocalsGood
  <2>7. LoopSound'
    BY <1>2, <2>1, <2>6 DEF LoopSound
  <2>8. Counted(loop', rx'.taken)
    BY <1>1, <2>1, <2>2 DEF Counted
  <2> QED
    BY <2>4, <2>5, <2>7, <2>8 DEF ServerInv
<1> QED
  BY <1>3, <1>4

-----------------------------------------------------------------------------
(***************************************************************************)
(* What the loops do to the messages                                       *)
(***************************************************************************)

\* What a step of the loop does for the frames: those that are being written stay,
\* a new one is the next message, on the stream that is noted for it, or the close
\* frame for x; a message that is noted is being written.
Moves(l, d, x) ==
    /\ \A s \in Streams : l.task[s] # None /\ ~l.task[s].written =>
          d.task[s] # None /\ ~d.task[s].written /\ d.task[s].frame = l.task[s].frame
    /\ \A s \in Streams : d.task[s] # None =>
          \/ l.task[s] # None /\ d.task[s].frame = l.task[s].frame
          \/ /\ d.lane = Append(l.lane, s) /\ d.task[s].frame.msg = Len(l.lane) + 1
             /\ d.task[s].frame.close = None /\ d.task[s].frame.cut = FALSE
          \/ x \in DOMAIN CloseCode /\ d.task[s].frame = Close(x)
    /\ \/ d.lane = l.lane
       \/ \E s \in Streams :
             /\ d.lane = Append(l.lane, s)
             /\ d.task[s] # None /\ ~d.task[s].written
             /\ d.task[s].frame.msg = Len(l.lane) + 1

\* A task that has written is joined.
LEMMA JoinedMoves ==
    ASSUME NEW l \in LoopType, NEW s \in Streams, l.task[s] # None, l.task[s].written, NEW x
    PROVE  Moves(l, Joined(l, s), x)
<1>1. PICK d : d = Joined(l, s)
  OBVIOUS
<1>2. d.lane = l.lane /\ d.task = [l.task EXCEPT ![s] = None]
  BY <1>1, JoinedIs
<1>3. d.task[s] = None /\ \A q \in Streams \ {s} : d.task[q] = l.task[q]
  BY <1>2 DEF LoopType
<1> QED
  BY <1>1, <1>2, <1>3 DEF Moves

\* A task on a stream that had none.
LEMMA SpawnMoves ==
    ASSUME NEW l \in LoopType, NEW d \in LoopType, NEW s \in Streams, l.task[s] = None,
           NEW t \in Task, d.task = [l.task EXCEPT ![s] = t], ~t.written, NEW x,
           \/ x \in DOMAIN CloseCode /\ t.frame = Close(x) /\ d.lane = l.lane
           \/ /\ t.frame.msg = Len(l.lane) + 1 /\ t.frame.close = None /\ t.frame.cut = FALSE
              /\ d.lane = Append(l.lane, s)
    PROVE  Moves(l, d, x)
<1>1. /\ d.task[s] = t /\ \A q \in Streams \ {s} : d.task[q] = l.task[q]
  BY DEF LoopType
<1>2. t # None
  BY TransportsAssumption
<1>3. \A q \in Streams : l.task[q] # None /\ ~l.task[q].written =>
          d.task[q] # None /\ ~d.task[q].written /\ d.task[q].frame = l.task[q].frame
  BY <1>1
<1>4. \A q \in Streams : d.task[q] # None =>
          \/ l.task[q] # None /\ d.task[q].frame = l.task[q].frame
          \/ /\ d.lane = Append(l.lane, q) /\ d.task[q].frame.msg = Len(l.lane) + 1
             /\ d.task[q].frame.close = None /\ d.task[q].frame.cut = FALSE
          \/ x \in DOMAIN CloseCode /\ d.task[q].frame = Close(x)
  BY <1>1
<1>5. \/ d.lane = l.lane
      \/ /\ d.lane = Append(l.lane, s)
         /\ d.task[s] # None /\ ~d.task[s].written
         /\ d.task[s].frame.msg = Len(l.lane) + 1
  BY <1>1, <1>2
<1> QED
  BY <1>3, <1>4, <1>5 DEF Moves

\* Nothing moves.
LEMMA SameMoves == ASSUME NEW l, NEW x PROVE Moves(l, l, x)
BY DEF Moves

\* The top of the loop hands over the next message.
LEMMA DispatchMoves ==
    ASSUME NEW l \in LoopType, subscription \in Subscriptions, NEW c, NEW b, NEW x,
           LoopGood(l, c, b), NEW taken, Counted(l, taken)
    PROVE  Moves(l, Dispatch(l), x) /\ Counted(Dispatch(l), taken)
<1>1. PICK d : d = Dispatch(l)
  OBVIOUS
<1>2. CASE d = l
  BY <1>1, <1>2, SameMoves
<1>3. CASE d # l
  <2>1. /\ d \in LoopType
        /\ l.next \in Nat /\ l.free # <<>> /\ d.next = None
        /\ d.lane = Append(l.lane, Head(l.free))
        /\ d.task = [l.task EXCEPT ![Head(l.free)] =
                        [id |-> l.msg_id, frame |-> Data(l.msg_id, l.next), written |-> FALSE]]
    BY <1>1, <1>3, DispatchIs
  <2>2. l.msg_id \in Nat /\ l.free \in Seq(Streams) /\ l.lane \in Seq(Streams) /\ Len(l.lane) \in Nat
    BY DEF LoopType
  <2>3. l.next = Len(l.lane) + 1 /\ taken = l.next
    BY <2>1, TransportsAssumption DEF Counted
  <2> DEFINE t == [id |-> l.msg_id, frame |-> Data(l.msg_id, l.next), written |-> FALSE]
             h == Head(l.free)
  <2>4. t \in Task /\ ~t.written /\ t.frame = Data(l.msg_id, l.next)
    <3>1. Data(l.msg_id, l.next) \in Frame
      BY <2>1, <2>2, DataIs
    <3> QED
      BY <2>2, <3>1 DEF Task
  <2>5. t.frame.msg = Len(l.lane) + 1 /\ t.frame.close = None /\ t.frame.cut = FALSE
    <3>1. l.msg_id \in Nat \cup {None} /\ l.next \in Nat
      BY <2>1, <2>2
    <3>2. LET f == Data(l.msg_id, l.next)
          IN  f.msg = l.next /\ f.close = None /\ f.cut = FALSE
      BY ONLY <3>1, DataIs
    <3> HIDE DEF t
    <3> QED
      BY <2>3, <2>4, <3>2
  <2>6. h \in Streams /\ l.task[h] = None
    <3>1. 1 \in DOMAIN l.free /\ h = l.free[1] /\ h \in Streams
      BY <2>1, <2>2
    <3> QED
      BY <3>1 DEF LoopGood
  <2>7. d.task = [l.task EXCEPT ![h] = t] /\ d.lane = Append(l.lane, h)
    BY <2>1
  <2> HIDE DEF t, h
  <2>8. Moves(l, d, x)
    BY <2>1, <2>4, <2>5, <2>6, <2>7, SpawnMoves
  <2>9. Counted(d, taken)
    <3>1. Len(d.lane) = Len(l.lane) + 1
      BY <2>2, <2>6, <2>7
    <3> QED
      BY <2>1, <2>3, <3>1 DEF Counted
  <2> QED
    BY <1>1, <2>8, <2>9
<1> QED
  BY <1>2, <1>3

\* The close frame is given to the first free stream.
LEMMA CloseMoves ==
    ASSUME NEW l \in LoopType, l.free # <<>>, NEW b \in Nat, LoopGood(l, FALSE, b),
           NEW e \in DOMAIN CloseCode
    PROVE  Moves(l, SpawnClose(l, e), e)
<1>1. PICK d : d = SpawnClose(l, e)
  OBVIOUS
<1>2. /\ d \in LoopType /\ d.lane = l.lane
      /\ d.task = [l.task EXCEPT ![Head(l.free)] =
                       [id |-> l.msg_id, frame |-> Close(e), written |-> FALSE]]
  BY <1>1, CloseGood
<1> DEFINE t == [id |-> l.msg_id, frame |-> Close(e), written |-> FALSE]
           h == Head(l.free)
<1>3. t \in Task /\ ~t.written /\ t.frame = Close(e)
  <2>1. l.msg_id \in Nat /\ Close(e) \in Frame
    BY CloseIs DEF LoopType
  <2> QED
    BY <2>1 DEF Task
<1>4. h \in Streams /\ l.task[h] = None
  <2>1. l.free \in Seq(Streams)
    BY DEF LoopType
  <2>2. 1 \in DOMAIN l.free /\ h = l.free[1] /\ h \in Streams
    BY <2>1
  <2> QED
    BY <2>2 DEF LoopGood
<1>5. d.task = [l.task EXCEPT ![h] = t]
  BY <1>2
<1> HIDE DEF t, h
<1>6. Moves(l, d, e)
  BY <1>2, <1>3, <1>4, <1>5, SpawnMoves
<1> QED
  BY <1>1, <1>6

\* Two moves, the first of which notes no message.
LEMMA MovesThen ==
    ASSUME NEW l, NEW d, NEW e, NEW x, Moves(l, d, x), d.lane = l.lane, Moves(d, e, x)
    PROVE  Moves(l, e, x)
BY DEF Moves

\* The steps of the send loop of QUIC.
QuicStep ==
    \/ RecvMessage \/ CloseOnNextStream
    \/ \E e \in DOMAIN CloseCode : RecvErr(e)
    \/ \E s \in Streams : JoinNext(s)

\* The steps of the send loop of QUIC keep the invariant and move messages only forward.
LEMMA ServerLoop ==
    ASSUME ServerInv, QuicStep
    PROVE  /\ ServerInv' /\ Moves(loop, loop', rx'.end)
           /\ UNCHANGED <<subscription, reply, wire, conn, clientVars>>
           /\ server \in {"send", "close"} /\ server' \in {"send", "close"}
           /\ rx'.end = rx.end \/ rx.end = None
<1>1. /\ subscription' = subscription /\ subscription \in Subscriptions
      /\ UNCHANGED <<reply, wire, conn, clientVars>>
      /\ rx \in [taken : Nat, end : Errors \cup {None}] /\ loop \in LoopType
      /\ server \in {"request", "send", "close", "drain", "ended", "panicked"}
  BY DEF QuicStep, RecvMessage, CloseOnNextStream, RecvErr, JoinNext, ServerInv, ServerTypes
<1>2. Quic
  BY DEF QuicStep, RecvMessage, CloseOnNextStream, RecvErr, JoinNext, ServerInv, Phases
<1>3. /\ Transport' = Transport /\ Request' = Request /\ Quic' = Quic
      /\ Backlog' = Backlog /\ BadToken' = BadToken /\ Backlog \in Nat
  BY <1>1, SubscriptionKept, BacklogIs
<1>4. server \in {"send", "close"} /\ ~BadToken
  BY DEF QuicStep, RecvMessage, CloseOnNextStream, RecvErr, JoinNext, ServerInv, Phases
<1>5. /\ LoopGood(loop, rx.end # None /\ server # "close", Backlog)
      /\ Request.recv_streams \in 1 .. MaxRecvStreams
      /\ Known(loop) = 1 .. Request.recv_streams
      /\ Counted(loop, rx.taken)
  BY <1>2, <1>4 DEF ServerInv, LoopSound
<1>6. rx.end # None => loop.next = None
  BY DEF ServerInv, Phases
\* What is left to show of each step.
<1>7. ASSUME loop' \in LoopType, rx' \in [taken : Nat, end : Errors \cup {None}],
             server' = "send" \/ (server' = "close" /\ loop'.free = <<>> /\ rx'.end \in DOMAIN CloseCode),
             LoopGood(loop', rx'.end # None /\ server' # "close", Backlog),
             Known(loop') = Known(loop), Counted(loop', rx'.taken),
             rx'.end # None => loop'.next = None
      PROVE  ServerInv'
  <2>1. ServerTypes'
    BY <1>1, <1>7 DEF ServerTypes
  <2>2. Phases'
    BY <1>1, <1>2, <1>3, <1>4, <1>7 DEF Phases
  <2>3. LoopSound'
    BY <1>3, <1>5, <1>7 DEF LoopSound
  <2> QED
    BY <1>7, <2>1, <2>2, <2>3 DEF ServerInv
<1>8. CASE RecvMessage
  <2>1. /\ server = "send" /\ server' = "send" /\ loop.next = None /\ rx.end = None
        /\ rx' = [rx EXCEPT !.taken = @ + 1]
        /\ loop' = Dispatch([loop EXCEPT !.next = rx'.taken])
    BY <1>8 DEF RecvMessage
  <2>2. /\ rx' \in [taken : Nat, end : Errors \cup {None}]
        /\ rx'.taken = rx.taken + 1 /\ rx'.end = None /\ rx'.taken \in Nat
    BY <1>1, <2>1
  <2>3. PICK l : l = [loop EXCEPT !.next = rx'.taken]
    OBVIOUS
  <2>4. /\ l \in LoopType
        /\ l.msg_id = loop.msg_id /\ l.msg_ids = loop.msg_ids /\ l.next = rx'.taken
        /\ l.free = loop.free /\ l.task = loop.task /\ l.lane = loop.lane
    BY <1>1, <2>2, <2>3, TakenIs
  <2>5. LoopGood(loop, FALSE, Backlog)
    <3>1. (rx.end # None /\ server # "close") = FALSE
      BY <2>1
    <3> QED
      BY <1>5, <3>1
  <2>6. LoopGood(l, FALSE, Backlog) /\ Known(l) = Known(loop)
    BY <1>1, <1>3, <2>4, <2>5, SameGood
  <2>7. Counted(l, rx'.taken)
    <3>1. rx.taken = Len(loop.lane)
      BY <1>5, <2>1 DEF Counted
    <3>2. l.next # None
      BY <2>2, <2>4, TransportsAssumption
    <3> QED
      BY <2>2, <2>4, <3>1, <3>2 DEF Counted
  <2>8. loop' = Dispatch(l)
    BY <2>1, <2>3
  <2>9. loop' \in LoopType
    BY <1>1, <2>4, <2>8, DispatchIs
  <2>10. LoopGood(loop', FALSE, Backlog) /\ Known(loop') = Known(l)
    BY <1>1, <2>4, <2>6, <2>8, DispatchGood
  <2>11. Moves(l, loop', rx'.end) /\ Counted(loop', rx'.taken)
    BY <1>1, <2>4, <2>6, <2>7, <2>8, DispatchMoves
  <2>12. Moves(loop, loop', rx'.end)
    BY <2>4, <2>11 DEF Moves
  <2>13. (rx'.end # None /\ server' # "close") = FALSE
    BY <2>2
  <2>14. ServerInv'
    BY <1>7, <2>1, <2>2, <2>6, <2>9, <2>10, <2>11, <2>13
  <2> QED
    BY <1>1, <2>1, <2>2, <2>12, <2>14
<1>9. ASSUME NEW e \in DOMAIN CloseCode, RecvErr(e)
      PROVE  /\ ServerInv' /\ Moves(loop, loop', rx'.end)
             /\ server' \in {"send", "close"} /\ rx.end = None
  <2>1. /\ server = "send" /\ loop.next = None /\ rx.end = None
        /\ rx' = [rx EXCEPT !.end = e]
        /\ IF loop.free = <<>> THEN server' = "close" /\ loop' = loop
           ELSE server' = "send" /\ loop' = Dispatch(SpawnClose(loop, e))
    BY <1>9 DEF RecvErr
  <2>2. /\ rx' \in [taken : Nat, end : Errors \cup {None}]
        /\ rx'.taken = rx.taken /\ rx'.end = e /\ e # None
    <3>1. e \in Errors
      BY CloseIs
    <3> QED
      BY <1>1, <2>1, <3>1, TransportsAssumption
  <2>3. LoopGood(loop, FALSE, Backlog)
    <3>1. (rx.end # None /\ server # "close") = FALSE
      BY <2>1
    <3> QED
      BY <1>5, <3>1
  <2>4. CASE loop.free = <<>>
    <3>1. (rx'.end # None /\ server' # "close") = FALSE
      BY <2>1, <2>4
    <3>2. ServerInv'
      BY <1>1, <1>5, <1>7, <2>1, <2>2, <2>3, <2>4, <3>1
    <3> QED
      BY <2>1, <2>4, <3>2, SameMoves
  <2>5. CASE loop.free # <<>>
    <3>1. PICK l : l = SpawnClose(loop, e)
      OBVIOUS
    <3>2. /\ l \in LoopType /\ l.next = loop.next /\ l.lane = loop.lane
          /\ LoopGood(l, TRUE, Backlog) /\ Known(l) = Known(loop)
      BY <1>1, <1>3, <2>3, <2>5, <3>1, CloseGood
    <3>3. loop' = l /\ server' = "send"
      <4>1. Dispatch(l) = l
        BY <2>1, <3>2 DEF Dispatch
      <4> QED
        BY <2>1, <2>5, <3>1, <4>1
    <3>4. Moves(loop, l, rx'.end)
      BY <1>1, <1>3, <2>2, <2>3, <2>5, <3>1, CloseMoves
    <3>5. Counted(l, rx'.taken)
      BY <1>5, <2>2, <3>2 DEF Counted
    <3>6. (rx'.end # None /\ server' # "close") = TRUE
      BY <2>2, <3>3
    <3>7. ServerInv'
      BY <1>7, <2>1, <2>2, <3>2, <3>3, <3>5, <3>6
    <3> QED
      BY <2>1, <3>3, <3>4, <3>7
  <2> QED
    BY <2>4, <2>5
<1>10. CASE CloseOnNextStream
  <2>1. /\ server = "close" /\ rx' = rx /\ rx.end \in DOMAIN CloseCode /\ loop.free = <<>>
    BY <1>10 DEF CloseOnNextStream, ServerInv, Phases
  <2>2. rx.end # None
    BY <2>1, CloseIs, TransportsAssumption
  <2>3. ~ \A s \in Streams : loop.task[s] = None
    <3>1. 1 \in Known(loop)
      BY <1>1, <1>5, SubscriptionIs
    <3> QED
      BY <1>1, <2>1, <3>1, KnownIs
  <2>4. PICK s \in Streams : /\ Written(s) /\ server' = "send"
                             /\ loop' = Dispatch(SpawnClose(Joined(loop, s), rx.end))
    BY <1>10, <2>3 DEF CloseOnNextStream
  <2>5. PICK l : l = Joined(loop, s)
    OBVIOUS
  <2>6. loop.task[s] # None /\ loop.task[s].written
    BY <2>4 DEF Written
  <2>7. LoopGood(loop, FALSE, Backlog)
    <3>1. (rx.end # None /\ server # "close") = FALSE
      BY <2>1
    <3> QED
      BY <1>5, <3>1
  <2>8. /\ l \in LoopType /\ l.next = loop.next /\ l.lane = loop.lane /\ l.free = Append(loop.free, s)
    BY <1>1, <2>5, <2>6, JoinedIs
  <2>9. LoopGood(l, FALSE, Backlog) /\ Known(l) = Known(loop)
    BY <1>1, <1>3, <2>5, <2>6, <2>7, JoinedGood
  <2>10. Moves(loop, l, rx.end)
    BY <1>1, <2>5, <2>6, JoinedMoves
  <2>11. l.free # <<>>
    BY <2>1, <2>8
  <2>12. PICK d : d = SpawnClose(l, rx.end)
    OBVIOUS
  <2>13. /\ d \in LoopType /\ d.next = l.next /\ d.lane = l.lane
         /\ LoopGood(d, TRUE, Backlog) /\ Known(d) = Known(l)
    BY <1>3, <2>1, <2>8, <2>9, <2>11, <2>12, CloseGood
  <2>14. Moves(l, d, rx.end)
    BY <1>3, <2>1, <2>8, <2>9, <2>11, <2>12, CloseMoves
  <2>15. Moves(loop, d, rx.end)
    BY <2>8, <2>10, <2>14, MovesThen
  <2>16. loop' = d
    <3>1. Dispatch(d) = d
      BY <1>6, <2>2, <2>8, <2>13 DEF Dispatch
    <3> QED
      BY <2>4, <2>5, <2>12, <3>1
  <2>17. Counted(d, rx'.taken)
    BY <1>5, <2>1, <2>8, <2>13 DEF Counted
  <2>18. (rx'.end # None /\ server' # "close") = TRUE
    BY <2>1, <2>2, <2>4
  <2>19. ServerInv'
    BY <1>1, <1>6, <1>7, <2>1, <2>2, <2>4, <2>8, <2>9, <2>13, <2>16, <2>17, <2>18
  <2> QED
    BY <1>1, <2>1, <2>4, <2>15, <2>16, <2>19
<1>11. ASSUME NEW s \in Streams, JoinNext(s)
       PROVE  /\ ServerInv' /\ Moves(loop, loop', rx'.end)
              /\ server' = server /\ rx' = rx
  <2>1. /\ server = "send" /\ server' = server /\ rx' = rx /\ Written(s)
        /\ loop' = Dispatch(Joined(loop, s))
    BY <1>11 DEF JoinNext
  <2>2. PICK l : l = Joined(loop, s)
    OBVIOUS
  <2>3. loop.task[s] # None /\ loop.task[s].written
    BY <2>1 DEF Written
  <2>4. PICK c \in BOOLEAN : c = (rx.end # None /\ server # "close")
    OBVIOUS
  <2>5. /\ l \in LoopType /\ l.next = loop.next /\ l.lane = loop.lane
    BY <1>1, <2>2, <2>3, JoinedIs
  <2>6. LoopGood(l, c, Backlog) /\ Known(l) = Known(loop)
    BY <1>1, <1>3, <1>5, <2>2, <2>3, <2>4, JoinedGood
  <2>7. l.next = None \/ ~c
    BY <1>6, <2>4, <2>5
  <2>8. LoopGood(loop', c, Backlog) /\ Known(loop') = Known(l)
    BY <1>1, <2>1, <2>2, <2>5, <2>6, <2>7, DispatchGood
  <2>9. Counted(l, rx.taken)
    BY <1>5, <2>5 DEF Counted
  <2>10. Moves(l, loop', rx.end) /\ Counted(loop', rx.taken)
    BY <1>1, <2>1, <2>2, <2>5, <2>6, <2>9, DispatchMoves
  <2>11. Moves(loop, loop', rx.end)
    <3>1. Moves(loop, l, rx.end)
      BY <1>1, <2>2, <2>3, JoinedMoves
    <3> QED
      BY <2>5, <2>10, <3>1, MovesThen
  <2>12. loop' \in LoopType
    BY <1>1, <2>1, <2>2, <2>5, DispatchIs
  <2>13. rx.end # None => loop'.next = None
    <3>1. rx.end # None => l.next = None
      BY <1>6, <2>5
    <3>2. l.next = None => loop' = l
      BY <2>1, <2>2 DEF Dispatch
    <3> QED
      BY <3>1, <3>2
  <2>14. LoopGood(loop', rx'.end # None /\ server' # "close", Backlog)
    BY <2>1, <2>4, <2>8
  <2>15. ServerInv'
    BY <1>1, <1>7, <2>1, <2>6, <2>8, <2>10, <2>12, <2>13, <2>14
  <2> QED
    BY <2>1, <2>11, <2>15
<1> QED
  BY <1>1, <1>4, <1>8, <1>9, <1>10, <1>11 DEF QuicStep

\* The loops of TCP and gRPC take a message or an error.
WriteStep ==
    \/ StreamMessage
    \/ \E e \in DOMAIN CloseCode : TcpErr(e) \/ GrpcErr(e)

\* So do those of the loops of TCP and gRPC.
LEMMA ServerWrites ==
    ASSUME ServerInv, WriteStep
    PROVE  /\ ServerInv' /\ Moves(loop, loop', rx'.end)
           /\ UNCHANGED <<subscription, reply, wire, conn, clientVars>>
           /\ server = "send" /\ server' = "send"
           /\ rx'.end = rx.end \/ rx.end = None
<1>1. /\ subscription' = subscription /\ subscription \in Subscriptions
      /\ UNCHANGED <<reply, wire, conn, clientVars>>
      /\ rx \in [taken : Nat, end : Errors \cup {None}] /\ loop \in LoopType
      /\ server = "send" /\ server' = "send" /\ ~Quic /\ loop.task[1] = None /\ rx.end = None
  BY DEF WriteStep, StreamMessage, TcpErr, GrpcErr, StreamIdle, ServerInv, ServerTypes
<1>2. /\ Transport' = Transport /\ Request' = Request /\ Quic' = Quic
      /\ Backlog' = Backlog /\ BadToken' = BadToken
  BY <1>1, SubscriptionKept
<1>3. /\ ~BadToken /\ loop.free = <<>> /\ loop.next = None
      /\ \A s \in Streams \ {1} : loop.task[s] = None
      /\ rx.taken = Len(loop.lane)
  BY <1>1 DEF ServerInv, Phases, Counted
<1>4. 1 \in Streams
  BY StreamsFacts
<1>5. ASSUME NEW f \in Frame, Write(f), rx' \in [taken : Nat, end : Errors \cup {None}],
             \/ f.msg = None /\ rx'.taken = rx.taken /\ rx'.end \in DOMAIN CloseCode /\ f = Close(rx'.end)
             \/ /\ f.msg = rx'.taken /\ rx'.taken = rx.taken + 1 /\ rx'.end = None
                /\ f.close = None /\ f.cut = FALSE
      PROVE  ServerInv' /\ Moves(loop, loop', rx'.end)
  <2>1. /\ loop' \in LoopType
        /\ loop'.next = loop.next /\ loop'.free = loop.free
        /\ loop'.lane = IF f.msg = None THEN loop.lane ELSE Append(loop.lane, 1)
        /\ loop'.task = [loop.task EXCEPT ![1] = [id |-> None, frame |-> f, written |-> FALSE]]
    BY <1>1, <1>5, WriteIs
  <2> DEFINE t == [id |-> None, frame |-> f, written |-> FALSE]
  <2>2. t \in Task /\ ~t.written /\ t.frame = f
    BY <1>5 DEF Task
  <2>3. loop'.task = [loop.task EXCEPT ![1] = t]
    BY <2>1
  <2> HIDE DEF t
  <2>4. loop.lane \in Seq(Streams) /\ rx.taken \in Nat /\ rx.taken + 1 # None
    <3>1. rx.taken + 1 \in Nat
      BY <1>1
    <3> QED
      BY <1>1, <3>1, TransportsAssumption DEF LoopType
  <2>5. \/ rx'.end \in DOMAIN CloseCode /\ t.frame = Close(rx'.end) /\ loop'.lane = loop.lane
        \/ /\ t.frame.msg = Len(loop.lane) + 1 /\ t.frame.close = None /\ t.frame.cut = FALSE
           /\ loop'.lane = Append(loop.lane, 1)
    BY <1>3, <1>5, <2>1, <2>2, <2>4
  <2>6. Moves(loop, loop', rx'.end)
    BY <1>1, <1>4, <2>1, <2>2, <2>3, <2>5, SpawnMoves
  <2>7. \A s \in Streams \ {1} : loop'.task[s] = None
    BY <1>1, <1>3, <2>3 DEF LoopType
  <2>8. Counted(loop', rx'.taken)
    <3>1. CASE f.msg = None
      <4>1. rx'.taken = rx.taken /\ loop'.lane = loop.lane
        BY <1>5, <2>1, <2>4, <3>1
      <4> QED
        BY <1>3, <2>1, <4>1 DEF Counted
    <3>2. CASE f.msg # None
      <4>1. rx'.taken = rx.taken + 1 /\ loop'.lane = Append(loop.lane, 1)
        BY <1>5, <2>1, <3>2
      <4>2. Len(loop'.lane) = Len(loop.lane) + 1
        BY <1>4, <2>4, <4>1
      <4> QED
        BY <1>3, <2>1, <4>1, <4>2 DEF Counted
    <3> QED
      BY <3>1, <3>2
  <2>9. ServerTypes'
    BY <1>1, <1>5, <2>1 DEF ServerTypes
  <2>10. Phases'
    BY <1>1, <1>2, <1>3, <2>1, <2>7 DEF Phases
  <2>11. LoopSound'
    BY <1>1, <1>2 DEF LoopSound
  <2> QED
    BY <2>6, <2>8, <2>9, <2>10, <2>11 DEF ServerInv
<1>6. CASE StreamMessage
  <2>1. rx' = [rx EXCEPT !.taken = @ + 1] /\ Write(Data(None, rx'.taken))
    BY <1>6 DEF StreamMessage
  <2>2. /\ rx' \in [taken : Nat, end : Errors \cup {None}]
        /\ rx'.taken = rx.taken + 1 /\ rx'.end = None /\ rx'.taken \in Nat
    BY <1>1, <2>1
  <2>3. LET f == Data(None, rx'.taken)
        IN  f \in Frame /\ f.msg = rx'.taken /\ f.close = None /\ f.cut = FALSE
    BY <2>2, DataIs
  <2>4. ServerInv' /\ Moves(loop, loop', rx'.end)
    BY <1>5, <2>1, <2>2, <2>3
  <2> QED
    BY <1>1, <2>2, <2>4
<1>7. ASSUME NEW e \in DOMAIN CloseCode, TcpErr(e) \/ GrpcErr(e)
      PROVE  ServerInv' /\ Moves(loop, loop', rx'.end)
  <2>1. rx' = [rx EXCEPT !.end = e] /\ Write(Close(e))
    BY <1>7 DEF TcpErr, GrpcErr
  <2>2. e \in Errors /\ Close(e) \in Frame /\ Close(e).msg = None
    BY CloseIs
  <2>3. /\ rx' \in [taken : Nat, end : Errors \cup {None}]
        /\ rx'.taken = rx.taken /\ rx'.end = e
    BY <1>1, <2>1, <2>2
  <2> QED
    BY <1>5, <2>1, <2>2, <2>3
<1> QED
  BY <1>1, <1>6, <1>7 DEF WriteStep

\* The loop ends.
LEMMA ServerEnds ==
    ASSUME ServerInv, UNCHANGED <<subscription, rx, loop>>,
           server' = "ended" \/ (server' = "drain" /\ Quic /\ server = "send")
    PROVE  ServerInv'
<1>1. /\ subscription \in Subscriptions
      /\ rx \in [taken : Nat, end : Errors \cup {None}] /\ loop \in LoopType
  BY DEF ServerInv, ServerTypes
<1>2. /\ Transport' = Transport /\ Request' = Request /\ Quic' = Quic
      /\ Backlog' = Backlog /\ BadToken' = BadToken
  BY SubscriptionKept
<1>3. ServerTypes'
  BY <1>1 DEF ServerTypes
<1>4. Phases'
  BY <1>2 DEF Phases, ServerInv
<1>5. LoopSound'
  <2> SUFFICES ASSUME Quic PROVE LoopGood(loop, rx.end # None, Backlog)
    <3>1. (rx.end # None /\ server # "close")' = (rx.end # None)
      OBVIOUS
    <3> QED
      BY <1>2, <3>1 DEF LoopSound
  <2>1. LoopGood(loop, rx.end # None /\ server # "close", Backlog)
    BY DEF ServerInv, LoopSound
  <2>2. PICK c \in BOOLEAN : c = (rx.end # None)
    OBVIOUS
  <2>3. CASE server # "close"
    <3>1. (rx.end # None /\ server # "close") = (rx.end # None)
      BY <2>3
    <3> QED
      BY <2>1, <3>1
  <2>4. CASE server = "close"
    <3>1. (rx.end # None /\ server # "close") = FALSE
      BY <2>4
    <3>2. LoopGood(loop, FALSE, Backlog)
      BY <2>1, <3>1
    <3> QED
      BY <2>2, <3>2, WeakerGood
  <2> QED
    BY <2>3, <2>4
<1> QED
  BY <1>3, <1>4, <1>5 DEF ServerInv

\* A frame is written.
LEMMA ServerWritten ==
    ASSUME ServerInv, NEW s \in Streams, WriteFrame(s)
    PROVE  /\ ServerInv'
           /\ loop'.lane = loop.lane /\ Writing(s) /\ loop.task[s].frame \in Frame
           /\ \A q \in Streams \ {s} : loop'.task[q] = loop.task[q]
           /\ loop'.task[s] # None => loop'.task[s].frame = loop.task[s].frame
<1>1. /\ subscription' = subscription /\ subscription \in Subscriptions
      /\ rx \in [taken : Nat, end : Errors \cup {None}] /\ loop \in LoopType
      /\ rx' = rx /\ server' = server /\ Writing(s) /\ loop.task[s] # None
  BY DEF WriteFrame, Writing, ServerInv, ServerTypes
<1>2. /\ Transport' = Transport /\ Request' = Request /\ Quic' = Quic
      /\ Backlog' = Backlog /\ BadToken' = BadToken /\ Backlog \in Nat
  BY <1>1, SubscriptionKept, BacklogIs
<1>3. loop.task[s].frame \in Frame
  BY <1>1 DEF LoopType, Task
<1>4. server # "request"
  <2>1. <<>> \in Seq(Streams)
    OBVIOUS
  <2>2. server = "request" => loop = Locals(<<>>)
    BY DEF ServerInv, Phases
  <2>3. Locals(<<>>).task[s] = None
    BY <2>1, LocalsIs
  <2> QED
    BY <1>1, <2>2, <2>3
<1>5. CASE Quic
  <2>1. loop' = [loop EXCEPT !.task[s].written = TRUE]
    BY <1>5 DEF WriteFrame
  <2>2. /\ loop' \in LoopType
        /\ loop'.msg_id = loop.msg_id /\ loop'.msg_ids = loop.msg_ids /\ loop'.next = loop.next
        /\ loop'.free = loop.free /\ loop'.lane = loop.lane
        /\ loop'.task[s] # None
        /\ loop'.task[s].id = loop.task[s].id /\ loop'.task[s].frame = loop.task[s].frame
        /\ \A q \in Streams \ {s} : loop'.task[q] = loop.task[q]
    BY <1>1, <2>1, WrittenIs
  <2>3. PICK c \in BOOLEAN : c = (rx.end # None /\ server # "close")
    OBVIOUS
  <2>4. LoopGood(loop, c, Backlog)
    BY <1>5, <2>3 DEF ServerInv, LoopSound
  <2>5. \A q \in Streams : /\ loop'.task[q] # None <=> loop.task[q] # None
                           /\ loop'.task[q] # None => loop'.task[q].id = loop.task[q].id
    BY <1>1, <2>2
  <2>6. LoopGood(loop', c, Backlog) /\ Known(loop') = Known(loop)
    BY <1>1, <1>2, <2>2, <2>4, <2>5, SameGood
  <2>7. LoopSound'
    BY <1>1, <1>2, <2>3, <2>6 DEF LoopSound, ServerInv
  <2>8. Phases'
    <3>1. server # "request"
      BY <1>4
    <3> QED
      BY <1>1, <1>2, <1>5, <2>2, <3>1 DEF Phases, ServerInv
  <2>9. ServerTypes' /\ Counted(loop', rx'.taken)
    BY <1>1, <2>2 DEF ServerTypes, ServerInv, Counted
  <2> QED
    BY <1>1, <1>3, <2>2, <2>7, <2>8, <2>9 DEF ServerInv
<1>6. CASE ~Quic
  <2>1. loop' = [loop EXCEPT !.task[s] = None]
    BY <1>6 DEF WriteFrame
  <2>2. /\ loop' \in LoopType
        /\ loop'.next = loop.next /\ loop'.free = loop.free /\ loop'.lane = loop.lane
        /\ loop'.task = [loop.task EXCEPT ![s] = None]
    BY <1>1, <2>1, DroppedIs
  <2>3. loop'.task[s] = None /\ \A q \in Streams \ {s} : loop'.task[q] = loop.task[q]
    BY <1>1, <2>2 DEF LoopType
  <2>4. Phases'
    <3>1. server # "request"
      BY <1>4
    <3>2. \A q \in Streams \ {1} : loop'.task[q] = None
      BY <1>6, <2>3 DEF ServerInv, Phases
    <3> QED
      BY <1>1, <1>2, <1>6, <2>2, <3>1, <3>2 DEF Phases, ServerInv
  <2>5. LoopSound'
    BY <1>2, <1>6 DEF LoopSound
  <2>6. ServerTypes' /\ Counted(loop', rx'.taken)
    BY <1>1, <2>2 DEF ServerTypes, ServerInv, Counted
  <2> QED
    BY <1>1, <1>3, <2>2, <2>3, <2>4, <2>5, <2>6 DEF ServerInv
<1> QED
  BY <1>5, <1>6

\* The steps in which the loop of the server ends.
EndStep == RecvNone \/ Finish \/ TaskFails \/ StreamNone \/ Killed

\* They leave the receiver and the loop as they are.
LEMMA EndStepIs ==
    ASSUME ServerInv, EndStep
    PROVE  /\ UNCHANGED <<subscription, rx, loop>>
           /\ server' = "ended" \/ (server' = "drain" /\ Quic /\ server = "send")
BY DEF EndStep, RecvNone, Finish, TaskFails, StreamNone, Killed

\* The steps of the client, of the consumer and of the network, which leave the
\* server alone.
AwayStep ==
    \/ Lost \/ ReadResponse \/ AcceptUni \/ PollQuic \/ PollMessage \/ PollEnd
    \/ PollAgain \/ PollPending \/ Exit
    \/ \E r \in late : AppendLate(r)
    \/ \E s \in Streams : ReaderNext(s) \/ SendOk(s) \/ SendFails(s)

\* They do not touch what the server keeps.
LEMMA AwayStepIs ==
    ASSUME AwayStep PROVE UNCHANGED <<subscription, rx, server, loop>>
BY DEF AwayStep, Lost, ReadResponse, AcceptUni, PollQuic, PollMessage, PollEnd, PollAgain,
       PollPending, Exit, AppendLate, ReaderNext, SendOk, SendFails, serverVars

\* Every step is of one of these kinds.
LEMMA NextIs ==
    ASSUME Next
    PROVE  \/ \E channel \in ChannelErrors \cup {None} : HandleRequest(channel)
           \/ QuicStep \/ WriteStep \/ EndStep \/ AwayStep
           \/ \E s \in Streams : WriteFrame(s)
BY DEF Next, ServerStep, Source, ClientStep, Fault, QuicStep, WriteStep, EndStep, AwayStep

\* Every step keeps the invariant of the server.
LEMMA ServerInvStep == ServerInv /\ [Next]_vars => ServerInv'
<1> SUFFICES ASSUME ServerInv, [Next]_vars PROVE ServerInv'
  OBVIOUS
<1>1. CASE UNCHANGED vars
  BY <1>1, ServerKept DEF vars
<1>2. ASSUME NEW channel \in ChannelErrors \cup {None}, HandleRequest(channel) PROVE ServerInv'
  BY <1>2, ServerRequest
<1>3. CASE QuicStep
  BY <1>3, ServerLoop
<1>4. CASE WriteStep
  BY <1>4, ServerWrites
<1>5. CASE EndStep
  BY <1>5, EndStepIs, ServerEnds
<1>6. CASE AwayStep
  BY <1>6, AwayStepIs, ServerKept
<1>7. ASSUME NEW s \in Streams, WriteFrame(s) PROVE ServerInv'
  BY <1>7, ServerWritten
<1> QED
  BY <1>1, <1>2, <1>3, <1>4, <1>5, <1>6, <1>7, NextIs

\* The connection task of handle_incoming accounts for its streams, for the ids under
\* way and for every message it has taken from the receiver, whatever the number of
\* streams and the order in which its tasks end.
THEOREM ServerInvariant == Spec => []ServerInv
BY ServerInit, ServerInvStep, PTL DEF Spec

\* The send loop of QuicServer::handle_incoming accounts for its streams, so that
\* expect("already verified") does not panic, and keeps the backlog.
THEOREM SendLoopSoundTheorem == Spec => []SendLoopSound
<1>1. ServerInv => SendLoopSound
  <2> SUFFICES ASSUME ServerInv PROVE SendLoopSound
    OBVIOUS
  <2>1. server # "panicked"
    BY DEF ServerInv, Phases
  <2>2. Quic /\ server = "send" =>
          Range(loop.free) \cup {s \in Streams : loop.task[s] # None} = 1 .. Request.recv_streams
    BY DEF ServerInv, LoopSound, Known
  <2>3. ASSUME Quic, NEW s \in Streams, Writing(s)
        PROVE  loop.msg_id - loop.task[s].id <= Backlog
    <3>1. loop.msg_id \in Nat /\ loop.msg_ids \in SUBSET Nat /\ Backlog \in Nat
      BY BacklogIs DEF ServerInv, ServerTypes, LoopType
    <3>2. loop.task[s].id = loop.msg_id \/ loop.task[s].id \in loop.msg_ids
      BY <2>3 DEF ServerInv, LoopSound, LoopGood, Writing
    <3>3. \A id \in loop.msg_ids : loop.msg_id - id <= Backlog
      BY <2>3 DEF ServerInv, LoopSound, LoopGood
    <3> QED
      BY <3>1, <3>2, <3>3
  <2> QED
    BY <2>1, <2>2, <2>3 DEF SendLoopSound
<1> QED
  BY <1>1, ServerInvariant, PTL

-----------------------------------------------------------------------------
(***************************************************************************)
(* Delivery                                                                *)
(***************************************************************************)

\* Types of the network and the client.
ClientTypes ==
    /\ wire \in [Streams -> WireType]
    /\ conn \in {"open", "gone"}
    /\ client \in ClientType
    /\ reader \in [Streams -> ReaderType]
    /\ late \in SUBSET RecordType
    /\ out \in Seq(RecordType)

\* Message n was given to stream s.
InLane(lane, n, s) == n \in DOMAIN lane /\ lane[n] = s

\* A frame of stream s: one of its messages, or the close frame for e.
FrameOf(s, f, lane, e) ==
    \/ f.close = None /\ InLane(lane, f.msg, s)
    \/ f.msg = None /\ e \in DOMAIN CloseCode /\ f.close = CloseCode[e]

\* Tasks and wires carry frames of their stream; those of QUIC are whole.
Carried ==
    /\ \A s \in Streams : loop.task[s] # None =>
          /\ FrameOf(s, loop.task[s].frame, loop.lane, rx.end)
          /\ loop.task[s].frame.cut = FALSE
    /\ \A s \in Streams : \A i \in 1 .. Len(wire[s].frames) :
          /\ FrameOf(s, wire[s].frames[i], loop.lane, rx.end)
          /\ Quic => wire[s].frames[i].cut = FALSE

\* Message n has arrived, or is in the hands of the reader of s, or is among the
\* first k frames on its wire.
Passed(s, n, k) ==
    \/ Arrived(n)
    \/ reader[s].msg = n
    \/ \E j \in 1 .. k : wire[s].frames[j].msg = n

\* Nothing is missing before a frame on the wire.
WireGapless ==
    client.pc # "exited" =>
        \A s \in Streams : \A i \in 1 .. Len(wire[s].frames), n \in DOMAIN loop.lane :
            wire[s].frames[i].msg # None /\ InLane(loop.lane, n, s) /\ n < wire[s].frames[i].msg
                => Passed(s, n, i - 1)

\* While the connection lasts, each message is somewhere.
Located ==
    conn = "open" =>
        \A s \in Streams : \A n \in DOMAIN loop.lane : InLane(loop.lane, n, s) =>
            \/ Passed(s, n, Len(wire[s].frames))
            \/ Writing(s) /\ loop.task[s].frame.msg = n

\* FIN comes after all messages.
Finished ==
    \A s \in Streams : wire[s].fin =>
        /\ server = "ended"
        /\ Quic /\ client.pc # "exited" =>
              \A n \in DOMAIN loop.lane :
                  InLane(loop.lane, n, s) => Passed(s, n, Len(wire[s].frames))

\* All messages of stream s before m have arrived.
Reached(s, m) ==
    /\ InLane(loop.lane, m, s)
    /\ \A n \in DOMAIN loop.lane : InLane(loop.lane, n, s) /\ n < m => Arrived(n)

\* A message in the hands of a reader, or one whose send was given up, is the next of
\* its stream, or was.
InHands ==
    /\ \A s \in Streams :
          /\ reader[s].pc = "send" <=> reader[s].msg # None
          /\ reader[s].msg # None => Reached(s, reader[s].msg)
          /\ reader[s].pc # "off" \/ reader[s].told # None => Quic
          /\ reader[s].pc # "off" => client.pc # "exited"
    /\ \A r \in late : Reached(r.via, r.msg)
    /\ client.pc = "exited" => conn = "gone"

\* Before each message that has arrived, those before it in its stream have.
OutGapless ==
    \A i \in 1 .. Len(out) :
        /\ InLane(loop.lane, out[i].msg, out[i].via)
        /\ \A n \in DOMAIN loop.lane :
              InLane(loop.lane, n, out[i].via) /\ n < out[i].msg =>
                  \E j \in 1 .. i - 1 : out[j].msg = n

\* A stream that has ended without an error has given all its messages.
EndReached ==
    \A s \in Streams : reader[s].told = End =>
        /\ server = "ended"
        /\ \A n \in DOMAIN loop.lane : InLane(loop.lane, n, s) => Arrived(n)

\* The invariant of the delivery.
DeliveryInv ==
    /\ ClientTypes /\ Carried /\ WireGapless /\ Located /\ Finished
    /\ InHands /\ OutGapless /\ EndReached

\* Nothing is under way when a subscription is opened.
LEMMA DeliveryInit == Init => DeliveryInv
<1> SUFFICES ASSUME Init PROVE DeliveryInv
  OBVIOUS
<1>1. /\ loop = Locals(<<>>) /\ server = "request" /\ conn = "open" /\ late = {} /\ out = <<>>
      /\ wire = [s \in Streams |-> [frames |-> <<>>, fin |-> FALSE]]
      /\ client = [pc |-> "response", accepted |-> 0, told |-> None]
      /\ reader = [s \in Streams |-> [pc |-> "off", msg |-> None, told |-> None]]
  BY DEF Init
<1>2. loop.lane = <<>> /\ \A s \in Streams : loop.task[s] = None
  <2>1. <<>> \in Seq(Streams)
    OBVIOUS
  <2> QED
    BY <1>1, <2>1, LocalsIs
<1>3. DOMAIN loop.lane = {}
  BY <1>2
<1>4. ClientTypes
  <2>1. [frames |-> <<>>, fin |-> FALSE] \in WireType
    BY DEF WireType
  <2>2. [pc |-> "off", msg |-> None, told |-> None] \in ReaderType
    BY DEF ReaderType, ToldType
  <2>3. client \in ClientType
    BY <1>1 DEF ClientType, ToldType
  <2>4. out \in Seq(RecordType) /\ late \in SUBSET RecordType
    BY <1>1
  <2> QED
    BY <1>1, <2>1, <2>2, <2>3, <2>4 DEF ClientTypes
<1>5. \A s \in Streams : /\ wire[s].frames = <<>> /\ wire[s].fin = FALSE /\ Len(wire[s].frames) = 0
                         /\ reader[s].pc = "off" /\ reader[s].msg = None /\ reader[s].told = None
  BY <1>1
<1>6. Carried
  BY <1>2, <1>5 DEF Carried
<1>7. WireGapless /\ Located
  BY <1>3 DEF WireGapless, Located
<1>8. Finished
  BY <1>5 DEF Finished
<1>9. InHands
  BY <1>1, <1>5 DEF InHands
<1>10. OutGapless
  BY <1>1 DEF OutGapless
<1>11. EndReached
  <2>1. End # None
    BY TransportsAssumption DEF End
  <2> QED
    BY <1>5, <2>1 DEF EndReached
<1> QED
  BY <1>4, <1>6, <1>7, <1>8, <1>9, <1>10, <1>11 DEF DeliveryInv

\* A lane that grows keeps what it notes.
LEMMA LaneGrows ==
    ASSUME NEW lane \in Seq(Streams), NEW q \in Streams, NEW n, NEW s
    PROVE  LET more == Append(lane, q) IN
           /\ InLane(lane, n, s) => InLane(more, n, s)
           /\ InLane(more, n, s) => InLane(lane, n, s) \/ (n = Len(lane) + 1 /\ s = q)
           /\ InLane(lane, n, s) => n \in Nat /\ n <= Len(lane)
           /\ InLane(more, Len(lane) + 1, q)
<1>1. /\ DOMAIN lane = 1 .. Len(lane) /\ Len(lane) \in Nat
      /\ DOMAIN Append(lane, q) = 1 .. Len(lane) + 1
      /\ \A i \in 1 .. Len(lane) : Append(lane, q)[i] = lane[i]
      /\ Append(lane, q)[Len(lane) + 1] = q
  OBVIOUS
<1> QED
  BY <1>1 DEF InLane

\* A step of the loop.
LEMMA DeliveryMoves ==
    ASSUME ServerInv, ServerInv', DeliveryInv, Moves(loop, loop', rx'.end),
           UNCHANGED <<subscription, wire, conn, clientVars>>,
           server # "ended", rx'.end = rx.end \/ rx.end = None
    PROVE  DeliveryInv'
<1>1. /\ UNCHANGED <<wire, conn, client, reader, late, out>>
      /\ loop \in LoopType /\ loop' \in LoopType /\ Quic' = Quic
  BY SubscriptionKept DEF clientVars, ServerInv, ServerTypes
<1>2. /\ loop.lane \in Seq(Streams) /\ Len(loop.lane) \in Nat
      /\ DOMAIN loop.lane = 1 .. Len(loop.lane)
  BY <1>1 DEF LoopType
<1>3. ASSUME NEW s \in Streams, NEW n
      PROVE  /\ InLane(loop.lane, n, s) => InLane(loop'.lane, n, s) /\ n \in Nat /\ n <= Len(loop.lane)
             /\ InLane(loop'.lane, n, s) =>
                   \/ InLane(loop.lane, n, s)
                   \/ /\ n = Len(loop.lane) + 1
                      /\ loop'.task[s] # None /\ ~loop'.task[s].written
                      /\ loop'.task[s].frame.msg = n
  <2>1. CASE loop'.lane = loop.lane
    BY <1>2, <2>1 DEF InLane
  <2>2. ASSUME NEW q \in Streams, loop'.lane = Append(loop.lane, q),
               loop'.task[q] # None, ~loop'.task[q].written,
               loop'.task[q].frame.msg = Len(loop.lane) + 1
        PROVE  /\ InLane(loop.lane, n, s) => InLane(loop'.lane, n, s) /\ n \in Nat /\ n <= Len(loop.lane)
               /\ InLane(loop'.lane, n, s) =>
                     \/ InLane(loop.lane, n, s)
                     \/ /\ n = Len(loop.lane) + 1
                        /\ loop'.task[s] # None /\ ~loop'.task[s].written
                        /\ loop'.task[s].frame.msg = n
    BY <1>2, <2>2, LaneGrows
  <2> QED
    BY <2>1, <2>2 DEF Moves
<1>4. ASSUME NEW s \in Streams, NEW f, FrameOf(s, f, loop.lane, rx.end)
      PROVE  FrameOf(s, f, loop'.lane, rx'.end)
  <2>1. rx.end \in DOMAIN CloseCode => rx'.end = rx.end
    BY CloseIs, TransportsAssumption
  <2> QED
    BY <1>3, <1>4, <2>1 DEF FrameOf
<1>5. \A n : Arrived(n)' <=> Arrived(n)
  BY <1>1 DEF Arrived
<1>6. ASSUME NEW s \in Streams, NEW n, NEW k, Passed(s, n, k)
      PROVE  Passed(s, n, k)'
  BY <1>1, <1>5, <1>6 DEF Passed
<1>7. Carried'
  <2>1. ASSUME NEW s \in Streams, loop'.task[s] # None
        PROVE  /\ FrameOf(s, loop'.task[s].frame, loop'.lane, rx'.end)
               /\ loop'.task[s].frame.cut = FALSE
    <3>1. CASE loop.task[s] # None /\ loop'.task[s].frame = loop.task[s].frame
      BY <1>4, <3>1 DEF DeliveryInv, Carried
    <3>2. CASE /\ loop'.lane = Append(loop.lane, s) /\ loop'.task[s].frame.msg = Len(loop.lane) + 1
               /\ loop'.task[s].frame.close = None /\ loop'.task[s].frame.cut = FALSE
      <4>1. InLane(loop'.lane, Len(loop.lane) + 1, s)
        BY <1>2, <3>2, LaneGrows
      <4> QED
        BY <3>2, <4>1 DEF FrameOf
    <3>3. CASE rx'.end \in DOMAIN CloseCode /\ loop'.task[s].frame = Close(rx'.end)
      BY <3>3, CloseIs DEF FrameOf
    <3> QED
      BY <2>1, <3>1, <3>2, <3>3 DEF Moves
  <2>2. ASSUME NEW s \in Streams, NEW i \in 1 .. Len(wire[s].frames)
        PROVE  /\ FrameOf(s, wire[s].frames[i], loop'.lane, rx'.end)
               /\ Quic => wire[s].frames[i].cut = FALSE
    BY <1>4 DEF DeliveryInv, Carried
  <2> QED
    BY <1>1, <2>1, <2>2 DEF Carried
<1>8. WireGapless'
  <2> SUFFICES ASSUME client.pc # "exited", NEW s \in Streams, NEW i \in 1 .. Len(wire[s].frames),
                      NEW n \in DOMAIN loop'.lane, wire[s].frames[i].msg # None,
                      InLane(loop'.lane, n, s), n < wire[s].frames[i].msg
               PROVE  Passed(s, n, i - 1)
    BY <1>1, <1>6 DEF WireGapless
  <2>1. FrameOf(s, wire[s].frames[i], loop.lane, rx.end)
    BY DEF DeliveryInv, Carried
  <2>2. InLane(loop.lane, wire[s].frames[i].msg, s)
    BY <2>1 DEF FrameOf
  <2>3. wire[s].frames[i].msg \in Nat /\ wire[s].frames[i].msg <= Len(loop.lane)
    BY <1>3, <2>2
  <2>4. InLane(loop.lane, n, s)
    BY <1>2, <1>3, <2>3
  <2>5. n \in DOMAIN loop.lane
    BY <2>4 DEF InLane
  <2> QED
    BY <2>4, <2>5 DEF DeliveryInv, WireGapless
<1>9. Located'
  <2> SUFFICES ASSUME conn = "open", NEW s \in Streams, NEW n \in DOMAIN loop'.lane,
                      InLane(loop'.lane, n, s),
                      ~(loop'.task[s] # None /\ ~loop'.task[s].written /\ loop'.task[s].frame.msg = n)
               PROVE  Passed(s, n, Len(wire[s].frames))
    BY <1>1, <1>6 DEF Located, Writing
  <2>1. InLane(loop.lane, n, s)
    BY <1>3
  <2>2. n \in DOMAIN loop.lane
    BY <2>1 DEF InLane
  <2>3. \/ Passed(s, n, Len(wire[s].frames))
        \/ loop.task[s] # None /\ ~loop.task[s].written /\ loop.task[s].frame.msg = n
    BY <2>1, <2>2 DEF DeliveryInv, Located, Writing
  <2> QED
    BY <2>3 DEF Moves
<1>10. Finished'
  BY <1>1 DEF DeliveryInv, Finished
<1>11. ASSUME NEW s \in Streams, NEW m, Reached(s, m)
       PROVE  Reached(s, m)'
  <2>1. InLane(loop.lane, m, s) /\ InLane(loop'.lane, m, s) /\ m \in Nat /\ m <= Len(loop.lane)
    BY <1>3, <1>11 DEF Reached
  <2>2. ASSUME NEW n \in DOMAIN loop'.lane, InLane(loop'.lane, n, s), n < m
        PROVE  Arrived(n)
    <3>1. InLane(loop.lane, n, s)
      BY <1>2, <1>3, <2>1, <2>2
    <3> QED
      BY <1>11, <2>2, <3>1 DEF Reached, InLane
  <2> QED
    BY <1>5, <2>1, <2>2 DEF Reached
<1>12. InHands'
  <2>1. ASSUME NEW r \in late PROVE Reached(r.via, r.msg)'
    <3>1. r.via \in Streams
      BY DEF DeliveryInv, ClientTypes, RecordType
    <3> QED
      BY <1>11, <3>1 DEF DeliveryInv, InHands
  <2> QED
    BY <1>1, <1>11, <2>1 DEF DeliveryInv, InHands
<1>13. OutGapless'
  <2> SUFFICES ASSUME NEW i \in 1 .. Len(out)
               PROVE  /\ InLane(loop'.lane, out[i].msg, out[i].via)
                      /\ \A n \in DOMAIN loop'.lane :
                            InLane(loop'.lane, n, out[i].via) /\ n < out[i].msg =>
                                \E j \in 1 .. i - 1 : out[j].msg = n
    BY <1>1 DEF OutGapless
  <2>1. out[i].via \in Streams
    <3>1. out[i] \in RecordType
      BY DEF DeliveryInv, ClientTypes
    <3> QED
      BY <3>1 DEF RecordType
  <2>2. InLane(loop.lane, out[i].msg, out[i].via)
    BY DEF DeliveryInv, OutGapless
  <2>3. out[i].msg \in Nat /\ out[i].msg <= Len(loop.lane) /\ InLane(loop'.lane, out[i].msg, out[i].via)
    BY <1>3, <2>1, <2>2
  <2>4. ASSUME NEW n \in DOMAIN loop'.lane, InLane(loop'.lane, n, out[i].via), n < out[i].msg
        PROVE  \E j \in 1 .. i - 1 : out[j].msg = n
    <3>1. InLane(loop.lane, n, out[i].via)
      BY <1>2, <1>3, <2>1, <2>3, <2>4
    <3> QED
      BY <2>4, <3>1 DEF DeliveryInv, OutGapless, InLane
  <2> QED
    BY <2>3, <2>4
<1>14. EndReached'
  BY <1>1 DEF DeliveryInv, EndReached
<1>15. ClientTypes'
  BY <1>1 DEF DeliveryInv, ClientTypes
<1> QED
  BY <1>7, <1>8, <1>9, <1>10, <1>12, <1>13, <1>14, <1>15 DEF DeliveryInv

\* The request: nothing was given to a stream before it.
LEMMA DeliveryRequest ==
    ASSUME ServerInv, DeliveryInv, NEW channel \in ChannelErrors \cup {None}, HandleRequest(channel),
           ServerInv'
    PROVE  DeliveryInv'
<1>1. /\ UNCHANGED <<subscription, wire, client, reader, late, out>>
      /\ server = "request" /\ conn = "open" /\ conn' \in {"open", "gone"}
  BY DEF HandleRequest, clientVars
<1>2. Quic' = Quic /\ rx.end \notin DOMAIN CloseCode
  <2>1. Quic' = Quic
    BY <1>1, SubscriptionKept
  <2>2. rx.end = None
    BY <1>1 DEF ServerInv, Phases
  <2>3. None \notin DOMAIN CloseCode
    BY TransportsAssumption, CloseIs
  <2> QED
    BY <2>1, <2>2, <2>3
<1>3. /\ loop.lane = <<>> /\ loop'.lane = <<>> /\ \A s \in Streams : loop'.task[s] = None
  <2>1. <<>> \in Seq(Streams)
    OBVIOUS
  <2>2. loop = Locals(<<>>)
    BY <1>1 DEF ServerInv, Phases
  <2>3. \E f \in Seq(Streams) : loop' = Locals(f)
    <3>1. CASE Refusal(channel) # None
      BY <2>1, <2>2, <3>1 DEF HandleRequest
    <3>2. CASE Refusal(channel) = None
      <4>1. loop' = Locals(IF Quic THEN [i \in 1 .. Request.recv_streams |-> i] ELSE <<>>)
        BY <3>2 DEF HandleRequest
      <4>2. CASE ~Quic
        BY <2>1, <4>1, <4>2
      <4>3. CASE Quic
        <5>1. Request.recv_streams \in 1 .. MaxRecvStreams /\ Request.recv_streams \in Nat
          BY <3>2, <4>3, ServedIs, SubscriptionIs DEF ServerInv, ServerTypes
        <5>2. MaxRecvStreams \in Nat
          BY TransportsAssumption
        <5>3. [i \in 1 .. Request.recv_streams |-> i] \in Seq(Streams)
          BY <5>1, <5>2 DEF Streams
        <5> QED
          BY <4>1, <4>3, <5>3
      <4> QED
        BY <4>2, <4>3
    <3> QED
      BY <3>1, <3>2
  <2>4. Locals(<<>>).lane = <<>>
    BY <2>1, LocalsIs
  <2>5. \A f \in Seq(Streams) : Locals(f).lane = <<>> /\ \A s \in Streams : Locals(f).task[s] = None
    BY LocalsIs
  <2> QED
    BY <2>2, <2>3, <2>4, <2>5
<1>4. DOMAIN loop.lane = {} /\ DOMAIN loop'.lane = {} /\ \A n, s : ~InLane(loop.lane, n, s)
  BY <1>3 DEF InLane
<1>5. \A s \in Streams : 1 .. Len(wire[s].frames) = {}
  <2> SUFFICES ASSUME NEW s \in Streams, NEW i \in 1 .. Len(wire[s].frames) PROVE FALSE
    OBVIOUS
  <2>1. FrameOf(s, wire[s].frames[i], loop.lane, rx.end)
    BY DEF DeliveryInv, Carried
  <2> QED
    BY <1>2, <1>4, <2>1 DEF FrameOf
<1>6. Carried'
  BY <1>1, <1>3, <1>5 DEF Carried
<1>7. WireGapless' /\ Located'
  BY <1>4 DEF WireGapless, Located
<1>8. Finished' /\ EndReached'
  BY <1>1 DEF DeliveryInv, Finished, EndReached
<1>9. \A s, m : ~Reached(s, m)
  BY <1>4 DEF Reached
<1>10. InHands'
  BY <1>1, <1>2, <1>9 DEF DeliveryInv, InHands
<1>11. OutGapless'
  BY <1>1, <1>4 DEF DeliveryInv, OutGapless
<1>12. ClientTypes'
  BY <1>1 DEF DeliveryInv, ClientTypes
<1> QED
  BY <1>6, <1>7, <1>8, <1>10, <1>11, <1>12 DEF DeliveryInv

\* What has arrived, and what is in hands, is not disturbed by the server and the
\* network.
LEMMA SidesKept ==
    ASSUME DeliveryInv,
           loop'.lane = loop.lane, UNCHANGED <<subscription, reader, late, out, client>>,
           conn' = conn \/ conn' = "gone",
           server = "ended" => server' = "ended"
    PROVE  /\ InHands' /\ OutGapless' /\ EndReached' /\ Quic' = Quic
           /\ \A n : Arrived(n)' <=> Arrived(n)
<1>1. Quic' = Quic
  BY SubscriptionKept
<1>2. \A n : Arrived(n)' <=> Arrived(n)
  BY DEF Arrived
<1>3. \A s \in Streams : \A m : Reached(s, m)' <=> Reached(s, m)
  BY <1>2 DEF Reached
<1>4. InHands'
  <2>1. \A r \in late : r.via \in Streams
    BY DEF DeliveryInv, ClientTypes, RecordType
  <2> QED
    BY <1>1, <1>3, <2>1 DEF DeliveryInv, InHands
<1>5. OutGapless'
  BY DEF DeliveryInv, OutGapless
<1>6. EndReached'
  BY <1>2 DEF DeliveryInv, EndReached
<1> QED
  BY <1>1, <1>2, <1>4, <1>5, <1>6

\* Steps in which nothing moves between the places of a message, and the connection
\* does not come back.
LEMMA DeliveryKept ==
    ASSUME DeliveryInv,
           loop'.lane = loop.lane, UNCHANGED <<subscription, rx, wire, reader, late, out, client>>,
           loop'.task = loop.task,
           conn' = conn \/ conn' = "gone",
           server = "ended" => server' = "ended"
    PROVE  DeliveryInv'
<1>1. /\ InHands' /\ OutGapless' /\ EndReached' /\ Quic' = Quic
      /\ \A n : Arrived(n)' <=> Arrived(n)
  BY SidesKept
<1>2. \A s \in Streams : \A n, k : Passed(s, n, k)' <=> Passed(s, n, k)
  BY <1>1 DEF Passed
<1>3. Carried'
  BY <1>1 DEF DeliveryInv, Carried
<1>4. WireGapless'
  BY <1>2 DEF DeliveryInv, WireGapless
<1>5. Located'
  BY <1>2 DEF DeliveryInv, Located, Writing
<1>6. Finished'
  BY <1>1, <1>2 DEF DeliveryInv, Finished
<1>7. ClientTypes'
  BY DEF DeliveryInv, ClientTypes
<1> QED
  BY <1>1, <1>3, <1>4, <1>5, <1>6, <1>7 DEF DeliveryInv

-----------------------------------------------------------------------------
(***************************************************************************)
(* The steps that keep the delivery: the server and the network            *)
(***************************************************************************)

\* The connection goes, and with it the ends of what is on the wires; FIN is kept
\* or follows all of it.
LEMMA DeliveryLess ==
    ASSUME DeliveryInv,
           UNCHANGED <<subscription, rx, loop, reader, late, out, client>>,
           conn' = "gone", server' = server \/ server' = "ended",
           wire' \in [Streams -> WireType],
           \A s \in Streams :
              /\ Len(wire'[s].frames) <= Len(wire[s].frames)
              /\ \A i \in 1 .. Len(wire'[s].frames) : wire'[s].frames[i] = wire[s].frames[i]
              /\ wire'[s].fin =>
                    /\ Len(wire'[s].frames) = Len(wire[s].frames)
                    /\ \/ wire[s].fin
                       \/ /\ server' = "ended"
                          /\ Quic => \A n \in DOMAIN loop.lane : InLane(loop.lane, n, s) =>
                                        Passed(s, n, Len(wire[s].frames))
    PROVE  DeliveryInv'
<1>1. /\ InHands' /\ OutGapless' /\ EndReached' /\ Quic' = Quic
      /\ \A n : Arrived(n)' <=> Arrived(n)
  BY SidesKept
<1>2. \A s \in Streams : Len(wire[s].frames) \in Nat /\ Len(wire'[s].frames) \in Nat
  BY DEF DeliveryInv, ClientTypes, WireType
<1>3. ASSUME NEW s \in Streams, NEW n, NEW k \in 0 .. Len(wire'[s].frames), Passed(s, n, k)
      PROVE  Passed(s, n, k)'
  <2>1. \A j \in 1 .. k : wire'[s].frames[j] = wire[s].frames[j]
    BY <1>2, <1>3
  <2> QED
    BY <1>1, <1>3, <2>1 DEF Passed
<1>4. \A s \in Streams : 1 .. Len(wire'[s].frames) \subseteq 1 .. Len(wire[s].frames)
  BY <1>2
<1>5. Carried'
  BY <1>1, <1>4 DEF DeliveryInv, Carried
<1>6. WireGapless'
  <2> SUFFICES ASSUME client.pc # "exited", NEW s \in Streams, NEW i \in 1 .. Len(wire'[s].frames),
                      NEW n \in DOMAIN loop.lane, wire'[s].frames[i].msg # None,
                      InLane(loop.lane, n, s), n < wire'[s].frames[i].msg
               PROVE  Passed(s, n, i - 1)'
    BY DEF WireGapless
  <2>1. Passed(s, n, i - 1)
    BY <1>4 DEF DeliveryInv, WireGapless
  <2>2. i - 1 \in 0 .. Len(wire'[s].frames)
    BY <1>2
  <2> QED
    BY <1>3, <2>1, <2>2
<1>7. Located'
  BY DEF Located
<1>8. Finished'
  <2> SUFFICES ASSUME NEW s \in Streams, wire'[s].fin
               PROVE  /\ server' = "ended"
                      /\ Quic /\ client.pc # "exited" =>
                            \A n \in DOMAIN loop.lane : InLane(loop.lane, n, s) =>
                                Passed(s, n, Len(wire[s].frames))'
    BY <1>1 DEF Finished
  <2>1. server' = "ended"
    BY DEF DeliveryInv, Finished
  <2>2. ASSUME Quic, client.pc # "exited", NEW n \in DOMAIN loop.lane, InLane(loop.lane, n, s)
        PROVE  Passed(s, n, Len(wire[s].frames))'
    <3>1. Passed(s, n, Len(wire[s].frames))
      BY <2>2 DEF DeliveryInv, Finished
    <3>2. Len(wire'[s].frames) = Len(wire[s].frames)
      OBVIOUS
    <3>3. PICK k : k = Len(wire[s].frames)
      OBVIOUS
    <3>4. k \in 0 .. Len(wire'[s].frames)
      BY <1>2, <3>2, <3>3
    <3>5. Passed(s, n, k)'
      BY <1>3, <3>1, <3>3, <3>4
    <3> QED
      BY <3>2, <3>3, <3>5
  <2> QED
    BY <2>1, <2>2
<1>9. ClientTypes'
  BY DEF DeliveryInv, ClientTypes
<1> QED
  BY <1>1, <1>5, <1>6, <1>7, <1>8, <1>9 DEF DeliveryInv

\* The frame of a task is put on its wire.
LEMMA DeliveryMore ==
    ASSUME DeliveryInv, NEW s \in Streams, NEW f \in Frame,
           loop \in LoopType, loop.task[s] # None, conn = "open",
           f.msg = loop.task[s].frame.msg, f.close = loop.task[s].frame.close,
           Quic => f.cut = FALSE,
           UNCHANGED <<subscription, rx, reader, late, out, client>>,
           wire' \in [Streams -> WireType],
           wire'[s].frames = Append(wire[s].frames, f),
           \A q \in Streams \ {s} : wire'[q].frames = wire[q].frames /\ loop'.task[q] = loop.task[q],
           \A q \in Streams : wire'[q].fin => wire[q].fin \/ (~Quic /\ server' = "ended"),
           loop'.lane = loop.lane,
           loop'.task[s] # None => loop'.task[s].frame = loop.task[s].frame,
           conn' = conn \/ conn' = "gone", server' = server \/ server' = "ended"
    PROVE  DeliveryInv'
<1>1. /\ InHands' /\ OutGapless' /\ EndReached' /\ Quic' = Quic
      /\ \A n : Arrived(n)' <=> Arrived(n)
  BY SidesKept
<1>2. \A q \in Streams : Len(wire[q].frames) \in Nat /\ wire[q].frames \in Seq(Frame)
  BY DEF DeliveryInv, ClientTypes, WireType
<1>3. /\ Len(wire'[s].frames) = Len(wire[s].frames) + 1
      /\ \A i \in 1 .. Len(wire[s].frames) : wire'[s].frames[i] = wire[s].frames[i]
      /\ wire'[s].frames[Len(wire[s].frames) + 1] = f
  BY <1>2
<1>4. ASSUME NEW q \in Streams, NEW n, NEW k \in 0 .. Len(wire[q].frames), Passed(q, n, k)
      PROVE  Passed(q, n, k)'
  <2>1. \A j \in 1 .. k : j \in 1 .. Len(wire[q].frames)
    BY <1>2, <1>4
  <2>2. \A j \in 1 .. k : wire'[q].frames[j] = wire[q].frames[j]
    BY <1>3, <2>1
  <2> QED
    BY <1>1, <1>4, <2>2 DEF Passed
<1>5. ASSUME NEW n, Passed(s, n, Len(wire[s].frames)) \/ f.msg = n
      PROVE  Passed(s, n, Len(wire[s].frames))'
  <2>1. PICK k : k = Len(wire[s].frames) + 1
    OBVIOUS
  <2>2. k \in Nat /\ 1 .. Len(wire[s].frames) \subseteq 1 .. k /\ k \in 1 .. k
    BY <1>2, <2>1
  <2>3. \A j \in 1 .. Len(wire[s].frames) : wire'[s].frames[j] = wire[s].frames[j]
    BY <1>3
  <2>4. Passed(s, n, k)'
    <3>1. CASE Passed(s, n, Len(wire[s].frames))
      BY <1>1, <2>2, <2>3, <3>1 DEF Passed
    <3>2. CASE f.msg = n
      <4>1. wire'[s].frames[k].msg = n
        BY <1>3, <2>1, <3>2
      <4> QED
        BY <2>2, <4>1 DEF Passed
    <3> QED
      BY <1>5, <3>1, <3>2
  <2> QED
    BY <1>3, <2>1, <2>4
<1>6. Carried'
  <2>1. ASSUME NEW q \in Streams, loop'.task[q] # None
        PROVE  loop.task[q] # None /\ loop'.task[q].frame = loop.task[q].frame
    BY <2>1
  <2>2. ASSUME NEW q \in Streams, NEW i \in 1 .. Len(wire'[q].frames)
        PROVE  /\ FrameOf(q, wire'[q].frames[i], loop.lane, rx.end)
               /\ Quic => wire'[q].frames[i].cut = FALSE
    <3>1. CASE q # s \/ i # Len(wire[s].frames) + 1
      <4>1. i \in 1 .. Len(wire[q].frames) /\ wire'[q].frames[i] = wire[q].frames[i]
        <5>1. CASE q # s
          BY <5>1
        <5>2. CASE q = s
          <6>1. i \in 1 .. Len(wire[s].frames)
            BY <1>2, <1>3, <2>2, <3>1, <5>2
          <6> QED
            BY <1>3, <5>2, <6>1
        <5> QED
          BY <5>1, <5>2
      <4> QED
        BY <4>1 DEF DeliveryInv, Carried
    <3>2. CASE q = s /\ i = Len(wire[s].frames) + 1
      <4>1. FrameOf(s, loop.task[s].frame, loop.lane, rx.end)
        BY DEF DeliveryInv, Carried
      <4>2. FrameOf(s, f, loop.lane, rx.end)
        BY <4>1 DEF FrameOf
      <4> QED
        BY <1>3, <3>2, <4>2
    <3> QED
      BY <3>1, <3>2
  <2> QED
    BY <1>1, <2>1, <2>2 DEF DeliveryInv, Carried
<1>7. ASSUME NEW n \in DOMAIN loop.lane, InLane(loop.lane, n, s)
      PROVE  Passed(s, n, Len(wire[s].frames)) \/ f.msg = n
  BY <1>7 DEF DeliveryInv, Located
<1>8. WireGapless'
  <2> SUFFICES ASSUME client.pc # "exited", NEW q \in Streams, NEW i \in 1 .. Len(wire'[q].frames),
                      NEW n \in DOMAIN loop.lane, wire'[q].frames[i].msg # None,
                      InLane(loop.lane, n, q), n < wire'[q].frames[i].msg
               PROVE  Passed(q, n, i - 1)'
    BY DEF WireGapless
  <2>1. CASE q # s \/ i # Len(wire[s].frames) + 1
    <3>1. i \in 1 .. Len(wire[q].frames) /\ wire'[q].frames[i] = wire[q].frames[i]
      <4>1. CASE q # s
        BY <4>1
      <4>2. CASE q = s
        <5>1. i \in 1 .. Len(wire[s].frames)
          BY <1>2, <1>3, <2>1, <4>2
        <5> QED
          BY <1>3, <4>2, <5>1
      <4> QED
        BY <4>1, <4>2
    <3>2. Passed(q, n, i - 1)
      BY <3>1 DEF DeliveryInv, WireGapless
    <3>3. i - 1 \in 0 .. Len(wire[q].frames)
      BY <1>2, <3>1
    <3> QED
      BY <1>4, <3>2, <3>3
  <2>2. CASE q = s /\ i = Len(wire[s].frames) + 1
    <3>1. n < f.msg /\ n \in Nat
      BY <1>3, <2>2, SMTT(30) DEF InLane, LoopType
    <3>2. f.msg \in Nat \cup {None} /\ f.msg # None
      BY <1>3, <2>2 DEF Frame
    <3>3. n # f.msg
      BY <3>1, <3>2
    <3>4. Passed(s, n, Len(wire[s].frames))
      BY <1>7, <2>2, <3>3
    <3>5. Len(wire[s].frames) \in 0 .. Len(wire[s].frames) /\ i - 1 = Len(wire[s].frames)
      BY <1>2, <2>2
    <3>6. PICK k : k = Len(wire[s].frames)
      OBVIOUS
    <3>7. Passed(s, n, k)'
      BY <1>4, <3>4, <3>5, <3>6
    <3>8. i - 1 = k
      BY <3>5, <3>6
    <3> QED
      BY <2>2, <3>7, <3>8
  <2> QED
    BY <2>1, <2>2
<1>9. Located'
  <2> SUFFICES ASSUME conn = "open", NEW q \in Streams, NEW n \in DOMAIN loop.lane,
                      InLane(loop.lane, n, q)
               PROVE  \/ Passed(q, n, Len(wire[q].frames))'
                      \/ (Writing(q) /\ loop.task[q].frame.msg = n)'
    BY DEF Located
  <2>1. CASE q = s
    BY <1>5, <1>7, <2>1
  <2>2. CASE q # s
    <3>1. Passed(q, n, Len(wire[q].frames)) \/ (Writing(q) /\ loop.task[q].frame.msg = n)
      BY DEF DeliveryInv, Located
    <3>2. wire'[q].frames = wire[q].frames /\ loop'.task[q] = loop.task[q]
      BY <2>2
    <3>3. PICK k : k = Len(wire[q].frames)
      OBVIOUS
    <3>4. k \in 0 .. Len(wire[q].frames) /\ k = Len(wire'[q].frames)
      BY <1>2, <3>2, <3>3
    <3>5. CASE Passed(q, n, Len(wire[q].frames))
      <4>1. Passed(q, n, k)'
        BY <1>4, <3>3, <3>4, <3>5
      <4> QED
        BY <3>4, <4>1
    <3> QED
      BY <3>1, <3>2, <3>5 DEF Writing
  <2> QED
    BY <2>1, <2>2
<1>10. Finished'
  <2> SUFFICES ASSUME NEW q \in Streams, wire'[q].fin
               PROVE  /\ server' = "ended"
                      /\ Quic /\ client.pc # "exited" =>
                            \A n \in DOMAIN loop.lane : InLane(loop.lane, n, q) =>
                                Passed(q, n, Len(wire[q].frames))'
    BY <1>1 DEF Finished
  <2>1. server' = "ended"
    BY DEF DeliveryInv, Finished
  <2>2. ASSUME Quic, client.pc # "exited", NEW n \in DOMAIN loop.lane, InLane(loop.lane, n, q)
        PROVE  Passed(q, n, Len(wire[q].frames))'
    <3>1. Passed(q, n, Len(wire[q].frames))
      BY <2>2 DEF DeliveryInv, Finished
    <3>2. CASE q = s
      BY <1>5, <3>1, <3>2
    <3>3. CASE q # s
      <4>1. PICK k : k = Len(wire[q].frames)
        OBVIOUS
      <4>2. k \in 0 .. Len(wire[q].frames) /\ k = Len(wire'[q].frames)
        BY <1>2, <3>3, <4>1
      <4>3. Passed(q, n, k)'
        BY <1>4, <3>1, <4>1, <4>2
      <4> QED
        BY <4>2, <4>3
    <3> QED
      BY <3>2, <3>3
  <2> QED
    BY <2>1, <2>2
<1>11. ClientTypes'
  BY DEF DeliveryInv, ClientTypes
<1> QED
  BY <1>1, <1>6, <1>8, <1>9, <1>10, <1>11 DEF DeliveryInv

\* A frame is written.
LEMMA DeliveryWritten ==
    ASSUME ServerInv, DeliveryInv, NEW s \in Streams, WriteFrame(s) PROVE DeliveryInv'
<1>1. /\ UNCHANGED <<subscription, rx, server, conn, reader, late, out, client>>
      /\ conn = "open" /\ wire' = [wire EXCEPT ![s].frames = Append(@, loop.task[s].frame)]
  BY DEF WriteFrame, clientVars
<1>2. /\ loop'.lane = loop.lane /\ loop.task[s] # None /\ loop.task[s].frame \in Frame
      /\ \A q \in Streams \ {s} : loop'.task[q] = loop.task[q]
      /\ loop'.task[s] # None => loop'.task[s].frame = loop.task[s].frame
  BY ServerWritten DEF Writing
<1>3. wire \in [Streams -> WireType] /\ loop \in LoopType
  BY DEF DeliveryInv, ClientTypes, ServerInv, ServerTypes
<1>4. PICK f \in Frame : f = loop.task[s].frame
  BY <1>2
<1>5. /\ wire' \in [Streams -> WireType]
      /\ wire'[s].fin = wire[s].fin
      /\ wire'[s].frames = Append(wire[s].frames, f)
      /\ \A q \in Streams \ {s} : wire'[q] = wire[q]
  BY <1>1, <1>3, <1>4, PutIs
<1>6. f.cut = FALSE
  BY <1>2, <1>4 DEF DeliveryInv, Carried
<1>7. /\ \A q \in Streams : wire'[q].fin => wire[q].fin
      /\ \A q \in Streams \ {s} : wire'[q].frames = wire[q].frames /\ loop'.task[q] = loop.task[q]
  BY <1>2, <1>5
<1>8. /\ f.msg = loop.task[s].frame.msg /\ f.close = loop.task[s].frame.close
      /\ Quic => f.cut = FALSE
  BY <1>4, <1>6
<1> HIDE DEF Quic
<1> QED
  BY <1>1, <1>2, <1>3, <1>5, <1>7, <1>8, DeliveryMore, ZenonT(30)

\* The socket is closed while its task writes.
LEMMA DeliveryKilled ==
    ASSUME ServerInv, DeliveryInv, Killed PROVE DeliveryInv'
<1> DEFINE part == IF loop.task[1] = None THEN <<>> ELSE <<[loop.task[1].frame EXCEPT !.cut = TRUE]>>
           w == [frames |-> wire[1].frames \o part, fin |-> TRUE]
<1>1. /\ UNCHANGED <<subscription, rx, loop, reader, late, out, client>>
      /\ conn = "open" /\ conn' = "gone" /\ server' = "ended" /\ ~Quic
  BY DEF Killed, clientVars, Quic
<1>2. wire' = [wire EXCEPT ![1] = w]
  BY DEF Killed
<1>3. 1 \in Streams /\ wire \in [Streams -> WireType] /\ loop \in LoopType
  BY StreamsFacts DEF DeliveryInv, ClientTypes, ServerInv, ServerTypes
<1>4. wire[1].frames \in Seq(Frame)
  BY <1>3 DEF WireType
<1>5. CASE loop.task[1] = None
  <2>1. wire[1].frames \o part = wire[1].frames
    BY <1>4, <1>5
  <2>2. w \in WireType /\ w.frames = wire[1].frames
    BY <1>4, <2>1 DEF WireType
  <2> HIDE DEF w
  <2>3. /\ wire' \in [Streams -> WireType]
        /\ \A s \in Streams : wire'[s].frames = wire[s].frames
    BY <1>2, <1>3, <2>2
  <2>4. \A s \in Streams : Len(wire[s].frames) \in Nat
    BY <1>3 DEF WireType
  <2> QED
    BY <1>1, <2>3, <2>4, DeliveryLess
<1>6. CASE loop.task[1] # None
  <2>1. loop.task[1].frame \in Frame
    BY <1>3, <1>6 DEF LoopType, Task
  <2>2. PICK f : f = [loop.task[1].frame EXCEPT !.cut = TRUE]
    OBVIOUS
  <2>3. f \in Frame /\ f.msg = loop.task[1].frame.msg /\ f.close = loop.task[1].frame.close
    BY <2>1, <2>2 DEF Frame
  <2>4. wire[1].frames \o part = Append(wire[1].frames, f)
    <3>1. part = <<f>>
      BY <1>6, <2>2
    <3> HIDE DEF part
    <3> QED
      BY <1>4, <2>3, <3>1
  <2>5. w = [frames |-> Append(wire[1].frames, f), fin |-> TRUE]
    BY <2>4
  <2>6. w \in WireType /\ w.frames = Append(wire[1].frames, f)
    <3>1. Append(wire[1].frames, f) \in Seq(Frame)
      BY <1>4, <2>3
    <3> HIDE DEF w
    <3> QED
      BY <2>5, <3>1 DEF WireType
  <2> HIDE DEF w
  <2>7. /\ wire' \in [Streams -> WireType] /\ wire'[1].frames = Append(wire[1].frames, f)
        /\ \A s \in Streams \ {1} : wire'[s].frames = wire[s].frames
    BY <1>2, <1>3, <2>6
  <2> QED
    BY <1>1, <1>3, <1>6, <2>3, <2>7, DeliveryMore
<1> QED
  BY <1>5, <1>6

\* The network fails.
LEMMA DeliveryLost ==
    ASSUME DeliveryInv, Lost PROVE DeliveryInv'
<1>1. /\ UNCHANGED <<subscription, rx, loop, server, reader, late, out, client>> /\ Disconnect(wire)
  BY DEF Lost, clientVars, serverVars
<1>2. wire \in [Streams -> WireType]
  BY DEF DeliveryInv, ClientTypes
<1>3. /\ conn' = "gone" /\ wire' \in [Streams -> WireType]
      /\ \A s \in Streams : wire'[s] \in Truncated(wire[s])
  BY <1>1, <1>2, DisconnectIs
<1>4. \A s \in Streams :
              /\ Len(wire'[s].frames) <= Len(wire[s].frames)
              /\ \A i \in 1 .. Len(wire'[s].frames) : wire'[s].frames[i] = wire[s].frames[i]
              /\ wire'[s].fin => wire[s].fin /\ Len(wire'[s].frames) = Len(wire[s].frames)
  BY <1>2, <1>3, TruncatedIs
<1> QED
  BY <1>1, <1>3, <1>4, DeliveryLess

\* All tasks have written, and the streams are finished.
LEMMA DeliveryFinish ==
    ASSUME ServerInv, DeliveryInv, Finish PROVE DeliveryInv'
<1> DEFINE w == [s \in Streams |-> [wire[s] EXCEPT !.fin = s <= Request.recv_streams]]
<1>1. /\ UNCHANGED <<subscription, rx, loop, reader, late, out, client>> /\ Disconnect(w)
      /\ conn = "open" /\ server' = "ended" /\ \A s \in Streams : ~Writing(s)
  BY DEF Finish, clientVars
<1>2. wire \in [Streams -> WireType]
  BY DEF DeliveryInv, ClientTypes
<1>3. w \in [Streams -> WireType] /\ \A s \in Streams : w[s].frames = wire[s].frames
  <2>1. ASSUME NEW s \in Streams
        PROVE  /\ [wire[s] EXCEPT !.fin = s <= Request.recv_streams] \in WireType
               /\ [wire[s] EXCEPT !.fin = s <= Request.recv_streams].frames = wire[s].frames
    <3>1. s \in Nat /\ Request.recv_streams \in Nat
      BY StreamsFacts, SubscriptionIs DEF ServerInv, ServerTypes
    <3>2. (s <= Request.recv_streams) = TRUE \/ (s <= Request.recv_streams) = FALSE
      BY <3>1
    <3>3. PICK b \in BOOLEAN : b = (s <= Request.recv_streams)
      BY <3>2, Zenon
    <3>4. [wire[s] EXCEPT !.fin = b] \in WireType /\ [wire[s] EXCEPT !.fin = b].frames = wire[s].frames
      BY <1>2 DEF WireType
    <3> QED
      BY <3>3, <3>4
  <2> QED
    BY <2>1
<1> HIDE DEF w
<1>4. /\ conn' = "gone" /\ wire' \in [Streams -> WireType]
      /\ \A s \in Streams : wire'[s] \in Truncated(w[s])
  BY <1>1, <1>3, DisconnectIs
<1>5. \A s \in Streams :
              /\ Len(wire'[s].frames) <= Len(w[s].frames)
              /\ \A i \in 1 .. Len(wire'[s].frames) : wire'[s].frames[i] = w[s].frames[i]
              /\ wire'[s].fin => Len(wire'[s].frames) = Len(w[s].frames)
  BY <1>3, <1>4, TruncatedIs
<1>6. \A s \in Streams : \A n \in DOMAIN loop.lane :
          InLane(loop.lane, n, s) => Passed(s, n, Len(wire[s].frames))
  BY <1>1 DEF DeliveryInv, Located
<1>7. \A s \in Streams :
              /\ Len(wire'[s].frames) <= Len(wire[s].frames)
              /\ \A i \in 1 .. Len(wire'[s].frames) : wire'[s].frames[i] = wire[s].frames[i]
              /\ wire'[s].fin => Len(wire'[s].frames) = Len(wire[s].frames)
  BY <1>3, <1>5
<1> QED
  BY <1>1, <1>4, <1>6, <1>7, DeliveryLess

\* The loops of TCP and gRPC end.
LEMMA DeliveryNone ==
    ASSUME DeliveryInv, StreamNone PROVE DeliveryInv'
<1> DEFINE w == [wire[1] EXCEPT !.fin = TRUE]
<1>1. /\ UNCHANGED <<subscription, rx, loop, reader, late, out, client>>
      /\ conn' = "gone" /\ server' = "ended" /\ ~Quic
  BY DEF StreamNone, StreamIdle, clientVars
<1>2. 1 \in Streams /\ wire \in [Streams -> WireType]
  BY StreamsFacts DEF DeliveryInv, ClientTypes
<1>3. wire' = [wire EXCEPT ![1] = w]
  BY DEF StreamNone
<1>4. w \in WireType /\ w.frames = wire[1].frames
  BY <1>2 DEF WireType
<1> HIDE DEF w
<1>5. /\ wire' \in [Streams -> WireType]
      /\ \A s \in Streams : wire'[s].frames = wire[s].frames
  BY <1>2, <1>3, <1>4
<1>6. \A s \in Streams : Len(wire[s].frames) \in Nat
  BY <1>2 DEF WireType
<1> QED
  BY <1>1, <1>5, <1>6, DeliveryLess

\* The other ends of the loop: nothing is moved.
LEMMA DeliveryEnds ==
    ASSUME ServerInv, DeliveryInv, EndStep PROVE DeliveryInv'
<1>1. CASE RecvNone \/ TaskFails
  <2>1. /\ UNCHANGED <<subscription, rx, loop, wire, conn, reader, late, out, client>>
        /\ server = "ended" => server' = "ended"
    BY <1>1 DEF RecvNone, TaskFails, clientVars
  <2> QED
    BY <2>1, DeliveryKept
<1> QED
  BY <1>1, DeliveryFinish, DeliveryNone, DeliveryKilled DEF EndStep

-----------------------------------------------------------------------------
(***************************************************************************)
(* The steps that keep the delivery: the client and the broker             *)
(***************************************************************************)

\* The client goes on, and nothing is moved; the readers of QUIC may start.
LEMMA DeliveryClient ==
    ASSUME DeliveryInv, client' \in ClientType, client.pc # "exited", client'.pc # "exited",
           UNCHANGED <<subscription, rx, server, loop, wire, conn, late, out>>,
           reader' \in [Streams -> ReaderType],
           \A s \in Streams :
              /\ reader'[s].msg = reader[s].msg /\ reader'[s].told = reader[s].told
              /\ reader'[s].pc = reader[s].pc \/ (Quic /\ reader[s].pc = "off" /\ reader'[s].pc = "read")
    PROVE  DeliveryInv'
<1>1. Quic' = Quic
  BY SubscriptionKept
<1>2. \A n : Arrived(n)' <=> Arrived(n)
  BY DEF Arrived
<1>3. \A s \in Streams : \A n, k : Passed(s, n, k)' <=> Passed(s, n, k)
  BY <1>2 DEF Passed
<1>4. \A s \in Streams : \A m : Reached(s, m)' <=> Reached(s, m)
  BY <1>2 DEF Reached
<1>5. Carried' /\ OutGapless'
  BY <1>1 DEF DeliveryInv, Carried, OutGapless
<1>6. WireGapless'
  BY <1>3 DEF DeliveryInv, WireGapless
<1>7. Located'
  BY <1>3 DEF DeliveryInv, Located, Writing
<1>8. Finished'
  BY <1>1, <1>3 DEF DeliveryInv, Finished
<1>9. InHands'
  <2>1. \A r \in late : Reached(r.via, r.msg)'
    <3>1. \A r \in late : r.via \in Streams
      BY DEF DeliveryInv, ClientTypes, RecordType
    <3> QED
      BY <1>4, <3>1 DEF DeliveryInv, InHands
  <2>2. ASSUME NEW s \in Streams
        PROVE  /\ reader'[s].pc = "send" <=> reader'[s].msg # None
               /\ reader'[s].msg # None => Reached(s, reader[s].msg)'
               /\ reader'[s].pc # "off" \/ reader'[s].told # None => Quic
    BY <1>4 DEF DeliveryInv, InHands
  <2> QED
    BY <1>1, <2>1, <2>2 DEF InHands
<1>10. EndReached'
  BY <1>2 DEF DeliveryInv, EndReached
<1>11. ClientTypes'
  BY DEF DeliveryInv, ClientTypes
<1> QED
  BY <1>5, <1>6, <1>7, <1>8, <1>9, <1>10, <1>11 DEF DeliveryInv

\* The process of the client ends.
LEMMA DeliveryExit ==
    ASSUME DeliveryInv, Exit PROVE DeliveryInv'
<1>1. /\ UNCHANGED <<subscription, rx, server, loop, wire, late, out>>
      /\ client.pc # "exited" /\ client' = [client EXCEPT !.pc = "exited"]
      /\ reader' = [s \in Streams |-> [reader[s] EXCEPT !.pc = "off", !.msg = None]]
      /\ conn' = "gone"
  BY DEF Exit, serverVars
<1>2. client' \in ClientType /\ client'.pc = "exited"
  BY <1>1 DEF DeliveryInv, ClientTypes, ClientType
<1>3. reader' \in [Streams -> ReaderType]
  BY <1>1 DEF DeliveryInv, ClientTypes, ReaderType
<1>4. \A s \in Streams : reader'[s].pc = "off" /\ reader'[s].msg = None /\ reader'[s].told = reader[s].told
  BY <1>1 DEF DeliveryInv, ClientTypes, ReaderType
<1>5. Quic' = Quic
  BY <1>1, SubscriptionKept
<1>6. \A n : Arrived(n)' <=> Arrived(n)
  BY <1>1 DEF Arrived
<1>7. \A s \in Streams : \A m : Reached(s, m)' <=> Reached(s, m)
  BY <1>1, <1>6 DEF Reached
<1>8. Carried' /\ OutGapless'
  <2>1. Carried'
    BY <1>1, <1>5 DEF DeliveryInv, Carried
  <2>2. loop' = loop /\ out' = out /\ OutGapless
    BY <1>1 DEF DeliveryInv
  <2>3. OutGapless'
    BY ONLY <2>2 DEF OutGapless
  <2> QED
    BY <2>1, <2>3
<1>9. WireGapless' /\ Located'
  BY <1>1, <1>2 DEF WireGapless, Located
<1>10. Finished'
  BY <1>1, <1>2 DEF DeliveryInv, Finished
<1>11. InHands'
  <2>1. \A r \in late : r.via \in Streams
    BY DEF DeliveryInv, ClientTypes, RecordType
  <2> QED
    BY <1>1, <1>4, <1>5, <1>7, <2>1 DEF DeliveryInv, InHands
<1>12. EndReached'
  BY <1>1, <1>4, <1>6 DEF DeliveryInv, EndReached
<1>13. ClientTypes'
  BY <1>1, <1>2, <1>3 DEF DeliveryInv, ClientTypes
<1> QED
  BY <1>8, <1>9, <1>10, <1>11, <1>12, <1>13 DEF DeliveryInv

\* A record is appended, before which nothing is missing.
LEMMA OutMore ==
    ASSUME OutGapless, out \in Seq(RecordType), loop \in LoopType, loop' = loop,
           NEW r \in RecordType, Reached(r.via, r.msg), out' = Append(out, r)
    PROVE  /\ OutGapless' /\ out' \in Seq(RecordType)
           /\ Arrived(r.msg)' /\ \A n : Arrived(n) => Arrived(n)'
           /\ \A s \in Streams : \A m : Reached(s, m) => Reached(s, m)'
<1>1. /\ Len(out) \in Nat /\ Len(out') = Len(out) + 1 /\ out' \in Seq(RecordType)
      /\ DOMAIN out = 1 .. Len(out) /\ DOMAIN out' = 1 .. Len(out) + 1
      /\ \A i \in 1 .. Len(out) : out'[i] = out[i]
      /\ out'[Len(out) + 1] = r
  OBVIOUS
<1>2. Arrived(r.msg)'
  <2>1. Len(out) + 1 \in DOMAIN out'
    BY <1>1
  <2> QED
    BY <1>1, <2>1 DEF Arrived
<1>3. ASSUME NEW n, Arrived(n) PROVE Arrived(n)'
  <2>1. PICK i \in 1 .. Len(out) : out[i].msg = n
    BY <1>1, <1>3 DEF Arrived
  <2>2. i \in DOMAIN out' /\ out'[i].msg = n
    BY <1>1, <2>1
  <2> QED
    BY <2>2 DEF Arrived
<1>4. OutGapless'
  <2> SUFFICES ASSUME NEW i \in 1 .. Len(out) + 1
               PROVE  /\ InLane(loop.lane, out'[i].msg, out'[i].via)
                      /\ \A n \in DOMAIN loop.lane :
                            InLane(loop.lane, n, out'[i].via) /\ n < out'[i].msg =>
                                \E j \in 1 .. i - 1 : out'[j].msg = n
    BY <1>1 DEF OutGapless
  <2>1. CASE i = Len(out) + 1
    <3>1. out'[i] = r /\ i - 1 = Len(out)
      BY <1>1, <2>1
    <3>2. InLane(loop.lane, r.msg, r.via)
      BY DEF Reached
    <3>3. ASSUME NEW n \in DOMAIN loop.lane, InLane(loop.lane, n, r.via), n < r.msg
          PROVE  \E j \in 1 .. Len(out) : out'[j].msg = n
      <4>1. Arrived(n)
        BY <3>3 DEF Reached
      <4>2. PICK j \in 1 .. Len(out) : out[j].msg = n
        BY <1>1, <4>1 DEF Arrived
      <4> QED
        BY <1>1, <4>2
    <3> QED
      BY <3>1, <3>2, <3>3
  <2>2. CASE i # Len(out) + 1
    <3>1. i \in 1 .. Len(out) /\ out'[i] = out[i]
      BY <1>1, <2>2
    <3>2. \A j \in 1 .. i - 1 : out'[j] = out[j]
      BY <1>1, <3>1
    <3> QED
      BY <3>1, <3>2 DEF OutGapless
  <2> QED
    BY <2>1, <2>2
<1>5. ASSUME NEW s \in Streams, NEW m, Reached(s, m) PROVE Reached(s, m)'
  BY <1>3, <1>5 DEF Reached
<1> QED
  BY <1>1, <1>2, <1>3, <1>4, <1>5

\* Steps that leave the wires alone and lose nothing.
LEMMA WiresKept ==
    ASSUME DeliveryInv, loop \in LoopType,
           UNCHANGED <<subscription, rx, server, loop, wire, conn, client>>,
           \A s \in Streams : \A n, k : n # None /\ Passed(s, n, k) => Passed(s, n, k)'
    PROVE  Carried' /\ WireGapless' /\ Located' /\ Finished' /\ Quic' = Quic
<1>1. Quic' = Quic
  BY SubscriptionKept
<1>2. \A n \in DOMAIN loop.lane : n # None
  <2>1. DOMAIN loop.lane = 1 .. Len(loop.lane) /\ Len(loop.lane) \in Nat
    BY DEF LoopType
  <2> QED
    BY <2>1, TransportsAssumption
<1>3. Carried'
  BY <1>1 DEF DeliveryInv, Carried
<1>4. WireGapless'
  BY <1>2 DEF DeliveryInv, WireGapless
<1>5. Located'
  BY <1>2 DEF DeliveryInv, Located, Writing
<1>6. Finished'
  BY <1>1, <1>2 DEF DeliveryInv, Finished
<1> QED
  BY <1>1, <1>3, <1>4, <1>5, <1>6

\* The broker has the record of a reader.
LEMMA DeliverySent ==
    ASSUME DeliveryInv, loop \in LoopType, NEW s \in Streams, SendOk(s) PROVE DeliveryInv'
<1>1. /\ UNCHANGED <<subscription, rx, server, loop, wire, conn, client, late>>
      /\ reader[s].pc = "send" /\ out' = Append(out, Record(s))
      /\ reader' = [reader EXCEPT ![s] = [reader[s] EXCEPT !.pc = "read", !.msg = None]]
  BY DEF SendOk, serverVars
<1>2. /\ reader \in [Streams -> ReaderType] /\ out \in Seq(RecordType) /\ OutGapless
      /\ reader[s].msg # None /\ Reached(s, reader[s].msg)
  BY <1>1 DEF DeliveryInv, ClientTypes, InHands
<1>3. Record(s) \in RecordType /\ Record(s).msg = reader[s].msg /\ Record(s).via = s
  BY <1>2 DEF Record, RecordType, ReaderType
<1>4. PICK r \in RecordType : r = Record(s)
  BY <1>3
<1>5. /\ OutGapless' /\ out' \in Seq(RecordType)
      /\ Arrived(r.msg)' /\ \A n : Arrived(n) => Arrived(n)'
      /\ \A q \in Streams : \A m : Reached(q, m) => Reached(q, m)'
  BY <1>1, <1>2, <1>3, <1>4, OutMore
<1>6. /\ reader' \in [Streams -> ReaderType]
      /\ reader'[s].pc = "read" /\ reader'[s].msg = None /\ reader'[s].told = reader[s].told
      /\ \A q \in Streams \ {s} : reader'[q] = reader[q]
  BY <1>1, <1>2 DEF ReaderType
<1>7. ASSUME NEW q \in Streams, NEW n, NEW k, n # None, Passed(q, n, k)
      PROVE  Passed(q, n, k)'
  <2>1. CASE q = s /\ n = reader[s].msg
    BY <1>3, <1>4, <1>5, <2>1 DEF Passed
  <2>2. CASE q # s \/ n # reader[s].msg
    BY <1>1, <1>5, <1>6, <1>7, <2>2 DEF Passed
  <2> QED
    BY <2>1, <2>2
<1>8. Carried' /\ WireGapless' /\ Located' /\ Finished' /\ Quic' = Quic
  BY <1>1, <1>7, WiresKept
<1>9. InHands'
  <2>1. \A x \in late : Reached(x.via, x.msg)'
    <3>1. \A x \in late : x.via \in Streams
      BY DEF DeliveryInv, ClientTypes, RecordType
    <3> QED
      BY <1>5, <3>1 DEF DeliveryInv, InHands
  <2>2. ASSUME NEW q \in Streams
        PROVE  /\ reader'[q].pc = "send" <=> reader'[q].msg # None
               /\ reader'[q].msg # None => Reached(q, reader[q].msg)'
               /\ reader'[q].pc # "off" \/ reader'[q].told # None => Quic
               /\ reader'[q].pc # "off" => client.pc # "exited"
    <3>1. CASE q = s
      BY <1>1, <1>6, <3>1 DEF DeliveryInv, InHands
    <3>2. CASE q # s
      BY <1>5, <1>6, <3>2 DEF DeliveryInv, InHands
    <3> QED
      BY <3>1, <3>2
  <2> QED
    BY <1>1, <1>8, <2>1, <2>2 DEF DeliveryInv, InHands
<1>10. EndReached'
  <2>1. \A q \in Streams : reader'[q].told = reader[q].told
    BY <1>6
  <2> QED
    BY <1>1, <1>5, <2>1 DEF DeliveryInv, EndReached
<1>11. ClientTypes'
  BY <1>1, <1>5, <1>6 DEF DeliveryInv, ClientTypes
<1> QED
  BY <1>5, <1>8, <1>9, <1>10, <1>11 DEF DeliveryInv

\* A send is reported as failed, or a record of such a send is appended after all.
LEMMA DeliveryFaults ==
    ASSUME DeliveryInv, loop \in LoopType,
           (\E s \in Streams : SendFails(s)) \/ (\E r \in late : AppendLate(r))
    PROVE  DeliveryInv'
<1>1. UNCHANGED <<subscription, rx, server, loop, wire, conn, client, reader>>
  BY DEF SendFails, AppendLate, serverVars
<1>2. ASSUME /\ OutGapless' /\ out' \in Seq(RecordType)
             /\ \A n : Arrived(n) => Arrived(n)'
             /\ \A q \in Streams : \A m : Reached(q, m) => Reached(q, m)',
             late' \in SUBSET RecordType, \A r \in late' : Reached(r.via, r.msg)'
      PROVE  DeliveryInv'
  <2>1. \A q \in Streams : \A n, k : Passed(q, n, k) => Passed(q, n, k)'
    BY <1>1, <1>2 DEF Passed
  <2>2. Carried' /\ WireGapless' /\ Located' /\ Finished' /\ Quic' = Quic
    BY <1>1, <2>1, WiresKept
  <2>3. InHands'
    BY <1>1, <1>2, <2>2 DEF DeliveryInv, InHands
  <2>4. EndReached'
    BY <1>1, <1>2 DEF DeliveryInv, EndReached
  <2>5. ClientTypes'
    BY <1>1, <1>2 DEF DeliveryInv, ClientTypes
  <2> QED
    BY <1>2, <2>2, <2>3, <2>4, <2>5 DEF DeliveryInv
<1>3. \A x \in late : x \in RecordType /\ x.via \in Streams /\ Reached(x.via, x.msg)
  BY DEF DeliveryInv, ClientTypes, RecordType, InHands
<1>4. ASSUME NEW s \in Streams, SendFails(s) PROVE DeliveryInv'
  <2>1. out' = out /\ reader[s].pc = "send" /\ late' \in {late, late \cup {Record(s)}}
    BY <1>4 DEF SendFails
  <2>2. Record(s) \in RecordType /\ Record(s).msg = reader[s].msg /\ Record(s).via = s
    BY DEF DeliveryInv, ClientTypes, Record, RecordType, ReaderType
  <2>3. Reached(s, reader[s].msg)
    BY <2>1 DEF DeliveryInv, InHands
  <2>4. \A n : Arrived(n) <=> Arrived(n)'
    BY <2>1 DEF Arrived
  <2>5. \A q \in Streams : \A m : Reached(q, m) => Reached(q, m)'
    BY <1>1, <2>4 DEF Reached
  <2>6. OutGapless' /\ out' \in Seq(RecordType)
    BY <1>1, <2>1 DEF DeliveryInv, OutGapless, ClientTypes
  <2>7. \A x \in late' : x \in RecordType /\ x.via \in Streams /\ Reached(x.via, x.msg)
    BY <1>3, <2>1, <2>2, <2>3
  <2>8. late' \in SUBSET RecordType /\ \A x \in late' : Reached(x.via, x.msg)'
    BY <2>5, <2>7
  <2> QED
    BY <1>2, <2>4, <2>5, <2>6, <2>8
<1>5. ASSUME NEW r \in late, AppendLate(r) PROVE DeliveryInv'
  <2>1. out' = Append(out, r) /\ late' = late \ {r}
    BY <1>5 DEF AppendLate
  <2>2. OutGapless /\ out \in Seq(RecordType) /\ r \in RecordType /\ Reached(r.via, r.msg)
    BY <1>3 DEF DeliveryInv, ClientTypes
  <2>3. /\ OutGapless' /\ out' \in Seq(RecordType)
        /\ \A n : Arrived(n) => Arrived(n)'
        /\ \A q \in Streams : \A m : Reached(q, m) => Reached(q, m)'
    BY <1>1, <2>1, <2>2, OutMore
  <2>4. late' \in SUBSET RecordType /\ \A x \in late' : Reached(x.via, x.msg)'
    BY <1>3, <2>1, <2>3
  <2> QED
    BY <1>2, <2>3, <2>4
<1> QED
  BY <1>4, <1>5

\* The first frame of a wire is a message; it goes to the reader or arrives at once.
LEMMA DeliveryConsume ==
    ASSUME DeliveryInv, loop \in LoopType, NEW s \in Streams, IsData(s), Consume(s),
           reader[s].msg = None, client.pc # "exited", client' = client,
           UNCHANGED <<subscription, rx, server, loop, conn>>,
           \A n : Arrived(n) => Arrived(n)',
           NEW m, m = Head(Frames(s)).msg, Arrived(m)' \/ reader'[s].msg = m,
           \A q \in Streams \ {s} : reader'[q].msg = reader[q].msg
    PROVE  Carried' /\ WireGapless' /\ Located' /\ Finished' /\ Quic' = Quic
<1>1. wire \in [Streams -> WireType] /\ Frames(s) # <<>> /\ Frames(s) = wire[s].frames
  BY DEF DeliveryInv, ClientTypes, IsData, Frames
<1>2. /\ m = wire[s].frames[1].msg
      /\ wire'[s].fin = wire[s].fin
      /\ Len(wire'[s].frames) = Len(wire[s].frames) - 1
      /\ \A i \in 1 .. Len(wire[s].frames) - 1 : wire'[s].frames[i] = wire[s].frames[i + 1]
      /\ \A q \in Streams \ {s} : wire'[q] = wire[q]
  BY <1>1, ConsumeIs
<1>3. /\ Len(wire[s].frames) \in Nat /\ Len(wire[s].frames) >= 1
      /\ \A q \in Streams : Len(wire[q].frames) \in Nat
  BY <1>1 DEF WireType
<1>4. Quic' = Quic
  BY SubscriptionKept
<1>5. \A n \in DOMAIN loop.lane : n # None
  <2>1. DOMAIN loop.lane = 1 .. Len(loop.lane) /\ Len(loop.lane) \in Nat
    BY DEF LoopType
  <2> QED
    BY <2>1, TransportsAssumption
<1>6. ASSUME NEW q \in Streams \ {s}, NEW n, NEW k, Passed(q, n, k)
      PROVE  Passed(q, n, k)'
  BY <1>2, <1>6 DEF Passed
<1>7. ASSUME NEW n \in DOMAIN loop.lane, NEW k \in 1 .. Len(wire[s].frames), Passed(s, n, k)
      PROVE  Passed(s, n, k - 1)'
  <2>1. CASE Arrived(n)
    BY <2>1 DEF Passed
  <2>2. CASE n = m
    BY <2>2 DEF Passed
  <2>3. ASSUME NEW j \in 1 .. k, wire[s].frames[j].msg = n, n # m
        PROVE  Passed(s, n, k - 1)'
    <3>1. j # 1
      BY <1>2, <2>3
    <3>2. j - 1 \in 1 .. k - 1 /\ j - 1 \in 1 .. Len(wire[s].frames) - 1 /\ (j - 1) + 1 = j
      BY <1>3, <1>7, <2>3, <3>1
    <3>3. wire'[s].frames[j - 1] = wire[s].frames[(j - 1) + 1]
      BY <1>2, <3>2
    <3>4. wire'[s].frames[j - 1].msg = n
      BY <2>3, <3>2, <3>3
    <3> QED
      BY <3>2, <3>4 DEF Passed
  <2> QED
    BY <1>5, <1>7, <2>1, <2>2, <2>3 DEF Passed
<1>8. Carried'
  <2>1. ASSUME NEW q \in Streams, NEW i \in 1 .. Len(wire'[q].frames)
        PROVE  /\ FrameOf(q, wire'[q].frames[i], loop.lane, rx.end)
               /\ Quic => wire'[q].frames[i].cut = FALSE
    <3>1. CASE q = s
      <4>1. i \in 1 .. Len(wire[s].frames) - 1 /\ i + 1 \in 1 .. Len(wire[s].frames)
        BY <1>2, <1>3, <3>1
      <4>2. wire'[s].frames[i] = wire[s].frames[i + 1]
        BY <1>2, <4>1
      <4> QED
        BY <3>1, <4>1, <4>2 DEF DeliveryInv, Carried
    <3>2. CASE q # s
      BY <1>2, <3>2 DEF DeliveryInv, Carried
    <3> QED
      BY <3>1, <3>2
  <2> QED
    BY <1>4, <2>1 DEF DeliveryInv, Carried
<1>9. WireGapless'
  <2> SUFFICES ASSUME NEW q \in Streams, NEW i \in 1 .. Len(wire'[q].frames),
                      NEW n \in DOMAIN loop.lane, wire'[q].frames[i].msg # None,
                      InLane(loop.lane, n, q), n < wire'[q].frames[i].msg
               PROVE  Passed(q, n, i - 1)'
    BY DEF WireGapless
  <2>1. CASE q = s
    <3>1. i \in 1 .. Len(wire[s].frames) - 1 /\ i + 1 \in 1 .. Len(wire[s].frames)
      BY <1>2, <1>3, <2>1
    <3>2. wire'[s].frames[i] = wire[s].frames[i + 1]
      BY <1>2, <3>1
    <3>3. Passed(s, n, (i + 1) - 1)
      BY <2>1, <3>1, <3>2 DEF DeliveryInv, WireGapless
    <3>4. i \in 1 .. Len(wire[s].frames) /\ (i + 1) - 1 = i
      BY <1>3, <3>1
    <3>5. Passed(s, n, i)
      BY <3>3, <3>4
    <3> QED
      BY <1>7, <2>1, <3>4, <3>5
  <2>2. CASE q # s
    <3>1. wire'[q] = wire[q]
      BY <1>2, <2>2
    <3>2. Passed(q, n, i - 1)
      BY <3>1 DEF DeliveryInv, WireGapless
    <3> QED
      BY <1>6, <2>2, <3>2
  <2> QED
    BY <2>1, <2>2
<1>10. ASSUME NEW q \in Streams, NEW n \in DOMAIN loop.lane, Passed(q, n, Len(wire[q].frames))
       PROVE  Passed(q, n, Len(wire[q].frames))'
  <2>1. PICK k : k = Len(wire[q].frames)
    OBVIOUS
  <2>2. CASE q = s
    <3>1. k \in 1 .. Len(wire[s].frames) /\ k - 1 = Len(wire'[s].frames)
      BY <1>2, <1>3, <2>1, <2>2
    <3>2. Passed(s, n, k - 1)'
      BY <1>7, <1>10, <2>1, <2>2, <3>1
    <3> QED
      BY <2>2, <3>1, <3>2
  <2>3. CASE q # s
    <3>1. k = Len(wire'[q].frames)
      BY <1>2, <2>1, <2>3
    <3>2. Passed(q, n, k)'
      BY <1>6, <1>10, <2>1, <2>3
    <3> QED
      BY <3>1, <3>2
  <2> QED
    BY <2>2, <2>3
<1>11. Located'
  BY <1>10 DEF DeliveryInv, Located, Writing
<1>12. Finished'
  <2>1. \A q \in Streams : wire'[q].fin = wire[q].fin
    BY <1>2
  <2> QED
    BY <1>4, <1>10, <2>1 DEF DeliveryInv, Finished
<1> QED
  BY <1>4, <1>8, <1>9, <1>11, <1>12

\* The message at the head of a wire is the next of its stream.
LEMMA HeadReached ==
    ASSUME DeliveryInv, loop \in LoopType, NEW s \in Streams, IsData(s),
           reader[s].msg = None, client.pc # "exited"
    PROVE  /\ Head(Frames(s)).msg \in Nat /\ Head(Frames(s)).msg # None
           /\ Reached(s, Head(Frames(s)).msg)
<1> DEFINE m == Head(Frames(s)).msg
<1>1. /\ wire \in [Streams -> WireType] /\ wire[s].frames # <<>>
      /\ Head(Frames(s)).close = None /\ Frames(s) = wire[s].frames
  BY DEF DeliveryInv, ClientTypes, IsData, Frames
<1>2. 1 \in 1 .. Len(wire[s].frames) /\ Head(Frames(s)) = wire[s].frames[1]
  BY <1>1 DEF WireType
<1>3. FrameOf(s, wire[s].frames[1], loop.lane, rx.end)
  BY <1>2 DEF DeliveryInv, Carried
<1>4. \A e \in DOMAIN CloseCode : CloseCode[e] # None
  <2>1. \A e \in DOMAIN CloseCode : CloseCode[e] = 0 \/ CloseCode[e] = 1
    BY CloseIs
  <2> QED
    BY <2>1, TransportsAssumption
<1>5. InLane(loop.lane, m, s) /\ m = wire[s].frames[1].msg
  BY <1>1, <1>2, <1>3, <1>4 DEF FrameOf
<1>6. \A n \in DOMAIN loop.lane : n \in Nat /\ n # None
  <2>1. DOMAIN loop.lane = 1 .. Len(loop.lane) /\ Len(loop.lane) \in Nat
    BY DEF LoopType
  <2> QED
    BY <2>1, TransportsAssumption
<1>7. m \in Nat /\ m # None
  BY <1>5, <1>6 DEF InLane
<1> HIDE DEF m
<1>8. ASSUME NEW n \in DOMAIN loop.lane, InLane(loop.lane, n, s), n < m PROVE Arrived(n)
  <2>1. Passed(s, n, 1 - 1)
    BY <1>2, <1>5, <1>7, <1>8 DEF DeliveryInv, WireGapless
  <2>2. 1 .. 1 - 1 = {}
    OBVIOUS
  <2> QED
    BY <1>6, <2>1, <2>2 DEF Passed
<1> QED
  BY <1>5, <1>7, <1>8 DEF Reached, m

\* A stream of TCP or gRPC yields a message.
LEMMA DeliveryPolled ==
    ASSUME DeliveryInv, loop \in LoopType, PollMessage PROVE DeliveryInv'
<1>1. /\ UNCHANGED <<subscription, rx, server, loop, conn, client, reader, late>>
      /\ ~Quic /\ client.pc # "exited" /\ IsData(1) /\ Consume(1)
      /\ out' = Append(out, [msg |-> Head(Frames(1)).msg, via |-> 1])
  BY DEF PollMessage, serverVars
<1>2. 1 \in Streams /\ reader \in [Streams -> ReaderType]
  BY StreamsFacts DEF DeliveryInv, ClientTypes
<1>3. reader[1].msg = None
  BY <1>1, <1>2 DEF DeliveryInv, InHands
<1>4. /\ Head(Frames(1)).msg \in Nat /\ Reached(1, Head(Frames(1)).msg)
  BY <1>1, <1>2, <1>3, HeadReached
<1>5. PICK r : r = [msg |-> Head(Frames(1)).msg, via |-> 1]
  OBVIOUS
<1>6. r \in RecordType /\ r.msg = Head(Frames(1)).msg /\ r.via = 1
  BY <1>2, <1>4, <1>5 DEF RecordType
<1>7. /\ OutGapless' /\ out' \in Seq(RecordType)
      /\ Arrived(r.msg)' /\ \A n : Arrived(n) => Arrived(n)'
      /\ \A q \in Streams : \A m : Reached(q, m) => Reached(q, m)'
  BY <1>1, <1>4, <1>5, <1>6, OutMore DEF DeliveryInv, ClientTypes
<1>8. Carried' /\ WireGapless' /\ Located' /\ Finished' /\ Quic' = Quic
  <2>1. PICK m : m = Head(Frames(1)).msg
    OBVIOUS
  <2>2. Arrived(m)'
    BY <1>6, <1>7, <2>1
  <2> QED
    BY <1>1, <1>2, <1>3, <1>7, <2>1, <2>2, DeliveryConsume
<1>9. InHands'
  <2>1. \A x \in late : x.via \in Streams
    BY DEF DeliveryInv, ClientTypes, RecordType
  <2> QED
    BY <1>1, <1>7, <1>8, <2>1 DEF DeliveryInv, InHands
<1>10. EndReached'
  BY <1>1, <1>7 DEF DeliveryInv, EndReached
<1>11. wire' \in [Streams -> WireType]
  BY <1>1, <1>2, ConsumeIs DEF DeliveryInv, ClientTypes, IsData
<1>12. ClientTypes'
  BY <1>1, <1>7, <1>11 DEF DeliveryInv, ClientTypes
<1> QED
  BY <1>7, <1>8, <1>9, <1>10, <1>12 DEF DeliveryInv

\* A reader of QUIC takes a message, or comes to an end.
LEMMA DeliveryReader ==
    ASSUME DeliveryInv, loop \in LoopType, NEW s \in Streams, ReaderNext(s) PROVE DeliveryInv'
<1>1. /\ UNCHANGED <<subscription, rx, server, loop, conn, client, late, out>>
      /\ reader[s].pc = "read"
  BY DEF ReaderNext, serverVars
<1>2. /\ reader \in [Streams -> ReaderType] /\ wire \in [Streams -> WireType]
      /\ reader[s].msg = None /\ Quic /\ client.pc # "exited"
  BY <1>1 DEF DeliveryInv, ClientTypes, InHands
<1>3. \A n : Arrived(n) <=> Arrived(n)'
  BY <1>1 DEF Arrived
<1>4. \A q \in Streams : \A m : Reached(q, m) => Reached(q, m)'
  BY <1>1, <1>3 DEF Reached
<1>5. OutGapless' /\ Quic' = Quic
  <2>1. OutGapless'
    BY <1>1 DEF DeliveryInv, OutGapless
  <2> QED
    BY <1>1, <2>1, SubscriptionKept
<1>6. \A x \in late' : Reached(x.via, x.msg)'
  <2>1. \A x \in late : x.via \in Streams
    BY DEF DeliveryInv, ClientTypes, RecordType
  <2> QED
    BY <1>1, <1>4, <2>1 DEF DeliveryInv, InHands
<1>7. CASE IsData(s)
  <2>1. PICK m : m = Head(Frames(s)).msg
    OBVIOUS
  <2>2. m \in Nat /\ m # None /\ Reached(s, m)
    BY <1>2, <1>7, <2>1, HeadReached
  <2>3. /\ reader' = [reader EXCEPT ![s] = [reader[s] EXCEPT !.pc = "send", !.msg = m]]
        /\ Consume(s)
    BY <1>7, <2>1 DEF ReaderNext
  <2>4. /\ reader' \in [Streams -> ReaderType]
        /\ reader'[s].pc = "send" /\ reader'[s].msg = m /\ reader'[s].told = reader[s].told
        /\ \A q \in Streams \ {s} : reader'[q] = reader[q]
    BY <1>2, <2>2, <2>3 DEF ReaderType
  <2>5. Carried' /\ WireGapless' /\ Located' /\ Finished'
    BY <1>1, <1>2, <1>3, <1>7, <2>1, <2>3, <2>4, DeliveryConsume
  <2>6. InHands'
    <3>1. ASSUME NEW q \in Streams
          PROVE  /\ reader'[q].pc = "send" <=> reader'[q].msg # None
                 /\ reader'[q].msg # None => Reached(q, reader[q].msg)'
                 /\ reader'[q].pc # "off" \/ reader'[q].told # None => Quic
                 /\ reader'[q].pc # "off" => client.pc # "exited"
      <4>1. CASE q = s
        <5>1. Reached(s, m)'
          BY <1>4, <2>2
        <5> QED
          BY <1>2, <2>2, <2>4, <4>1, <5>1
      <4>2. CASE q # s
        BY <1>2, <1>4, <2>4, <4>2 DEF DeliveryInv, InHands
      <4> QED
        BY <4>1, <4>2
    <3> QED
      BY <1>1, <1>5, <1>6, <3>1 DEF DeliveryInv, InHands
  <2>7. EndReached'
    <3>1. \A q \in Streams : reader'[q].told = reader[q].told
      BY <2>4
    <3> QED
      BY <1>1, <1>3, <3>1 DEF DeliveryInv, EndReached
  <2>8. wire' \in [Streams -> WireType]
    BY <1>2, <1>7, <2>3, ConsumeIs DEF IsData
  <2>9. ClientTypes'
    BY <1>1, <2>4, <2>8 DEF DeliveryInv, ClientTypes
  <2> QED
    BY <1>5, <2>5, <2>6, <2>7, <2>9 DEF DeliveryInv
<1>8. CASE ~IsData(s)
  <2>1. PICK told : told = ReadEnd(s)
    OBVIOUS
  <2>2. told \in ToldType
    BY <1>2, <1>8, <2>1, ReadEndTyped
  <2>3. /\ reader' = [reader EXCEPT ![s] = [reader[s] EXCEPT !.pc = "ended", !.told = told]]
        /\ wire' = wire
    BY <1>8, <2>1 DEF ReaderNext
  <2>4. /\ reader' \in [Streams -> ReaderType]
        /\ reader'[s].pc = "ended" /\ reader'[s].msg = None /\ reader'[s].told = told
        /\ \A q \in Streams \ {s} : reader'[q] = reader[q]
    BY <1>2, <2>2, <2>3 DEF ReaderType
  <2>5. \A q \in Streams : reader'[q].msg = reader[q].msg
    BY <1>2, <2>4
  <2>6. \A q \in Streams : \A n, k : Passed(q, n, k) => Passed(q, n, k)'
    BY <1>3, <2>3, <2>5 DEF Passed
  <2>7. Carried' /\ WireGapless' /\ Located' /\ Finished'
    BY <1>1, <2>3, <2>6, WiresKept
  <2>8. InHands'
    <3>1. ASSUME NEW q \in Streams
          PROVE  /\ reader'[q].pc = "send" <=> reader'[q].msg # None
                 /\ reader'[q].msg # None => Reached(q, reader[q].msg)'
                 /\ reader'[q].pc # "off" \/ reader'[q].told # None => Quic
                 /\ reader'[q].pc # "off" => client.pc # "exited"
      <4>1. CASE q = s
        BY <1>2, <2>4, <4>1
      <4>2. CASE q # s
        BY <1>2, <1>4, <2>4, <4>2 DEF DeliveryInv, InHands
      <4> QED
        BY <4>1, <4>2
    <3> QED
      BY <1>1, <1>5, <1>6, <3>1 DEF DeliveryInv, InHands
  <2>9. ASSUME told = End
        PROVE  /\ server = "ended"
               /\ \A n \in DOMAIN loop.lane : InLane(loop.lane, n, s) => Arrived(n)
    <3>1. AtEof(s)
      <4>1. \A x \in {"Io", "Lagged", "Closed", "out_of_range"} : \A d : Told(x, d) # End
        BY DEF End, Told
      <4> QED
        BY <1>2, <1>8, <2>1, <2>9, <4>1, ReadEndIs
    <3>2. Frames(s) = <<>> /\ wire[s].fin
      <4>1. CASE Frames(s) = <<>>
        BY <3>1, <4>1 DEF AtEof
      <4>2. CASE Frames(s) # <<>>
        <5>1. 1 \in 1 .. Len(wire[s].frames) /\ Head(Frames(s)) = wire[s].frames[1]
          BY <1>2, <4>2 DEF WireType, Frames
        <5>2. Head(Frames(s)).cut = FALSE
          BY <1>2, <5>1 DEF DeliveryInv, Carried
        <5> QED
          BY <3>1, <4>2, <5>2 DEF AtEof
      <4> QED
        BY <4>1, <4>2
    <3>3. Len(wire[s].frames) = 0
      BY <3>2 DEF Frames
    <3>4. \A n \in DOMAIN loop.lane : n # None
      <4>1. DOMAIN loop.lane = 1 .. Len(loop.lane) /\ Len(loop.lane) \in Nat
        BY DEF LoopType
      <4> QED
        BY <4>1, TransportsAssumption
    <3>5. \A n \in DOMAIN loop.lane : InLane(loop.lane, n, s) => Passed(s, n, 0)
      BY <1>2, <3>2, <3>3 DEF DeliveryInv, Finished
    <3>6. \A n : Passed(s, n, 0) => Arrived(n) \/ n = None
      BY <1>2 DEF Passed
    <3> QED
      BY <3>2, <3>4, <3>5, <3>6 DEF DeliveryInv, Finished
  <2>10. EndReached'
    BY <1>1, <1>3, <2>4, <2>9 DEF DeliveryInv, EndReached
  <2>11. ClientTypes'
    BY <1>1, <2>3, <2>4 DEF DeliveryInv, ClientTypes
  <2> QED
    BY <1>5, <2>7, <2>8, <2>10, <2>11 DEF DeliveryInv
<1> QED
  BY <1>7, <1>8

\* The client goes on; what it is told has its type.
LEMMA DeliveryTold ==
    ASSUME DeliveryInv, client'.told \in ToldType,
           ReadResponse \/ AcceptUni \/ PollQuic \/ PollEnd \/ PollAgain \/ PollPending
    PROVE  DeliveryInv'
<1>1. /\ UNCHANGED <<subscription, rx, server, loop, wire, conn, late, out>>
      /\ client.pc # "exited"
  BY DEF ReadResponse, AcceptUni, PollQuic, PollEnd, PollAgain, PollPending, serverVars
<1>2. /\ client \in ClientType /\ reader \in [Streams -> ReaderType]
  BY DEF DeliveryInv, ClientTypes
<1>3. client' \in ClientType /\ client'.pc # "exited"
  <2>1. CASE ReadResponse
    <3>1. ASSUME NEW told, client' = [client EXCEPT !.pc = "failed", !.told = told]
          PROVE  client' \in ClientType /\ client'.pc # "exited"
      <4>1. client'.told = told /\ client'.pc = "failed"
        BY <1>2, <3>1 DEF ClientType
      <4> QED
        BY <1>2, <3>1, <4>1 DEF ClientType
    <3>2. CASE reply = None \/ reply.error # None
      <4>1. PICK told : client' = [client EXCEPT !.pc = "failed", !.told = told]
        BY <2>1, <3>2 DEF ReadResponse
      <4> QED
        BY <3>1, <4>1
    <3>3. CASE ~(reply = None \/ reply.error # None)
      <4>1. PICK pc \in {"accept", "poll"} : client' = [client EXCEPT !.pc = pc]
        BY <2>1, <3>3 DEF ReadResponse
      <4>2. pc # "exited"
        BY <4>1
      <4> QED
        BY <1>2, <4>1, <4>2 DEF ClientType
    <3> QED
      BY <3>2, <3>3
  <2>2. CASE AcceptUni
    <3>1. CASE client' = [client EXCEPT !.pc = "failed", !.told = Told("QuicConnection", None)]
      BY <1>2, <3>1 DEF ClientType
    <3>2. CASE client' # [client EXCEPT !.pc = "failed", !.told = Told("QuicConnection", None)]
      <4>1. PICK pc \in {"accept", "poll"} :
              client' = [client EXCEPT !.accepted = client.accepted + 1, !.pc = pc]
        BY <1>2, <2>2, <3>2 DEF AcceptUni, ClientType
      <4>2. client.accepted + 1 \in Nat
        BY <1>2 DEF ClientType
      <4> QED
        BY <1>2, <4>1, <4>2 DEF ClientType
    <3> QED
      BY <3>1, <3>2
  <2>3. CASE PollQuic
    BY <1>1, <1>2, <2>3 DEF PollQuic, ClientType
  <2>4. CASE PollEnd
    BY <1>1, <1>2, <2>4 DEF PollEnd, ClientType
  <2>5. CASE PollAgain \/ PollPending
    BY <1>1, <1>2, <2>5 DEF PollAgain, PollPending, ClientType
  <2> QED
    BY <2>1, <2>2, <2>3, <2>4, <2>5
<1>4. CASE PollQuic
  <2>1. /\ Quic /\ \A s \in Streams : reader[s].pc = "off"
        /\ reader' = [s \in Streams |->
                IF s <= Request.recv_streams THEN [reader[s] EXCEPT !.pc = "read"] ELSE reader[s]]
    BY <1>4 DEF PollQuic
  <2>2. \A s \in Streams : [reader[s] EXCEPT !.pc = "read"] \in ReaderType
    BY <1>2 DEF ReaderType
  <2>3. reader' \in [Streams -> ReaderType]
    BY <1>2, <2>1, <2>2
  <2>4. \A s \in Streams :
              /\ reader'[s].msg = reader[s].msg /\ reader'[s].told = reader[s].told
              /\ reader'[s].pc = reader[s].pc \/ (Quic /\ reader[s].pc = "off" /\ reader'[s].pc = "read")
    BY <1>2, <2>1 DEF ReaderType
  <2> QED
    BY <1>1, <1>3, <2>3, <2>4, DeliveryClient
<1>5. CASE ~PollQuic
  <2>1. reader' = reader
    BY <1>5 DEF ReadResponse, AcceptUni, PollEnd, PollAgain, PollPending
  <2> QED
    BY <1>1, <1>2, <1>3, <2>1, DeliveryClient
<1> QED
  BY <1>4, <1>5

-----------------------------------------------------------------------------
(***************************************************************************)
(* Reasons                                                                 *)
(***************************************************************************)

\* What was told is a reason, and so is what is still on its way.
Reported ==
    /\ ReplyFrom
    /\ client.told \in Reasons \cup {None}
    /\ \A s \in Streams : reader[s].told \in Reasons \cup {None}

\* A reason stays a reason.
LEMMA ReasonsGrow ==
    ASSUME subscription' = subscription, rx'.end = rx.end \/ rx.end = None
    PROVE  Reasons \subseteq Reasons'
<1>1. Request' = Request /\ BadToken' = BadToken
  BY SubscriptionKept
<1>2. None \notin {"NotInitialized", "SlotNotAvailable", "Lagged", "Closed"}
  BY TransportsAssumption DEF Errors, ErrorCode, CloseCode
<1>3. CASE rx'.end = rx.end
  BY <1>1, <1>3 DEF Reasons
<1>4. CASE rx.end = None
  BY <1>1, <1>2, <1>4 DEF Reasons
<1> QED
  BY <1>3, <1>4

\* Answers depend on the subscription alone.
LEMMA RefusalKept ==
    ASSUME subscription \in Subscriptions, subscription' = subscription, NEW channel
    PROVE  Refusal(channel)' = Refusal(channel) /\ Answer(channel)' = Answer(channel)
<1>1. Transport' = Transport /\ Request' = Request
  BY SubscriptionKept
<1>2. Transport \in {"quic", "tcp", "grpc"}
  BY SubscriptionIs
<1>3. Refusal(channel)' = Refusal(channel)
  <2>1. CASE Transport = "quic"
    BY <1>1, <2>1 DEF Refusal
  <2>2. CASE Transport = "tcp"
    BY <1>1, <2>2 DEF Refusal
  <2>3. CASE Transport = "grpc"
    BY <1>1, <2>3 DEF Refusal
  <2> QED
    BY <1>2, <2>1, <2>2, <2>3
<1> QED
  BY <1>1, <1>3 DEF Answer

\* The reply is not changed but may be lost.
LEMMA ReplyKept ==
    ASSUME ReplyFrom, subscription \in Subscriptions, subscription' = subscription,
           reply' = reply \/ reply' = None,
           server = "ended" => server' = "ended" /\ rx'.end = rx.end
    PROVE  ReplyFrom'
<1>1. \A channel : Refusal(channel)' = Refusal(channel) /\ Answer(channel)' = Answer(channel)
  BY RefusalKept
<1> QED
  BY <1>1 DEF ReplyFrom

\* Steps that tell nothing new.
LEMMA ReportedKept ==
    ASSUME Reported, ReplyFrom', subscription' = subscription, rx'.end = rx.end \/ rx.end = None,
           client'.told = client.told, \A s \in Streams : reader'[s].told = reader[s].told
    PROVE  Reported'
BY ReasonsGrow DEF Reported

\* The answer to the request.
LEMMA ReportedRequest ==
    ASSUME ServerInv, Reported, NEW channel \in ChannelErrors \cup {None}, HandleRequest(channel)
    PROVE  Reported'
<1>1. /\ subscription' = subscription /\ client' = client /\ reader' = reader /\ server = "request"
  BY DEF HandleRequest, clientVars
<1>2. rx.end = None
  BY <1>1 DEF ServerInv, Phases
<1>3. rx \in [taken : Nat, end : Errors \cup {None}]
  BY DEF ServerInv, ServerTypes
<1>4. /\ Refusal(None)' = Refusal(None) /\ Refusal(channel)' = Refusal(channel)
      /\ Answer(channel)' = Answer(channel)
  BY <1>1, RefusalKept DEF ServerInv, ServerTypes
<1>5. ReplyFrom'
  <2> SUFFICES ASSUME reply' # None
               PROVE  /\ reply' = Answer(channel)
                      /\ Refusal(channel) # None =>
                            /\ server' = "ended"
                            /\ rx'.end = IF Refusal(None) = None THEN channel ELSE None
    BY <1>4 DEF ReplyFrom
  <2>1. CASE Refusal(channel) = None
    BY <2>1 DEF HandleRequest, Answer
  <2>2. CASE Refusal(channel) # None
    <3>1. reply' = Answer(channel)
      BY <2>2 DEF HandleRequest, Answer
    <3>2. server' = "ended" /\ rx' = [rx EXCEPT !.end = IF Refusal(None) = None THEN channel ELSE None]
      BY <2>2 DEF HandleRequest
    <3>3. rx'.end = IF Refusal(None) = None THEN channel ELSE None
      BY <1>3, <3>2
    <3> QED
      BY <3>1, <3>2, <3>3
  <2> QED
    BY <2>1, <2>2
<1> QED
  BY <1>1, <1>2, <1>5, ReportedKept

\* What ends the reading of a stream is a reason.
LEMMA ReadEndReason ==
    ASSUME DeliveryInv, NEW s \in Streams, ~IsData(s)
    PROVE  ReadEnd(s) \in Reasons
<1>1. wire \in [Streams -> WireType]
  BY DEF DeliveryInv, ClientTypes
<1>2. {Told("Io", None), End} \subseteq Reasons
  BY DEF Reasons
<1>3. ASSUME NEW c \in {0, 1}, Frames(s) # <<>>, Head(Frames(s)).close = c
      PROVE  /\ rx.end = IF c = 0 THEN "Lagged" ELSE "Closed"
             /\ CloseCode[rx.end] = c
  <2>1. 1 \in 1 .. Len(wire[s].frames) /\ Head(Frames(s)) = wire[s].frames[1]
    BY <1>1, <1>3 DEF WireType, Frames
  <2>2. FrameOf(s, Head(Frames(s)), loop.lane, rx.end)
    BY <2>1 DEF DeliveryInv, Carried
  <2>3. c # None
    BY TransportsAssumption
  <2>4. rx.end \in DOMAIN CloseCode /\ CloseCode[rx.end] = c
    BY <1>3, <2>2, <2>3 DEF FrameOf
  <2>5. rx.end \in {"Lagged", "Closed"} /\ CloseCode[rx.end] = IF rx.end = "Lagged" THEN 0 ELSE 1
    BY <2>4, CloseIs
  <2> QED
    BY <2>4, <2>5
<1>4. ASSUME rx.end \in {"Lagged", "Closed"}
      PROVE  {Told(rx.end, None), Told("out_of_range", CloseCode[rx.end])} \subseteq Reasons
  BY <1>4 DEF Reasons
<1>5. CASE Frames(s) # <<>> /\ Head(Frames(s)).close = 0
  <2>1. rx.end = "Lagged" /\ CloseCode[rx.end] = 0
    BY <1>3, <1>5
  <2>2. Told("Lagged", None) \in Reasons /\ Told("out_of_range", 0) \in Reasons
    BY <1>4, <2>1
  <2> QED
    BY <1>1, <1>2, <1>5, <2>2, ReadEndIs
<1>6. CASE Frames(s) # <<>> /\ Head(Frames(s)).close = 1
  <2>1. rx.end = "Closed" /\ CloseCode[rx.end] = 1
    BY <1>3, <1>6
  <2>2. Told("Closed", None) \in Reasons /\ Told("out_of_range", 1) \in Reasons
    BY <1>4, <2>1
  <2> QED
    BY <1>1, <1>2, <1>6, <2>2, ReadEndIs
<1> QED
  BY <1>1, <1>2, <1>5, <1>6, ReadEndIs

\* The steps of the client that are told something.
LEMMA ReportedClient ==
    ASSUME ServerInv, DeliveryInv, Reported,
           ReadResponse \/ AcceptUni \/ PollQuic \/ PollEnd \/ PollAgain \/ PollPending
    PROVE  Reported'
<1>1. UNCHANGED <<subscription, rx, server, reply>>
  BY DEF ReadResponse, AcceptUni, PollQuic, PollEnd, PollAgain, PollPending, serverVars
<1>2. /\ client \in ClientType /\ reader \in [Streams -> ReaderType]
      /\ subscription \in Subscriptions
  BY DEF DeliveryInv, ClientTypes, ServerInv, ServerTypes
<1>3. ReplyFrom' /\ Reasons \subseteq Reasons'
  BY <1>1, <1>2, ReplyKept, ReasonsGrow DEF Reported
<1>4. \A s \in Streams : reader'[s].told = reader[s].told
  <2>1. CASE PollQuic
    BY <1>2, <2>1 DEF PollQuic, ReaderType
  <2>2. CASE ~PollQuic
    BY <2>2 DEF ReadResponse, AcceptUni, PollEnd, PollAgain, PollPending
  <2> QED
    BY <2>1, <2>2
<1>5. {Told("Io", None), Told("QuicConnection", None), End} \subseteq Reasons
  BY DEF Reasons
<1>6. client'.told \in Reasons \cup {None}
  <2>1. CASE ReadResponse
    <3>1. CASE reply = None
      <4>1. client'.told = Told("Io", None)
        BY <1>2, <2>1, <3>1 DEF ReadResponse, ClientType
      <4> QED
        BY <1>5, <4>1
    <3>2. CASE reply # None /\ reply.error = None
      <4>1. client'.told = client.told
        BY <1>2, <2>1, <3>2 DEF ReadResponse, ClientType
      <4> QED
        BY <4>1 DEF Reported
    <3>3. CASE reply # None /\ reply.error # None
      <4>1. client'.told = IF Transport = "grpc" THEN Told(reply.error, None) ELSE ParseCode(reply)
        BY <1>2, <2>1, <3>3 DEF ReadResponse, ClientType
      <4>2. PICK channel \in ChannelErrors \cup {None} :
              /\ reply = Answer(channel)
              /\ Refusal(channel) # None =>
                    /\ server = "ended"
                    /\ rx.end = IF Refusal(None) = None THEN channel ELSE None
        BY <3>3 DEF Reported, ReplyFrom
      <4>3. Refusal(channel) # None
        BY <3>3, <4>2 DEF Answer, Response
      <4>4. (IF Transport = "grpc" THEN Told(Answer(channel).error, None)
             ELSE ParseCode(Answer(channel))) \in Reasons
        BY <1>2, <4>2, <4>3, AnswerTold
      <4> QED
        BY <4>1, <4>2, <4>4
    <3> QED
      BY <3>1, <3>2, <3>3
  <2>2. CASE AcceptUni
    <3>1. client'.told \in {client.told, Told("QuicConnection", None)}
      BY <1>2, <2>2 DEF AcceptUni, ClientType
    <3> QED
      BY <1>5, <3>1 DEF Reported
  <2>3. CASE PollQuic
    <3>1. client'.told \in {client.told, End}
      BY <1>2, <2>3 DEF PollQuic, ClientType
    <3> QED
      BY <1>5, <3>1 DEF Reported
  <2>4. CASE PollEnd
    <3>1. client'.told = ReadEnd(1) /\ ~IsData(1) /\ 1 \in Streams
      BY <1>2, <2>4, StreamsFacts DEF PollEnd, ClientType
    <3> QED
      BY <3>1, ReadEndReason
  <2>5. CASE PollAgain \/ PollPending
    <3>1. client'.told = client.told
      BY <1>2, <2>5 DEF PollAgain, PollPending, ClientType
    <3> QED
      BY <3>1 DEF Reported
  <2> QED
    BY <2>1, <2>2, <2>3, <2>4, <2>5
<1> QED
  BY <1>3, <1>4, <1>6 DEF Reported

\* The readers: only the end of a stream tells something.
LEMMA ReportedReader ==
    ASSUME subscription \in Subscriptions, DeliveryInv, Reported, NEW s \in Streams, ReaderNext(s)
    PROVE  Reported'
<1>1. UNCHANGED <<subscription, rx, server, reply, client>>
  BY DEF ReaderNext, serverVars
<1>2. reader \in [Streams -> ReaderType]
  BY DEF DeliveryInv, ClientTypes
<1>3. ReplyFrom' /\ Reasons \subseteq Reasons'
  BY <1>1, ReplyKept, ReasonsGrow DEF Reported
<1>4. \A q \in Streams \ {s} : reader'[q].told = reader[q].told
  BY <1>2 DEF ReaderNext
<1>5. reader'[s].told \in Reasons \cup {None}
  <2>1. CASE IsData(s)
    <3>1. reader'[s].told = reader[s].told
      BY <1>2, <2>1 DEF ReaderNext, ReaderType
    <3> QED
      BY <3>1 DEF Reported
  <2>2. CASE ~IsData(s)
    <3>1. reader'[s].told = ReadEnd(s)
      BY <1>2, <2>2 DEF ReaderNext, ReaderType
    <3> QED
      BY <2>2, <3>1, ReadEndReason
  <2> QED
    BY <2>1, <2>2
<1> QED
  BY <1>1, <1>3, <1>4, <1>5 DEF Reported

-----------------------------------------------------------------------------
(***************************************************************************)
(* The invariant and what follows from it                                  *)
(***************************************************************************)

\* The inductive invariant of a subscription.
TransportsInv == ServerInv /\ DeliveryInv /\ Reported

\* The invariant holds when a subscription is opened.
LEMMA TransportsInit == Init => TransportsInv
<1> SUFFICES ASSUME Init PROVE Reported
  BY ServerInit, DeliveryInit DEF TransportsInv
<1>1. /\ reply = None /\ client = [pc |-> "response", accepted |-> 0, told |-> None]
      /\ reader = [s \in Streams |-> [pc |-> "off", msg |-> None, told |-> None]]
  BY DEF Init
<1> QED
  BY <1>1 DEF Reported, ReplyFrom

\* Every step of the server, the network, the client and the broker keeps it.
LEMMA TransportsStep == TransportsInv /\ [Next]_vars => TransportsInv'
<1> SUFFICES ASSUME TransportsInv, [Next]_vars PROVE DeliveryInv' /\ Reported'
  BY ServerInvStep DEF TransportsInv
<1>1. /\ ServerInv /\ ServerInv' /\ DeliveryInv /\ Reported /\ ReplyFrom
      /\ loop \in LoopType /\ subscription \in Subscriptions
  BY ServerInvStep DEF TransportsInv, Reported, ServerInv, ServerTypes
<1>2. CASE UNCHANGED vars
  <2>1. UNCHANGED <<subscription, rx, server, loop, reply, wire, conn, client, reader, late, out>>
    BY <1>2 DEF vars
  <2>2. DeliveryInv'
    BY <1>1, <2>1, DeliveryKept
  <2>3. ReplyFrom'
    BY <1>1, <2>1, ReplyKept
  <2> QED
    BY <1>1, <2>1, <2>2, <2>3, ReportedKept
<1>3. ASSUME NEW channel \in ChannelErrors \cup {None}, HandleRequest(channel)
      PROVE  DeliveryInv' /\ Reported'
  BY <1>1, <1>3, DeliveryRequest, ReportedRequest
<1>4. CASE QuicStep \/ WriteStep
  <2>1. /\ Moves(loop, loop', rx'.end)
        /\ UNCHANGED <<subscription, reply, wire, conn, clientVars>>
        /\ server # "ended"
        /\ rx'.end = rx.end \/ rx.end = None
    BY <1>1, <1>4, ServerLoop, ServerWrites
  <2>2. DeliveryInv'
    BY <1>1, <2>1, DeliveryMoves
  <2>3. ReplyFrom'
    BY <1>1, <2>1, ReplyKept
  <2>4. client' = client /\ reader' = reader
    BY <2>1 DEF clientVars
  <2> QED
    BY <1>1, <2>1, <2>2, <2>3, <2>4, ReportedKept
<1>5. CASE EndStep
  <2>1. /\ UNCHANGED <<subscription, rx, reply, client, reader>>
        /\ server = "ended" => server' = "ended"
    BY <1>5 DEF EndStep, RecvNone, Finish, TaskFails, StreamNone, Killed, clientVars
  <2>2. DeliveryInv'
    BY <1>1, <1>5, DeliveryEnds
  <2>3. ReplyFrom'
    BY <1>1, <2>1, ReplyKept
  <2> QED
    BY <1>1, <2>1, <2>2, <2>3, ReportedKept
<1>6. ASSUME NEW s \in Streams, WriteFrame(s) PROVE DeliveryInv' /\ Reported'
  <2>1. UNCHANGED <<subscription, rx, server, reply, client, reader>>
    BY <1>6 DEF WriteFrame, clientVars
  <2>2. DeliveryInv'
    BY <1>1, <1>6, DeliveryWritten
  <2>3. ReplyFrom'
    BY <1>1, <2>1, ReplyKept
  <2> QED
    BY <1>1, <2>1, <2>2, <2>3, ReportedKept
<1>7. CASE ReadResponse \/ AcceptUni \/ PollQuic \/ PollEnd \/ PollAgain \/ PollPending
  <2>1. Reported'
    BY <1>1, <1>7, ReportedClient
  <2>2. client'.told \in ToldType
    <3>1. \A r : r \in Reasons' => r \in ToldType
      <4>1. UNCHANGED <<subscription, rx>>
        BY <1>7 DEF ReadResponse, AcceptUni, PollQuic, PollEnd, PollAgain, PollPending, serverVars
      <4>2. Reasons' = Reasons
        BY <4>1, SubscriptionKept DEF Reasons
      <4> QED
        BY <4>2, ReasonsTyped
    <3>2. None \in ToldType
      BY DEF ToldType
    <3> QED
      BY <2>1, <3>1, <3>2 DEF Reported
  <2>3. DeliveryInv'
    BY <1>1, <1>7, <2>2, DeliveryTold
  <2> QED
    BY <2>1, <2>3
<1>8. ASSUME NEW s \in Streams, ReaderNext(s) PROVE DeliveryInv' /\ Reported'
  BY <1>1, <1>8, DeliveryReader, ReportedReader
<1>9. CASE Lost \/ PollMessage \/ Exit \/ (\E s \in Streams : SendOk(s) \/ SendFails(s))
           \/ (\E r \in late : AppendLate(r))
  <2>1. /\ UNCHANGED <<subscription, rx, server>> /\ (reply' = reply \/ reply' = None)
    BY <1>9 DEF Lost, PollMessage, Exit, SendOk, SendFails, AppendLate, serverVars
  <2>2. ReplyFrom'
    BY <1>1, <2>1, ReplyKept
  <2>3. client'.told = client.told /\ \A s \in Streams : reader'[s].told = reader[s].told
    <3>1. client \in ClientType /\ reader \in [Streams -> ReaderType]
      BY <1>1 DEF DeliveryInv, ClientTypes
    <3>2. CASE Exit
      BY <3>1, <3>2 DEF Exit, ClientType, ReaderType
    <3>3. ASSUME NEW s \in Streams, SendOk(s)
          PROVE  client'.told = client.told /\ \A q \in Streams : reader'[q].told = reader[q].told
      BY <3>1, <3>3 DEF SendOk, ReaderType
    <3>4. CASE Lost \/ PollMessage \/ (\E s \in Streams : SendFails(s)) \/ (\E r \in late : AppendLate(r))
      BY <3>4 DEF Lost, PollMessage, SendFails, AppendLate, clientVars
    <3> QED
      BY <1>9, <3>2, <3>3, <3>4
  <2>4. Reported'
    BY <1>1, <2>1, <2>2, <2>3, ReportedKept
  <2>5. DeliveryInv'
    <3>1. CASE Lost
      BY <1>1, <3>1, DeliveryLost
    <3>2. CASE PollMessage
      BY <1>1, <3>2, DeliveryPolled
    <3>3. CASE Exit
      BY <1>1, <3>3, DeliveryExit
    <3>4. ASSUME NEW s \in Streams, SendOk(s) PROVE DeliveryInv'
      BY <1>1, <3>4, DeliverySent
    <3>5. CASE (\E s \in Streams : SendFails(s)) \/ (\E r \in late : AppendLate(r))
      BY <1>1, <3>5, DeliveryFaults
    <3> QED
      BY <1>9, <3>1, <3>2, <3>3, <3>4, <3>5
  <2> QED
    BY <2>4, <2>5
<1> QED
  BY <1>2, <1>3, <1>4, <1>5, <1>6, <1>7, <1>8, <1>9, NextIs DEF AwayStep

\* The inductive invariant of a subscription over QUIC, TCP or gRPC: a message the
\* server took is with its task, on the wire, with a reader or has arrived, in the
\* order of its stream, while connections are lost and sends to Kafka fail.
THEOREM TransportsInvariant == Spec => []TransportsInv
BY TransportsInit, TransportsStep, PTL DEF Spec

\* What arrives is gapless per stream, at least once, although KafkaProducer's sends
\* fail, are repeated and take effect late; and a stream of QUIC that ends without an
\* error has given all its messages (join_all comes before finish).
THEOREM LosslessTheorem == Spec => []Lossless
<1>1. TransportsInv => Lossless
  <2> SUFFICES ASSUME TransportsInv PROVE Lossless
    OBVIOUS
  <2>1. OutGapless /\ EndReached /\ out \in Seq(RecordType) /\ loop.lane \in Seq(Streams)
    BY DEF TransportsInv, DeliveryInv, ClientTypes, ServerInv, ServerTypes, LoopType
  <2>2. DOMAIN out = 1 .. Len(out) /\ DOMAIN loop.lane = 1 .. Len(loop.lane) /\ Len(loop.lane) \in Nat
    BY <2>1
  <2>3. ASSUME NEW i \in DOMAIN out
        PROVE  /\ out[i].msg \in DOMAIN loop.lane /\ loop.lane[out[i].msg] = out[i].via
               /\ \A n \in 1 .. out[i].msg - 1 :
                     loop.lane[n] = loop.lane[out[i].msg] => \E j \in 1 .. i - 1 : out[j].msg = n
    <3>1. InLane(loop.lane, out[i].msg, out[i].via)
      BY <2>1, <2>2 DEF OutGapless
    <3>2. ASSUME NEW n \in 1 .. out[i].msg - 1, loop.lane[n] = loop.lane[out[i].msg]
          PROVE  \E j \in 1 .. i - 1 : out[j].msg = n
      <4>1. n \in DOMAIN loop.lane /\ n < out[i].msg
        BY <2>2, <3>1, <3>2 DEF InLane
      <4>2. InLane(loop.lane, n, out[i].via)
        BY <3>1, <3>2, <4>1 DEF InLane
      <4> QED
        BY <2>1, <2>2, <4>1, <4>2 DEF OutGapless
    <3> QED
      BY <3>1, <3>2 DEF InLane
  <2>4. ASSUME NEW s \in Streams, reader[s].told = End, NEW m \in DOMAIN loop.lane, loop.lane[m] = s
        PROVE  Arrived(m)
    BY <2>1, <2>4 DEF EndReached, InLane
  <2> QED
    BY <2>3, <2>4 DEF Lossless
<1> QED
  BY <1>1, TransportsInvariant, PTL

\* A subscriber is told why it was refused or why its stream was closed, through the
\* codes of the protocol, or that the connection failed; and one whose token is not
\* accepted gets no message (handle_request, parse_quic_response, recv).
THEOREM ReasonReportedTheorem == Spec => []ReasonReported
<1>1. TransportsInv => ReasonReported
  <2> SUFFICES ASSUME TransportsInv PROVE ReasonReported
    OBVIOUS
  <2>1. {client.told} \cup {reader[s].told : s \in Streams} \subseteq Reasons \cup {None}
    BY DEF TransportsInv, Reported
  <2>2. ASSUME BadToken PROVE out = <<>>
    <3>1. loop.lane = <<>>
      BY <2>2 DEF TransportsInv, ServerInv, Phases
    <3>2. out \in Seq(RecordType) /\ \A i \in 1 .. Len(out) : InLane(loop.lane, out[i].msg, out[i].via)
      BY DEF TransportsInv, DeliveryInv, ClientTypes, OutGapless
    <3>3. \A i \in 1 .. Len(out) : FALSE
      BY <3>1, <3>2 DEF InLane
    <3> QED
      BY <3>2, <3>3
  <2> QED
    BY <2>1, <2>2 DEF ReasonReported
<1> QED
  BY <1>1, TransportsInvariant, PTL

=============================================================================
