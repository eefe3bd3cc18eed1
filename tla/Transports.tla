----------------------------- MODULE Transports -----------------------------
(***************************************************************************)
(* One subscription to the plugin, from the receiver of its channel to     *)
(* where the messages end up: the connection task of the QUIC, TCP or gRPC *)
(* server, the network, the client and the process that uses the client    *)
(* (richat-cli, or the source thread of richat).                           *)
(*                                                                         *)
(* The messages of the receiver are 1, 2, ...  A frame is a message with   *)
(* its id or the reason for closing; a stream of QUIC and the connection   *)
(* of the other two hold the frames that were written and not yet read.    *)
(***************************************************************************)
EXTENDS Handshake, SequencesExt

CONSTANTS
    Subscriptions,  \* what may be asked for: transport, consumer, x_tokens, request
    MaxMessages,    \* bound: messages the receiver gives
    Window,         \* frames a stream takes before its reader reads, the receive window
    MaxErrors       \* bound: sends to Kafka that fail

\* A frame on the wire, and a task that writes one.
Frame == [id : Nat \cup {None}, msg : Nat \cup {None}, close : {0, 1, None}, cut : BOOLEAN]
Task == [id : Nat \cup {None}, frame : Frame, written : BOOLEAN]

ASSUME TransportsAssumption ==
    /\ {MaxRequestSize, MaxRecvStreams, MaxMessages, Window} \subseteq Nat \ {0}
    /\ MaxErrors \in Nat
    /\ None \notin Nat \cup Task \cup Errors \cup {Told("None", None)}
    /\ \A sub \in Subscriptions :
          /\ sub.transport \in {"quic", "tcp", "grpc"}
          /\ None \notin sub.x_tokens
          /\ {sub.request.size, sub.request.recv_streams} \subseteq Nat
          /\ sub.request.max_backlog \in Nat \cup {None}

VARIABLES
    subscription,
    rx,       \* the receiver: messages taken, and the error the channel gave
    server,   \* "request", "send", "close" (waits for a stream), "drain", "ended", "panicked"
    loop,     \* the locals of the send loop, and the tasks of its JoinSet
    reply,    \* the response on its way to the client
    wire,     \* per stream: frames written and not yet read, and FIN
    opened,   \* streams the client has learned of, by their number
    conn,     \* "open" or "gone"
    client,   \* where the client is, streams it has accepted, what it was told
    reader,   \* per stream: QuicClientStreamReader in process_reader
    errors,   \* number of sends that failed
    late,     \* records of failed sends the broker may still append
    out       \* what has arrived: the topic of Kafka, or what the consumer got

vars == <<subscription, rx, server, loop, reply, wire, opened, conn, client, reader,
          errors, late, out>>

serverVars == <<rx, server, loop>>
clientVars == <<client, reader, errors, late, out>>

Transport == subscription.transport
Consumer  == subscription.consumer
Request   == subscription.request
Quic      == Transport = "quic"

Streams == 1 .. MaxRecvStreams

\* max_backlog, u64::MAX if it is not given: no difference of ids gets there
Backlog == IF Request.max_backlog = None THEN MaxMessages + 1 ELSE Request.max_backlog

Data(id, m) == [id |-> id, msg |-> m, close |-> None, cut |-> FALSE]

\* QuicSubscribeClose under the id u64::MAX; the Status of gRPC has its own words
Close(e) == [id |-> None, msg |-> None, close |-> CloseCode[e], cut |-> FALSE]

\* The locals of the loop; lane is history: the stream each message went to.
Locals(free) ==
    [msg_id |-> 0, msg_ids |-> {}, next |-> None, free |-> free,
     task |-> [s \in Streams |-> None], lane |-> <<>>]

Init ==
    /\ subscription \in Subscriptions
    /\ rx = [taken |-> 0, end |-> None]
    /\ server = "request"
    /\ loop = Locals(<<>>)
    /\ reply = None
    /\ wire = [s \in Streams |-> [frames |-> <<>>, fin |-> FALSE]]
    /\ opened = 0
    /\ conn = "open"
    /\ client = [pc |-> "response", accepted |-> 0, told |-> None]
    /\ reader = [s \in Streams |-> [pc |-> "off", msg |-> None, told |-> None]]
    /\ errors = 0
    /\ late = {}
    /\ out = <<>>

-----------------------------------------------------------------------------
\* The network

\* What has reached the client of a connection that is gone.
Truncated(w) ==
    {[frames |-> SubSeq(w.frames, 1, n), fin |-> w.fin /\ n = Len(w.frames)] :
        n \in 0 .. Len(w.frames)}

\* A connection of QUIC is closed: what was not delivered is not sent again.
Disconnect(w) ==
    /\ conn' = "gone"
    /\ wire' \in {v \in [Streams -> UNION {Truncated(w[s]) : s \in Streams}] :
                    \A s \in Streams : v[s] \in Truncated(w[s])}

\* The network fails, or the shutdown closes the endpoint of QUIC and with it
\* all connections; the connection task learns of it when it writes.
Lost ==
    /\ conn = "open"
    /\ Disconnect(wire)
    /\ reply' \in {reply, None}
    /\ UNCHANGED <<subscription, serverVars, opened, clientVars>>

\* The runtime of the plugin is dropped: the socket is closed in the middle of
\* what the task writes.
Killed ==
    /\ Transport = "tcp" /\ conn = "open" /\ server = "send"
    /\ server' = "ended"
    /\ conn' = "gone"
    /\ LET part == IF loop.task[1] = None THEN <<>> ELSE <<[loop.task[1].frame EXCEPT !.cut = TRUE]>>
       IN wire' = [wire EXCEPT ![1] = [frames |-> @.frames \o part, fin |-> TRUE]]
    /\ UNCHANGED <<subscription, rx, loop, reply, opened, clientVars>>

-----------------------------------------------------------------------------
\* The connection task of the server: the request

\* The answer to a refused request: its connection is dropped at once, and
\* with it an answer of QUIC that is still under way; so is one of TCP when the
\* rest of the request was left unread.
MayVanish(error) == Quic \/ (Transport = "tcp" /\ error = "RequestSizeTooLarge")

Refusal(channel) ==
    CASE Transport = "quic" -> QuicRefusal(subscription.x_tokens, Request, channel)
      [] Transport = "tcp"  -> TcpRefusal(subscription.x_tokens, Request, channel)
      [] Transport = "grpc" -> GrpcRefusal(subscription.x_tokens, Request, channel)

HandleRequest(channel) ==
    LET error == Refusal(channel)
        answer == IF Transport = "grpc" THEN [error |-> error] ELSE Response(error)
    IN  /\ server = "request" /\ conn = "open"
        /\ \/ /\ error = None
              /\ reply' = answer
              /\ server' = "send"
              /\ loop' = Locals(IF Quic THEN [i \in 1 .. Request.recv_streams |-> i] ELSE <<>>)
              /\ UNCHANGED <<rx, conn>>
           \/ /\ error # None
              /\ rx' = [rx EXCEPT !.end = IF Refusal(None) = None THEN channel ELSE None]
              /\ reply' \in {answer} \cup (IF MayVanish(error) THEN {None} ELSE {})
              /\ server' = "ended"
              /\ conn' = "gone"
              /\ UNCHANGED loop
        /\ UNCHANGED <<subscription, wire, opened, clientVars>>

-----------------------------------------------------------------------------
\* QuicServer::handle_incoming: the send loop

Spawn(l, s, id, frame) ==
    [l EXCEPT !.free = Tail(@), !.task[s] = [id |-> id, frame |-> frame, written |-> FALSE]]

\* Faulty variant: one id too many is under way.
DispatchLoose(l) ==
    LET first == IF l.msg_ids = {} THEN l.msg_id ELSE Min(l.msg_ids)
    IN IF l.next = None \/ l.free = <<>> \/ l.msg_id - first > Backlog THEN l
       ELSE [Spawn(l, Head(l.free), l.msg_id, Data(l.msg_id, l.next)) EXCEPT
                !.msg_id = @ + 1, !.msg_ids = @ \cup {l.msg_id}, !.next = None,
                !.lane = Append(@, Head(l.free))]

\* The top of the loop: the message goes to the first free stream, unless an id
\* is under way that is older than the backlog allows.
Dispatch(l) ==
    LET first == IF l.msg_ids = {} THEN l.msg_id ELSE Min(l.msg_ids)
    IN IF l.next = None \/ l.free = <<>> \/ l.msg_id - first >= Backlog THEN l
       ELSE [Spawn(l, Head(l.free), l.msg_id, Data(l.msg_id, l.next)) EXCEPT
                !.msg_id = @ + 1, !.msg_ids = @ \cup {l.msg_id}, !.next = None,
                !.lane = Append(@, Head(l.free))]

\* Faulty variant: the stream that was written last is the first to be used again.
JoinedStack(l, s) ==
    [l EXCEPT !.msg_ids = @ \ {l.task[s].id}, !.free = <<s>> \o @, !.task[s] = None]

\* set.join_next() gives back the id and the stream.
Joined(l, s) ==
    [l EXCEPT !.msg_ids = @ \ {l.task[s].id}, !.free = Append(@, s), !.task[s] = None]

\* The task of the close frame carries the next id, which is not among msg_ids.
SpawnClose(l, e) == Spawn(l, Head(l.free), l.msg_id, Close(e))

Written(s) == loop.task[s] # None /\ loop.task[s].written
Writing(s) == loop.task[s] # None /\ ~loop.task[s].written

\* The select takes Some(Ok(message)).
RecvMessage ==
    /\ Quic /\ server = "send"
    /\ loop.next = None /\ rx.end = None /\ rx.taken < MaxMessages
    /\ rx' = [rx EXCEPT !.taken = @ + 1]
    /\ loop' = Dispatch([loop EXCEPT !.next = rx'.taken])
    /\ UNCHANGED <<subscription, server, reply, wire, opened, conn, clientVars>>

\* The select takes Some(Err(error)); without a free stream it awaits one.
RecvErr(e) ==
    /\ Quic /\ server = "send"
    /\ loop.next = None /\ rx.end = None
    /\ rx' = [rx EXCEPT !.end = e]
    /\ IF loop.free = <<>> THEN server' = "close" /\ UNCHANGED loop
       ELSE server' = "send" /\ loop' = Dispatch(SpawnClose(loop, e))
    /\ UNCHANGED <<subscription, reply, wire, opened, conn, clientVars>>

\* set.join_next().await.expect("already verified")
CloseOnNextStream ==
    /\ server = "close"
    /\ \/ \E s \in Streams :
            /\ Written(s)
            /\ server' = "send"
            /\ loop' = Dispatch(SpawnClose(Joined(loop, s), rx.end))
       \/ /\ \A s \in Streams : loop.task[s] = None
          /\ server' = "panicked"
          /\ UNCHANGED loop
    /\ UNCHANGED <<subscription, rx, reply, wire, opened, conn, clientVars>>

\* The select takes the result of a task.
JoinNext(s) ==
    /\ Quic /\ server = "send"
    /\ Written(s)
    /\ loop' = Dispatch(Joined(loop, s))
    /\ UNCHANGED <<subscription, rx, server, reply, wire, opened, conn, clientVars>>

\* The select takes None.
RecvNone ==
    /\ Quic /\ server = "send"
    /\ loop.next = None /\ rx.end # None
    /\ server' = "drain"
    /\ UNCHANGED <<subscription, rx, loop, reply, wire, opened, conn, clientVars>>

\* set.join_all().await, finish() of all streams, drop(conn)
Finish ==
    /\ server = "drain" /\ conn = "open"
    /\ \A s \in Streams : ~Writing(s)
    /\ server' = "ended"
    /\ Disconnect([s \in Streams |-> [wire[s] EXCEPT !.fin = s <= Request.recv_streams]])
    /\ UNCHANGED <<subscription, rx, loop, reply, opened, clientVars>>

\* A read or a write fails, and the error ends the connection task; at the end
\* of the loop it ends in any case.
TaskFails ==
    /\ conn = "gone"
    /\ \/ server \in {"request", "drain"}
       \/ server \in {"send", "close"} /\ \E s \in Streams : Writing(s)
    /\ server' = "ended"
    /\ UNCHANGED <<subscription, rx, loop, reply, wire, opened, conn, clientVars>>

\* A task of the JoinSet, or the loop of TCP and gRPC, has written its frame.
\* A stream of QUIC is known to the peer once a frame of it or of a later one is.
WriteFrame(s) ==
    /\ Writing(s)
    /\ conn = "open" /\ server # "ended"
    /\ Len(wire[s].frames) < Window
    /\ wire' = [wire EXCEPT ![s].frames = Append(@, loop.task[s].frame)]
    /\ opened' = Max({opened, s})
    /\ loop' = IF Quic THEN [loop EXCEPT !.task[s].written = TRUE]
               ELSE [loop EXCEPT !.task[s] = None]
    /\ UNCHANGED <<subscription, rx, server, reply, conn, clientVars>>

-----------------------------------------------------------------------------
\* TcpServer::handle_incoming and the ReceiverStream of GrpcServer, which take
\* the next message when the one before it is written

StreamIdle == ~Quic /\ server = "send" /\ loop.task[1] = None

Write(frame) ==
    loop' = [loop EXCEPT !.task[1] = [id |-> None, frame |-> frame, written |-> FALSE],
                         !.lane = IF frame.msg = None THEN @ ELSE Append(@, 1)]

StreamMessage ==
    /\ StreamIdle
    /\ rx.end = None /\ rx.taken < MaxMessages
    /\ rx' = [rx EXCEPT !.taken = @ + 1]
    /\ Write(Data(None, rx'.taken))
    /\ UNCHANGED <<subscription, server, reply, wire, opened, conn, clientVars>>

TcpErr(e) ==
    /\ StreamIdle /\ Transport = "tcp"
    /\ rx.end = None
    /\ rx' = [rx EXCEPT !.end = e]
    /\ Write(Close(e))
    /\ UNCHANGED <<subscription, server, reply, wire, opened, conn, clientVars>>

\* ReceiverStream::poll_next yields a Status, which tonic sends as the last of
\* the stream.
GrpcErr(e) ==
    /\ StreamIdle /\ Transport = "grpc"
    /\ rx.end = None
    /\ rx' = [rx EXCEPT !.end = e]
    /\ Write(Close(e))
    /\ UNCHANGED <<subscription, server, reply, wire, opened, conn, clientVars>>

\* The loop ends and the socket is dropped, or tonic ends the stream: FIN
\* follows what was written.
StreamNone ==
    /\ StreamIdle /\ conn = "open"
    /\ rx.end # None
    /\ server' = "ended"
    /\ conn' = "gone"
    /\ wire' = [wire EXCEPT ![1].fin = TRUE]
    /\ UNCHANGED <<subscription, rx, loop, reply, opened, clientVars>>

-----------------------------------------------------------------------------
\* The client: subscribe

\* The response is read; a Status is the error itself.
ReadResponse ==
    /\ client.pc = "response"
    /\ reply # None \/ conn = "gone"
    /\ client' =
         IF reply = None THEN [client EXCEPT !.pc = "failed", !.told = Told("Io", None)]
         ELSE IF reply.error = None THEN [client EXCEPT !.pc = IF Quic THEN "accept" ELSE "poll"]
         ELSE [client EXCEPT !.pc = "failed",
                  !.told = IF Transport = "grpc" THEN Told(reply.error, None) ELSE ParseCode(reply)]
    /\ UNCHANGED <<subscription, serverVars, reply, wire, opened, conn, reader, errors, late, out>>

\* conn.accept_uni() for each of recv_streams
AcceptUni ==
    /\ client.pc = "accept"
    /\ \/ /\ client.accepted < opened
          /\ client' = [client EXCEPT !.accepted = @ + 1,
                                      !.pc = IF @ = "accept" /\ client.accepted + 1 = Request.recv_streams
                                             THEN "poll" ELSE "accept"]
       \/ /\ conn = "gone"
          /\ client' = [client EXCEPT !.pc = "failed", !.told = Told("QuicConnection", None)]
    /\ UNCHANGED <<subscription, serverVars, reply, wire, opened, conn, reader, errors, late, out>>

-----------------------------------------------------------------------------
\* The client: reading

Frames(s) == wire[s].frames

\* QuicClient::recv, TcpClient::recv and the Streaming of tonic have something
\* to return.
Ready(s) == Frames(s) # <<>> \/ wire[s].fin \/ conn = "gone"

\* The end of the bytes between two frames is an end of file, and for TCP also
\* within one.
AtEof(s) == IF Frames(s) = <<>> THEN wire[s].fin ELSE Head(Frames(s)).cut

IsData(s) == Frames(s) # <<>> /\ ~AtEof(s) /\ Head(Frames(s)).close = None

\* What ends the reading: None of the stream (is_eof), or an error.
End == Told("None", None)

ReadEnd(s) ==
    IF AtEof(s) THEN End
    ELSE IF Frames(s) = <<>> THEN Told("Io", None)
    ELSE IF Transport = "grpc" THEN Told("out_of_range", Head(Frames(s)).close)
    ELSE ParseClose(Head(Frames(s)).close)

Consume(s) == wire' = [wire EXCEPT ![s].frames = Tail(@)]

\* QuicClientStream::poll_next: a task per stream, and None.  richat ends with
\* its source stream; richat-cli polls again and gets None each time.
PollQuic ==
    /\ Quic /\ client.pc = "poll"
    /\ \A s \in Streams : reader[s].pc = "off"
    /\ reader' = [s \in Streams |->
                    IF s <= Request.recv_streams THEN [reader[s] EXCEPT !.pc = "read"] ELSE reader[s]]
    /\ client' = IF Consumer = "richat" THEN [client EXCEPT !.pc = "ended", !.told = End] ELSE client
    /\ UNCHANGED <<subscription, serverVars, reply, wire, opened, conn, errors, late, out>>

\* TcpClientStream::poll_next and GrpcClientStream::poll_next yield a message.
PollMessage ==
    /\ ~Quic /\ client.pc = "poll" /\ client.told = None
    /\ IsData(1)
    /\ out' = Append(out, [msg |-> Head(Frames(1)).msg, via |-> 1])
    /\ Consume(1)
    /\ UNCHANGED <<subscription, serverVars, reply, opened, conn, client, reader, errors, late>>

\* They yield an error or None.  richat ends, richat-cli polls again.
PollEnd ==
    /\ ~Quic /\ client.pc = "poll" /\ client.told = None
    /\ Ready(1) /\ ~IsData(1)
    /\ client' = [client EXCEPT !.told = ReadEnd(1), !.pc = IF Consumer = "richat" THEN "ended" ELSE "poll"]
    /\ UNCHANGED <<subscription, serverVars, reply, wire, opened, conn, reader, errors, late, out>>

\* richat-cli polls the future of TcpClient::recv after its end, which panics.
PollAgain ==
    /\ Transport = "tcp" /\ client.pc = "poll" /\ client.told # None
    /\ client' = [client EXCEPT !.pc = "panicked"]
    /\ UNCHANGED <<subscription, serverVars, reply, wire, opened, conn, reader, errors, late, out>>

\* The poll of richat-cli is pending: it goes on to wait for Ctrl+C.
PollPending ==
    /\ ~Quic /\ Consumer = "cli" /\ client.pc = "poll" /\ client.told = None
    /\ ~Ready(1)
    /\ client' = [client EXCEPT !.pc = "wait"]
    /\ UNCHANGED <<subscription, serverVars, reply, wire, opened, conn, reader, errors, late, out>>

\* The process of the client ends: richat after its source thread.
Exit ==
    /\ client.pc \in {"ended", "failed", "panicked"}
    /\ client' = [client EXCEPT !.pc = "exited"]
    /\ reader' = [s \in Streams |-> [reader[s] EXCEPT !.pc = "off", !.msg = None]]
    /\ conn' = "gone"
    /\ UNCHANGED <<subscription, serverVars, reply, wire, opened, errors, late, out>>

-----------------------------------------------------------------------------
\* process_reader, one task per stream, and KafkaProducer::send_message

\* reader.next().await
ReaderNext(s) ==
    /\ reader[s].pc = "read"
    /\ Ready(s)
    /\ IF IsData(s)
       THEN /\ reader' = [reader EXCEPT ![s].pc = "send", ![s].msg = Head(Frames(s)).msg]
            /\ Consume(s)
       ELSE /\ reader' = [reader EXCEPT ![s].pc = "ended", ![s].told = ReadEnd(s)]
            /\ UNCHANGED wire
    /\ UNCHANGED <<subscription, serverVars, reply, opened, conn, client, errors, late, out>>

Record(s) == [msg |-> reader[s].msg, via |-> s]

\* The broker has acknowledged the record.
SendOk(s) ==
    /\ reader[s].pc = "send"
    /\ out' = Append(out, Record(s))
    /\ reader' = [reader EXCEPT ![s].pc = "read", ![s].msg = None]
    /\ UNCHANGED <<subscription, serverVars, reply, wire, opened, conn, client, errors, late>>

\* Faulty variant: a message that could not be delivered is given up.
SendFailsGivesUp(s) ==
    /\ reader[s].pc = "send" /\ errors < MaxErrors
    /\ errors' = errors + 1
    /\ late' \in {late, late \cup {Record(s)}}
    /\ reader' = [reader EXCEPT ![s].pc = "read", ![s].msg = None]
    /\ UNCHANGED <<subscription, serverVars, reply, wire, opened, conn, client, out>>

\* The send is reported as failed, after message.timeout.ms for instance; the
\* broker may have the record or get it yet.  The loop sends it again.
SendFails(s) ==
    /\ reader[s].pc = "send" /\ errors < MaxErrors
    /\ errors' = errors + 1
    /\ late' \in {late, late \cup {Record(s)}}
    /\ UNCHANGED <<subscription, serverVars, reply, wire, opened, conn, client, reader, out>>

\* The broker appends a record whose send was given up for failed.
AppendLate(r) ==
    /\ out' = Append(out, r)
    /\ late' = late \ {r}
    /\ UNCHANGED <<subscription, serverVars, reply, wire, opened, conn, client, reader, errors>>

-----------------------------------------------------------------------------
ServerStep ==
    \/ \E channel \in ChannelErrors \cup {None} : HandleRequest(channel)
    \/ CloseOnNextStream \/ RecvNone \/ Finish \/ TaskFails \/ StreamNone
    \/ \E s \in Streams : JoinNext(s)

Source ==
    \/ RecvMessage \/ StreamMessage
    \/ \E e \in DOMAIN CloseCode : RecvErr(e) \/ TcpErr(e) \/ GrpcErr(e)

ClientStep == ReadResponse \/ AcceptUni \/ PollQuic \/ PollMessage \/ PollEnd

Fault ==
    \/ Lost \/ Killed
    \/ \E s \in Streams : SendFails(s)
    \/ \E r \in late : AppendLate(r)

Next ==
    \/ ServerStep \/ Source \/ ClientStep \/ Fault
    \/ PollAgain \/ PollPending \/ Exit
    \/ \E s \in Streams : WriteFrame(s) \/ ReaderNext(s) \/ SendOk(s)

Spec == Init /\ [][Next]_vars

\* Tasks that can run are run, and a broker that is asked often enough answers.
FairSpec ==
    /\ Spec
    /\ WF_vars(ServerStep) /\ WF_vars(ClientStep)
    /\ \A s \in Streams : WF_vars(WriteFrame(s)) /\ WF_vars(ReaderNext(s)) /\ WF_vars(SendOk(s))

-----------------------------------------------------------------------------
\* Properties

Accepted == server \notin {"request"} /\ reply # None /\ reply.error = None

Arrived(m) == \E i \in DOMAIN out : out[i].msg = m

BadToken == subscription.x_tokens # {} /\ Request.x_token \notin subscription.x_tokens

\* What a subscriber may be told, from the request and from what the channel has
\* said: the words of the transport (client/src/error.rs) for each reason.
Reasons ==
    {Told("Io", None), Told("QuicConnection", None), End}
    \cup (IF BadToken THEN
            {Told("unauthenticated", None),
             Told(IF Request.x_token = None THEN "XTokenRequired" ELSE "XTokenInvalid", None)} ELSE {})
    \cup (IF Request.size > MaxRequestSize THEN
            {Told("aborted", None), Told("RequestSizeTooLarge", None)} ELSE {})
    \cup (IF Request.recv_streams = 0 THEN {Told("ZeroRecvStreams", None)} ELSE {})
    \cup (IF Request.recv_streams > MaxRecvStreams THEN
            {Told("ExceedRecvStreams", MaxRecvStreams)} ELSE {})
    \cup (CASE rx.end = "NotInitialized" -> {Told("NotInitialized", None), Told("internal", None)}
            [] rx.end = "SlotNotAvailable" ->
                 {Told("ReplayFromSlotNotAvailable", FirstSlot), Told("invalid_argument", None)}
            [] rx.end \in {"Lagged", "Closed"} ->
                 {Told(rx.end, None), Told("out_of_range", CloseCode[rx.end])}
            [] OTHER -> {})

\* A subscriber is told why it was refused or why its stream was closed, through
\* the codes of the protocol, or that the connection failed; and one whose token
\* is not accepted gets no message (handle_request, parse_quic_response, recv).
ReasonReported ==
    /\ {client.told} \cup {reader[s].told : s \in Streams} \subseteq Reasons \cup {None}
    /\ BadToken => out = <<>>

\* The send loop keeps its streams: each is free or has a task, so that
\* expect("already verified") does not panic.  It keeps the backlog as well: no
\* message is handed to a stream while one that is max_backlog older is still
\* being written.
SendLoopSound ==
    /\ server # "panicked"
    /\ Quic /\ server = "send" =>
          Range(loop.free) \cup {s \in Streams : loop.task[s] # None} = 1 .. Request.recv_streams
    /\ Quic => \A s \in Streams : Writing(s) => loop.msg_id - loop.task[s].id <= Backlog

\* What arrives is gapless per stream, at least once: before a message of a
\* stream is seen, every earlier message of that stream has been, although sends
\* to Kafka fail, are repeated and take effect late; and when a stream of QUIC
\* ends without an error, all its messages have arrived (join_all comes before
\* finish in handle_incoming).
Lossless ==
    /\ \A i \in DOMAIN out : LET m == out[i].msg IN
          /\ m \in DOMAIN loop.lane /\ loop.lane[m] = out[i].via
          /\ \A n \in 1 .. m - 1 :
                loop.lane[n] = loop.lane[m] => \E j \in 1 .. i - 1 : out[j].msg = n
    /\ \A s \in Streams : reader[s].told = End =>
          \A m \in DOMAIN loop.lane : loop.lane[m] = s => Arrived(m)

\* A consumer that reads to the end: richat for TCP and gRPC, and richat-cli for
\* QUIC, with a backlog that lets anything through.
Forwards == (Quic <=> Consumer = "cli") /\ Request.max_backlog # 0

\* While the connection lasts, the messages the server has taken arrive, once
\* there were enough of them for the client to learn of all its streams.
AllForwarded ==
    (Accepted /\ Forwards /\ (Quic => rx.taken >= Request.recv_streams))
        ~> (conn = "gone" \/ \A m \in 1 .. rx.taken : Arrived(m))

=============================================================================
