----------------------------- MODULE Handshake -----------------------------
(***************************************************************************)
(* How a subscription to the plugin is opened: what the QUIC, TCP and gRPC *)
(* servers (shared/src/transports) answer to a request, and what the       *)
(* clients (client/src) make of the answer.                                *)
(***************************************************************************)
EXTENDS Naturals, Sequences, FiniteSetsExt

CONSTANTS
    MaxRequestSize,   \* max_request_size
    MaxRecvStreams,   \* max_recv_streams
    FirstSlot,        \* the first slot the channel can replay from
    None

\* enum QuicSubscribeResponseError of richat.proto
ErrorCode ==
    [ZeroRecvStreams |-> 0, ExceedRecvStreams |-> 1, NotInitialized |-> 2,
     SlotNotAvailable |-> 3, RequestSizeTooLarge |-> 4, XTokenRequired |-> 5, XTokenInvalid |-> 6]

\* enum QuicSubscribeCloseError of richat.proto
CloseCode == [Lagged |-> 0, Closed |-> 1]

\* The reasons for which a request is refused or a stream is closed.
Errors ==
    DOMAIN ErrorCode \cup DOMAIN CloseCode
    \cup {"unauthenticated", "aborted", "internal", "invalid_argument"}

\* The error of the first check that fails; checks are pairs of a condition
\* for refusing and the error.
FirstError(checks) ==
    LET failed == {i \in DOMAIN checks : checks[i][1]}
    IN IF failed = {} THEN None ELSE checks[Min(failed)][2]

\* What Subscribe::subscribe says, None if it gives a receiver.
ChannelErrors == {"NotInitialized", "SlotNotAvailable"}

\* QuicServer::handle_request: the error of the response, None when the
\* connection goes on to send messages.
QuicRefusal(x_tokens, request, channel) ==
    FirstError(
        <<<<request.size > MaxRequestSize, "RequestSizeTooLarge">>,
          <<x_tokens # {} /\ request.x_token = None, "XTokenRequired">>,
          <<x_tokens # {} /\ request.x_token \notin x_tokens, "XTokenInvalid">>,
          <<request.recv_streams = 0, "ZeroRecvStreams">>,
          <<request.recv_streams > MaxRecvStreams, "ExceedRecvStreams">>,
          <<channel # None, channel>>>>)

\* TcpServer::handle_request
TcpRefusal(x_tokens, request, channel) ==
    FirstError(
        <<<<request.size > MaxRequestSize, "RequestSizeTooLarge">>,
          <<x_tokens # {} /\ request.x_token = None, "XTokenRequired">>,
          <<x_tokens # {} /\ request.x_token \notin x_tokens, "XTokenInvalid">>,
          <<channel # None, channel>>>>)

\* QuicSubscribeResponse, error and details
Response(error) ==
    [error |-> IF error = None THEN None ELSE ErrorCode[error],
     max_recv_streams |->
        IF error \in {"ZeroRecvStreams", "ExceedRecvStreams"} THEN MaxRecvStreams ELSE None,
     first_available_slot |-> IF error = "SlotNotAvailable" THEN FirstSlot ELSE None]

\* The interceptor of GrpcServer::spawn
Unauthenticated(x_tokens, x_token) == x_tokens # {} /\ x_token \notin x_tokens

\* GrpcServer::subscribe behind the interceptor: the Status, None for a stream.
GrpcRefusal(x_tokens, request, channel) ==
    FirstError(
        <<<<Unauthenticated(x_tokens, request.x_token), "unauthenticated">>,
          <<request.size > MaxRequestSize, "aborted">>,
          <<channel = "NotInitialized", "internal">>,
          <<channel = "SlotNotAvailable", "invalid_argument">>>>)

\* What a subscriber is told: an error and the number that goes with it.
Told(error, detail) == [error |-> error, detail |-> detail]

\* Faulty variant: two of the codes are mixed up.
ParseCodeSwapped(response) ==
    CASE response.error = 0 -> Told("ZeroRecvStreams", None)
      [] response.error = 1 -> Told("ExceedRecvStreams", response.max_recv_streams)
      [] response.error = 2 -> Told("NotInitialized", None)
      [] response.error = 3 -> Told("ReplayFromSlotNotAvailable", response.first_available_slot)
      [] response.error = 4 -> Told("RequestSizeTooLarge", None)
      [] response.error = 5 -> Told("XTokenInvalid", None)
      [] response.error = 6 -> Told("XTokenRequired", None)

\* SubscribeError::parse_quic_response
ParseCode(response) ==
    CASE response.error = 0 -> Told("ZeroRecvStreams", None)
      [] response.error = 1 -> Told("ExceedRecvStreams", response.max_recv_streams)
      [] response.error = 2 -> Told("NotInitialized", None)
      [] response.error = 3 -> Told("ReplayFromSlotNotAvailable", response.first_available_slot)
      [] response.error = 4 -> Told("RequestSizeTooLarge", None)
      [] response.error = 5 -> Told("XTokenRequired", None)
      [] response.error = 6 -> Told("XTokenInvalid", None)

\* From<QuicSubscribeClose> for ReceiveError
ParseClose(code) ==
    CASE code = 0 -> Told("Lagged", None)
      [] code = 1 -> Told("Closed", None)

=============================================================================
