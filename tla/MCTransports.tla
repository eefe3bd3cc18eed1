---------------------------- MODULE MCTransports ----------------------------
(***************************************************************************)
(* Instances of Transports for TLC.                                        *)
(***************************************************************************)
EXTENDS Transports

Req(size, x_token, recv_streams, max_backlog) ==
    [size |-> size, x_token |-> x_token, recv_streams |-> recv_streams, max_backlog |-> max_backlog]

Sub(transport, consumer, x_tokens, request) ==
    [transport |-> transport, consumer |-> consumer, x_tokens |-> x_tokens, request |-> request]

Transports == {"quic", "tcp", "grpc"}

\* Requests that a server with the token "t" refuses, for every reason it has.
Refused ==
    {Sub(t, "cli", {"t"}, Req(1, x, 1, None)) : t \in Transports, x \in {None, "bad"}}
    \cup {Sub(t, "cli", {"t"}, Req(2, "t", 1, None)) : t \in Transports}
    \cup {Sub("quic", "cli", {"t"}, Req(1, "t", n, None)) : n \in {0, MaxRecvStreams + 1}}

\* Requests that it accepts, by both consumers.
Served ==
    {Sub("quic", "cli", {"t"}, Req(1, "t", 2, b)) : b \in {0, 2}}
    \cup {Sub("quic", "richat", {}, Req(1, None, 1, None))}
    \cup {Sub(t, c, {}, Req(1, None, 0, None)) : t \in {"tcp", "grpc"}, c \in {"cli", "richat"}}

SubscriptionsOf == Refused \cup Served

=============================================================================
