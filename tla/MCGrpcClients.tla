--------------------------- MODULE MCGrpcClients ---------------------------
(***************************************************************************)
(* Instances of GrpcClients for TLC.                                       *)
(***************************************************************************)
EXTENDS GrpcClients

Request(f, c, replay) == [filter |-> f, commitment |-> c, replay |-> replay]

\* A client follows the tail, or asks for an earlier slot of another commitment.
RequestsOf ==
    [k \in Clients |->
        {Request("all", "processed", FALSE), Request("twice", "confirmed", TRUE)}]

PushesOf == [c \in Commitments |-> IF c = "processed" THEN 1 ELSE 2]

RetainedOf == [c \in Commitments |-> IF c = "processed" THEN {1} ELSE {0, 1}]

PingsOf == [k \in Clients |-> 1]

\* "all" passes every message once; "twice" is a filter on transactions and on
\* their statuses, which matches every second position with two updates.
UpdatesOf(f, pos) ==
    CASE f = "all" -> 1
      [] f = "twice" -> IF pos % 2 = 0 THEN 2 ELSE 0

=============================================================================
