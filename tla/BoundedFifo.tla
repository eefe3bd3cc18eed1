---------------------------- MODULE BoundedFifo ----------------------------
(***************************************************************************)
(* What the binary channel between the source thread and the parser        *)
(* promises: a queue of bounded length, without the ring, the positions    *)
(* and the locks.                                                          *)
(***************************************************************************)
EXTENDS Integers, Sequences

CONSTANTS
    Messages,     \* what may be queued
    Bound         \* the most that may be queued

VARIABLES
    queue,        \* sent and not yet received, oldest first
    got           \* received, oldest first

vars == <<queue, got>>

Init == queue = <<>> /\ got = <<>>

Enqueue(m) ==
    /\ Len(queue) < Bound
    /\ queue' = Append(queue, m)
    /\ UNCHANGED got

Dequeue ==
    /\ queue # <<>>
    /\ got' = Append(got, Head(queue))
    /\ queue' = Tail(queue)

Next == Dequeue \/ \E m \in Messages : Enqueue(m)

Spec == Init /\ [][Next]_vars

=============================================================================
