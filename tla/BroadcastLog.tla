---------------------------- MODULE BroadcastLog ----------------------------
(***************************************************************************)
(* What the plugin's channel promises its subscribers, without the ring,   *)
(* the locks, the limits and the wakers: one log in one order, of which a  *)
(* suffix is kept, and subscribers that read the log from a kept position  *)
(* on without a gap, or learn that they lag.                               *)
(***************************************************************************)
EXTENDS Integers, Sequences

CONSTANTS
    Readers,      \* subscribers
    Messages      \* what may be published: records with a field kind

VARIABLES
    log,          \* everything published, oldest first
    lo,           \* number of messages no longer kept
    phase,        \* "out", "in", "lagged" or "closed", per reader
    cursor,       \* number of messages before the one the reader wants next
    skip,         \* kinds of messages the reader does not want
    got,          \* messages the reader was given
    closing       \* the publisher has begun to leave

vars == <<log, lo, phase, cursor, skip, got, closing>>

Init ==
    /\ log = <<>>
    /\ lo = 0
    /\ phase = [r \in Readers |-> "out"]
    /\ cursor = [r \in Readers |-> 0]
    /\ skip = [r \in Readers |-> {}]
    /\ got = [r \in Readers |-> <<>>]
    /\ closing = FALSE

\* One more message; the oldest kept one may have to make room for it.
Publish ==
    /\ ~closing
    /\ Len(log') = Len(log) + 1
    /\ log'[Len(log')] \in Messages
    /\ log' = Append(log, log'[Len(log')])
    /\ lo' \in {lo, lo + 1}
    /\ lo' <= Len(log)
    /\ UNCHANGED <<phase, cursor, skip, got, closing>>

Discard ==
    /\ ~closing
    /\ lo < Len(log)
    /\ lo' = lo + 1
    /\ UNCHANGED <<log, phase, cursor, skip, got, closing>>

Close ==
    /\ ~closing
    /\ closing' = TRUE
    /\ UNCHANGED <<log, lo, phase, cursor, skip, got>>

Join(r) ==
    /\ phase[r] = "out"
    /\ phase' = [phase EXCEPT ![r] = "in"]
    /\ \E c \in lo .. Len(log) : cursor' = [cursor EXCEPT ![r] = c]
    /\ skip' = [skip EXCEPT ![r] = skip'[r]]
    /\ UNCHANGED <<log, lo, got, closing>>

\* The next message of the log: given to the reader, or skipped.
Advance(r) ==
    /\ phase[r] = "in"
    /\ cursor[r] \in lo .. Len(log) - 1
    /\ cursor' = [cursor EXCEPT ![r] = @ + 1]
    /\ LET m == log[cursor[r] + 1]
       IN got' = IF m.kind \in skip[r]
                 THEN got
                 ELSE [got EXCEPT ![r] = Append(@, m)]
    /\ UNCHANGED <<log, lo, phase, skip, closing>>

\* Only a reader whose next message is no longer kept lags.
Lag(r) ==
    /\ phase[r] = "in"
    /\ cursor[r] < lo
    /\ phase' = [phase EXCEPT ![r] = "lagged"]
    /\ cursor' = [cursor EXCEPT ![r] = 0]
    /\ UNCHANGED <<log, lo, skip, got, closing>>

\* A reader is told that the publisher left only if it did.
End(r) ==
    /\ phase[r] = "in"
    /\ closing
    /\ phase' = [phase EXCEPT ![r] = "closed"]
    /\ cursor' = [cursor EXCEPT ![r] = 0]
    /\ UNCHANGED <<log, lo, skip, got, closing>>

Leave(r) ==
    /\ phase[r] # "out"
    /\ phase' = [phase EXCEPT ![r] = "out"]
    /\ cursor' = [cursor EXCEPT ![r] = 0]
    /\ skip' = [skip EXCEPT ![r] = {}]
    /\ got' = [got EXCEPT ![r] = <<>>]
    /\ UNCHANGED <<log, lo, closing>>

Next ==
    \/ Publish
    \/ Discard
    \/ Close
    \/ \E r \in Readers : Join(r) \/ Advance(r) \/ Lag(r) \/ End(r) \/ Leave(r)

Spec == Init /\ [][Next]_vars

=============================================================================
