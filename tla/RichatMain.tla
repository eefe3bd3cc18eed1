----------------------------- MODULE RichatMain -----------------------------
(***************************************************************************)
(* The richat process (richat/src/bin/richat.rs): the source thread, which *)
(* subscribes to a source and feeds the binary channel, and the main       *)
(* thread, which polls for SIGINT and joins the source thread.  The parser *)
(* and the application threads are commented out at this commit, so        *)
(* nobody takes messages out of the channel: Recv of BinaryChannel never   *)
(* happens here.                                                           *)
(***************************************************************************)
EXTENDS BinaryChannel

VARIABLES
    source,       \* where the source thread is
    main,         \* where the main thread is
    stop,         \* State::shutdown of the Shutdown both hold
    sigint,       \* SIGINT is pending; a second one merges into it
    arrived,      \* history: messages the source stream yielded
    dropped       \* history: number of messages given up

mainVars == <<buffer, tail, head, hand, log, got, source, main, stop, sigint, arrived, dropped>>

\* source is "subscribe" in subscribe_source, "select" in the select over the stream
\* and the shutdown, "send" in the send loop, "refused" when send gave the message
\* back, "ok" or "error" when the thread has returned.  main is "signals" or "join"
\* in the two halves of its loop, then "ok", "error" (of the thread) or "forced" by
\* a second SIGINT.
Running == main \in {"signals", "join"}

MainInit ==
    /\ Init
    /\ source = "subscribe"
    /\ main = "signals"
    /\ stop = FALSE
    /\ sigint = FALSE
    /\ arrived = <<>>
    /\ dropped = 0

\* Messages::subscribe_source(..).await?: it is not raced with the shutdown.
Subscribe ==
    /\ Running /\ source = "subscribe"
    /\ source' \in {"select", "error"}
    /\ UNCHANGED <<vars, main, stop, sigint, arrived, dropped>>

\* The select takes Some(Ok(message)) from the stream.
TakeMessage(m) ==
    /\ Running /\ source = "select"
    /\ Len(arrived) < MaxLog
    /\ Offer(m)
    /\ arrived' = Append(arrived, m)
    /\ source' = "send"
    /\ UNCHANGED <<main, stop, sigint, dropped>>

\* The select takes Some(Err(_)) or None from the stream.
StreamEnds ==
    /\ Running /\ source = "select"
    /\ source' = "error"
    /\ UNCHANGED <<vars, main, stop, sigint, arrived, dropped>>

\* The select takes the shutdown.
StopSelected ==
    /\ Running /\ source = "select"
    /\ stop
    /\ source' = "ok"
    /\ UNCHANGED <<vars, main, stop, sigint, arrived, dropped>>

\* maybe_message = msg_tx.send(message)
SendMessage ==
    /\ Running /\ source = "send"
    /\ Send
    /\ source' = IF hand' = NoData THEN "select" ELSE "refused"
    /\ UNCHANGED <<main, stop, sigint, arrived, dropped>>

\* Faulty variant: the loop ends although no shutdown was requested.
GiveUpEarly ==
    /\ Running /\ source = "refused"
    /\ source' = "select"
    /\ hand' = NoData
    /\ dropped' = dropped + 1
    /\ UNCHANGED <<buffer, tail, head, log, got, main, stop, sigint, arrived>>

\* Faulty variant: the loop does not look at the shutdown.
NeverGiveUp ==
    /\ Running /\ source = "refused"
    /\ source' = "send"
    /\ UNCHANGED <<vars, main, stop, sigint, arrived, dropped>>

\* maybe_message.is_some() && shutdown.is_set() ends the loop, and the message
\* with it; otherwise the loop sends again.
GiveUp ==
    /\ Running /\ source = "refused"
    /\ \/ /\ stop
          /\ source' = "select"
          /\ hand' = NoData
          /\ dropped' = dropped + 1
       \/ /\ ~stop
          /\ source' = "send"
          /\ UNCHANGED <<hand, dropped>>
    /\ UNCHANGED <<buffer, tail, head, log, got, main, stop, sigint, arrived>>

\* The user interrupts.
Interrupt ==
    /\ Running
    /\ sigint' = TRUE
    /\ UNCHANGED <<vars, source, main, stop, arrived, dropped>>

\* for signal in signals.pending()
HandleSignals ==
    /\ main = "signals"
    /\ sigint' = FALSE
    /\ main' = IF sigint /\ stop THEN "forced" ELSE "join"
    /\ stop' = (stop \/ sigint)
    /\ UNCHANGED <<vars, source, arrived, dropped>>

\* The thread is joined once it is finished, its error returned by main.
JoinThreads ==
    /\ main = "join"
    /\ main' = IF source \in {"ok", "error"} THEN source ELSE "signals"
    /\ UNCHANGED <<vars, source, stop, sigint, arrived, dropped>>

Ended == ~Running /\ UNCHANGED mainVars

MainNext ==
    \/ Subscribe \/ StreamEnds \/ StopSelected \/ SendMessage \/ GiveUp
    \/ \E m \in Messages : TakeMessage(m)
    \/ Interrupt \/ HandleSignals \/ JoinThreads \/ Ended

MainSpec == MainInit /\ [][MainNext]_mainVars

\* The two threads run; the source thread gets out of subscribe_source only if
\* the peer answers, which nothing guarantees; the select chooses at random
\* among what is ready, so it takes the shutdown if it often can.
MainFairSpec ==
    /\ MainSpec
    /\ WF_mainVars(HandleSignals) /\ WF_mainVars(JoinThreads)
    /\ WF_mainVars(SendMessage) /\ WF_mainVars(GiveUp)
    /\ SF_mainVars(StopSelected)

-----------------------------------------------------------------------------

\* Until shutdown is requested no message of the stream is given up, and what
\* is in the channel is at all times the beginning of the stream: a message
\* is never dropped and a later one stored.
NothingLost ==
    /\ dropped > 0 => stop
    /\ log = SubSeq(arrived, 1, Len(log))
    /\ Len(arrived) = Len(log) + dropped + IF hand = NoData THEN 0 ELSE 1

\* Once the source is subscribed, a SIGINT ends the process, also while the
\* send loop spins on a full channel that nobody reads.
InterruptEnds == (stop /\ source # "subscribe") ~> ~Running

=============================================================================
