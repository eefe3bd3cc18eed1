---------------------------- MODULE GrpcClients ----------------------------
(***************************************************************************)
(* The subscriptions of the richat gRPC server (richat/src/grpc/server.rs):*)
(* a queue of clients that worker threads pop, serve under the mutex of    *)
(* the client's state and push back; per client a task that reads its      *)
(* requests and a stream that tonic polls.  All three hold the client and  *)
(* count themselves in ref_count.                                          *)
(*                                                                         *)
(* The rings of richat/src/channel.rs are seen through get_current_tail    *)
(* and try_recv only: per commitment the first position that is retained   *)
(* and the next one to be written (RichatRing has the details).  A message *)
(* is its commitment and position, and counts one in messages_len_total.   *)
(***************************************************************************)
EXTENDS Integers, Sequences, FiniteSets, SequencesExt

CONSTANTS
    Clients, Workers, Commitments,
    Requests,      \* per client: filter, commitment and replay of its requests
    FirstPos,      \* max_messages of the ring, its first position
    MaxPushes,     \* bound: messages that are pushed, per ring
    Retained,      \* per ring: messages that try_clear may leave, at most
    CacheSize,     \* messages_cached_max, a power of two
    LenMax,        \* messages_len_max
    MaxPerTick,    \* messages_max_per_tick
    MaxSubs,       \* bound: filters a client sets
    MaxPings,      \* bound: pings and pongs, per client
    Updates(_, _), \* number of updates a filter yields for a position
    Nothing

ASSUME GrpcAssumption ==
    /\ {FirstPos, CacheSize, MaxPerTick} \subseteq Nat \ {0}
    /\ {LenMax, MaxSubs} \subseteq Nat
    /\ MaxPings \in [Clients -> Nat]
    /\ MaxPushes \in [Commitments -> Nat]
    /\ Retained \in [Commitments -> SUBSET Nat]
    /\ Commitments # {}
    /\ Nothing \notin Clients /\ Nothing \notin Nat
    /\ Nothing \notin [sub : Nat, commitment : Commitments, pos : Nat, item : Nat]
    /\ \A k \in Clients : \A r \in Requests[k] :
          /\ r.commitment \in Commitments /\ r.replay \in BOOLEAN
          /\ r.filter # Nothing
          /\ \A c \in Commitments : \A p \in FirstPos .. FirstPos + MaxPushes[c] :
                Updates(r.filter, p) \in Nat

VARIABLES
    ring,      \* per commitment: first position retained, next to be written
    queue,     \* subscribe_clients
    client,    \* SubscribeClientState of each client
    task,      \* the request task: "none", "select", "break", "ended"
    stream,    \* ReceiverStream: "none", "poll", "parked", "finished", "dropped"
    worker,    \* per thread: where it is, the client it holds, count
    cache,     \* per thread and commitment: MessagesCache
    stop,      \* the shutdown is set
    subs,      \* history: filters a client has set, with commitment and start
    last       \* history: the update the stream has yielded last

vars == <<ring, queue, client, task, stream, worker, cache, stop, subs, last>>

MaxPos(c) == FirstPos + MaxPushes[c]

Ping == Nothing  \* a ping or a pong among the messages

\* SubscribeClientState::new
NewState ==
    [ref_count |-> 1, commitment |-> CHOOSE c \in Commitments : TRUE, head |-> 0,
     filter |-> Nothing, error |-> FALSE, messages |-> <<>>, waker |-> FALSE, pings |-> 0]

\* MessagesCache::new, with positions that nobody asks for in the buffer
NewCache ==
    [head |-> 0, buffer |-> [i \in 0 .. CacheSize - 1 |-> [pos |-> Nothing, msg |-> Nothing]]]

\* A worker thread between two clients
Idle == [pc |-> "idle", client |-> Nothing, count |-> 0]

Init ==
    /\ ring = [c \in Commitments |-> [first |-> FirstPos, tail |-> FirstPos]]
    /\ queue = <<>>
    /\ client = [k \in Clients |-> NewState]
    /\ task = [k \in Clients |-> "none"]
    /\ stream = [k \in Clients |-> "none"]
    /\ worker = [w \in Workers |-> Idle]
    /\ cache = [w \in Workers |-> [c \in Commitments |-> NewCache]]
    /\ stop = FALSE
    /\ subs = [k \in Clients |-> <<>>]
    /\ last = [k \in Clients |-> Nothing]

(***************************************************************************)
(* The ring and the shutdown, which go on around the server                *)
(***************************************************************************)
\* try_clear removes one message or many, as their sizes and slots have it.
Push(c) ==
    /\ ring[c].tail < MaxPos(c)
    /\ \E n \in Retained[c] :
          ring' = [ring EXCEPT ![c] = [tail |-> @.tail + 1,
                      first |-> IF @.tail + 1 - @.first > n THEN @.tail + 1 - n ELSE @.first]]
    /\ UNCHANGED <<queue, client, task, stream, worker, cache, stop, subs, last>>

Stop ==
    /\ ~stop
    /\ stop' = TRUE
    /\ UNCHANGED <<ring, queue, client, task, stream, worker, cache, subs, last>>

\* get_current_tail: the tail, or where a slot begins, if the slot is known; the
\* message there may have left the ring already.
get_current_tail(c, replay) ==
    IF replay THEN {Nothing} \cup FirstPos .. ring[c].tail - 1 ELSE {ring[c].tail}

(***************************************************************************)
(* SubscribeClient and SubscribeClientState                                *)
(***************************************************************************)
\* Faulty variant: a client without messages is full when nothing may wait.
is_full_early(st) == Len(st.messages) >= LenMax

is_full(st) == Len(st.messages) > LenMax

\* Faulty variant: the next message waits for a waker that is still stored.
push_message_silent(st, ms) == [st EXCEPT !.messages = @ \o ms]

\* The waker is taken and wakes the task of the stream.
push_message(st, ms) ==
    [st EXCEPT !.messages = @ \o ms, !.waker = @ /\ ms = <<>>]

push_error(st) == [st EXCEPT !.error = TRUE, !.waker = FALSE]

\* Faulty variant: a holder that goes is still counted.
DropUncounted(st) == st

Drop(st) == [st EXCEPT !.ref_count = @ - 1]

\* What a change of the state does to a stream that waits for its waker.
Woken(k, st) ==
    [stream EXCEPT ![k] = IF @ = "parked" /\ client[k].waker /\ ~st.waker THEN "poll" ELSE @]

\* A worker serves the client: the others wait for the mutex of its state.
Locked(k) == \E w \in Workers : worker[w].pc = "turn" /\ worker[w].client = k

SetState(k, st) ==
    /\ client' = [client EXCEPT ![k] = st]
    /\ stream' = Woken(k, st)

(***************************************************************************)
(* GrpcServer::subscribe and its request task                              *)
(***************************************************************************)
\* The client is held by the queue, by the task and by the stream it returns.
subscribe(k) ==
    /\ task[k] = "none"
    /\ client' = [client EXCEPT ![k] = [NewState EXCEPT !.ref_count = 3]]
    /\ queue' = Append(queue, k)
    /\ task' = [task EXCEPT ![k] = "select"]
    /\ stream' = [stream EXCEPT ![k] = "poll"]
    /\ UNCHANGED <<ring, worker, cache, stop, subs, last>>

\* A ping is answered whatever the stream still has to send.
RequestPing(k) ==
    /\ task[k] = "select" /\ ~Locked(k)
    /\ client[k].pings < MaxPings[k]
    /\ SetState(k, push_message([client[k] EXCEPT !.pings = @ + 1], <<Ping>>))
    /\ UNCHANGED <<ring, queue, task, worker, cache, stop, subs, last>>

\* ConfigFilter::try_from or check_filter refuses the request.
RequestRefused(k) ==
    /\ task[k] = "select" /\ ~Locked(k)
    /\ SetState(k, push_error(client[k]))
    /\ task' = [task EXCEPT ![k] = "break"]
    /\ UNCHANGED <<ring, queue, worker, cache, stop, subs, last>>

\* The commitment is set before the position is known: without one, the old
\* filter and the old position stay, and the task ends with the error.
RequestFilter(k, r) ==
    /\ task[k] = "select" /\ ~Locked(k)
    /\ \E pos \in get_current_tail(r.commitment, r.replay) :
          LET st == [client[k] EXCEPT !.commitment = r.commitment]
          IN \/ /\ pos = Nothing
                /\ SetState(k, push_error(st))
                /\ task' = [task EXCEPT ![k] = "break"]
                /\ UNCHANGED subs
             \/ /\ pos # Nothing /\ Len(subs[k]) < MaxSubs
                /\ SetState(k, [st EXCEPT !.head = pos, !.filter = r.filter])
                /\ subs' = [subs EXCEPT ![k] =
                               Append(@, [filter |-> r.filter, commitment |-> r.commitment, start |-> pos])]
                /\ UNCHANGED task
    /\ UNCHANGED <<ring, queue, worker, cache, stop, last>>

\* stream.message() is Ok(None) or Err: the requests have ended, the stream has not.
RequestsEnd(k) ==
    /\ task[k] = "select"
    /\ task' = [task EXCEPT ![k] = "break"]
    /\ UNCHANGED <<ring, queue, client, stream, worker, cache, stop, subs, last>>

TaskStops(k) ==
    /\ task[k] = "select" /\ ~Locked(k)
    /\ stop
    /\ SetState(k, push_error(client[k]))
    /\ task' = [task EXCEPT ![k] = "break"]
    /\ UNCHANGED <<ring, queue, worker, cache, stop, subs, last>>

\* The task drops its client.
TaskEnds(k) ==
    /\ task[k] = "break" /\ ~Locked(k)
    /\ SetState(k, Drop(client[k]))
    /\ task' = [task EXCEPT ![k] = "ended"]
    /\ UNCHANGED <<ring, queue, worker, cache, stop, subs, last>>

(***************************************************************************)
(* ReceiverStream                                                          *)
(***************************************************************************)
\* The error first, then the messages; otherwise the waker is stored under the
\* mutex, so nothing can have come in between.
pop_message(k) ==
    LET st == client[k]
    IN \/ /\ st.error
          /\ client' = [client EXCEPT ![k].error = FALSE]
          /\ stream' = [stream EXCEPT ![k] = "finished"]
          /\ UNCHANGED last
       \/ /\ ~st.error /\ st.messages # <<>>
          /\ client' = [client EXCEPT ![k].messages = Tail(@)]
          /\ last' = [last EXCEPT ![k] = IF Head(st.messages) = Ping THEN @ ELSE Head(st.messages)]
          /\ UNCHANGED stream
       \/ /\ ~st.error /\ st.messages = <<>>
          /\ client' = [client EXCEPT ![k].waker = TRUE]
          /\ stream' = [stream EXCEPT ![k] = "parked"]
          /\ UNCHANGED last

poll_next(k) ==
    /\ stream[k] = "poll" /\ ~Locked(k)
    /\ pop_message(k)
    /\ UNCHANGED <<ring, queue, task, worker, cache, stop, subs>>

\* tonic drops the stream: it has finished, or the connection is gone.
DropStream(k) ==
    /\ stream[k] \in {"poll", "parked", "finished"} /\ ~Locked(k)
    /\ client' = [client EXCEPT ![k] = Drop(@)]
    /\ stream' = [stream EXCEPT ![k] = "dropped"]
    /\ last' = [last EXCEPT ![k] = Nothing]
    /\ UNCHANGED <<ring, queue, task, worker, cache, stop, subs>>

(***************************************************************************)
(* MessagesCache::try_recv                                                 *)
(***************************************************************************)
WORD == 2^16  \* u64, scaled down: mask and positions are far below it

\* ReceiverSync::try_recv
ring_try_recv(c, pos) ==
    CASE pos >= ring[c].tail -> "none"
      [] pos < ring[c].first -> "lagged"
      [] OTHER -> "some"

CacheHead(ca, pos) == IF pos > ca.head THEN pos ELSE ca.head

get_idx(pos) == pos % CacheSize

\* head - mask wraps while the cache's head is below the mask: nothing is in range.
inrange(ca, pos) == pos >= (CacheHead(ca, pos) - (CacheSize - 1)) % WORD

\* Faulty variant: any item in the cell answers.
CachedAny(ca, pos) == inrange(ca, pos) /\ ca.buffer[get_idx(pos)].pos # Nothing

Cached(ca, pos) == inrange(ca, pos) /\ ca.buffer[get_idx(pos)].pos = pos

CacheResult(ca, c, pos) == IF Cached(ca, pos) THEN "some" ELSE ring_try_recv(c, pos)

CacheMessage(ca, c, pos) ==
    IF Cached(ca, pos) THEN ca.buffer[get_idx(pos)].msg ELSE <<c, pos>>

\* The cache afterwards: what came from the ring is stored if it is in range.
CacheAfter(ca, c, pos) ==
    LET hd == [ca EXCEPT !.head = CacheHead(ca, pos)]
    IN IF ~Cached(ca, pos) /\ inrange(ca, pos) /\ ring_try_recv(c, pos) = "some"
       THEN [hd EXCEPT !.buffer[get_idx(pos)] = [pos |-> pos, msg |-> <<c, pos>>]]
       ELSE hd

(***************************************************************************)
(* GrpcServer::worker_messages                                             *)
(***************************************************************************)
Goto(w, pc) == worker' = [worker EXCEPT ![w].pc = pc]

pop_client(w) ==
    /\ worker[w].pc = "idle"
    /\ queue # <<>>
    /\ worker' = [worker EXCEPT ![w] = [pc |-> "held", client |-> Head(queue), count |-> 0]]
    /\ queue' = Tail(queue)
    /\ UNCHANGED <<ring, client, task, stream, cache, stop, subs, last>>

\* Faulty variant: the client is let go while its task is still there.
DropLastEarly(w) ==
    LET k == worker[w].client
    IN /\ worker[w].pc = "held" /\ ~Locked(k)
       /\ client[k].ref_count <= 2
       /\ SetState(k, Drop(client[k]))
       /\ worker' = [worker EXCEPT ![w] = Idle]
       /\ UNCHANGED <<ring, queue, task, cache, stop, subs, last>>

\* Faulty variant: the worker does not count itself.
DropLastNever(w) ==
    LET k == worker[w].client
    IN /\ worker[w].pc = "held" /\ ~Locked(k)
       /\ client[k].ref_count = 0
       /\ SetState(k, Drop(client[k]))
       /\ worker' = [worker EXCEPT ![w] = Idle]
       /\ UNCHANGED <<ring, queue, task, cache, stop, subs, last>>

\* Nobody but the worker holds the client: it is not pushed back.
DropLast(w) ==
    LET k == worker[w].client
    IN /\ worker[w].pc = "held" /\ ~Locked(k)
       /\ client[k].ref_count = 1
       /\ SetState(k, Drop(client[k]))
       /\ worker' = [worker EXCEPT ![w] = Idle]
       /\ UNCHANGED <<ring, queue, task, cache, stop, subs, last>>

\* The turn begins: a ping if one is due, and without a filter that is all.
StartTurn(w) ==
    LET k == worker[w].client
        st == client[k]
    IN /\ worker[w].pc = "held" /\ ~Locked(k)
       /\ st.ref_count # 1
       /\ \/ SetState(k, st)
          \/ /\ ~is_full(st) /\ st.pings < MaxPings[k]
             /\ SetState(k, push_message([st EXCEPT !.pings = @ + 1], <<Ping>>))
       /\ Goto(w, IF st.filter = Nothing THEN "requeue" ELSE "turn")
       /\ UNCHANGED <<ring, queue, task, cache, stop, subs, last>>

\* The updates of a message for the filter that is set, tagged with its number.
Pushed(k, msg) ==
    [i \in 1 .. Updates(client[k].filter, msg[2]) |->
        [sub |-> Len(subs[k]), commitment |-> msg[1], pos |-> msg[2], item |-> i]]

\* One round of the loop over messages, which keeps the mutex of the state.
TurnStep(w) ==
    LET k == worker[w].client
        st == client[k]
        c == st.commitment
        result == CacheResult(cache[w][c], c, st.head)
        more == ~is_full(st) /\ worker[w].count < MaxPerTick
    IN /\ worker[w].pc = "turn"
       /\ \/ /\ ~more
             /\ Goto(w, "requeue")
             /\ UNCHANGED <<client, stream, cache>>
          \/ /\ more
             /\ cache' = [cache EXCEPT ![w][c] = CacheAfter(@, c, st.head)]
             /\ \/ /\ result = "none"
                   /\ Goto(w, "requeue")
                   /\ UNCHANGED <<client, stream>>
                \/ /\ result = "lagged"
                   /\ Goto(w, "errored")
                   /\ SetState(k, push_error(st))
                \/ /\ result = "some"
                   /\ worker' = [worker EXCEPT ![w].count = @ + 1]
                   /\ SetState(k, push_message([st EXCEPT !.head = @ + 1],
                                     Pushed(k, CacheMessage(cache[w][c], c, st.head))))
       /\ UNCHANGED <<ring, queue, task, stop, subs, last>>

push_client(w) ==
    /\ worker[w].pc = "requeue"
    /\ queue' = Append(queue, worker[w].client)
    /\ worker' = [worker EXCEPT ![w] = Idle]
    /\ UNCHANGED <<ring, client, task, stream, cache, stop, subs, last>>

\* errored: the worker drops the client at the end of the turn.
DropErrored(w) ==
    LET k == worker[w].client
    IN /\ worker[w].pc = "errored" /\ ~Locked(k)
       /\ SetState(k, Drop(client[k]))
       /\ worker' = [worker EXCEPT ![w] = Idle]
       /\ UNCHANGED <<ring, queue, task, cache, stop, subs, last>>

\* shutdown.is_set(), looked at every COUNTER_LIMIT rounds or when the queue was
\* empty: the clients that are queued are dropped one by one.
WorkerStops(w) ==
    /\ worker[w].pc \in {"idle", "drain"} /\ stop
    /\ \/ /\ queue = <<>>
          /\ Goto(w, "done")
          /\ UNCHANGED <<queue, client, stream>>
       \/ /\ queue # <<>> /\ ~Locked(Head(queue))
          /\ queue' = Tail(queue)
          /\ SetState(Head(queue), Drop(client[Head(queue)]))
          /\ Goto(w, "drain")
    /\ UNCHANGED <<ring, task, cache, stop, subs, last>>

Work(w) ==
    \/ pop_client(w) \/ DropLast(w) \/ StartTurn(w) \/ TurnStep(w)
    \/ push_client(w) \/ DropErrored(w) \/ WorkerStops(w)

Task(k) ==
    \/ RequestPing(k) \/ RequestRefused(k) \/ RequestsEnd(k) \/ TaskStops(k) \/ TaskEnds(k)
    \/ \E r \in Requests[k] : RequestFilter(k, r)

Next ==
    \/ \E c \in Commitments : Push(c)
    \/ Stop
    \/ \E k \in Clients : subscribe(k) \/ Task(k) \/ poll_next(k) \/ DropStream(k)
    \/ \E w \in Workers : Work(w)

Spec == Init /\ [][Next]_vars

\* Worker threads and tasks run, and who waits for the mutex of a state gets it; a
\* connection that has lost its stream has no more requests.
FairSpec ==
    /\ Spec
    /\ \A w \in Workers : SF_vars(Work(w))
    /\ \A k \in Clients :
          /\ SF_vars(poll_next(k)) /\ SF_vars(TaskEnds(k))
          /\ WF_vars(RequestsEnd(k) /\ stream[k] = "dropped")

(***************************************************************************)
(* Properties                                                              *)
(***************************************************************************)
Count(P(_), S) == Cardinality({x \in S : P(x)})

\* How often the queue and the workers hold a client.
Held(k) ==
    LET InQueue(i) == queue[i] = k
        InHand(w) == worker[w].client = k
    IN Count(InQueue, DOMAIN queue) + Count(InHand, Workers)

Open(k) == stream[k] \in {"poll", "parked"}

\* ref_count is the number of holders at every moment, however clones and drops of
\* the queue, the workers, the task and the stream interleave: the worker's test for
\* the last instance (server.rs:301) depends on it.
RefCounted ==
    \A k \in Clients : task[k] # "none" =>
        client[k].ref_count = Held(k) + (IF task[k] = "ended" THEN 0 ELSE 1)
                                      + (IF stream[k] = "dropped" THEN 0 ELSE 1)

\* A client whose stream is open and has no error to report is in the queue or in
\* the hands of one worker, and never twice, whatever its task does: pop_client and
\* push_client keep the round going.
StillServed ==
    \A k \in Clients :
        /\ Held(k) <= 1
        /\ Open(k) /\ ~client[k].error /\ ~stop => Held(k) = 1

\* A stream that waits has its waker stored and nothing to yield (pop_message stores
\* the waker under the mutex that push_message and push_error take).
NoLostWakeup ==
    \A k \in Clients :
        stream[k] = "parked" => client[k].waker /\ client[k].messages = <<>> /\ ~client[k].error

\* The first update of a filter for the positions from pos on, if there is one.
FirstFrom(k, n, pos) ==
    LET hits == {p \in pos .. MaxPos(subs[k][n].commitment) : Updates(subs[k][n].filter, p) > 0}
    IN IF hits = {} THEN Nothing
       ELSE [sub |-> n, commitment |-> subs[k][n].commitment, pos |-> Min(hits), item |-> 1]

\* The update that follows one of the same filter.
Successor(k, m) ==
    IF m.item < Updates(subs[k][m.sub].filter, m.pos)
    THEN [m EXCEPT !.item = @ + 1]
    ELSE FirstFrom(k, m.sub, m.pos + 1)

Failed(k) == client[k].error \/ stream[k] = "finished"

\* The update yielded last and the ones that wait; after an error none is yielded.
Outgoing(k) == <<last[k]>> \o (IF Failed(k) THEN <<>> ELSE client[k].messages)

\* Two updates with nothing but pings between them, and an update with nothing but
\* pings after it.
Adjacent(s, i, j) == i < j /\ s[i] # Ping /\ s[j] # Ping /\ \A n \in i + 1 .. j - 1 : s[n] = Ping

Final(s, i) == s[i] # Ping /\ \A n \in i + 1 .. Len(s) : s[n] = Ping

\* An update is followed by the next one of its filter, or by the first of a later one.
Follows(k, m, n) ==
    IF m.sub = n.sub THEN n = Successor(k, m)
    ELSE m.sub < n.sub /\ n = FirstFrom(k, n.sub, subs[k][n.sub].start)

Gapless(k, out) ==
    /\ \A i \in 1 .. Len(out) : out[i] # Ping =>
          /\ out[i].sub \in 1 .. Len(subs[k])
          /\ out[i].commitment = subs[k][out[i].sub].commitment
    /\ \A i, j \in 1 .. Len(out) : Adjacent(out, i, j) => Follows(k, out[i], out[j])

\* What comes next for the filter that is set is at the head.
HeadIsNext(k, out) ==
    LET now == Len(subs[k])
        next == FirstFrom(k, now, client[k].head)
    IN \/ \E i \in 1 .. Len(out) : Final(out, i) /\ out[i].sub = now /\ next = Successor(k, out[i])
       \/ /\ \A i \in 1 .. Len(out) : out[i] # Ping => out[i].sub # now
          /\ next = FirstFrom(k, now, subs[k][now].start)

\* For each filter a client has set, its stream yields the updates of consecutive
\* positions of the ring asked for, from where get_current_tail said: no gap, no
\* repetition, nothing of another commitment, through any number of workers, caches
\* and turns, and also after a request that changed the commitment and then failed;
\* what comes next is at the head.
GaplessDelivery ==
    \A k \in Clients : stream[k] # "dropped" =>
        /\ Gapless(k, Outgoing(k))
        /\ ~Failed(k) /\ subs[k] # <<>> => HeadIsNext(k, Outgoing(k))

\* The filter waits for a position that the ring has.
Behind(k) ==
    /\ Open(k) /\ client[k].filter # Nothing
    /\ client[k].head < ring[client[k].commitment].tail

\* A client that is behind catches up with the ring, or hears of an error: changed
\* filters, the limit per turn and full buffers only delay it.
CatchesUp == \A k \in Clients : Behind(k) ~> (~Behind(k) \/ client[k].error \/ stop)

\* A client whose stream is gone is let go by its task and by the workers.
Freed == \A k \in Clients : stream[k] = "dropped" ~> (client[k].ref_count = 0 \/ stop)

=============================================================================
