------------------------ MODULE GrpcClientsProofs ------------------------
(***************************************************************************)
(* Proofs about the subscriptions of the richat gRPC server.               *)
(***************************************************************************)
EXTENDS GrpcClients, FiniteSetTheorems, SequenceTheorems, TLAPS

FilterValues == {r.filter : r \in UNION {Requests[k] : k \in Clients}} \cup {Nothing}

Update == [sub : Nat, commitment : Commitments, pos : Nat, item : Nat]

Message == Update \cup {Ping}

ClientState ==
    [ref_count : Int, commitment : Commitments, head : Nat, filter : FilterValues,
     error : BOOLEAN, messages : Seq(Message), waker : BOOLEAN, pings : Nat]

HoldingPcs == {"held", "turn", "requeue", "errored"}

WorkerState ==
    [pc : HoldingPcs \cup {"idle", "drain", "done"}, client : Clients \cup {Nothing}, count : Nat]

Sub == [filter : FilterValues, commitment : Commitments, start : Nat]

Cell == [pos : Nat \cup {Nothing}, msg : (Commitments \X Nat) \cup {Nothing}]

Cache == [head : Nat, buffer : [0 .. CacheSize - 1 -> Cell]]

Types ==
    /\ ring \in [Commitments -> [first : Nat, tail : Nat]]
    /\ queue \in Seq(Clients)
    /\ client \in [Clients -> ClientState]
    /\ task \in [Clients -> {"none", "select", "break", "ended"}]
    /\ stream \in [Clients -> {"none", "poll", "parked", "finished", "dropped"}]
    /\ worker \in [Workers -> WorkerState]
    /\ cache \in [Workers -> [Commitments -> Cache]]
    /\ stop \in BOOLEAN
    /\ subs \in [Clients -> Seq(Sub)]
    /\ last \in [Clients -> Message]

\* What a ring retains has been pushed.
RingBounds ==
    \A c \in Commitments :
        FirstPos <= ring[c].first /\ ring[c].first <= ring[c].tail /\ ring[c].tail <= MaxPos(c)

\* What a cell of a cache holds is the message of its position.
CacheSound ==
    \A w \in Workers : \A c \in Commitments : \A i \in 0 .. CacheSize - 1 :
        LET cell == cache[w][c].buffer[i]
        IN cell.pos # Nothing =>
              cell.msg = <<c, cell.pos>> /\ FirstPos <= cell.pos /\ cell.pos < ring[c].tail

InQueue(k) == \E i \in 1 .. Len(queue) : queue[i] = k

InHand(k) == \E w \in Workers : worker[w].client = k

IsHeld(k) == InQueue(k) \/ InHand(k)

\* A worker has a client in its hands while it serves one.
HandsFull ==
    \A w \in Workers : worker[w].client # Nothing <=> worker[w].pc \in HoldingPcs

\* No client is queued twice, held by two workers, or queued and held.
HeldOnce ==
    /\ \A i, j \in 1 .. Len(queue) : queue[i] = queue[j] => i = j
    /\ \A v, w \in Workers :
          worker[v].client = worker[w].client => v = w \/ worker[v].client = Nothing
    /\ \A w \in Workers : \A i \in 1 .. Len(queue) : queue[i] # worker[w].client

\* Nobody holds a client before it subscribes.
Unborn ==
    \A k \in Clients :
        /\ task[k] = "none" => ~IsHeld(k)
        /\ task[k] = "none" <=> stream[k] = "none"

Holding == HandsFull /\ HeldOnce /\ Unborn

\* A turn is served for a filter.
TurnHasFilter ==
    \A w \in Workers : worker[w].pc = "turn" => client[worker[w].client].filter # Nothing

\* ref_count, with the one holder among the queue and the workers.
RefOK(k) ==
    task[k] # "none" =>
        client[k].ref_count = (IF IsHeld(k) THEN 1 ELSE 0)
                              + (IF task[k] = "ended" THEN 0 ELSE 1)
                              + (IF stream[k] = "dropped" THEN 0 ELSE 1)

ServedOK(k) == Open(k) /\ ~client[k].error /\ ~stop => IsHeld(k)

WakeOK(k) ==
    stream[k] = "parked" => client[k].waker /\ client[k].messages = <<>> /\ ~client[k].error

\* The client a worker drops for an error is told, or has been told.
ErrorTold ==
    \A w \in Workers : worker[w].pc = "errored" =>
        client[worker[w].client].error \/ ~Open(worker[w].client)

\* The inductive invariant of the holders and the wakers.
ClientsInv ==
    /\ Types /\ RingBounds /\ CacheSound /\ Holding /\ TurnHasFilter
    /\ ErrorTold
    /\ \A k \in Clients : RefOK(k) /\ ServedOK(k) /\ WakeOK(k)

\* An error or a lost reference leaves a client's state well typed.
LEMMA ErrorState ==
    ASSUME NEW st \in ClientState
    PROVE  push_error(st) \in ClientState /\ Drop(st) \in ClientState
<1>1. push_error(st) \in ClientState
  BY DEF push_error, ClientState
<1>2. Drop(st) \in ClientState
  BY DEF Drop, ClientState
<1> QED
  BY <1>1, <1>2

\* Queued messages leave a client's state well typed.
LEMMA MessageState ==
    ASSUME NEW st \in ClientState, NEW ms \in Seq(Message)
    PROVE  push_message(st, ms) \in ClientState
<1> DEFINE w == st.waker /\ ms = <<>>
<1>1. w \in BOOLEAN
  OBVIOUS
<1>2. st.messages \o ms \in Seq(Message)
  BY DEF ClientState
<1>3. push_message(st, ms) = [st EXCEPT !.messages = @ \o ms, !.waker = w]
  BY DEF push_message, ClientState
<1> HIDE DEF w
<1> QED
  BY <1>1, <1>2, <1>3 DEF ClientState

\* get_idx is a cell of the cache.
LEMMA IdxType ==
    ASSUME NEW pos \in Nat
    PROVE  get_idx(pos) \in 0 .. CacheSize - 1
BY GrpcAssumption DEF get_idx

\* What the cache gives is the message asked for, and it was pushed.
LEMMA CachedMessage ==
    ASSUME Types, RingBounds, CacheSound,
           NEW w \in Workers, NEW c \in Commitments, NEW pos \in Nat,
           CacheResult(cache[w][c], c, pos) = "some"
    PROVE  /\ CacheMessage(cache[w][c], c, pos) = <<c, pos>>
           /\ pos \in FirstPos .. MaxPos(c) /\ pos < ring[c].tail
<1>0. /\ FirstPos \in Nat /\ MaxPos(c) \in Nat
      /\ ring[c].first \in Nat /\ ring[c].tail \in Nat
      /\ FirstPos <= ring[c].first /\ ring[c].first <= ring[c].tail /\ ring[c].tail <= MaxPos(c)
  BY GrpcAssumption, SMTT(30) DEF Types, RingBounds, MaxPos
<1>1. CASE Cached(cache[w][c], pos)
  <2> DEFINE cell == cache[w][c].buffer[get_idx(pos)]
  <2>1. cell.pos = pos /\ pos # Nothing
    BY <1>1, GrpcAssumption DEF Cached
  <2>2. cell.msg = <<c, cell.pos>> /\ FirstPos <= cell.pos /\ cell.pos < ring[c].tail
    BY <2>1, IdxType DEF CacheSound
  <2>3. CacheMessage(cache[w][c], c, pos) = cell.msg
    BY <1>1 DEF CacheMessage
  <2> QED
    BY <2>1, <2>2, <2>3, <1>0
<1>2. CASE ~Cached(cache[w][c], pos)
  <2>1. ring_try_recv(c, pos) = "some"
    BY <1>2 DEF CacheResult
  <2>2. pos < ring[c].tail /\ ring[c].first <= pos
    BY <2>1, <1>0 DEF ring_try_recv
  <2> QED
    BY <1>2, <2>2, <1>0 DEF CacheMessage
<1> QED
  BY <1>1, <1>2

\* After a lookup the cache still holds only messages that were pushed.
LEMMA CacheStep ==
    ASSUME Types, RingBounds, CacheSound,
           NEW w \in Workers, NEW c \in Commitments, NEW pos \in Nat
    PROVE  LET ca == CacheAfter(cache[w][c], c, pos)
           IN /\ ca \in Cache
              /\ \A i \in 0 .. CacheSize - 1 :
                    ca.buffer[i].pos # Nothing =>
                       /\ ca.buffer[i].msg = <<c, ca.buffer[i].pos>>
                       /\ FirstPos <= ca.buffer[i].pos /\ ca.buffer[i].pos < ring[c].tail
<1> DEFINE old == cache[w][c]
           hd == [old EXCEPT !.head = CacheHead(old, pos)]
<1>0. /\ FirstPos \in Nat
      /\ ring[c].first \in Nat /\ ring[c].tail \in Nat
      /\ FirstPos <= ring[c].first /\ ring[c].first <= ring[c].tail
  BY GrpcAssumption DEF Types, RingBounds
<1>1. old \in Cache
  BY DEF Types
<1>2. hd \in Cache /\ hd.buffer = old.buffer
  BY <1>1 DEF Cache, CacheHead
<1>3. \A i \in 0 .. CacheSize - 1 :
         old.buffer[i].pos # Nothing =>
            /\ old.buffer[i].msg = <<c, old.buffer[i].pos>>
            /\ FirstPos <= old.buffer[i].pos /\ old.buffer[i].pos < ring[c].tail
  BY DEF CacheSound
<1>4. CASE ring_try_recv(c, pos) = "some" /\ ~Cached(old, pos) /\ inrange(old, pos)
  <2> DEFINE cell == [pos |-> pos, msg |-> <<c, pos>>]
             ca == [hd EXCEPT !.buffer[get_idx(pos)] = cell]
  <2>1. CacheAfter(old, c, pos) = ca
    BY <1>4 DEF CacheAfter
  <2>2. pos < ring[c].tail /\ ring[c].first <= pos
    BY <1>0, <1>4 DEF ring_try_recv
  <2>3. cell \in Cell /\ cell.pos = pos /\ cell.msg = <<c, pos>>
    BY DEF Cell
  <2> HIDE DEF cell
  <2>4. ca = [hd EXCEPT !.buffer = [hd.buffer EXCEPT ![get_idx(pos)] = cell]]
    BY <1>2 DEF Cache
  <2>5. ca \in Cache /\ ca.buffer = [old.buffer EXCEPT ![get_idx(pos)] = cell]
    BY <1>2, <2>3, <2>4, IdxType DEF Cache
  <2>6. old.buffer \in [0 .. CacheSize - 1 -> Cell]
    BY <1>1 DEF Cache
  <2> HIDE DEF ca, hd, old
  <2>7. \A i \in 0 .. CacheSize - 1 :
           ca.buffer[i] = IF i = get_idx(pos) THEN cell ELSE old.buffer[i]
    BY <2>5, <2>6
  <2>8. \A i \in 0 .. CacheSize - 1 :
                    ca.buffer[i].pos # Nothing =>
                       /\ ca.buffer[i].msg = <<c, ca.buffer[i].pos>>
                       /\ FirstPos <= ca.buffer[i].pos /\ ca.buffer[i].pos < ring[c].tail
    BY <2>7, <2>2, <2>3, <1>0, <1>3
  <2> QED
    BY <2>1, <2>5, <2>8 DEF old
<1>5. CASE ~(ring_try_recv(c, pos) = "some" /\ ~Cached(old, pos) /\ inrange(old, pos))
  <2>1. CacheAfter(old, c, pos) = hd
    BY <1>5 DEF CacheAfter
  <2> QED
    BY <2>1, <1>2, <1>3
<1> QED
  BY <1>4, <1>5

\* SetState changes one client, and wakes no stream but its own.
LEMMA SetStateFacts ==
    ASSUME Types, NEW k \in Clients, NEW st \in ClientState, SetState(k, st)
    PROVE  /\ client' \in [Clients -> ClientState]
           /\ client'[k] = st
           /\ \A j \in Clients : j # k => client'[j] = client[j] /\ stream'[j] = stream[j]
           /\ stream' \in [Clients -> {"none", "poll", "parked", "finished", "dropped"}]
           /\ \/ stream'[k] = stream[k] /\ ~(stream[k] = "parked" /\ client[k].waker /\ ~st.waker)
              \/ stream[k] = "parked" /\ client[k].waker /\ ~st.waker /\ stream'[k] = "poll"
<1> DEFINE s == IF stream[k] = "parked" /\ client[k].waker /\ ~st.waker THEN "poll" ELSE stream[k]
<1>1. stream' = [stream EXCEPT ![k] = s]
  BY DEF SetState, Woken, Types
<1>2. s \in {"none", "poll", "parked", "finished", "dropped"}
  BY DEF Types
<1>3. \/ s = stream[k] /\ ~(stream[k] = "parked" /\ client[k].waker /\ ~st.waker)
      \/ stream[k] = "parked" /\ client[k].waker /\ ~st.waker /\ s = "poll"
  OBVIOUS
<1>4. client' = [client EXCEPT ![k] = st]
  BY DEF SetState
<1> HIDE DEF s
<1>5. stream'[k] = s /\ stream' \in [Clients -> {"none", "poll", "parked", "finished", "dropped"}]
      /\ \A j \in Clients : j # k => stream'[j] = stream[j]
  BY <1>1, <1>2 DEF Types
<1>6. client' \in [Clients -> ClientState] /\ client'[k] = st
      /\ \A j \in Clients : j # k => client'[j] = client[j]
  BY <1>4 DEF Types
<1> QED
  BY <1>3, <1>5, <1>6

\* A new client is well typed.
LEMMA NewStateType == NewState \in ClientState
<1>1. (CHOOSE c \in Commitments : TRUE) \in Commitments
  BY GrpcAssumption
<1>2. Nothing \in FilterValues /\ <<>> \in Seq(Message)
  BY DEF FilterValues
<1> QED
  BY <1>1, <1>2 DEF NewState, ClientState

\* A filter that is set yields a number of updates for every position of a ring.
LEMMA UpdatesType ==
    ASSUME NEW f \in FilterValues \ {Nothing}, NEW c \in Commitments, NEW p \in FirstPos .. MaxPos(c)
    PROVE  Updates(f, p) \in Nat
<1>1. PICK k \in Clients : \E r \in Requests[k] : f = r.filter
  BY DEF FilterValues
<1> QED
  BY <1>1, GrpcAssumption DEF MaxPos

\* A message becomes as many updates as the filter of the client makes of it.
LEMMA PushedType ==
    ASSUME Types, NEW k \in Clients, client[k].filter # Nothing,
           NEW c \in Commitments, NEW p \in FirstPos .. MaxPos(c)
    PROVE  /\ Pushed(k, <<c, p>>) \in Seq(Message)
           /\ Updates(client[k].filter, p) \in Nat
           /\ Len(Pushed(k, <<c, p>>)) = Updates(client[k].filter, p)
           /\ \A i \in 1 .. Updates(client[k].filter, p) :
                 Pushed(k, <<c, p>>)[i] = [sub |-> Len(subs[k]), commitment |-> c, pos |-> p, item |-> i]
<1> DEFINE n == Updates(client[k].filter, p)
<1>1. n \in Nat
  <2>1. client[k].filter \in FilterValues \ {Nothing}
    BY DEF Types, ClientState
  <2> QED
    BY <2>1, UpdatesType
<1>2. <<c, p>>[1] = c /\ <<c, p>>[2] = p /\ p \in Nat /\ Len(subs[k]) \in Nat
  BY GrpcAssumption, SMTT(30) DEF Types, MaxPos
<1>3. Pushed(k, <<c, p>>) =
         [i \in 1 .. n |-> [sub |-> Len(subs[k]), commitment |-> c, pos |-> p, item |-> i]]
  BY <1>2 DEF Pushed
<1>4. \A i \in 1 .. n : [sub |-> Len(subs[k]), commitment |-> c, pos |-> p, item |-> i] \in Message
  BY <1>1, <1>2 DEF Message, Update
<1> HIDE DEF n
<1> QED
  BY <1>1, <1>3, <1>4, SMTT(30) DEF n

(***************************************************************************)
(* Who holds a client                                                      *)
(***************************************************************************)
LEMMA HoldSame ==
    ASSUME Types, Types', Holding, queue' = queue,
           \A w \in Workers : /\ worker'[w].client = worker[w].client
                              /\ worker'[w].pc \in HoldingPcs <=> worker[w].pc \in HoldingPcs,
           \A k \in Clients : /\ task'[k] = "none" <=> task[k] = "none"
                              /\ stream'[k] = "none" <=> stream[k] = "none"
    PROVE  Holding' /\ \A k \in Clients : IsHeld(k)' <=> IsHeld(k)
<1>1. HandsFull'
  BY DEF Holding, HandsFull
<1>2. HeldOnce'
  BY DEF Holding, HeldOnce
<1>3. \A k \in Clients : IsHeld(k)' <=> IsHeld(k)
  BY DEF IsHeld, InQueue, InHand
<1>4. Unborn'
  BY <1>3 DEF Holding, Unborn
<1> QED
  BY <1>1, <1>2, <1>3, <1>4 DEF Holding

\* pop_client moves a client from the queue to one worker: it stays held.
LEMMA HoldPop ==
    ASSUME Types, Types', Holding, NEW w \in Workers, pop_client(w)
    PROVE  Holding' /\ \A k \in Clients : IsHeld(k)' <=> IsHeld(k)
<1> DEFINE h == Head(queue)
<1>1. /\ queue \in Seq(Clients) /\ Len(queue) \in Nat \ {0}
      /\ h = queue[1] /\ h \in Clients /\ h # Nothing
      /\ Len(queue') = Len(queue) - 1
      /\ \A i \in 1 .. Len(queue) - 1 : queue'[i] = queue[i + 1]
  BY GrpcAssumption, SMTT(30) DEF Types, pop_client
<1>2. /\ worker[w].pc = "idle" /\ worker'[w].pc = "held" /\ worker'[w].client = h
      /\ \A v \in Workers : v # w => worker'[v] = worker[v]
  BY DEF Types, pop_client
<1>3. worker[w].client = Nothing
  BY <1>2 DEF Holding, HandsFull, HoldingPcs
<1> HIDE DEF h
<1>4. HandsFull'
  BY <1>1, <1>2 DEF Holding, HandsFull, HoldingPcs
<1>5. HeldOnce'
  <2>1. \A i, j \in 1 .. Len(queue') : queue'[i] = queue'[j] => i = j
    <3> SUFFICES ASSUME NEW i \in 1 .. Len(queue'), NEW j \in 1 .. Len(queue'), queue'[i] = queue'[j]
                 PROVE  i = j
      OBVIOUS
    <3>1. i + 1 \in 1 .. Len(queue) /\ j + 1 \in 1 .. Len(queue)
      BY <1>1
    <3>2. i + 1 = j + 1
      BY <1>1, <3>1 DEF Holding, HeldOnce
    <3> QED
      BY <1>1, <3>2
  <2>2. \A u, v \in Workers :
           worker'[u].client = worker'[v].client => u = v \/ worker'[u].client = Nothing
    BY <1>1, <1>2 DEF Holding, HeldOnce
  <2>3. \A v \in Workers : \A i \in 1 .. Len(queue') : queue'[i] # worker'[v].client
    <3> SUFFICES ASSUME NEW v \in Workers, NEW i \in 1 .. Len(queue') 
                 PROVE  queue'[i] # worker'[v].client
      OBVIOUS
    <3>1. i + 1 \in 1 .. Len(queue) /\ queue'[i] = queue[i + 1] /\ i + 1 # 1 /\ 1 \in 1 .. Len(queue)
      BY <1>1
    <3> QED
      BY <1>1, <1>2, <3>1 DEF Holding, HeldOnce
  <2> QED
    BY <2>1, <2>2, <2>3 DEF HeldOnce
<1>6. \A k \in Clients : IsHeld(k)' <=> IsHeld(k)
  <2> SUFFICES ASSUME NEW k \in Clients PROVE IsHeld(k)' <=> IsHeld(k)
    OBVIOUS
  <2>1. CASE k = h
    <3>1. InHand(k)'
      BY <1>2, <2>1 DEF InHand
    <3>2. InQueue(k)
      BY <1>1, <2>1 DEF InQueue
    <3> QED
      BY <3>1, <3>2 DEF IsHeld
  <2>2. CASE k # h
    <3>1. InHand(k)' <=> InHand(k)
      BY <1>2, <1>3, <2>2, GrpcAssumption DEF InHand
    <3>2. InQueue(k)' => InQueue(k)
      <4> SUFFICES ASSUME NEW i \in 1 .. Len(queue'), queue'[i] = k PROVE InQueue(k)
        BY DEF InQueue
      <4>1. i + 1 \in 1 .. Len(queue) /\ queue[i + 1] = k
        BY <1>1
      <4> QED
        BY <4>1 DEF InQueue
    <3>3. InQueue(k) => InQueue(k)'
      <4> SUFFICES ASSUME NEW i \in 1 .. Len(queue), queue[i] = k PROVE InQueue(k)'
        BY DEF InQueue
      <4>1. i # 1
        BY <1>1, <2>2
      <4>2. i - 1 \in 1 .. Len(queue') /\ queue'[i - 1] = k
        BY <1>1, <4>1
      <4> QED
        BY <4>2 DEF InQueue
    <3> QED
      BY <3>1, <3>2, <3>3 DEF IsHeld
  <2> QED
    BY <2>1, <2>2
<1>7. Unborn'
  BY <1>6 DEF Holding, Unborn, pop_client
<1> QED
  BY <1>4, <1>5, <1>6, <1>7 DEF Holding

\* push_client moves a client from its worker to the queue: it stays held.
LEMMA HoldPush ==
    ASSUME Types, Types', Holding, NEW w \in Workers, push_client(w)
    PROVE  Holding' /\ \A k \in Clients : IsHeld(k)' <=> IsHeld(k)
<1> DEFINE h == worker[w].client
           n == Len(queue)
<1>1. h \in Clients /\ h # Nothing
  BY GrpcAssumption DEF Types, WorkerState, push_client, Holding, HandsFull, HoldingPcs
<1>2. /\ n \in Nat /\ Len(queue') = n + 1 /\ queue'[n + 1] = h
      /\ \A i \in 1 .. n : queue'[i] = queue[i]
  BY <1>1 DEF Types, push_client
<1>3. /\ worker'[w].pc = "idle" /\ worker'[w].client = Nothing
      /\ \A v \in Workers : v # w => worker'[v] = worker[v]
  BY DEF Types, push_client, Idle
<1> HIDE DEF h, n
<1>4. HandsFull'
  BY <1>3 DEF Holding, HandsFull, HoldingPcs
<1>5. \A i \in 1 .. n : queue[i] # h
  BY DEF Holding, HeldOnce, h, n
<1>6. HeldOnce'
  <2>1. \A i, j \in 1 .. Len(queue') : queue'[i] = queue'[j] => i = j
    <3> SUFFICES ASSUME NEW i \in 1 .. n + 1, NEW j \in 1 .. n + 1, queue'[i] = queue'[j]
                 PROVE  i = j
      BY <1>2
    <3>1. CASE i \in 1 .. n /\ j \in 1 .. n
      BY <1>2, <3>1 DEF Holding, HeldOnce, n
    <3>2. CASE i = n + 1 \/ j = n + 1
      BY <1>2, <1>5, <3>2
    <3> QED
      BY <3>1, <3>2, <1>2
  <2>2. \A u, v \in Workers :
           worker'[u].client = worker'[v].client => u = v \/ worker'[u].client = Nothing
    BY <1>3 DEF Holding, HeldOnce
  <2>3. \A v \in Workers : \A i \in 1 .. Len(queue') : queue'[i] # worker'[v].client
    <3> SUFFICES ASSUME NEW v \in Workers, NEW i \in 1 .. n + 1
                 PROVE  queue'[i] # worker'[v].client
      BY <1>2
    <3>1. queue'[i] \in Clients
      BY <1>1, <1>2 DEF Types
    <3>2. CASE v = w
      BY <3>1, <3>2, <1>3, GrpcAssumption
    <3>3. CASE v # w /\ i = n + 1
      BY <3>3, <1>1, <1>2, <1>3 DEF Holding, HeldOnce, h
    <3>4. CASE v # w /\ i \in 1 .. n
      BY <3>4, <1>2, <1>3 DEF Holding, HeldOnce, n
    <3> QED
      BY <3>2, <3>3, <3>4, <1>2
  <2> QED
    BY <2>1, <2>2, <2>3 DEF HeldOnce
<1>7. \A k \in Clients : IsHeld(k)' <=> IsHeld(k)
  <2> SUFFICES ASSUME NEW k \in Clients PROVE IsHeld(k)' <=> IsHeld(k)
    OBVIOUS
  <2>1. CASE k = h
    <3>1. InHand(k)
      BY <2>1 DEF InHand, h
    <3>2. n + 1 \in 1 .. Len(queue')
      BY <1>2
    <3>3. InQueue(k)'
      BY <1>2, <2>1, <3>2 DEF InQueue
    <3> QED
      BY <3>1, <3>3 DEF IsHeld
  <2>2. CASE k # h
    <3>1. InHand(k)' <=> InHand(k)
      BY <1>3, <2>2, GrpcAssumption DEF InHand, h
    <3>2. InQueue(k)' <=> InQueue(k)
      BY <1>2, <2>2 DEF InQueue, n
    <3> QED
      BY <3>1, <3>2 DEF IsHeld
  <2> QED
    BY <2>1, <2>2
<1>8. Unborn'
  BY <1>7 DEF Holding, Unborn, push_client
<1> QED
  BY <1>4, <1>6, <1>7, <1>8 DEF Holding

\* subscribe puts a client into the queue that nobody held.
LEMMA HoldSubscribe ==
    ASSUME Types, Types', Holding, NEW k \in Clients, subscribe(k)
    PROVE  /\ Holding' /\ IsHeld(k)'
           /\ \A j \in Clients \ {k} : IsHeld(j)' <=> IsHeld(j)
<1> DEFINE n == Len(queue)
<1>1. /\ n \in Nat /\ Len(queue') = n + 1 /\ queue'[n + 1] = k
      /\ \A i \in 1 .. n : queue'[i] = queue[i]
      /\ worker' = worker
  BY DEF Types, subscribe
<1>2. ~InQueue(k) /\ ~InHand(k)
  BY DEF Holding, Unborn, subscribe, IsHeld
<1>3. HandsFull'
  BY <1>1 DEF Holding, HandsFull
<1>4. \A i \in 1 .. n : queue[i] # k
  BY <1>2 DEF InQueue
<1>5. \A v \in Workers : worker[v].client # k
  BY <1>2 DEF InHand
<1> HIDE DEF n
<1>6. HeldOnce'
  <2>1. \A i, j \in 1 .. Len(queue') : queue'[i] = queue'[j] => i = j
    <3> SUFFICES ASSUME NEW i \in 1 .. n + 1, NEW j \in 1 .. n + 1, queue'[i] = queue'[j]
                 PROVE  i = j
      BY <1>1
    <3>1. CASE i \in 1 .. n /\ j \in 1 .. n
      BY <1>1, <3>1 DEF Holding, HeldOnce, n
    <3>2. CASE i = n + 1 \/ j = n + 1
      BY <1>1, <1>4, <3>2
    <3> QED
      BY <3>1, <3>2, <1>1
  <2>2. \A v \in Workers : \A i \in 1 .. Len(queue') : queue'[i] # worker'[v].client
    <3> SUFFICES ASSUME NEW v \in Workers, NEW i \in 1 .. n + 1
                 PROVE  queue'[i] # worker'[v].client
      BY <1>1
    <3>1. CASE i = n + 1
      BY <3>1, <1>1, <1>5
    <3>2. CASE i \in 1 .. n
      BY <3>2, <1>1 DEF Holding, HeldOnce, n
    <3> QED
      BY <3>1, <3>2, <1>1
  <2> QED
    BY <2>1, <2>2, <1>1 DEF HeldOnce, Holding
<1>7. IsHeld(k)'
  <2>1. n + 1 \in 1 .. Len(queue')
    BY <1>1
  <2> QED
    BY <2>1, <1>1 DEF IsHeld, InQueue
<1>8. \A j \in Clients \ {k} : IsHeld(j)' <=> IsHeld(j)
  <2> SUFFICES ASSUME NEW j \in Clients \ {k} PROVE IsHeld(j)' <=> IsHeld(j)
    OBVIOUS
  <2>1. InHand(j)' <=> InHand(j)
    BY <1>1 DEF InHand
  <2>2. InQueue(j)' <=> InQueue(j)
    BY <1>1 DEF InQueue, n
  <2> QED
    BY <2>1, <2>2 DEF IsHeld
<1>9. Unborn'
  <2> SUFFICES ASSUME NEW j \in Clients
               PROVE  /\ task'[j] = "none" => ~IsHeld(j)'
                      /\ task'[j] = "none" <=> stream'[j] = "none"
    BY DEF Unborn
  <2>1. CASE j = k
    BY <2>1 DEF subscribe, Types
  <2>2. CASE j # k
    BY <2>2, <1>8 DEF subscribe, Types, Holding, Unborn
  <2> QED
    BY <2>1, <2>2
<1> QED
  BY <1>3, <1>6, <1>7, <1>8, <1>9 DEF Holding

\* A worker lets its client go.
LEMMA HoldRelease ==
    ASSUME Types, Types', Holding, NEW w \in Workers, NEW h \in Clients,
           worker[w].client = h, worker[w].pc \in HoldingPcs,
           worker' = [worker EXCEPT ![w] = Idle], queue' = queue, task' = task,
           \A k \in Clients : stream'[k] = "none" <=> stream[k] = "none"
    PROVE  /\ Holding' /\ ~IsHeld(h)' /\ IsHeld(h)
           /\ \A j \in Clients : j # h => (IsHeld(j)' <=> IsHeld(j))
<1>1. h # Nothing
  BY GrpcAssumption
<1>2. /\ worker'[w].pc = "idle" /\ worker'[w].client = Nothing
      /\ \A v \in Workers : v # w => worker'[v] = worker[v]
  BY DEF Types, Idle
<1>3. HandsFull'
  BY <1>2 DEF Holding, HandsFull, HoldingPcs
<1>4. HeldOnce'
  <2>1. \A v \in Workers : \A i \in 1 .. Len(queue) : queue[i] # worker'[v].client
    <3> SUFFICES ASSUME NEW v \in Workers, NEW i \in 1 .. Len(queue)
                 PROVE  queue[i] # worker'[v].client
      OBVIOUS
    <3>1. queue[i] \in Clients
      BY DEF Types
    <3> QED
      BY <3>1, <1>2, GrpcAssumption DEF Holding, HeldOnce
  <2>2. \A u, v \in Workers :
           worker'[u].client = worker'[v].client => u = v \/ worker'[u].client = Nothing
    BY <1>2 DEF Holding, HeldOnce
  <2> QED
    BY <2>1, <2>2 DEF HeldOnce, Holding
<1>5. ~InHand(h)' /\ ~InQueue(h)' /\ InHand(h)
  <2>1. ~InHand(h)'
    BY <1>1, <1>2 DEF InHand, Holding, HeldOnce
  <2> QED
    BY <2>1 DEF InQueue, InHand, Holding, HeldOnce
<1>6. \A j \in Clients : j # h => (IsHeld(j)' <=> IsHeld(j))
  <2> SUFFICES ASSUME NEW j \in Clients, j # h PROVE IsHeld(j)' <=> IsHeld(j)
    OBVIOUS
  <2>1. InHand(j)' <=> InHand(j)
    BY <1>2, GrpcAssumption DEF InHand
  <2>2. InQueue(j)' <=> InQueue(j)
    BY DEF InQueue
  <2> QED
    BY <2>1, <2>2 DEF IsHeld
<1>7. ~IsHeld(h)' /\ IsHeld(h)
  BY <1>5 DEF IsHeld
<1>8. Unborn'
  BY <1>6, <1>7 DEF Holding, Unborn
<1> QED
  BY <1>1, <1>3, <1>4, <1>6, <1>7, <1>8 DEF Holding

\* A worker that stops lets the first client of the queue go.
LEMMA HoldDrain ==
    ASSUME Types, Types', Holding, NEW w \in Workers, NEW h \in Clients,
           worker[w].pc \in {"idle", "drain"}, queue # <<>>, h = Head(queue), queue' = Tail(queue),
           worker' = [worker EXCEPT ![w].pc = "drain"], task' = task,
           \A k \in Clients : stream'[k] = "none" <=> stream[k] = "none"
    PROVE  /\ Holding' /\ ~IsHeld(h)' /\ IsHeld(h)
           /\ \A j \in Clients : j # h => (IsHeld(j)' <=> IsHeld(j))
<1>1. /\ queue \in Seq(Clients) /\ Len(queue) \in Nat \ {0}
      /\ h = queue[1] /\ h # Nothing
      /\ Len(queue') = Len(queue) - 1
      /\ \A i \in 1 .. Len(queue) - 1 : queue'[i] = queue[i + 1]
      /\ 1 \in 1 .. Len(queue)
  <2>1. queue \in Seq(Clients) /\ Len(queue) \in Nat \ {0} /\ Head(queue) = queue[1]
    BY DEF Types
  <2>2. /\ Len(queue') = Len(queue) - 1
        /\ \A i \in 1 .. Len(queue) - 1 : queue'[i] = queue[i + 1]
    BY <2>1
  <2> QED
    BY <2>1, <2>2, GrpcAssumption
<1>2. /\ \A v \in Workers : worker'[v].client = worker[v].client
      /\ \A v \in Workers : worker'[v].pc = IF v = w THEN "drain" ELSE worker[v].pc
  BY DEF Types, WorkerState
<1>3. HandsFull'
  BY <1>2 DEF Holding, HandsFull, HoldingPcs
<1>4. \A i \in 1 .. Len(queue') : i + 1 \in 1 .. Len(queue) /\ queue'[i] = queue[i + 1] /\ i + 1 # 1
  BY <1>1
<1>5. HeldOnce'
  <2>1. \A i, j \in 1 .. Len(queue') : queue'[i] = queue'[j] => i = j
    <3> SUFFICES ASSUME NEW i \in 1 .. Len(queue'), NEW j \in 1 .. Len(queue'), queue'[i] = queue'[j]
                 PROVE  i = j
      OBVIOUS
    <3>1. i + 1 = j + 1
      BY <1>4 DEF Holding, HeldOnce
    <3> QED
      BY <1>1, <3>1
  <2>2. \A u, v \in Workers :
           worker'[u].client = worker'[v].client => u = v \/ worker'[u].client = Nothing
    BY <1>2 DEF Holding, HeldOnce
  <2>3. \A v \in Workers : \A i \in 1 .. Len(queue') : queue'[i] # worker'[v].client
    BY <1>2, <1>4 DEF Holding, HeldOnce
  <2> QED
    BY <2>1, <2>2, <2>3 DEF HeldOnce
<1>6. ~InHand(h)' /\ ~InQueue(h)' /\ InQueue(h)
  <2>1. ~InHand(h)'
    BY <1>1, <1>2 DEF InHand, Holding, HeldOnce
  <2>2. ~InQueue(h)'
    BY <1>1, <1>4 DEF InQueue, Holding, HeldOnce
  <2> QED
    BY <2>1, <2>2, <1>1 DEF InQueue
<1>7. \A j \in Clients : j # h => (IsHeld(j)' <=> IsHeld(j))
  <2> SUFFICES ASSUME NEW j \in Clients, j # h PROVE IsHeld(j)' <=> IsHeld(j)
    OBVIOUS
  <2>1. InHand(j)' <=> InHand(j)
    BY <1>2 DEF InHand
  <2>2. InQueue(j)' => InQueue(j)
    BY <1>4 DEF InQueue
  <2>3. InQueue(j) => InQueue(j)'
    <3> SUFFICES ASSUME NEW i \in 1 .. Len(queue), queue[i] = j PROVE InQueue(j)'
      BY DEF InQueue
    <3>1. i # 1
      BY <1>1
    <3>2. i - 1 \in 1 .. Len(queue') /\ queue'[i - 1] = j
      BY <1>1, <3>1
    <3> QED
      BY <3>2 DEF InQueue
  <2> QED
    BY <2>1, <2>2, <2>3 DEF IsHeld
<1>8. ~IsHeld(h)' /\ IsHeld(h)
  BY <1>6 DEF IsHeld
<1>9. Unborn'
  BY <1>7, <1>8 DEF Holding, Unborn
<1> QED
  BY <1>1, <1>3, <1>5, <1>7, <1>8, <1>9 DEF Holding

(***************************************************************************)
(* The types, the rings and the caches                                     *)
(***************************************************************************)
LEMMA HeldClient ==
    ASSUME Types, Holding, NEW w \in Workers, worker[w].pc \in HoldingPcs
    PROVE  worker[w].client \in Clients
BY DEF Types, WorkerState, Holding, HandsFull

\* The client a worker serves has the mutex of its state: nobody else changes it.
LEMMA GotoType ==
    ASSUME Types, NEW w \in Workers, NEW pc \in HoldingPcs \cup {"idle", "drain", "done"}, Goto(w, pc)
    PROVE  /\ worker' \in [Workers -> WorkerState]
           /\ worker'[w].pc = pc
           /\ \A v \in Workers : worker'[v].client = worker[v].client
           /\ \A v \in Workers : v # w => worker'[v] = worker[v]
BY DEF Types, WorkerState, Goto

\* A worker that has let its client go is well typed.
LEMMA IdleType ==
    ASSUME Types, NEW w \in Workers, worker' = [worker EXCEPT ![w] = Idle]
    PROVE  worker' \in [Workers -> WorkerState]
BY DEF Types, WorkerState, Idle

\* What a step of a task or a stream does to the state of its client.
LEMMA RequestTypes ==
    ASSUME Types, NEW k \in Clients
    PROVE  /\ push_message([client[k] EXCEPT !.pings = @ + 1], <<Ping>>) \in ClientState
           /\ \A c \in Commitments : [client[k] EXCEPT !.commitment = c] \in ClientState
           /\ \A c \in Commitments, p \in Nat, f \in FilterValues :
                 [client[k] EXCEPT !.commitment = c, !.head = p, !.filter = f] \in ClientState
           /\ push_error(client[k]) \in ClientState /\ Drop(client[k]) \in ClientState
<1>0. client[k] \in ClientState
  BY DEF Types
<1>1. [client[k] EXCEPT !.pings = @ + 1] \in ClientState
  BY <1>0 DEF ClientState
<1>2. <<Ping>> \in Seq(Message)
  BY DEF Message
<1>3. push_message([client[k] EXCEPT !.pings = @ + 1], <<Ping>>) \in ClientState
  BY <1>1, <1>2, MessageState
<1>4. \A c \in Commitments : [client[k] EXCEPT !.commitment = c] \in ClientState
  BY <1>0 DEF ClientState
<1>5. \A c \in Commitments, p \in Nat, f \in FilterValues :
         [client[k] EXCEPT !.commitment = c, !.head = p, !.filter = f] \in ClientState
  BY <1>0 DEF ClientState
<1> QED
  BY <1>0, <1>3, <1>4, <1>5, ErrorState

\* A position of get_current_tail is a number.
LEMMA CurrentTail ==
    ASSUME Types, NEW c \in Commitments, NEW replay \in BOOLEAN, NEW pos \in get_current_tail(c, replay)
    PROVE  pos # Nothing => pos \in Nat
BY GrpcAssumption DEF get_current_tail, Types

\* The steps of a request task keep the types.
LEMMA TaskTypes ==
    ASSUME Types, NEW k \in Clients, Task(k)
    PROVE  Types'
<1>1. CASE RequestPing(k)
  BY <1>1, SetStateFacts, RequestTypes DEF RequestPing, Types
<1>2. CASE RequestRefused(k) \/ TaskStops(k)
  BY <1>2, SetStateFacts, RequestTypes, ZenonT(30) DEF RequestRefused, TaskStops, Types
<1>3. CASE RequestsEnd(k)
  BY <1>3 DEF RequestsEnd, Types
<1>4. CASE TaskEnds(k)
  BY <1>4, SetStateFacts, RequestTypes DEF TaskEnds, Types
<1>5. ASSUME NEW r \in Requests[k], RequestFilter(k, r) PROVE Types'
  <2> DEFINE st == [client[k] EXCEPT !.commitment = r.commitment]
  <2>1. r.commitment \in Commitments /\ r.replay \in BOOLEAN
    BY GrpcAssumption
  <2>2. r.filter \in FilterValues
    BY DEF FilterValues
  <2>3. PICK pos \in get_current_tail(r.commitment, r.replay) :
          \/ /\ pos = Nothing
             /\ SetState(k, push_error(st))
             /\ task' = [task EXCEPT ![k] = "break"]
             /\ UNCHANGED subs
          \/ /\ pos # Nothing
             /\ SetState(k, [st EXCEPT !.head = pos, !.filter = r.filter])
             /\ subs' = [subs EXCEPT ![k] =
                            Append(@, [filter |-> r.filter, commitment |-> r.commitment, start |-> pos])]
             /\ UNCHANGED task
    BY <1>5 DEF RequestFilter
  <2>4. st \in ClientState
    BY <2>1, RequestTypes
  <2>5. pos # Nothing => pos \in Nat
    BY <2>1, CurrentTail
  <2>6. UNCHANGED <<ring, queue, worker, cache, stop, last>>
    BY <1>5 DEF RequestFilter
  <2>7. CASE pos = Nothing
    <3>1. push_error(st) \in ClientState
      BY <2>4, ErrorState
    <3>2. /\ SetState(k, push_error(st))
          /\ task' = [task EXCEPT ![k] = "break"]
          /\ UNCHANGED subs
      BY <2>3, <2>7
    <3> QED
      BY <3>1, <3>2, <2>6, SetStateFacts DEF Types
  <2>8. CASE pos # Nothing
    <3> DEFINE nw == [st EXCEPT !.head = pos, !.filter = r.filter]
               sub == [filter |-> r.filter, commitment |-> r.commitment, start |-> pos]
    <3>1. nw \in ClientState
      BY <2>2, <2>4, <2>5, <2>8 DEF ClientState
    <3>2. sub \in Sub
      BY <2>1, <2>2, <2>5, <2>8 DEF Sub
    <3>3. SetState(k, nw) /\ subs' = [subs EXCEPT ![k] = Append(@, sub)] /\ UNCHANGED task
      BY <2>3, <2>8
    <3> HIDE DEF nw, sub
    <3>4. subs' \in [Clients -> Seq(Sub)]
      BY <3>2, <3>3 DEF Types
    <3> QED
      BY <3>1, <3>3, <3>4, <2>6, SetStateFacts DEF Types
  <2> QED
    BY <2>7, <2>8
<1> QED
  BY <1>1, <1>2, <1>3, <1>4, <1>5 DEF Task

\* The steps of a stream keep the types.
LEMMA StreamTypes ==
    ASSUME Types, NEW k \in Clients, subscribe(k) \/ poll_next(k) \/ DropStream(k)
    PROVE  Types'
<1>0. client[k] \in ClientState
  BY DEF Types
<1>1. CASE subscribe(k)
  <2>1. [NewState EXCEPT !.ref_count = 3] \in ClientState
    BY NewStateType DEF ClientState
  <2>2. client' \in [Clients -> ClientState]
    BY <1>1, <2>1 DEF subscribe, Types
  <2> QED
    BY <1>1, <2>2 DEF subscribe, Types
<1>2. CASE poll_next(k)
  <2>1. client' \in [Clients -> ClientState]
    <3> DEFINE e == [client[k] EXCEPT !.error = FALSE]
               t == [client[k] EXCEPT !.messages = Tail(@)]
               w == [client[k] EXCEPT !.waker = TRUE]
    <3>1. e \in ClientState /\ w \in ClientState
      BY <1>0 DEF ClientState
    <3>2. client[k].messages # <<>> => t \in ClientState
      <4>1. client[k].messages \in Seq(Message)
        BY <1>0 DEF ClientState
      <4>2. client[k].messages # <<>> => Tail(client[k].messages) \in Seq(Message)
        BY <4>1
      <4> QED
        BY <1>0, <4>2 DEF ClientState
    <3>3. \/ client' = [client EXCEPT ![k] = e]
          \/ client[k].messages # <<>> /\ client' = [client EXCEPT ![k] = t]
          \/ client' = [client EXCEPT ![k] = w]
      BY <1>2 DEF poll_next, pop_message
    <3> HIDE DEF e, t, w
    <3> QED
      BY <3>1, <3>2, <3>3 DEF Types
  <2>2. last' \in [Clients -> Message]
    <3>1. client[k].messages # <<>> => Head(client[k].messages) \in Message
      BY <1>0 DEF ClientState
    <3>2. \/ last' = last
          \/ /\ client[k].messages # <<>>
             /\ last' = [last EXCEPT ![k] = IF Head(client[k].messages) = Ping THEN @
                                            ELSE Head(client[k].messages)]
      BY <1>2 DEF poll_next, pop_message
    <3> QED
      BY <3>1, <3>2 DEF Types
  <2>3. stream' \in [Clients -> {"none", "poll", "parked", "finished", "dropped"}]
    BY <1>2 DEF poll_next, pop_message, Types
  <2> QED
    BY <1>2, <2>1, <2>2, <2>3 DEF poll_next, Types
<1>3. CASE DropStream(k)
  <2>1. client' \in [Clients -> ClientState]
    BY <1>3, <1>0, ErrorState DEF DropStream, Types
  <2>2. last' \in [Clients -> Message]
    BY <1>3 DEF DropStream, Types, Message, Ping
  <2> QED
    BY <1>3, <2>1, <2>2 DEF DropStream, Types
<1> QED
  BY <1>1, <1>2, <1>3

\* A round of the loop over messages; what it pushes are the updates of the head.
LEMMA TurnState ==
    ASSUME Types, RingBounds, CacheSound, Holding, TurnHasFilter,
           NEW w \in Workers, TurnStep(w),
           NEW k \in Clients, k = worker[w].client
    PROVE  LET c == client[k].commitment
               st == client[k]
           IN \/ UNCHANGED <<client, stream, cache>> /\ Goto(w, "requeue")
              \/ /\ cache' = [cache EXCEPT ![w][c] = CacheAfter(@, c, st.head)]
                 /\ \/ UNCHANGED <<client, stream>> /\ Goto(w, "requeue")
                    \/ SetState(k, push_error(st)) /\ Goto(w, "errored")
                    \/ /\ SetState(k, push_message([st EXCEPT !.head = @ + 1], Pushed(k, <<c, st.head>>)))
                       /\ st.head \in FirstPos .. MaxPos(c) /\ st.head < ring[c].tail
                       /\ push_message([st EXCEPT !.head = @ + 1], Pushed(k, <<c, st.head>>)) \in ClientState
                       /\ Pushed(k, <<c, st.head>>) \in Seq(Message)
                       /\ worker' = [worker EXCEPT ![w].count = @ + 1]
<1> DEFINE st == client[k]
           c == st.commitment
           result == CacheResult(cache[w][c], c, st.head)
<1>1. st \in ClientState /\ c \in Commitments /\ st.head \in Nat
  BY DEF Types, ClientState
<1>2. \/ UNCHANGED <<client, stream, cache>> /\ Goto(w, "requeue")
      \/ /\ cache' = [cache EXCEPT ![w][c] = CacheAfter(@, c, st.head)]
         /\ \/ UNCHANGED <<client, stream>> /\ Goto(w, "requeue")
            \/ SetState(k, push_error(st)) /\ Goto(w, "errored")
            \/ /\ SetState(k, push_message([st EXCEPT !.head = @ + 1],
                                      Pushed(k, CacheMessage(cache[w][c], c, st.head))))
               /\ result = "some"
               /\ worker' = [worker EXCEPT ![w].count = @ + 1]
  BY DEF TurnStep
<1>3. ASSUME result = "some"
      PROVE  /\ CacheMessage(cache[w][c], c, st.head) = <<c, st.head>>
             /\ st.head \in FirstPos .. MaxPos(c) /\ st.head < ring[c].tail
             /\ push_message([st EXCEPT !.head = @ + 1], Pushed(k, <<c, st.head>>)) \in ClientState
             /\ Pushed(k, <<c, st.head>>) \in Seq(Message)
  <2>1. /\ CacheMessage(cache[w][c], c, st.head) = <<c, st.head>>
        /\ st.head \in FirstPos .. MaxPos(c) /\ st.head < ring[c].tail
    BY <1>1, <1>3, CachedMessage
  <2>2. st.filter # Nothing
    BY DEF TurnHasFilter, TurnStep
  <2>3. Pushed(k, <<c, st.head>>) \in Seq(Message)
    BY <1>1, <2>1, <2>2, PushedType
  <2>4. [st EXCEPT !.head = @ + 1] \in ClientState
    BY <1>1 DEF ClientState
  <2> QED
    BY <2>1, <2>3, <2>4, MessageState
<1> HIDE DEF result, c, st
<1> QED
  BY <1>2, <1>3 DEF c, st

\* A lookup changes one cache of one worker.
LEMMA CacheUpdate ==
    ASSUME Types, NEW w \in Workers, NEW c \in Commitments, NEW ca \in Cache,
           cache' = [cache EXCEPT ![w][c] = ca]
    PROVE  /\ cache' \in [Workers -> [Commitments -> Cache]]
           /\ \A v \in Workers, d \in Commitments :
                 cache'[v][d] = cache[v][d] \/ (d = c /\ cache'[v][d] = ca)
<1> DEFINE row == [cache[w] EXCEPT ![c] = ca]
<1>1. cache[w] \in [Commitments -> Cache]
  BY DEF Types
<1>2. row \in [Commitments -> Cache] /\ \A d \in Commitments : row[d] = IF d = c THEN ca ELSE cache[w][d]
  BY <1>1
<1>3. cache' = [cache EXCEPT ![w] = row]
  OBVIOUS
<1> HIDE DEF row
<1>4. /\ cache' \in [Workers -> [Commitments -> Cache]]
      /\ \A v \in Workers : cache'[v] = IF v = w THEN row ELSE cache[v]
  BY <1>2, <1>3 DEF Types
<1> QED
  BY <1>2, <1>4

\* The steps of a worker keep the types.
LEMMA WorkTypes ==
    ASSUME Types, RingBounds, CacheSound, Holding, TurnHasFilter, NEW w \in Workers, Work(w)
    PROVE  Types'
<1> DEFINE k == worker[w].client
<1>0. worker[w].pc \in HoldingPcs => k \in Clients /\ client[k] \in ClientState
  BY HeldClient DEF Types
<1>1. CASE pop_client(w)
  <2>1. Head(queue) \in Clients /\ Tail(queue) \in Seq(Clients)
    BY <1>1 DEF pop_client, Types
  <2>2. worker' \in [Workers -> WorkerState]
    BY <1>1, <2>1 DEF pop_client, Types, WorkerState, HoldingPcs
  <2> QED
    BY <1>1, <2>1, <2>2 DEF pop_client, Types
<1>2. CASE DropLast(w) \/ DropErrored(w)
  <2>1. k \in Clients
    BY <1>0, <1>2 DEF DropLast, DropErrored, HoldingPcs
  <2>2. SetState(k, Drop(client[k])) /\ worker' = [worker EXCEPT ![w] = Idle]
    BY <1>2 DEF DropLast, DropErrored
  <2>3. UNCHANGED <<ring, queue, task, cache, stop, subs, last>>
    BY <1>2 DEF DropLast, DropErrored
  <2> QED
    BY <2>1, <2>2, <2>3, IdleType, SetStateFacts, RequestTypes DEF Types
<1>3. CASE StartTurn(w)
  <2>1. k \in Clients
    BY <1>0, <1>3 DEF StartTurn, HoldingPcs
  <2>2. \/ SetState(k, client[k])
        \/ SetState(k, push_message([client[k] EXCEPT !.pings = @ + 1], <<Ping>>))
    BY <1>3 DEF StartTurn
  <2>3. worker' \in [Workers -> WorkerState]
    <3>1. Goto(w, "requeue") \/ Goto(w, "turn")
      BY <1>3 DEF StartTurn
    <3> QED
      BY <3>1, GotoType DEF HoldingPcs
  <2>4. /\ client' \in [Clients -> ClientState]
        /\ stream' \in [Clients -> {"none", "poll", "parked", "finished", "dropped"}]
    BY <1>0, <2>1, <2>2, SetStateFacts, RequestTypes DEF Types
  <2> QED
    BY <1>3, <2>3, <2>4 DEF StartTurn, Types
<1>4. CASE TurnStep(w)
  <2> DEFINE st == client[k]
             c == st.commitment
             ca == CacheAfter(cache[w][c], c, st.head)
  <2>1. k \in Clients /\ st \in ClientState
    BY <1>0, <1>4 DEF TurnStep, HoldingPcs
  <2>2. c \in Commitments /\ st.head \in Nat
    BY <2>1 DEF ClientState
  <2>3. ca \in Cache
    BY <2>2, CacheStep
  <2>4. cache' \in [Workers -> [Commitments -> Cache]]
    <3>1. cache' = cache \/ cache' = [cache EXCEPT ![w][c] = ca]
      BY <1>4 DEF TurnStep
    <3> HIDE DEF ca, c, st
    <3> QED
      BY <2>2, <2>3, <3>1, CacheUpdate DEF Types
  <2>5. worker' \in [Workers -> WorkerState]
    <3>1. Goto(w, "requeue") \/ Goto(w, "errored") \/ worker' = [worker EXCEPT ![w].count = @ + 1]
      BY <1>4 DEF TurnStep
    <3>2. CASE worker' = [worker EXCEPT ![w].count = @ + 1]
      <4>1. worker[w] \in WorkerState
        BY DEF Types
      <4>2. [worker[w] EXCEPT !.count = @ + 1] \in WorkerState
        BY <4>1 DEF WorkerState
      <4>3. worker' = [worker EXCEPT ![w] = [worker[w] EXCEPT !.count = @ + 1]]
        BY <3>2
      <4> QED
        BY <4>2, <4>3 DEF Types
    <3> QED
      BY <3>1, <3>2, GotoType DEF HoldingPcs
  <2>6. /\ client' \in [Clients -> ClientState]
        /\ stream' \in [Clients -> {"none", "poll", "parked", "finished", "dropped"}]
    BY <1>4, <2>1, TurnState, SetStateFacts, ErrorState DEF Types
  <2> QED
    BY <1>4, <2>4, <2>5, <2>6 DEF TurnStep, Types
<1>5. CASE push_client(w)
  <2>1. k \in Clients
    BY <1>0, <1>5 DEF push_client, HoldingPcs
  <2>2. queue' \in Seq(Clients)
    BY <1>5, <2>1 DEF push_client, Types
  <2> QED
    BY <1>5, <2>2, IdleType DEF push_client, Types
<1>6. CASE WorkerStops(w)
  <2>1. worker' \in [Workers -> WorkerState]
    BY <1>6, GotoType DEF WorkerStops
  <2>2. /\ queue' \in Seq(Clients) /\ client' \in [Clients -> ClientState]
        /\ stream' \in [Clients -> {"none", "poll", "parked", "finished", "dropped"}]
    <3>1. CASE UNCHANGED <<queue, client, stream>>
      BY <3>1 DEF Types
    <3>2. CASE queue # <<>> /\ queue' = Tail(queue) /\ SetState(Head(queue), Drop(client[Head(queue)]))
      <4>1. Head(queue) \in Clients /\ queue' \in Seq(Clients)
        BY <3>2 DEF Types
      <4> QED
        BY <3>2, <4>1, SetStateFacts, RequestTypes
    <3> QED
      BY <1>6, <3>1, <3>2 DEF WorkerStops
  <2> QED
    BY <1>6, <2>1, <2>2 DEF WorkerStops, Types
<1> QED
  BY <1>1, <1>2, <1>3, <1>4, <1>5, <1>6 DEF Work

\* Every step keeps types, bounds of the rings and what the caches hold.
LEMMA DataStep ==
    ASSUME Types, RingBounds, CacheSound, Holding, TurnHasFilter, [Next]_vars
    PROVE  Types' /\ RingBounds' /\ CacheSound'
<1> USE DEF vars
<1>1. CASE UNCHANGED vars
  BY <1>1 DEF Types, RingBounds, CacheSound
<1>2. ASSUME NEW c \in Commitments, Push(c) PROVE Types' /\ RingBounds' /\ CacheSound'
  <2>0. PICK n \in Retained[c] :
            ring' = [ring EXCEPT ![c] = [tail |-> @.tail + 1,
                        first |-> IF @.tail + 1 - @.first > n THEN @.tail + 1 - n ELSE @.first]]
    BY <1>2 DEF Push
  <2> DEFINE r == ring[c]
             f == IF r.tail + 1 - r.first > n THEN r.tail + 1 - n ELSE r.first
             nw == [tail |-> r.tail + 1, first |-> f]
  <2>1. /\ r.first \in Nat /\ r.tail \in Nat /\ n \in Nat /\ MaxPos(c) \in Nat
        /\ FirstPos \in Nat
    BY GrpcAssumption DEF Types, MaxPos
  <2>2. r.tail < MaxPos(c) /\ FirstPos <= r.first /\ r.first <= r.tail
    BY <1>2 DEF Push, RingBounds
  <2>3. f \in Nat /\ FirstPos <= f /\ f <= r.tail + 1
    BY <2>1, <2>2
  <2> HIDE DEF f
  <2>4. nw \in [first : Nat, tail : Nat] /\ nw.first = f /\ nw.tail = r.tail + 1
    BY <2>1, <2>3
  <2>5. ring' = [ring EXCEPT ![c] = nw]
    BY <2>0 DEF f
  <2> HIDE DEF nw
  <2>6. ring' \in [Commitments -> [first : Nat, tail : Nat]] /\ ring'[c] = nw
        /\ \A d \in Commitments : d # c => ring'[d] = ring[d]
    BY <2>4, <2>5 DEF Types
  <2>7. Types'
    BY <1>2, <2>6 DEF Push, Types
  <2>8. RingBounds'
    BY <2>1, <2>2, <2>3, <2>4, <2>6 DEF RingBounds, MaxPos
  <2>9. \A d \in Commitments : ring[d].tail \in Nat /\ ring'[d].tail \in Nat /\ ring[d].tail <= ring'[d].tail
    <3> SUFFICES ASSUME NEW d \in Commitments
                 PROVE  ring[d].tail \in Nat /\ ring'[d].tail \in Nat /\ ring[d].tail <= ring'[d].tail
      OBVIOUS
    <3>1. ring[d].tail \in Nat
      BY DEF Types
    <3>2. CASE d = c
      BY <2>1, <2>4, <2>6, <3>1, <3>2
    <3>3. CASE d # c
      BY <2>6, <3>1, <3>3
    <3> QED
      BY <3>2, <3>3
  <2>10. CacheSound'
    <3> SUFFICES ASSUME NEW w \in Workers, NEW d \in Commitments, NEW i \in 0 .. CacheSize - 1,
                        cache[w][d].buffer[i].pos # Nothing
                 PROVE  LET cell == cache[w][d].buffer[i]
                        IN cell.msg = <<d, cell.pos>> /\ FirstPos <= cell.pos /\ cell.pos < ring'[d].tail
      BY <1>2, ZenonT(30) DEF CacheSound, Push
    <3>1. cache[w][d].buffer[i].pos \in Nat
      <4>1. cache[w][d] \in Cache
        BY DEF Types
      <4>2. cache[w][d].buffer[i] \in Cell
        BY <4>1 DEF Cache
      <4> QED
        BY <4>2 DEF Cell
    <3> QED
      BY <2>9, <3>1 DEF CacheSound
  <2> QED
    BY <2>7, <2>8, <2>10
<1>3. CASE Stop
  BY <1>3 DEF Stop, Types, RingBounds, CacheSound
<1>4. ASSUME NEW k \in Clients, Task(k) PROVE Types' /\ RingBounds' /\ CacheSound'
  <2>1. UNCHANGED <<ring, cache>>
    BY <1>4 DEF Task, RequestPing, RequestRefused, RequestsEnd, TaskStops, TaskEnds, RequestFilter
  <2> QED
    BY <1>4, <2>1, TaskTypes DEF RingBounds, CacheSound
<1>5. ASSUME NEW k \in Clients, subscribe(k) \/ poll_next(k) \/ DropStream(k)
      PROVE  Types' /\ RingBounds' /\ CacheSound'
  <2>1. UNCHANGED <<ring, cache>>
    BY <1>5 DEF subscribe, poll_next, DropStream
  <2> QED
    BY <1>5, <2>1, StreamTypes DEF RingBounds, CacheSound
<1>6. ASSUME NEW w \in Workers, Work(w) PROVE Types' /\ RingBounds' /\ CacheSound'
  <2>1. UNCHANGED ring
    BY <1>6 DEF Work, pop_client, DropLast, StartTurn, TurnStep, push_client, DropErrored, WorkerStops
  <2>2. CASE TurnStep(w)
    <3> DEFINE k == worker[w].client
               st == client[k]
               c == st.commitment
               ca == CacheAfter(cache[w][c], c, st.head)
    <3>1. k \in Clients /\ st \in ClientState
      BY <2>2, HeldClient DEF TurnStep, HoldingPcs, Types
    <3>2. c \in Commitments /\ st.head \in Nat
      BY <3>1 DEF ClientState
    <3>3. /\ ca \in Cache
          /\ \A i \in 0 .. CacheSize - 1 :
                    ca.buffer[i].pos # Nothing =>
                       /\ ca.buffer[i].msg = <<c, ca.buffer[i].pos>>
                       /\ FirstPos <= ca.buffer[i].pos /\ ca.buffer[i].pos < ring[c].tail
      BY <3>2, CacheStep
    <3>4. cache' = cache \/ cache' = [cache EXCEPT ![w][c] = ca]
      BY <2>2 DEF TurnStep
    <3> HIDE DEF ca, c, st, k
    <3>5. \A v \in Workers, d \in Commitments : cache'[v][d] = cache[v][d] \/ (d = c /\ cache'[v][d] = ca)
      BY <3>2, <3>3, <3>4, CacheUpdate
    <3>6. CacheSound'
      BY <2>1, <3>3, <3>5 DEF CacheSound
    <3> QED
      BY <1>6, <2>1, <3>6, WorkTypes DEF RingBounds
  <2>3. CASE ~TurnStep(w)
    <3>1. UNCHANGED cache
      BY <1>6, <2>3 DEF Work, pop_client, DropLast, StartTurn, push_client, DropErrored, WorkerStops
    <3> QED
      BY <1>6, <2>1, <3>1, WorkTypes DEF RingBounds, CacheSound
  <2> QED
    BY <2>2, <2>3
<1> QED
  BY <1>1, <1>2, <1>3, <1>4, <1>5, <1>6 DEF Next

(***************************************************************************)
(* The counts, the wakers and the errors                                   *)
(***************************************************************************)
\* A change of the state wakes a stream that waits, or leaves its waker alone.
LEMMA SetStateOpen ==
    ASSUME Types, NEW k \in Clients, NEW st \in ClientState, SetState(k, st), WakeOK(k),
           stream[k] = "parked" /\ st.waker => st.messages = <<>> /\ ~st.error
    PROVE  /\ Open(k)' <=> Open(k)
           /\ \A s \in {"none", "finished", "dropped"} : stream'[k] = s <=> stream[k] = s
           /\ WakeOK(k)'
<1>1. client'[k] = st
  BY SetStateFacts
<1>2. \/ stream'[k] = stream[k] /\ ~(stream[k] = "parked" /\ client[k].waker /\ ~st.waker)
      \/ stream[k] = "parked" /\ client[k].waker /\ ~st.waker /\ stream'[k] = "poll"
  BY SetStateFacts
<1>3. WakeOK(k)'
  BY <1>1, <1>2 DEF WakeOK
<1> QED
  BY <1>2, <1>3 DEF Open

\* A step that concerns one client leaves what is known of the others.
LEMMA Frame ==
    ASSUME ClientsInv, Types', RingBounds', CacheSound', Holding', NEW k \in Clients,
           \A j \in Clients : j # k => /\ client'[j] = client[j] /\ stream'[j] = stream[j]
                                      /\ task'[j] = task[j] /\ (IsHeld(j)' <=> IsHeld(j)),
           stop => stop',
           RefOK(k)', ServedOK(k)', WakeOK(k)',
           \A w \in Workers : worker'[w].pc \in {"turn", "errored"} /\ worker'[w].client # k =>
              worker'[w].pc = worker[w].pc /\ worker'[w].client = worker[w].client,
           \A w \in Workers : worker'[w].client = k =>
              /\ worker'[w].pc = "turn" => client'[k].filter # Nothing
              /\ worker'[w].pc = "errored" => client'[k].error \/ ~Open(k)'
    PROVE  ClientsInv'
<1>1. \A j \in Clients : RefOK(j)' /\ ServedOK(j)' /\ WakeOK(j)'
  <2> SUFFICES ASSUME NEW j \in Clients, j # k PROVE RefOK(j)' /\ ServedOK(j)' /\ WakeOK(j)'
    OBVIOUS
  <2>1. RefOK(j) /\ ServedOK(j) /\ WakeOK(j)
    BY DEF ClientsInv
  <2>2. RefOK(j)'
    BY <2>1 DEF RefOK
  <2>3. ServedOK(j)'
    BY <2>1 DEF ServedOK, Open
  <2> QED
    BY <2>1, <2>2, <2>3 DEF WakeOK
<1>2. \A w \in Workers : worker'[w].pc \in {"turn", "errored"} => worker'[w].client \in Clients
  BY DEF Types, WorkerState, Holding, HandsFull, HoldingPcs
<1>3. TurnHasFilter'
  <2> SUFFICES ASSUME NEW w \in Workers, worker'[w].pc = "turn"
               PROVE  client'[worker'[w].client].filter # Nothing
    BY DEF TurnHasFilter
  <2> QED
    BY <1>2 DEF ClientsInv, TurnHasFilter
<1>4. ErrorTold'
  <2> SUFFICES ASSUME NEW w \in Workers, worker'[w].pc = "errored"
               PROVE  client'[worker'[w].client].error \/ ~Open(worker[w].client)'
    BY DEF ErrorTold
  <2>1. CASE worker'[w].client = k
    BY <2>1 DEF Open
  <2>2. CASE worker'[w].client # k
    BY <1>2, <2>2 DEF ClientsInv, ErrorTold, Open
  <2> QED
    BY <2>1, <2>2
<1> QED
  BY <1>1, <1>3, <1>4 DEF ClientsInv

\* The fields that the operations on a state leave alone.
LEMMA DropFields ==
    ASSUME NEW st \in ClientState
    PROVE  /\ Drop(st).ref_count = st.ref_count - 1 /\ Drop(st).error = st.error
           /\ Drop(st).filter = st.filter /\ Drop(st).waker = st.waker /\ Drop(st).messages = st.messages
           /\ Drop(st).head = st.head /\ Drop(st).commitment = st.commitment
BY DEF Drop, ClientState

\* What push_error sets and what it leaves.
LEMMA ErrorFields ==
    ASSUME NEW st \in ClientState
    PROVE  /\ push_error(st).ref_count = st.ref_count /\ push_error(st).filter = st.filter
           /\ push_error(st).error /\ ~push_error(st).waker
BY DEF push_error, ClientState

\* What push_message sets and what it leaves.
LEMMA MessageFields ==
    ASSUME NEW st \in ClientState, NEW ms \in Seq(Message)
    PROVE  /\ push_message(st, ms).ref_count = st.ref_count /\ push_message(st, ms).error = st.error
           /\ push_message(st, ms).filter = st.filter /\ push_message(st, ms).messages = st.messages \o ms
           /\ push_message(st, ms).waker = (st.waker /\ ms = <<>>)
           /\ push_message(st, ms).head = st.head /\ push_message(st, ms).commitment = st.commitment
BY DEF push_message, ClientState

\* What a pong does to the state of its client.
LEMMA PingFields ==
    ASSUME NEW old \in ClientState
    PROVE  LET st == push_message([old EXCEPT !.pings = @ + 1], <<Ping>>)
           IN /\ st \in ClientState
              /\ st.ref_count = old.ref_count /\ st.error = old.error /\ st.filter = old.filter
              /\ ~st.waker /\ st.messages = old.messages \o <<Ping>>
              /\ st.head = old.head /\ st.commitment = old.commitment
<1> DEFINE pinged == [old EXCEPT !.pings = @ + 1]
           ms == <<Ping>>
<1>1. /\ pinged \in ClientState
      /\ pinged.ref_count = old.ref_count /\ pinged.error = old.error /\ pinged.filter = old.filter
      /\ pinged.messages = old.messages /\ pinged.head = old.head /\ pinged.commitment = old.commitment
  BY DEF ClientState
<1>2. ms # <<>> /\ ms \in Seq(Message)
  BY DEF Message
<1> HIDE DEF pinged, ms
<1>3. push_message(pinged, ms) \in ClientState
  BY <1>1, <1>2, MessageState
<1>4. /\ push_message(pinged, ms).ref_count = pinged.ref_count
      /\ push_message(pinged, ms).error = pinged.error /\ push_message(pinged, ms).filter = pinged.filter
      /\ push_message(pinged, ms).messages = pinged.messages \o ms /\ ~push_message(pinged, ms).waker
      /\ push_message(pinged, ms).head = pinged.head
      /\ push_message(pinged, ms).commitment = pinged.commitment
  BY <1>1, <1>2, MessageFields
<1> QED
  BY <1>1, <1>3, <1>4 DEF pinged, ms

\* A step of the client's task or of its turn that leaves the holders alone.
LEMMA StateStep ==
    ASSUME ClientsInv, Types', RingBounds', CacheSound',
           NEW k \in Clients, NEW st \in ClientState, SetState(k, st),
           st.ref_count = client[k].ref_count,
           client[k].error => st.error,
           client[k].filter # Nothing => st.filter # Nothing,
           stream[k] = "parked" /\ st.waker => st.messages = <<>> /\ ~st.error,
           queue' = queue, stop' = stop,
           task' = task \/ (task[k] = "select" /\ task' = [task EXCEPT ![k] = "break"]),
           \A w \in Workers : /\ worker'[w].client = worker[w].client
                              /\ worker'[w].pc \in HoldingPcs <=> worker[w].pc \in HoldingPcs,
           \A w \in Workers : worker'[w].pc # worker[w].pc =>
              /\ worker[w].client = k
              /\ worker'[w].pc = "turn" => st.filter # Nothing
              /\ worker'[w].pc = "errored" => st.error
    PROVE  ClientsInv'
<1>1. /\ Open(k)' <=> Open(k)
      /\ \A s \in {"none", "finished", "dropped"} : stream'[k] = s <=> stream[k] = s
      /\ WakeOK(k)'
  BY SetStateOpen DEF ClientsInv
<1>2. client'[k] = st /\ \A j \in Clients : j # k => client'[j] = client[j] /\ stream'[j] = stream[j]
  BY SetStateFacts DEF ClientsInv
<1>3. /\ \A j \in Clients : j # k => task'[j] = task[j]
      /\ \A j \in Clients : task'[j] = "none" <=> task[j] = "none"
      /\ task'[k] = "ended" <=> task[k] = "ended"
  BY DEF ClientsInv, Types
<1>4. \A j \in Clients : stream'[j] = "none" <=> stream[j] = "none"
  BY <1>1, <1>2
<1>5. Holding' /\ \A j \in Clients : IsHeld(j)' <=> IsHeld(j)
  BY <1>3, <1>4, HoldSame DEF ClientsInv
<1>6. RefOK(k)'
  BY <1>1, <1>2, <1>3, <1>5 DEF ClientsInv, RefOK
<1>7. ServedOK(k)'
  BY <1>1, <1>2, <1>5 DEF ClientsInv, ServedOK
<1>8. ASSUME NEW w \in Workers, worker'[w].client = k
      PROVE  /\ worker'[w].pc = "turn" => client'[k].filter # Nothing
             /\ worker'[w].pc = "errored" => client'[k].error \/ ~Open(k)'
  <2>1. CASE worker'[w].pc = worker[w].pc
    BY <1>1, <1>2, <1>8, <2>1 DEF ClientsInv, TurnHasFilter, ErrorTold, Open
  <2>2. CASE worker'[w].pc # worker[w].pc
    BY <1>2, <1>8, <2>2
  <2> QED
    BY <2>1, <2>2
<1> QED
  BY <1>1, <1>2, <1>3, <1>5, <1>6, <1>7, <1>8, Frame

\* The steps of a request task keep the invariant.
LEMMA TaskInv ==
    ASSUME ClientsInv, Types', RingBounds', CacheSound', NEW k \in Clients, Task(k)
    PROVE  ClientsInv'
<1>0. client[k] \in ClientState /\ WakeOK(k) /\ RefOK(k) /\ ServedOK(k) /\ Types
  BY DEF ClientsInv, Types
<1>1. CASE RequestPing(k)
  <2> DEFINE st == push_message([client[k] EXCEPT !.pings = @ + 1], <<Ping>>)
  <2>3. /\ st \in ClientState /\ st.ref_count = client[k].ref_count /\ st.error = client[k].error
        /\ st.filter = client[k].filter /\ ~st.waker
    BY <1>0, PingFields
  <2>4. SetState(k, st) /\ UNCHANGED <<queue, task, worker, stop>>
    BY <1>1 DEF RequestPing
  <2> HIDE DEF st
  <2> QED
    BY <2>3, <2>4, StateStep
<1>2. CASE RequestRefused(k) \/ TaskStops(k)
  <2>1. push_error(client[k]) \in ClientState
    BY <1>0, ErrorState
  <2>2. /\ SetState(k, push_error(client[k])) /\ UNCHANGED <<queue, worker, stop>>
        /\ task[k] = "select" /\ task' = [task EXCEPT ![k] = "break"]
    BY <1>2 DEF RequestRefused, TaskStops
  <2>3. <<>> \in Seq(Message)
    OBVIOUS
  <2>4. /\ push_error(client[k]).ref_count = client[k].ref_count /\ push_error(client[k]).error
        /\ push_error(client[k]).filter = client[k].filter /\ ~push_error(client[k]).waker
    BY <1>0, <2>3, ErrorFields
  <2> QED
    BY <2>1, <2>2, <2>4, StateStep
<1>3. CASE RequestsEnd(k)
  <2>1. /\ UNCHANGED <<queue, worker, stop, client, stream>>
        /\ task[k] = "select" /\ task' = [task EXCEPT ![k] = "break"]
    BY <1>3 DEF RequestsEnd
  <2>2. /\ \A j \in Clients : j # k => task'[j] = task[j]
        /\ \A j \in Clients : task'[j] = "none" <=> task[j] = "none"
        /\ task'[k] = "break"
    BY <1>0, <2>1 DEF Types
  <2>3. Holding' /\ \A j \in Clients : IsHeld(j)' <=> IsHeld(j)
    BY <2>1, <2>2, HoldSame DEF ClientsInv
  <2>4. RefOK(k)' /\ ServedOK(k)' /\ WakeOK(k)'
    BY <1>0, <2>1, <2>2, <2>3 DEF RefOK, ServedOK, WakeOK, Open
  <2>5. \A w \in Workers : worker'[w].client = k =>
              /\ worker'[w].pc = "turn" => client'[k].filter # Nothing
              /\ worker'[w].pc = "errored" => client'[k].error \/ ~Open(k)'
    BY <2>1 DEF ClientsInv, TurnHasFilter, ErrorTold, Open
  <2> QED
    BY <2>1, <2>2, <2>3, <2>4, <2>5, Frame
<1>4. CASE TaskEnds(k)
  <2> DEFINE st == Drop(client[k])
  <2>1. st \in ClientState
    BY <1>0, ErrorState
  <2>2. /\ SetState(k, st) /\ UNCHANGED <<queue, worker, stop>>
        /\ task[k] = "break" /\ task' = [task EXCEPT ![k] = "ended"]
    BY <1>4 DEF TaskEnds
  <2>3. <<>> \in Seq(Message)
    OBVIOUS
  <2>4. /\ st.ref_count = client[k].ref_count - 1 /\ st.error = client[k].error
        /\ st.filter = client[k].filter /\ st.waker = client[k].waker
        /\ st.messages = client[k].messages
    BY <1>0, <2>3, DropFields
  <2> HIDE DEF st
  <2>5. stream[k] = "parked" /\ st.waker => st.messages = <<>> /\ ~st.error
    BY <1>0, <2>4 DEF WakeOK
  <2>6. /\ Open(k)' <=> Open(k)
        /\ \A s \in {"none", "finished", "dropped"} : stream'[k] = s <=> stream[k] = s
        /\ WakeOK(k)'
    BY <1>0, <2>1, <2>2, <2>5, SetStateOpen
  <2>7. client'[k] = st /\ \A j \in Clients : j # k => client'[j] = client[j] /\ stream'[j] = stream[j]
    BY <1>0, <2>1, <2>2, SetStateFacts
  <2>8. /\ \A j \in Clients : j # k => task'[j] = task[j]
        /\ \A j \in Clients : task'[j] = "none" <=> task[j] = "none"
        /\ task'[k] = "ended"
    BY <1>0, <2>2 DEF Types
  <2>9. Holding' /\ \A j \in Clients : IsHeld(j)' <=> IsHeld(j)
    <3>1. \A j \in Clients : stream'[j] = "none" <=> stream[j] = "none"
      BY <2>6, <2>7
    <3> QED
      BY <2>2, <2>8, <3>1, HoldSame DEF ClientsInv
  <2>10. RefOK(k)'
    <3>1. client[k].ref_count \in Int
      BY <1>0 DEF ClientState
    <3> QED
      BY <1>0, <2>2, <2>4, <2>6, <2>7, <2>8, <2>9, <3>1 DEF RefOK
  <2>11. ServedOK(k)'
    BY <1>0, <2>2, <2>4, <2>6, <2>7, <2>9 DEF ServedOK
  <2>12. \A w \in Workers : worker'[w].client = k =>
              /\ worker'[w].pc = "turn" => client'[k].filter # Nothing
              /\ worker'[w].pc = "errored" => client'[k].error \/ ~Open(k)'
    BY <2>2, <2>4, <2>6, <2>7 DEF ClientsInv, TurnHasFilter, ErrorTold, Open
  <2> QED
    BY <2>2, <2>6, <2>7, <2>8, <2>9, <2>10, <2>11, <2>12, Frame
<1>5. ASSUME NEW r \in Requests[k], RequestFilter(k, r) PROVE ClientsInv'
  <2> DEFINE old == [client[k] EXCEPT !.commitment = r.commitment]
  <2>1. r.commitment \in Commitments /\ r.replay \in BOOLEAN /\ r.filter # Nothing
    BY GrpcAssumption
  <2>2. r.filter \in FilterValues
    BY DEF FilterValues
  <2>3. PICK pos \in get_current_tail(r.commitment, r.replay) :
          \/ /\ pos = Nothing
             /\ SetState(k, push_error(old))
             /\ task' = [task EXCEPT ![k] = "break"]
          \/ /\ pos # Nothing
             /\ SetState(k, [old EXCEPT !.head = pos, !.filter = r.filter])
             /\ UNCHANGED task
    BY <1>5 DEF RequestFilter
  <2>4. /\ old \in ClientState /\ old.ref_count = client[k].ref_count /\ old.error = client[k].error
        /\ old.filter = client[k].filter /\ old.waker = client[k].waker /\ old.messages = client[k].messages
    BY <1>0, <2>1 DEF ClientState
  <2>5. pos # Nothing => pos \in Nat
    BY <1>0, <2>1, CurrentTail
  <2>6. UNCHANGED <<queue, worker, stop>> /\ task[k] = "select"
    BY <1>5 DEF RequestFilter
  <2> HIDE DEF old
  <2>7. CASE pos = Nothing
    <3>1. push_error(old) \in ClientState
      BY <2>4, ErrorState
    <3>2. <<>> \in Seq(Message)
      OBVIOUS
    <3>3. /\ push_error(old).ref_count = client[k].ref_count /\ push_error(old).error
          /\ push_error(old).filter = client[k].filter /\ ~push_error(old).waker
      BY <2>4, <3>2, ErrorFields
    <3> QED
      BY <2>3, <2>6, <2>7, <3>1, <3>3, StateStep
  <2>8. CASE pos # Nothing
    <3> DEFINE st == [old EXCEPT !.head = pos, !.filter = r.filter]
    <3>1. st \in ClientState
      BY <2>2, <2>4, <2>5, <2>8 DEF ClientState
    <3>2. /\ st.ref_count = client[k].ref_count /\ st.error = client[k].error
          /\ st.filter = r.filter /\ st.waker = client[k].waker /\ st.messages = client[k].messages
      BY <2>4 DEF ClientState
    <3>3. SetState(k, st) /\ UNCHANGED task
      BY <2>3, <2>8
    <3> HIDE DEF st
    <3>4. stream[k] = "parked" /\ st.waker => st.messages = <<>> /\ ~st.error
      BY <1>0, <3>2 DEF WakeOK
    <3> QED
      BY <2>1, <2>6, <3>1, <3>2, <3>3, <3>4, StateStep
  <2> QED
    BY <2>7, <2>8
<1> QED
  BY <1>1, <1>2, <1>3, <1>4, <1>5 DEF Task

\* The steps of a stream keep the invariant.
LEMMA StreamInv ==
    ASSUME ClientsInv, Types', RingBounds', CacheSound',
           NEW k \in Clients, subscribe(k) \/ poll_next(k) \/ DropStream(k)
    PROVE  ClientsInv'
<1>0. client[k] \in ClientState /\ WakeOK(k) /\ RefOK(k) /\ ServedOK(k) /\ Types
  BY DEF ClientsInv, Types
<1>1. CASE subscribe(k)
  <2> DEFINE st == [NewState EXCEPT !.ref_count = 3]
  <2>1. st.ref_count = 3 /\ ~st.error
    BY NewStateType DEF NewState
  <2>2. /\ client' = [client EXCEPT ![k] = st]
        /\ task' = [task EXCEPT ![k] = "select"]
        /\ stream' = [stream EXCEPT ![k] = "poll"]
        /\ UNCHANGED <<worker, stop>>
    BY <1>1 DEF subscribe
  <2> HIDE DEF st
  <2>3. /\ client'[k] = st /\ task'[k] = "select" /\ stream'[k] = "poll"
        /\ \A j \in Clients : j # k => client'[j] = client[j] /\ stream'[j] = stream[j] /\ task'[j] = task[j]
    BY <1>0, <2>2 DEF Types
  <2>4. /\ Holding' /\ IsHeld(k)'
        /\ \A j \in Clients \ {k} : IsHeld(j)' <=> IsHeld(j)
    BY <1>1, HoldSubscribe DEF ClientsInv
  <2>5. ~InHand(k)
    BY <1>1 DEF ClientsInv, Holding, Unborn, subscribe, IsHeld
  <2>6. RefOK(k)' /\ ServedOK(k)' /\ WakeOK(k)'
    BY <2>1, <2>3, <2>4 DEF RefOK, ServedOK, WakeOK
  <2>7. \A w \in Workers : worker'[w].client # k
    BY <2>2, <2>5 DEF InHand
  <2> QED
    BY <2>2, <2>3, <2>4, <2>6, <2>7, Frame
<1>2. CASE poll_next(k)
  <2>1. /\ stream[k] = "poll" /\ UNCHANGED <<queue, task, worker, stop>>
        /\ client' \in [Clients -> ClientState]
    BY <1>2 DEF poll_next, Types
  <2>2. /\ \A j \in Clients : j # k => client'[j] = client[j] /\ stream'[j] = stream[j]
        /\ client'[k].ref_count = client[k].ref_count /\ client'[k].filter = client[k].filter
        /\ \/ client[k].error /\ stream'[k] = "finished"
           \/ ~client[k].error /\ ~client'[k].error /\ stream'[k] = "poll"
           \/ /\ ~client[k].error /\ ~client'[k].error /\ client'[k].waker
              /\ client'[k].messages = <<>> /\ stream'[k] = "parked"
    <3>1. CASE client[k].error
      BY <1>0, <1>2, <3>1 DEF poll_next, pop_message, Types, ClientState
    <3>2. CASE ~client[k].error /\ client[k].messages # <<>>
      <4>1. /\ client' = [client EXCEPT ![k] = [client[k] EXCEPT !.messages = Tail(@)]]
            /\ stream' = stream
        BY <1>2, <3>2 DEF poll_next, pop_message
      <4> QED
        BY <1>0, <2>1, <3>2, <4>1 DEF Types, ClientState
    <3>3. CASE ~client[k].error /\ client[k].messages = <<>>
      <4>1. /\ client' = [client EXCEPT ![k] = [client[k] EXCEPT !.waker = TRUE]]
            /\ stream' = [stream EXCEPT ![k] = "parked"]
        BY <1>2, <3>3 DEF poll_next, pop_message
      <4> QED
        BY <1>0, <3>3, <4>1 DEF Types, ClientState
    <3> QED
      BY <3>1, <3>2, <3>3
  <2>3. \A j \in Clients : stream'[j] = "none" <=> stream[j] = "none"
    BY <2>1, <2>2
  <2>4. Holding' /\ \A j \in Clients : IsHeld(j)' <=> IsHeld(j)
    BY <2>1, <2>3, HoldSame DEF ClientsInv
  <2>5. RefOK(k)'
    BY <1>0, <2>1, <2>2, <2>4 DEF RefOK
  <2>6. ServedOK(k)'
    BY <1>0, <2>1, <2>2, <2>4 DEF ServedOK, Open
  <2>7. WakeOK(k)'
    BY <2>2 DEF WakeOK
  <2>8. \A w \in Workers : worker'[w].client = k =>
              /\ worker'[w].pc = "turn" => client'[k].filter # Nothing
              /\ worker'[w].pc = "errored" => client'[k].error \/ ~Open(k)'
    BY <2>1, <2>2 DEF ClientsInv, TurnHasFilter, ErrorTold, Open
  <2> QED
    BY <2>1, <2>2, <2>4, <2>5, <2>6, <2>7, <2>8, Frame
<1>3. CASE DropStream(k)
  <2>1. /\ stream[k] \in {"poll", "parked", "finished"} /\ UNCHANGED <<queue, task, worker, stop>>
        /\ client' = [client EXCEPT ![k] = Drop(client[k])]
        /\ stream' = [stream EXCEPT ![k] = "dropped"]
    BY <1>3 DEF DropStream
  <2>2. <<>> \in Seq(Message)
    OBVIOUS
  <2>3. /\ \A j \in Clients : j # k => client'[j] = client[j] /\ stream'[j] = stream[j]
        /\ client'[k].ref_count = client[k].ref_count - 1 /\ client'[k].filter = client[k].filter
        /\ stream'[k] = "dropped"
    <3>1. client'[k] = Drop(client[k]) /\ stream'[k] = "dropped"
          /\ \A j \in Clients : j # k => client'[j] = client[j] /\ stream'[j] = stream[j]
      BY <1>0, <2>1 DEF Types
    <3> QED
      BY <1>0, <3>1, DropFields
  <2>4. \A j \in Clients : stream'[j] = "none" <=> stream[j] = "none"
    BY <2>1, <2>3
  <2>5. Holding' /\ \A j \in Clients : IsHeld(j)' <=> IsHeld(j)
    BY <2>1, <2>4, HoldSame DEF ClientsInv
  <2>6. RefOK(k)'
    <3>1. client[k].ref_count \in Int
      BY <1>0 DEF ClientState
    <3> QED
      BY <1>0, <2>1, <2>3, <2>5, <3>1 DEF RefOK
  <2>7. ServedOK(k)' /\ WakeOK(k)'
    BY <2>3 DEF ServedOK, WakeOK, Open
  <2>8. \A w \in Workers : worker'[w].client = k =>
              /\ worker'[w].pc = "turn" => client'[k].filter # Nothing
              /\ worker'[w].pc = "errored" => client'[k].error \/ ~Open(k)'
    BY <2>1, <2>3 DEF ClientsInv, TurnHasFilter, Open
  <2> QED
    BY <2>1, <2>3, <2>5, <2>6, <2>7, <2>8, Frame
<1> QED
  BY <1>1, <1>2, <1>3

\* Somebody lets a client go: a worker or the queue.
LEMMA ReleaseInv ==
    ASSUME ClientsInv, Types', RingBounds', CacheSound', Holding', NEW k \in Clients,
           SetState(k, Drop(client[k])), UNCHANGED <<task, stop>>,
           IsHeld(k), ~IsHeld(k)',
           \A j \in Clients : j # k => (IsHeld(j)' <=> IsHeld(j)),
           \A w \in Workers : worker'[w].pc \in {"turn", "errored"} => worker'[w] = worker[w],
           Open(k) /\ ~client[k].error /\ ~stop => client[k].ref_count = 1
    PROVE  ClientsInv'
<1>0. client[k] \in ClientState /\ WakeOK(k) /\ RefOK(k) /\ ServedOK(k) /\ Types
  BY DEF ClientsInv, Types
<1> DEFINE st == Drop(client[k])
<1>1. st \in ClientState
  BY <1>0, ErrorState
<1>2. <<>> \in Seq(Message)
  OBVIOUS
<1>3. /\ st.ref_count = client[k].ref_count - 1 /\ st.error = client[k].error
      /\ st.filter = client[k].filter /\ st.waker = client[k].waker
      /\ st.messages = client[k].messages
  BY <1>0, <1>2, DropFields
<1>4. SetState(k, st)
  OBVIOUS
<1> HIDE DEF st
<1>5. stream[k] = "parked" /\ st.waker => st.messages = <<>> /\ ~st.error
  BY <1>0, <1>3 DEF WakeOK
<1>6. /\ Open(k)' <=> Open(k)
      /\ \A s \in {"none", "finished", "dropped"} : stream'[k] = s <=> stream[k] = s
      /\ WakeOK(k)'
  BY <1>0, <1>1, <1>4, <1>5, SetStateOpen
<1>7. client'[k] = st /\ \A j \in Clients : j # k => client'[j] = client[j] /\ stream'[j] = stream[j]
  BY <1>0, <1>1, <1>4, SetStateFacts
<1>8. client[k].ref_count \in Int /\ task[k] # "none"
  BY <1>0 DEF ClientState, ClientsInv, Holding, Unborn
<1>9. RefOK(k)'
  BY <1>0, <1>3, <1>6, <1>7, <1>8 DEF RefOK
<1>10. ServedOK(k)'
  <2>1. client[k].ref_count = 1 => ~Open(k)
    BY <1>0, <1>8 DEF RefOK, Open
  <2> QED
    BY <2>1, <1>3, <1>6, <1>7 DEF ServedOK
<1>11. \A w \in Workers : worker'[w].client = k =>
              /\ worker'[w].pc = "turn" => client'[k].filter # Nothing
              /\ worker'[w].pc = "errored" => client'[k].error \/ ~Open(k)'
  BY <1>3, <1>6, <1>7 DEF ClientsInv, TurnHasFilter, ErrorTold, Open
<1> QED
  BY <1>6, <1>7, <1>9, <1>10, <1>11, Frame

\* The steps of a worker keep the invariant.
LEMMA WorkInv ==
    ASSUME ClientsInv, Types', RingBounds', CacheSound', NEW w \in Workers, Work(w)
    PROVE  ClientsInv'
<1>0. Types /\ Holding /\ TurnHasFilter /\ RingBounds /\ CacheSound
  BY DEF ClientsInv
<1>1. CASE pop_client(w) \/ push_client(w)
  <2>1. UNCHANGED <<client, task, stream, stop>>
    BY <1>1 DEF pop_client, push_client
  <2>2. Holding' /\ \A k \in Clients : IsHeld(k)' <=> IsHeld(k)
    BY <1>0, <1>1, HoldPop, HoldPush
  <2>3. \A v \in Workers : worker'[v].pc \in {"turn", "errored"} => worker'[v] = worker[v]
    BY <1>0, <1>1 DEF pop_client, push_client, Idle, Types
  <2>4. \A k \in Clients : RefOK(k)' /\ ServedOK(k)' /\ WakeOK(k)'
    BY <2>1, <2>2 DEF ClientsInv, RefOK, ServedOK, WakeOK, Open
  <2>5. TurnHasFilter'
    BY <2>1, <2>3 DEF ClientsInv, TurnHasFilter
  <2>6. ErrorTold'
    BY <2>1, <2>3 DEF ClientsInv, ErrorTold, Open
  <2> QED
    BY <2>2, <2>4, <2>5, <2>6 DEF ClientsInv
<1>2. ASSUME NEW k \in Clients, k = worker[w].client, DropLast(w) \/ DropErrored(w)
      PROVE  ClientsInv'
  <2>1. /\ SetState(k, Drop(client[k])) /\ worker' = [worker EXCEPT ![w] = Idle]
        /\ UNCHANGED <<queue, task, stop>> /\ worker[w].pc \in HoldingPcs
    BY <1>2 DEF DropLast, DropErrored, HoldingPcs
  <2>2. \A j \in Clients : stream'[j] = "none" <=> stream[j] = "none"
    <3>1. Drop(client[k]) \in ClientState
      BY <1>0, RequestTypes
    <3> QED
      BY <1>0, <2>1, <3>1, SetStateFacts
  <2>3. /\ Holding' /\ ~IsHeld(k)' /\ IsHeld(k)
        /\ \A j \in Clients : j # k => (IsHeld(j)' <=> IsHeld(j))
    BY <1>0, <1>2, <2>1, <2>2, HoldRelease
  <2>4. \A v \in Workers : worker'[v].pc \in {"turn", "errored"} => worker'[v] = worker[v]
    BY <1>0, <2>1 DEF Idle, Types
  <2>5. Open(k) /\ ~client[k].error /\ ~stop => client[k].ref_count = 1
    BY <1>2 DEF DropLast, DropErrored, ClientsInv, ErrorTold
  <2> QED
    BY <2>1, <2>3, <2>4, <2>5, ReleaseInv
<1>3. ASSUME NEW k \in Clients, k = worker[w].client, StartTurn(w) PROVE ClientsInv'
  <2> DEFINE pinged == push_message([client[k] EXCEPT !.pings = @ + 1], <<Ping>>)
             pc == IF client[k].filter = Nothing THEN "requeue" ELSE "turn"
  <2>1. /\ worker[w].pc = "held" /\ Goto(w, pc) /\ UNCHANGED <<queue, task, stop>>
        /\ SetState(k, client[k]) \/ SetState(k, pinged)
    BY <1>3 DEF StartTurn
  <2>2. client[k] \in ClientState /\ WakeOK(k)
    BY <1>0 DEF Types, ClientsInv
  <2>3. /\ pinged \in ClientState /\ pinged.ref_count = client[k].ref_count
        /\ pinged.error = client[k].error /\ pinged.filter = client[k].filter /\ ~pinged.waker
    BY <2>2, PingFields
  <2>4. PICK st \in ClientState :
           /\ SetState(k, st) /\ st.ref_count = client[k].ref_count /\ st.error = client[k].error
           /\ st.filter = client[k].filter
           /\ stream[k] = "parked" /\ st.waker => st.messages = <<>> /\ ~st.error
    BY <2>1, <2>2, <2>3 DEF WakeOK
  <2>5. pc \in HoldingPcs /\ pc # "errored" /\ (pc = "turn" => client[k].filter # Nothing)
    BY DEF HoldingPcs
  <2> HIDE DEF pc
  <2>6. /\ worker'[w].pc = pc
        /\ \A v \in Workers : worker'[v].client = worker[v].client
        /\ \A v \in Workers : v # w => worker'[v] = worker[v]
    BY <1>0, <2>1, <2>5, GotoType
  <2>7. \A v \in Workers : worker'[v].pc \in HoldingPcs <=> worker[v].pc \in HoldingPcs
    BY <2>1, <2>5, <2>6 DEF HoldingPcs
  <2>8. \A v \in Workers : worker'[v].pc # worker[v].pc =>
              /\ worker[v].client = k
              /\ worker'[v].pc = "turn" => st.filter # Nothing
              /\ worker'[v].pc = "errored" => st.error
    BY <1>3, <2>4, <2>5, <2>6
  <2> QED
    BY <2>1, <2>4, <2>6, <2>7, <2>8, StateStep
<1>4. ASSUME NEW k \in Clients, k = worker[w].client, TurnStep(w) PROVE ClientsInv'
  <2> DEFINE old == client[k]
             c == old.commitment
             ms == Pushed(k, <<c, old.head>>)
             some == push_message([old EXCEPT !.head = @ + 1], ms)
  <2>1. old \in ClientState /\ WakeOK(k) /\ worker[w].pc = "turn"
    BY <1>0, <1>4 DEF Types, ClientsInv, TurnStep
  <2>2. UNCHANGED <<queue, task, stop>>
    BY <1>4 DEF TurnStep
  <2>3. \/ UNCHANGED <<client, stream>> /\ Goto(w, "requeue")
        \/ SetState(k, push_error(old)) /\ Goto(w, "errored")
        \/ /\ SetState(k, some) /\ some \in ClientState /\ ms \in Seq(Message)
           /\ worker' = [worker EXCEPT ![w].count = @ + 1]
    BY <1>0, <1>4, TurnState
  <2>4. CASE UNCHANGED <<client, stream>> /\ Goto(w, "requeue")
    <3>1. SetState(k, old)
      BY <1>0, <2>4 DEF SetState, Woken, Types
    <3>2. /\ worker'[w].pc = "requeue"
          /\ \A v \in Workers : worker'[v].client = worker[v].client
          /\ \A v \in Workers : v # w => worker'[v] = worker[v]
      BY <1>0, <2>4, GotoType DEF HoldingPcs
    <3>3. \A v \in Workers : worker'[v].pc \in HoldingPcs <=> worker[v].pc \in HoldingPcs
      BY <2>1, <3>2 DEF HoldingPcs
    <3>4. \A v \in Workers : worker'[v].pc # worker[v].pc =>
              /\ worker[v].client = k
              /\ worker'[v].pc = "turn" => old.filter # Nothing
              /\ worker'[v].pc = "errored" => old.error
      BY <1>4, <3>2
    <3> HIDE DEF old
    <3> QED
      BY <2>1, <2>2, <3>1, <3>2, <3>3, <3>4, StateStep DEF old, WakeOK
  <2>5. CASE SetState(k, push_error(old)) /\ Goto(w, "errored")
    <3>1. /\ worker'[w].pc = "errored"
          /\ \A v \in Workers : worker'[v].client = worker[v].client
          /\ \A v \in Workers : v # w => worker'[v] = worker[v]
      BY <1>0, <2>5, GotoType DEF HoldingPcs
    <3>2. <<>> \in Seq(Message) /\ push_error(old) \in ClientState
      BY <2>1, ErrorState
    <3>3. /\ push_error(old).ref_count = old.ref_count /\ push_error(old).error
          /\ push_error(old).filter = old.filter /\ ~push_error(old).waker
      BY <2>1, <3>2, ErrorFields
    <3>4. \A v \in Workers : worker'[v].pc \in HoldingPcs <=> worker[v].pc \in HoldingPcs
      BY <2>1, <3>1 DEF HoldingPcs
    <3>5. \A v \in Workers : worker'[v].pc # worker[v].pc =>
              /\ worker[v].client = k
              /\ worker'[v].pc = "turn" => push_error(old).filter # Nothing
              /\ worker'[v].pc = "errored" => push_error(old).error
      BY <1>4, <3>1, <3>3
    <3> QED
      BY <2>2, <2>5, <3>1, <3>2, <3>3, <3>4, <3>5, StateStep
  <2>6. CASE /\ SetState(k, some) /\ some \in ClientState /\ ms \in Seq(Message)
             /\ worker' = [worker EXCEPT ![w].count = @ + 1]
    <3> DEFINE next == [old EXCEPT !.head = @ + 1]
    <3>1. /\ next \in ClientState /\ next.ref_count = old.ref_count /\ next.error = old.error
          /\ next.filter = old.filter /\ next.waker = old.waker /\ next.messages = old.messages
      BY <2>1 DEF ClientState
    <3>2. some = push_message(next, ms)
      OBVIOUS
    <3> HIDE DEF next, ms
    <3>3. /\ push_message(next, ms).ref_count = old.ref_count /\ push_message(next, ms).error = old.error
          /\ push_message(next, ms).filter = old.filter
          /\ push_message(next, ms).messages = old.messages \o ms
          /\ push_message(next, ms).waker => old.waker /\ ms = <<>>
      <4> DEFINE nw == push_message(next, ms)
      <4>1. /\ nw.ref_count = next.ref_count /\ nw.error = next.error /\ nw.filter = next.filter
            /\ nw.messages = next.messages \o ms /\ nw.waker = (next.waker /\ ms = <<>>)
        BY <2>6, <3>1, MessageFields
      <4> HIDE DEF nw, old
      <4> QED
        BY <3>1, <4>1 DEF nw
    <3>4. stream[k] = "parked" /\ push_message(next, ms).waker =>
             push_message(next, ms).messages = <<>> /\ ~push_message(next, ms).error
      <4>1. ASSUME stream[k] = "parked", ms = <<>> PROVE old.messages \o ms = <<>> /\ ~old.error
        BY <2>1, <4>1 DEF WakeOK
      <4> QED
        BY <3>3, <4>1
    <3>5. \A v \in Workers : worker'[v].pc = worker[v].pc /\ worker'[v].client = worker[v].client
      BY <1>0, <2>6 DEF Types, WorkerState
    <3> HIDE DEF some
    <3> QED
      BY <2>2, <2>6, <3>2, <3>3, <3>4, <3>5, StateStep
  <2> QED
    BY <2>3, <2>4, <2>5, <2>6
<1>5. CASE WorkerStops(w)
  <2>1. CASE UNCHANGED <<queue, client, stream>> /\ Goto(w, "done")
    <3>1. UNCHANGED <<task, stop>> /\ worker[w].pc \in {"idle", "drain"}
      BY <1>5 DEF WorkerStops
    <3>2. /\ worker'[w].pc = "done"
          /\ \A v \in Workers : worker'[v].client = worker[v].client
          /\ \A v \in Workers : v # w => worker'[v] = worker[v]
      BY <1>0, <2>1, GotoType
    <3>3. Holding' /\ \A k \in Clients : IsHeld(k)' <=> IsHeld(k)
      BY <1>0, <2>1, <3>1, <3>2, HoldSame DEF HoldingPcs
    <3>4. \A k \in Clients : RefOK(k)' /\ ServedOK(k)' /\ WakeOK(k)'
      BY <2>1, <3>1, <3>3 DEF ClientsInv, RefOK, ServedOK, WakeOK, Open
    <3>5. TurnHasFilter'
      BY <2>1, <3>2 DEF ClientsInv, TurnHasFilter
    <3>6. ErrorTold'
      BY <2>1, <3>2 DEF ClientsInv, ErrorTold, Open
    <3> QED
      BY <3>3, <3>4, <3>5, <3>6 DEF ClientsInv
  <2>2. ASSUME NEW k \in Clients, k = Head(queue), queue # <<>>, queue' = Tail(queue),
               SetState(k, Drop(client[k])), Goto(w, "drain")
        PROVE  ClientsInv'
    <3>1. UNCHANGED <<task, stop>> /\ worker[w].pc \in {"idle", "drain"} /\ stop
      BY <1>5 DEF WorkerStops
    <3>2. \A j \in Clients : stream'[j] = "none" <=> stream[j] = "none"
      <4>1. Drop(client[k]) \in ClientState
        BY <1>0, RequestTypes
      <4> QED
        BY <1>0, <2>2, <4>1, SetStateFacts
    <3>3. /\ Holding' /\ ~IsHeld(k)' /\ IsHeld(k)
          /\ \A j \in Clients : j # k => (IsHeld(j)' <=> IsHeld(j))
      BY <1>0, <2>2, <3>1, <3>2, HoldDrain DEF Goto
    <3>4. \A v \in Workers : worker'[v].pc \in {"turn", "errored"} => worker'[v] = worker[v]
      BY <1>0, <2>2, GotoType
    <3> QED
      BY <2>2, <3>1, <3>3, <3>4, ReleaseInv
  <2>3. queue # <<>> => Head(queue) \in Clients
    BY <1>0 DEF Types
  <2> QED
    BY <1>5, <2>1, <2>2, <2>3 DEF WorkerStops
<1>6. worker[w].pc \in HoldingPcs => worker[w].client \in Clients
  BY <1>0, HeldClient
<1> QED
  BY <1>1, <1>2, <1>3, <1>4, <1>5, <1>6 DEF Work, DropLast, DropErrored, StartTurn, TurnStep, HoldingPcs

(***************************************************************************)
(* The theorems                                                            *)
(***************************************************************************)
LEMMA ClientsInit ==
    ASSUME Init
    PROVE  ClientsInv
<1>1. NewState \in ClientState /\ Idle \in WorkerState /\ NewCache \in Cache
  <2>1. Idle \in WorkerState
    BY DEF Idle, WorkerState
  <2>2. [pos |-> Nothing, msg |-> Nothing] \in Cell
    BY DEF Cell
  <2>3. NewCache \in Cache
    BY <2>2 DEF NewCache, Cache
  <2> QED
    BY <2>1, <2>3, NewStateType
<1>2. Types
  <2>1. ring \in [Commitments -> [first : Nat, tail : Nat]]
    BY GrpcAssumption DEF Init
  <2>2. last \in [Clients -> Message]
    BY DEF Init, Message, Ping
  <2>3. worker \in [Workers -> WorkerState] /\ client \in [Clients -> ClientState]
        /\ cache \in [Workers -> [Commitments -> Cache]]
    BY <1>1 DEF Init
  <2>4. queue \in Seq(Clients) /\ subs \in [Clients -> Seq(Sub)]
    BY DEF Init
  <2>6. stop \in BOOLEAN
    BY DEF Init
  <2>5. /\ task \in [Clients -> {"none", "select", "break", "ended"}]
        /\ stream \in [Clients -> {"none", "poll", "parked", "finished", "dropped"}]
    BY DEF Init
  <2> QED
    BY <2>1, <2>2, <2>3, <2>4, <2>5, <2>6 DEF Types
<1>3. RingBounds
  BY GrpcAssumption DEF Init, RingBounds, MaxPos
<1>4. CacheSound
  <2> SUFFICES ASSUME NEW w \in Workers, NEW c \in Commitments, NEW i \in 0 .. CacheSize - 1
               PROVE  cache[w][c].buffer[i].pos = Nothing
    BY DEF CacheSound
  <2>1. cache[w][c] = NewCache
    BY DEF Init
  <2> QED
    BY <2>1 DEF NewCache
<1>5. \A w \in Workers : worker[w].pc = "idle" /\ worker[w].client = Nothing
  BY DEF Init, Idle
<1>6. \A k \in Clients : task[k] = "none" /\ stream[k] = "none" /\ ~IsHeld(k)
  BY <1>5, GrpcAssumption DEF Init, IsHeld, InQueue, InHand
<1>7. HandsFull
  BY <1>5 DEF HandsFull, HoldingPcs
<1>8. HeldOnce
  BY <1>5 DEF HeldOnce, Init
<1>9. Holding
  BY <1>6, <1>7, <1>8 DEF Holding, Unborn
<1>10. TurnHasFilter /\ ErrorTold
  BY <1>5 DEF TurnHasFilter, ErrorTold
<1>11. \A k \in Clients : RefOK(k) /\ ServedOK(k) /\ WakeOK(k)
  BY <1>6 DEF RefOK, ServedOK, WakeOK, Open
<1> QED
  BY <1>2, <1>3, <1>4, <1>9, <1>10, <1>11 DEF ClientsInv

\* Every step keeps the invariant.
LEMMA ClientsStep ==
    ASSUME ClientsInv, [Next]_vars
    PROVE  ClientsInv'
<1>0. Types' /\ RingBounds' /\ CacheSound'
  BY DataStep DEF ClientsInv
<1>1. CASE UNCHANGED vars \/ (\E c \in Commitments : Push(c)) \/ Stop
  <2>1. UNCHANGED <<queue, client, task, stream, worker>> /\ (stop => stop')
    BY <1>1 DEF vars, Push, Stop
  <2>2. \A k \in Clients : IsHeld(k)' <=> IsHeld(k)
    BY <2>1 DEF IsHeld, InQueue, InHand
  <2>3. Holding'
    BY <2>1, <2>2 DEF ClientsInv, Holding, HandsFull, HeldOnce, Unborn
  <2>4. TurnHasFilter' /\ ErrorTold'
    BY <2>1 DEF ClientsInv, TurnHasFilter, ErrorTold, Open
  <2>5. \A k \in Clients : RefOK(k)' /\ ServedOK(k)' /\ WakeOK(k)'
    BY <2>1, <2>2 DEF ClientsInv, RefOK, ServedOK, WakeOK, Open
  <2> QED
    BY <1>0, <2>3, <2>4, <2>5 DEF ClientsInv
<1>2. ASSUME NEW k \in Clients, subscribe(k) \/ Task(k) \/ poll_next(k) \/ DropStream(k)
      PROVE  ClientsInv'
  BY <1>0, <1>2, TaskInv, StreamInv
<1>3. ASSUME NEW w \in Workers, Work(w) PROVE ClientsInv'
  BY <1>0, <1>3, WorkInv
<1> QED
  BY <1>1, <1>2, <1>3 DEF Next

\* The inductive invariant: who holds a client, what is counted, what the caches hold.
THEOREM ClientsInvariant == Spec => []ClientsInv
<1>1. Init => ClientsInv
  BY ClientsInit
<1>2. ClientsInv /\ [Next]_vars => ClientsInv'
  BY ClientsStep
<1> QED
  BY <1>1, <1>2, PTL DEF Spec

\* How often the queue and the workers hold a client: once or not at all.
LEMMA HeldIsOne ==
    ASSUME ClientsInv, NEW k \in Clients
    PROVE  Held(k) = IF IsHeld(k) THEN 1 ELSE 0
<1> DEFINE Q == {i \in DOMAIN queue : queue[i] = k}
           H == {w \in Workers : worker[w].client = k}
<1>1. Held(k) = Cardinality(Q) + Cardinality(H)
  BY DEF Held, Count
<1>2. DOMAIN queue = 1 .. Len(queue)
  BY DEF ClientsInv, Types
<1>3. \A i, j \in Q : i = j
  BY <1>2 DEF ClientsInv, Holding, HeldOnce
<1>4. \A v, w \in H : v = w
  BY GrpcAssumption DEF ClientsInv, Holding, HeldOnce
<1>5. Q = {} \/ H = {}
  BY <1>2 DEF ClientsInv, Holding, HeldOnce
<1>6. InQueue(k) <=> Q # {}
  BY <1>2 DEF InQueue
<1>7. InHand(k) <=> H # {}
  BY DEF InHand
<1> HIDE DEF Q, H
<1>8. Cardinality(Q) = IF Q = {} THEN 0 ELSE 1
  <2>1. CASE Q = {}
    BY <2>1, FS_EmptySet
  <2>2. CASE Q # {}
    <3>1. PICK i \in Q : TRUE
      BY <2>2
    <3>2. Q = {i}
      BY <1>3, <3>1
    <3> QED
      BY <2>2, <3>2, FS_Singleton
  <2> QED
    BY <2>1, <2>2
<1>9. Cardinality(H) = IF H = {} THEN 0 ELSE 1
  <2>1. CASE H = {}
    BY <2>1, FS_EmptySet
  <2>2. CASE H # {}
    <3>1. PICK i \in H : TRUE
      BY <2>2
    <3>2. H = {i}
      BY <1>4, <3>1
    <3> QED
      BY <2>2, <3>2, FS_Singleton
  <2> QED
    BY <2>1, <2>2
<1> QED
  BY <1>1, <1>5, <1>6, <1>7, <1>8, <1>9 DEF IsHeld

\* ref_count is the number of holders at every moment (server.rs: Clone and Drop of
\* SubscribeClient), for any number of clients, workers and requests.
THEOREM RefCountedTheorem == Spec => []RefCounted
<1>1. ClientsInv => RefCounted
  <2> SUFFICES ASSUME ClientsInv, NEW k \in Clients, task[k] # "none"
               PROVE  client[k].ref_count = Held(k) + (IF task[k] = "ended" THEN 0 ELSE 1)
                                                    + (IF stream[k] = "dropped" THEN 0 ELSE 1)
    BY DEF RefCounted
  <2>1. Held(k) = IF IsHeld(k) THEN 1 ELSE 0
    BY HeldIsOne
  <2> QED
    BY <2>1 DEF ClientsInv, RefOK
<1> QED
  BY <1>1, ClientsInvariant, PTL

\* A client is held at most once, and an open stream without an error is held.
THEOREM StillServedTheorem == Spec => []StillServed
<1>1. ClientsInv => StillServed
  <2> SUFFICES ASSUME ClientsInv, NEW k \in Clients
               PROVE  /\ Held(k) <= 1
                      /\ Open(k) /\ ~client[k].error /\ ~stop => Held(k) = 1
    BY DEF StillServed
  <2>1. Held(k) = IF IsHeld(k) THEN 1 ELSE 0
    BY HeldIsOne
  <2> QED
    BY <2>1 DEF ClientsInv, ServedOK
<1> QED
  BY <1>1, ClientsInvariant, PTL

\* A stream that waits has its waker stored and nothing to yield.
THEOREM NoLostWakeupTheorem == Spec => []NoLostWakeup
<1>1. ClientsInv => NoLostWakeup
  BY DEF ClientsInv, WakeOK, NoLostWakeup
<1> QED
  BY <1>1, ClientsInvariant, PTL

(***************************************************************************)
(* What a stream yields                                                    *)
(***************************************************************************)
\* The filter of a client whose stream has not failed is the one set last.
FilterSet(k) ==
    IF subs[k] = <<>> THEN client[k].filter = Nothing
    ELSE /\ client[k].filter = subs[k][Len(subs[k])].filter
         /\ client[k].commitment = subs[k][Len(subs[k])].commitment

DeliveryOK(k) ==
    /\ task[k] = "none" => subs[k] = <<>> /\ last[k] = Nothing
    /\ stream[k] # "dropped" => Gapless(k, Outgoing(k))
    /\ stream[k] # "dropped" /\ ~Failed(k) =>
          /\ FilterSet(k)
          /\ subs[k] # <<>> => HeadIsNext(k, Outgoing(k))

DeliveryInv == \A k \in Clients : DeliveryOK(k)

\* At a position with updates, the first update from there is its first one.
LEMMA FirstFromHit ==
    ASSUME NEW k, NEW n, NEW pos \in Nat, MaxPos(subs[k][n].commitment) \in Nat,
           pos <= MaxPos(subs[k][n].commitment),
           Updates(subs[k][n].filter, pos) > 0
    PROVE  FirstFrom(k, n, pos) = [sub |-> n, commitment |-> subs[k][n].commitment, pos |-> pos, item |-> 1]
<1> DEFINE hits == {p \in pos .. MaxPos(subs[k][n].commitment) : Updates(subs[k][n].filter, p) > 0}
<1>1. pos \in hits /\ hits # {}
  OBVIOUS
<1>2. \A p \in hits : p \in Nat /\ pos <= p
  OBVIOUS
<1> HIDE DEF hits
<1>3. Min(hits) = pos
  <2>1. \A x \in hits : (\A y \in hits : x <= y) => x = pos
    BY <1>1, <1>2
  <2>2. \E x \in hits : \A y \in hits : x <= y
    BY <1>1, <1>2
  <2> QED
    BY <2>1, <2>2 DEF Min
<1> QED
  BY <1>1, <1>3 DEF FirstFrom, hits

\* A position without updates may be passed over.
LEMMA FirstFromMiss ==
    ASSUME NEW k, NEW n, NEW pos \in Nat, MaxPos(subs[k][n].commitment) \in Nat,
           Updates(subs[k][n].filter, pos) = 0
    PROVE  FirstFrom(k, n, pos) = FirstFrom(k, n, pos + 1)
<1> DEFINE hits(q) == {p \in q .. MaxPos(subs[k][n].commitment) : Updates(subs[k][n].filter, p) > 0}
<1>1. hits(pos) = hits(pos + 1)
  OBVIOUS
<1>2. \A q : FirstFrom(k, n, q) =
         IF hits(q) = {} THEN Nothing
         ELSE [sub |-> n, commitment |-> subs[k][n].commitment, pos |-> Min(hits(q)), item |-> 1]
  BY DEF FirstFrom
<1> HIDE DEF hits
<1> QED
  BY <1>1, <1>2

\* A ping changes nothing.
LEMMA GaplessPing ==
    ASSUME NEW k, NEW s \in Seq(Message), NEW t \in Seq(Message),
           Len(t) = Len(s) + 1, \A i \in 1 .. Len(s) : t[i] = s[i], t[Len(t)] = Ping,
           Gapless(k, s)
    PROVE  /\ Gapless(k, t)
           /\ \A i \in 1 .. Len(s) : Final(s, i) => Final(t, i)
           /\ \A i \in 1 .. Len(t) : t[i] # Ping => i \in 1 .. Len(s) /\ t[i] = s[i]
<1>1. \A i \in 1 .. Len(t) : t[i] # Ping => i \in 1 .. Len(s) /\ t[i] = s[i]
  OBVIOUS
<1>2. ASSUME NEW i \in 1 .. Len(t), NEW j \in 1 .. Len(t), Adjacent(t, i, j)
      PROVE  Follows(k, t[i], t[j])
  <2>1. i \in 1 .. Len(s) /\ j \in 1 .. Len(s) /\ t[i] = s[i] /\ t[j] = s[j]
    BY <1>1, <1>2 DEF Adjacent
  <2>2. Adjacent(s, i, j)
    BY <1>2, <2>1 DEF Adjacent
  <2> QED
    BY <2>1, <2>2 DEF Gapless
<1>3. Gapless(k, t)
  BY <1>1, <1>2 DEF Gapless
<1>4. \A i \in 1 .. Len(s) : Final(s, i) => Final(t, i)
  BY DEF Final
<1> QED
  BY <1>1, <1>3, <1>4

\* The stream yields its first update: what was yielded before is forgotten.
LEMMA GaplessTail ==
    ASSUME NEW k, NEW s \in Seq(Message), NEW t \in Seq(Message),
           Len(s) >= 2, s[2] # Ping, Len(t) = Len(s) - 1, \A i \in 1 .. Len(t) : t[i] = s[i + 1],
           Gapless(k, s)
    PROVE  /\ Gapless(k, t)
           /\ \A i \in 1 .. Len(s) : Final(s, i) => i - 1 \in 1 .. Len(t) /\ Final(t, i - 1) /\ t[i - 1] = s[i]
           /\ \A i \in 1 .. Len(t) : i + 1 \in 1 .. Len(s) /\ t[i] = s[i + 1]
<1>1. \A i \in 1 .. Len(t) : i + 1 \in 1 .. Len(s) /\ t[i] = s[i + 1]
  OBVIOUS
<1>2. ASSUME NEW i \in 1 .. Len(t), NEW j \in 1 .. Len(t), Adjacent(t, i, j)
      PROVE  Follows(k, t[i], t[j])
  <2>1. i + 1 \in 1 .. Len(s) /\ j + 1 \in 1 .. Len(s) /\ t[i] = s[i + 1] /\ t[j] = s[j + 1]
    BY <1>1
  <2>2. ASSUME NEW n \in i + 2 .. j PROVE s[n] = Ping
    <3>1. n - 1 \in i + 1 .. j - 1 /\ n - 1 \in 1 .. Len(t) /\ n = (n - 1) + 1
      BY <2>1
    <3> QED
      BY <1>2, <3>1 DEF Adjacent
  <2>3. Adjacent(s, i + 1, j + 1)
    BY <1>2, <2>1, <2>2 DEF Adjacent
  <2> QED
    BY <2>1, <2>3 DEF Gapless
<1>3. Gapless(k, t)
  BY <1>1, <1>2 DEF Gapless
<1>4. ASSUME NEW i \in 1 .. Len(s), Final(s, i)
      PROVE  i - 1 \in 1 .. Len(t) /\ Final(t, i - 1) /\ t[i - 1] = s[i]
  <2>1. i # 1
    BY <1>4 DEF Final
  <2>2. i - 1 \in 1 .. Len(t) /\ t[i - 1] = s[i]
    BY <2>1
  <2>3. ASSUME NEW n \in (i - 1) + 1 .. Len(t) PROVE t[n] = Ping
    <3>1. n \in 1 .. Len(t) /\ n + 1 \in i + 1 .. Len(s)
      BY <2>2
    <3> QED
      BY <1>4, <3>1 DEF Final
  <2> QED
    BY <1>4, <2>2, <2>3 DEF Final
<1> QED
  BY <1>1, <1>3, <1>4

\* The stream yields a ping.
LEMMA GaplessSkip ==
    ASSUME NEW k, NEW s \in Seq(Message), NEW t \in Seq(Message),
           Len(s) >= 2, s[2] = Ping, Len(t) = Len(s) - 1,
           t[1] = s[1], \A i \in 2 .. Len(t) : t[i] = s[i + 1],
           Gapless(k, s)
    PROVE  /\ Gapless(k, t)
           /\ \A i \in 1 .. Len(s) : Final(s, i) =>
                 \E j \in 1 .. Len(t) : Final(t, j) /\ t[j] = s[i]
           /\ \A i \in 1 .. Len(t) : \E j \in 1 .. Len(s) : t[i] = s[j]
<1> DEFINE up(i) == IF i = 1 THEN 1 ELSE i + 1
<1>1. \A i \in 1 .. Len(t) : up(i) \in 1 .. Len(s) /\ up(i) # 2 /\ t[i] = s[up(i)]
  OBVIOUS
<1>2. ASSUME NEW i \in 1 .. Len(t), NEW j \in 1 .. Len(t), Adjacent(t, i, j)
      PROVE  Follows(k, t[i], t[j])
  <2>1. up(i) \in 1 .. Len(s) /\ up(j) \in 1 .. Len(s) /\ t[i] = s[up(i)] /\ t[j] = s[up(j)] /\ up(i) < up(j)
    BY <1>1, <1>2 DEF Adjacent
  <2>2. ASSUME NEW n \in up(i) + 1 .. up(j) - 1 PROVE s[n] = Ping
    <3>1. CASE n = 2
      BY <3>1
    <3>2. CASE n # 2
      <4>1. n - 1 \in i + 1 .. j - 1 /\ n - 1 \in 2 .. Len(t) /\ n = (n - 1) + 1
        BY <2>1, <3>2
      <4> QED
        BY <1>2, <4>1 DEF Adjacent
    <3> QED
      BY <3>1, <3>2
  <2>3. Adjacent(s, up(i), up(j))
    BY <1>2, <2>1, <2>2 DEF Adjacent
  <2> HIDE DEF up
  <2> QED
    BY <2>1, <2>3 DEF Gapless
<1>3. Gapless(k, t)
  <2> HIDE DEF up
  <2> QED
    BY <1>1, <1>2 DEF Gapless
<1>4. ASSUME NEW i \in 1 .. Len(s), Final(s, i)
      PROVE  \E j \in 1 .. Len(t) : Final(t, j) /\ t[j] = s[i]
  <2>1. i # 2
    BY <1>4 DEF Final
  <2>2. CASE i = 1
    <3>1. ASSUME NEW n \in 2 .. Len(t) PROVE t[n] = Ping
      <4>1. n + 1 \in 2 .. Len(s) /\ t[n] = s[n + 1]
        OBVIOUS
      <4> QED
        BY <1>4, <2>2, <4>1 DEF Final
    <3>2. Final(t, 1) /\ 1 \in 1 .. Len(t)
      BY <1>4, <2>2, <3>1 DEF Final
    <3> QED
      BY <2>2, <3>2
  <2>3. CASE i > 2
    <3>1. i - 1 \in 2 .. Len(t) /\ t[i - 1] = s[i]
      BY <2>3
    <3>2. ASSUME NEW n \in (i - 1) + 1 .. Len(t) PROVE t[n] = Ping
      <4>1. n \in 2 .. Len(t) /\ n + 1 \in i + 1 .. Len(s) /\ t[n] = s[n + 1]
        BY <2>3
      <4> QED
        BY <1>4, <4>1 DEF Final
    <3>3. Final(t, i - 1) /\ i - 1 \in 1 .. Len(t)
      BY <1>4, <3>1, <3>2 DEF Final
    <3> QED
      BY <3>1, <3>3
  <2> QED
    BY <2>1, <2>2, <2>3
<1>5. \A i \in 1 .. Len(t) : \E j \in 1 .. Len(s) : t[i] = s[j]
  <2> HIDE DEF up
  <2> QED
    BY <1>1
<1> QED
  BY <1>3, <1>4, <1>5

\* The next update of the same message.
LEMMA ItemNext ==
    ASSUME NEW m \in Update, NEW n \in Update,
           n.sub = m.sub, n.commitment = m.commitment, n.pos = m.pos, n.item = m.item + 1
    PROVE  [m EXCEPT !.item = @ + 1] = n
<1>1. [m EXCEPT !.item = @ + 1] \in Update
  BY DEF Update
<1> QED
  BY <1>1 DEF Update

\* A number that is skipped lies strictly between.
LEMMA Between ==
    ASSUME NEW a \in Nat, NEW b \in Nat, NEW c \in Nat, a <= b, b + 1 <= c, c # b + 1
    PROVE  b + 1 \in a + 1 .. c - 1
OBVIOUS

\* The u updates of position pos are appended to s: the result is t.
PushedAt(k, now, pos, u, s, t) ==
    /\ now \in Nat \ {0} /\ now = Len(subs[k]) /\ pos \in Nat
    /\ subs[k][now].commitment \in Commitments
    /\ MaxPos(subs[k][now].commitment) \in Nat /\ pos <= MaxPos(subs[k][now].commitment)
    /\ u \in Nat /\ u = Updates(subs[k][now].filter, pos)
    /\ s \in Seq(Message) /\ t \in Seq(Message)
    /\ Len(t) = Len(s) + u /\ \A i \in 1 .. Len(s) : t[i] = s[i]
    /\ \A i \in 1 .. u :
          t[Len(s) + i] = [sub |-> now, commitment |-> subs[k][now].commitment, pos |-> pos, item |-> i]
    /\ Gapless(k, s) /\ client[k].head = pos /\ HeadIsNext(k, s)

NextIs(k, now, pos, t) ==
    \/ \E i \in 1 .. Len(t) : Final(t, i) /\ t[i].sub = now /\ FirstFrom(k, now, pos) = Successor(k, t[i])
    \/ /\ \A i \in 1 .. Len(t) : t[i] # Ping => t[i].sub # now
       /\ FirstFrom(k, now, pos) = FirstFrom(k, now, subs[k][now].start)

\* The updates of the position at the head follow what is outgoing.
LEMMA GaplessPush ==
    ASSUME NEW k, NEW now, NEW pos, NEW u, NEW s, NEW t, PushedAt(k, now, pos, u, s, t)
    PROVE  Gapless(k, t) /\ NextIs(k, now, pos + 1, t)
<1> USE DEF PushedAt
<1> DEFINE c == subs[k][now].commitment
           f == subs[k][now].filter
           Item(i) == [sub |-> now, commitment |-> c, pos |-> pos, item |-> i]
           L == Len(s)
<1>0. L \in Nat
  OBVIOUS
<1>1. CASE u = 0
  <2>1. t = s
    BY <1>1, SeqEqual
  <2>2. FirstFrom(k, now, pos) = FirstFrom(k, now, pos + 1)
    <3>1. Updates(subs[k][now].filter, pos) = 0
      BY <1>1
    <3> QED
      BY <3>1, FirstFromMiss
  <2> QED
    BY <2>1, <2>2 DEF HeadIsNext, NextIs
<1>2. CASE u # 0
  <2>1. FirstFrom(k, now, pos) = Item(1)
    BY <1>2, FirstFromHit, SMTT(30)
  <2>2. \A i \in 1 .. u : t[L + i] = Item(i)
    OBVIOUS
  <2>3. \A i : /\ Item(i).sub = now /\ Item(i).commitment = c /\ Item(i).pos = pos /\ Item(i).item = i
    OBVIOUS
  <2>4. \A i \in 1 .. u : Item(i) # Ping
    <3>1. SUFFICES ASSUME NEW i \in 1 .. u PROVE Item(i) # Ping
      OBVIOUS
    <3>2. Item(i) \in Update
      BY DEF Update
    <3> QED
      BY <3>2, GrpcAssumption DEF Ping, Update
  <2>5. \A i \in 1 .. u - 1 : Successor(k, Item(i)) = Item(i + 1)
    <3> SUFFICES ASSUME NEW i \in 1 .. u - 1 PROVE Successor(k, Item(i)) = Item(i + 1)
      OBVIOUS
    <3>1. Item(i).item < Updates(subs[k][Item(i).sub].filter, Item(i).pos)
      BY <2>3
    <3>2. [Item(i) EXCEPT !.item = @ + 1] = Item(i + 1)
      <4>1. Item(i) \in Update /\ Item(i + 1) \in Update
        BY DEF Update
      <4>2. Item(i).item + 1 = i + 1 /\ i + 1 \in Nat
        BY <2>3
      <4> QED
        BY <2>3, <4>1, <4>2, ItemNext, ZenonT(30)
    <3> QED
      BY <3>1, <3>2 DEF Successor
  <2>6. Successor(k, Item(u)) = FirstFrom(k, now, pos + 1)
    BY <1>2, <2>3 DEF Successor
  <2> HIDE DEF Item
  <2>7. \A i \in 1 .. Len(t) : i \in 1 .. L \/ i - L \in 1 .. u
    BY <1>0
  <2>8. \A i \in 1 .. Len(t) : t[i] # Ping =>
          /\ t[i].sub \in 1 .. now /\ t[i].commitment = subs[k][t[i].sub].commitment
    <3> SUFFICES ASSUME NEW i \in 1 .. Len(t), t[i] # Ping
                 PROVE  t[i].sub \in 1 .. now /\ t[i].commitment = subs[k][t[i].sub].commitment
      OBVIOUS
    <3>1. CASE i \in 1 .. L
      BY <3>1 DEF Gapless
    <3>2. CASE i - L \in 1 .. u
      <4>1. t[i] = Item(i - L)
        BY <3>2, <2>2, <1>0
      <4> QED
        BY <4>1, <2>3
    <3> QED
      BY <3>1, <3>2, <2>7
  <2>9. ASSUME NEW i \in 1 .. Len(t), NEW j \in 1 .. Len(t), Adjacent(t, i, j)
        PROVE  Follows(k, t[i], t[j])
    <3>0. i < j /\ t[i] # Ping /\ t[j] # Ping /\ \A n \in i + 1 .. j - 1 : t[n] = Ping
      BY <2>9 DEF Adjacent
    <3>1. CASE j \in 1 .. L
      <4>1. i \in 1 .. L /\ \A n \in i + 1 .. j - 1 : n \in 1 .. L
        BY <3>0, <3>1, <1>0
      <4>2. Adjacent(s, i, j)
        BY <3>0, <3>1, <4>1 DEF Adjacent
      <4> QED
        BY <3>1, <4>1, <4>2 DEF Gapless
    <3>2. CASE i \in 1 .. L /\ j - L \in 1 .. u
      <4>1. j = L + 1
        <5>1. SUFFICES ASSUME j # L + 1 PROVE FALSE
          OBVIOUS
        <5>2. i \in Nat /\ j \in Nat /\ i <= L /\ L + 1 <= j
          BY <3>2, <1>0
        <5>3. L + 1 \in i + 1 .. j - 1
          BY <5>1, <5>2, <1>0, Between
        <5>4. 1 \in 1 .. u
          BY <1>2
        <5>5. t[L + 1] = Ping /\ t[L + 1] = Item(1)
          BY <5>3, <5>4, <3>0, <2>2
        <5> QED
          BY <5>4, <5>5, <2>4
      <4>2. t[j] = Item(1)
        BY <4>1, <2>2, <1>2
      <4>3. Final(s, i)
        <5>1. \A n \in i + 1 .. L : n \in i + 1 .. j - 1 /\ t[n] = s[n]
          BY <4>1, <3>2, <1>0, SMTT(30)
        <5> QED
          BY <5>1, <3>0, <3>2 DEF Final
      <4>4. CASE \E x \in 1 .. Len(s) : /\ Final(s, x) /\ s[x].sub = now
                                       /\ FirstFrom(k, now, pos) = Successor(k, s[x])
        <5>1. PICK x \in 1 .. L : /\ Final(s, x) /\ s[x].sub = now
                                  /\ FirstFrom(k, now, pos) = Successor(k, s[x])
          BY <4>4
        <5>2. x = i
          BY <5>1, <4>3, <3>2, <1>0, SMTT(30) DEF Final
        <5> QED
          BY <5>1, <5>2, <4>2, <2>1, <2>3, <3>2 DEF Follows
      <4>5. CASE /\ \A x \in 1 .. Len(s) : s[x] # Ping => s[x].sub # now
                 /\ FirstFrom(k, now, pos) = FirstFrom(k, now, subs[k][now].start)
        <5>1. s[i].sub # now /\ s[i].sub \in 1 .. now
          BY <4>5, <3>0, <3>2 DEF Gapless
        <5>2. t[i].sub < now /\ t[j].sub = now
          BY <5>1, <4>2, <2>3, <3>2, SMTT(30)
        <5> QED
          BY <5>2, <4>2, <4>5, <2>1 DEF Follows
      <4> QED
        BY <4>4, <4>5 DEF HeadIsNext
    <3>3. CASE i - L \in 1 .. u /\ j - L \in 1 .. u
      <4>1. j = i + 1
        <5>1. SUFFICES ASSUME j # i + 1 PROVE FALSE
          OBVIOUS
        <5>2. i + 1 \in i + 1 .. j - 1 /\ (i + 1) - L \in 1 .. u
          BY <5>1, <3>0, <3>3, <1>0
        <5>3. t[L + ((i + 1) - L)] = Item((i + 1) - L)
          BY <5>2, <2>2
        <5>4. L + ((i + 1) - L) = i + 1
          BY <1>0
        <5> QED
          BY <5>2, <5>3, <5>4, <3>0, <2>4
      <4>2. t[i] = Item(i - L) /\ t[j] = Item((i - L) + 1) /\ i - L \in 1 .. u - 1
        <5>1. t[L + (i - L)] = Item(i - L) /\ t[L + (j - L)] = Item(j - L)
          BY <3>3, <2>2
        <5>2. L + (i - L) = i /\ L + (j - L) = j /\ j - L = (i - L) + 1 /\ i - L \in 1 .. u - 1
          BY <4>1, <1>0, <3>3
        <5> QED
          BY <5>1, <5>2
      <4> QED
        BY <4>2, <2>3, <2>5, SMTT(30) DEF Follows
    <3> QED
      BY <3>0, <3>1, <3>2, <3>3, <2>7, <1>0
  <2>10. Gapless(k, t)
    BY <2>8, <2>9 DEF Gapless
  <2>11. Final(t, L + u) /\ L + u \in 1 .. Len(t) /\ t[L + u] = Item(u)
    BY <1>0, <1>2, <2>2, <2>4, SMTT(30) DEF Final
  <2> QED
    BY <2>3, <2>6, <2>10, <2>11 DEF NextIs
<1> QED
  BY <1>1, <1>2

\* What follows an update depends on the filters set so far only.
LEMMA FirstFromKept ==
    ASSUME NEW k, NEW n, subs'[k][n] = subs[k][n]
    PROVE  \A pos : FirstFrom(k, n, pos)' = FirstFrom(k, n, pos)
<1> SUFFICES ASSUME NEW pos PROVE FirstFrom(k, n, pos)' = FirstFrom(k, n, pos)
  OBVIOUS
<1> DEFINE hits(sub) == {p \in pos .. MaxPos(sub.commitment) : Updates(sub.filter, p) > 0}
           val(sub) == IF hits(sub) = {} THEN Nothing
                       ELSE [sub |-> n, commitment |-> sub.commitment, pos |-> Min(hits(sub)), item |-> 1]
<1>1. FirstFrom(k, n, pos) = val(subs[k][n])
  BY DEF FirstFrom
<1>2. FirstFrom(k, n, pos)' = val(subs'[k][n])
  BY DEF FirstFrom
<1> QED
  BY <1>1, <1>2

\* A stream stays gapless when a filter is added.
LEMMA GaplessKept ==
    ASSUME NEW k, NEW s, Len(s) \in Nat, Gapless(k, s),
           Len(subs[k]) \in Nat, Len(subs'[k]) \in Nat, Len(subs[k]) <= Len(subs'[k]),
           \A n \in 1 .. Len(subs[k]) : subs'[k][n] = subs[k][n]
    PROVE  Gapless(k, s)'
<1>1. \A i \in 1 .. Len(s) : s[i] # Ping =>
          /\ s[i].sub \in 1 .. Len(subs'[k])
          /\ s[i].commitment = subs'[k][s[i].sub].commitment
  BY DEF Gapless
<1>2. ASSUME NEW i \in 1 .. Len(s), NEW j \in 1 .. Len(s), Adjacent(s, i, j)
      PROVE  Follows(k, s[i], s[j])'
  <2>1. Follows(k, s[i], s[j]) /\ s[i].sub \in 1 .. Len(subs[k]) /\ s[j].sub \in 1 .. Len(subs[k])
    BY <1>2 DEF Gapless, Adjacent
  <2>2. subs'[k][s[i].sub] = subs[k][s[i].sub] /\ subs'[k][s[j].sub] = subs[k][s[j].sub]
    BY <2>1
  <2>3. /\ \A pos : FirstFrom(k, s[i].sub, pos)' = FirstFrom(k, s[i].sub, pos)
        /\ \A pos : FirstFrom(k, s[j].sub, pos)' = FirstFrom(k, s[j].sub, pos)
    BY <2>2, FirstFromKept
  <2>4. Successor(k, s[i])' = Successor(k, s[i])
    BY <2>2, <2>3 DEF Successor
  <2> QED
    BY <2>1, <2>2, <2>3, <2>4 DEF Follows
<1> QED
  BY <1>1, <1>2 DEF Gapless

\* The head of a client stays next while head and filters do.
LEMMA HeadIsNextKept ==
    ASSUME NEW k, NEW s, Gapless(k, s), HeadIsNext(k, s), subs'[k] = subs[k],
           Len(subs[k]) \in Nat, client'[k].head = client[k].head
    PROVE  HeadIsNext(k, s)'
<1>1. \A n, pos : FirstFrom(k, n, pos)' = FirstFrom(k, n, pos)
  BY FirstFromKept
<1>2. \A m : Successor(k, m)' = Successor(k, m)
  BY <1>1 DEF Successor
<1> QED
  BY <1>1, <1>2 DEF HeadIsNext

\* What to show of a client after a step.
LEMMA DeliveryFrom ==
    ASSUME NEW k, NEW t, t = Outgoing(k)', Gapless(k, t)',
           task'[k] = "none" => subs'[k] = <<>> /\ last'[k] = Nothing,
           ~Failed(k)' => FilterSet(k)' /\ (subs'[k] # <<>> => HeadIsNext(k, t)')
    PROVE  DeliveryOK(k)'
<1>1. Gapless(k, Outgoing(k))'
  BY DEF Gapless
<1>2. HeadIsNext(k, t)' => HeadIsNext(k, Outgoing(k))'
  BY DEF HeadIsNext
<1> QED
  BY <1>1, <1>2 DEF DeliveryOK

\* The outgoing messages as a sequence.
LEMMA OutgoingIs ==
    ASSUME NEW x \in Message, NEW M \in Seq(Message)
    PROVE  /\ <<x>> \o M \in Seq(Message)
           /\ Len(<<x>> \o M) = Len(M) + 1
           /\ (<<x>> \o M)[1] = x
           /\ \A i \in 1 .. Len(M) : (<<x>> \o M)[i + 1] = M[i]
           /\ <<x>> \o <<>> = <<x>>
<1>1. <<x>> \in Seq(Message) /\ Len(<<x>>) = 1 /\ <<x>>[1] = x
  OBVIOUS
<1>2. <<x>> \o M \in Seq(Message) /\ Len(<<x>> \o M) = Len(M) + 1 /\ (<<x>> \o M)[1] = x
  BY <1>1
<1>3. \A i \in 1 .. Len(M) : (<<x>> \o M)[i + 1] = M[i]
  BY <1>1
<1> QED
  BY <1>1, <1>2, <1>3

\* The elements of a concatenation of messages.
LEMMA ConcatIs ==
    ASSUME NEW M \in Seq(Message), NEW ms \in Seq(Message)
    PROVE  /\ Len(M) \in Nat /\ Len(ms) \in Nat /\ Len(M \o ms) = Len(M) + Len(ms)
           /\ \A i \in 1 .. Len(M) : (M \o ms)[i] = M[i]
           /\ \A i \in 1 .. Len(ms) : (M \o ms)[Len(M) + i] = ms[i]
OBVIOUS

\* The elements after a filter is appended.
LEMMA AppendIs ==
    ASSUME NEW q \in Seq(Sub), NEW e \in Sub
    PROVE  /\ Len(Append(q, e)) = Len(q) + 1 /\ Append(q, e)[Len(q) + 1] = e /\ Append(q, e) # <<>>
           /\ \A n \in 1 .. Len(q) : Append(q, e)[n] = q[n]
OBVIOUS

\* Once the stream has failed, what it has yielded is all it yields.
LEMMA DeliveryFailed ==
    ASSUME Types, Types', NEW k \in Clients, DeliveryOK(k),
           stream[k] # "dropped", Failed(k)', last'[k] = last[k],
           subs'[k] = subs[k] \/ \E e \in Sub : subs'[k] = Append(subs[k], e),
           task'[k] = "none" => subs'[k] = <<>> /\ last'[k] = Nothing
    PROVE  DeliveryOK(k)'
<1>0. PICK t : t = <<last[k]>>
  OBVIOUS
<1>1. t = Outgoing(k)'
  BY <1>0, OutgoingIs DEF Outgoing, Types
<1>2. Gapless(k, Outgoing(k)) /\ Outgoing(k)[1] = last[k] /\ Len(Outgoing(k)) \in Nat \ {0}
  <2>1. last[k] \in Message /\ client[k].messages \in Seq(Message) /\ <<>> \in Seq(Message)
    BY DEF Types, ClientState
  <2>2. Outgoing(k) = <<last[k]>> \o <<>> \/ Outgoing(k) = <<last[k]>> \o client[k].messages
    BY DEF Outgoing
  <2>3. Outgoing(k)[1] = last[k] /\ Len(Outgoing(k)) \in Nat \ {0}
    BY <2>1, <2>2, OutgoingIs
  <2> QED
    BY <2>3 DEF DeliveryOK
<1>3. Len(t) = 1 /\ t[1] = last[k]
  BY <1>0
<1>4. Gapless(k, t)
  <2>1. \A i, j \in 1 .. Len(t) : ~Adjacent(t, i, j)
    BY <1>3 DEF Adjacent
  <2>2. \A i \in 1 .. Len(t) : i = 1
    BY <1>3
  <2>3. 1 \in 1 .. Len(Outgoing(k))
    BY <1>2
  <2> QED
    BY <1>2, <1>3, <2>1, <2>2, <2>3 DEF Gapless
<1>5. /\ Len(subs[k]) \in Nat /\ Len(subs'[k]) \in Nat /\ Len(subs[k]) <= Len(subs'[k])
      /\ \A n \in 1 .. Len(subs[k]) : subs'[k][n] = subs[k][n]
  <2>1. subs[k] \in Seq(Sub)
    BY DEF Types
  <2> QED
    BY <2>1
<1>6. Gapless(k, t)'
  BY <1>3, <1>4, <1>5, GaplessKept
<1> QED
  BY <1>1, <1>6, DeliveryFrom

\* Nothing that concerns the deliveries of a client has changed.
LEMMA DeliverySame ==
    ASSUME Types, Types', NEW k \in Clients, DeliveryOK(k),
           subs'[k] = subs[k], last'[k] = last[k], task'[k] = "none" <=> task[k] = "none",
           stream'[k] = "dropped" <=> stream[k] = "dropped", Failed(k)' <=> Failed(k),
           ~Failed(k) => /\ client'[k].messages = client[k].messages
                         /\ client'[k].head = client[k].head /\ client'[k].filter = client[k].filter
                         /\ client'[k].commitment = client[k].commitment
    PROVE  DeliveryOK(k)'
<1>1. CASE stream[k] = "dropped"
  BY <1>1 DEF DeliveryOK
<1>2. CASE stream[k] # "dropped" /\ Failed(k)
  <2>1. task'[k] = "none" => subs'[k] = <<>> /\ last'[k] = Nothing
    BY DEF DeliveryOK
  <2> QED
    BY <1>2, <2>1, DeliveryFailed
<1>3. CASE stream[k] # "dropped" /\ ~Failed(k)
  <2>1. PICK t : t = Outgoing(k)
    OBVIOUS
  <2>2. t = Outgoing(k)'
    BY <1>3, <2>1 DEF Outgoing
  <2>3. Gapless(k, t) /\ (subs[k] # <<>> => HeadIsNext(k, t)) /\ FilterSet(k)
    BY <1>3, <2>1 DEF DeliveryOK
  <2>4. Len(t) \in Nat /\ Len(subs[k]) \in Nat
    BY <1>3, <2>1, OutgoingIs DEF Outgoing, Types, ClientState
  <2>5. Gapless(k, t)'
    BY <2>3, <2>4, GaplessKept
  <2>6. subs[k] # <<>> => HeadIsNext(k, t)'
    BY <1>3, <2>3, <2>4, HeadIsNextKept
  <2>7. FilterSet(k)'
    BY <1>3, <2>3 DEF FilterSet
  <2> QED
    BY <2>2, <2>5, <2>6, <2>7, DeliveryFrom DEF DeliveryOK
<1> QED
  BY <1>1, <1>2, <1>3

\* A ping is appended.
LEMMA DeliveryPing ==
    ASSUME Types, Types', NEW k \in Clients, DeliveryOK(k), stream[k] # "dropped",
           subs'[k] = subs[k], last'[k] = last[k], task'[k] = "none" <=> task[k] = "none",
           ~Failed(k), ~Failed(k)',
           client'[k].messages = client[k].messages \o <<Ping>>,
           client'[k].head = client[k].head, client'[k].filter = client[k].filter,
           client'[k].commitment = client[k].commitment
    PROVE  DeliveryOK(k)'
<1>0. last[k] \in Message /\ client[k].messages \in Seq(Message) /\ client'[k].messages \in Seq(Message)
      /\ Len(subs[k]) \in Nat
  BY SMTT(30) DEF Types, ClientState
<1>1. PICK s : s = Outgoing(k)
  OBVIOUS
<1>2. PICK t : t = Outgoing(k)'
  OBVIOUS
<1>3. s = <<last[k]>> \o client[k].messages /\ t = <<last[k]>> \o client'[k].messages
  BY <1>1, <1>2 DEF Outgoing
<1>4. s \in Seq(Message) /\ t \in Seq(Message)
  BY <1>0, <1>3, OutgoingIs
<1>5. Len(t) = Len(s) + 1 /\ (\A i \in 1 .. Len(s) : t[i] = s[i]) /\ t[Len(t)] = Ping
  <2> DEFINE M == client[k].messages
             N == client'[k].messages
  <2>1. Ping \in Message /\ <<Ping>> \in Seq(Message)
    BY DEF Message
  <2>2. M \in Seq(Message) /\ N = M \o <<Ping>>
    BY <1>0
  <2>3. Len(M) \in Nat /\ Len(N) = Len(M) + 1 /\ N[Len(M) + 1] = Ping /\ \A i \in 1 .. Len(M) : N[i] = M[i]
    BY <2>1, <2>2
  <2>4. /\ Len(s) = Len(M) + 1 /\ s[1] = last[k] /\ \A i \in 1 .. Len(M) : s[i + 1] = M[i]
        /\ Len(t) = Len(N) + 1 /\ t[1] = last[k] /\ \A i \in 1 .. Len(N) : t[i + 1] = N[i]
    BY <1>0, <1>3, OutgoingIs
  <2> HIDE DEF M, N
  <2>5. t[Len(t)] = Ping /\ Len(t) = Len(s) + 1
    BY <2>3, <2>4
  <2>6. ASSUME NEW i \in 1 .. Len(s) PROVE t[i] = s[i]
    <3>1. CASE i = 1
      BY <2>4, <3>1
    <3>2. CASE i # 1
      <4>1. i - 1 \in 1 .. Len(M) /\ i = (i - 1) + 1 /\ i - 1 \in 1 .. Len(N)
        BY <2>3, <2>4, <3>2
      <4> QED
        BY <4>1, <2>3, <2>4
    <3> QED
      BY <3>1, <3>2
  <2> QED
    BY <2>5, <2>6
<1>6. Gapless(k, s) /\ (subs[k] # <<>> => HeadIsNext(k, s)) /\ FilterSet(k)
  BY <1>1 DEF DeliveryOK
<1>7. /\ Gapless(k, t)
      /\ \A i \in 1 .. Len(s) : Final(s, i) => Final(t, i)
      /\ \A i \in 1 .. Len(t) : t[i] # Ping => i \in 1 .. Len(s) /\ t[i] = s[i]
  BY <1>4, <1>5, <1>6, GaplessPing
<1>8. HeadIsNext(k, s) => HeadIsNext(k, t)
  <2>1. \A i \in 1 .. Len(s) : i \in 1 .. Len(t) /\ t[i] = s[i]
    BY <1>4, <1>5
  <2> QED
    BY <1>7, <2>1 DEF HeadIsNext
<1>9. Len(t) \in Nat
  BY <1>4
<1>10. Gapless(k, t)'
  BY <1>0, <1>7, <1>9, GaplessKept
<1>11. subs[k] # <<>> => HeadIsNext(k, t)'
  BY <1>0, <1>6, <1>7, <1>8, HeadIsNextKept
<1>12. FilterSet(k)'
  BY <1>6 DEF FilterSet
<1> QED
  BY <1>2, <1>10, <1>11, <1>12, DeliveryFrom DEF DeliveryOK

\* A message of the ring is served.
LEMMA DeliveryPush ==
    ASSUME Types, Types', NEW k \in Clients, DeliveryOK(k), stream[k] # "dropped",
           subs'[k] = subs[k], last'[k] = last[k], task'[k] = "none" <=> task[k] = "none",
           ~Failed(k), ~Failed(k)', client[k].filter # Nothing,
           client[k].head \in FirstPos .. MaxPos(client[k].commitment),
           client'[k].messages = client[k].messages \o Pushed(k, <<client[k].commitment, client[k].head>>),
           client'[k].head = client[k].head + 1, client'[k].filter = client[k].filter,
           client'[k].commitment = client[k].commitment
    PROVE  DeliveryOK(k)'
<1>0. last[k] \in Message /\ client[k].messages \in Seq(Message) /\ client'[k].messages \in Seq(Message)
      /\ Len(subs[k]) \in Nat /\ client[k].commitment \in Commitments /\ client[k].head \in Nat
  <2>1. client[k] \in ClientState /\ client'[k] \in ClientState /\ last[k] \in Message /\ subs[k] \in Seq(Sub)
    BY DEF Types
  <2>2. client[k].messages \in Seq(Message) /\ client'[k].messages \in Seq(Message)
    BY <2>1 DEF ClientState
  <2>3. client[k].commitment \in Commitments /\ client[k].head \in Nat
    BY <2>1 DEF ClientState
  <2> QED
    BY <2>1, <2>2, <2>3
<1>1. PICK s : s = Outgoing(k)
  OBVIOUS
<1>2. PICK t : t = Outgoing(k)'
  OBVIOUS
<1>3. s = <<last[k]>> \o client[k].messages /\ t = <<last[k]>> \o client'[k].messages
  BY <1>1, <1>2 DEF Outgoing
<1>4. s \in Seq(Message) /\ t \in Seq(Message)
  BY <1>0, <1>3, OutgoingIs
<1>5. Gapless(k, s) /\ (subs[k] # <<>> => HeadIsNext(k, s)) /\ FilterSet(k)
  BY <1>1 DEF DeliveryOK
<1>6. PICK now \in Nat \ {0} : now = Len(subs[k]) /\ subs[k] # <<>>
  <2>1. subs[k] # <<>> /\ subs[k] \in Seq(Sub)
    BY <1>5 DEF FilterSet, Types
  <2> QED
    BY <2>1
<1>7. client[k].filter = subs[k][now].filter /\ client[k].commitment = subs[k][now].commitment
  BY <1>5, <1>6 DEF FilterSet
<1>8. PICK pos \in Nat : pos = client[k].head
  BY <1>0
<1>9. PICK c \in Commitments : c = client[k].commitment
  BY <1>0
<1>10. MaxPos(c) \in Nat /\ pos \in FirstPos .. MaxPos(c) /\ pos <= MaxPos(c)
  BY <1>8, <1>9, GrpcAssumption, SMTT(30) DEF MaxPos
<1>11. PICK ms : ms = Pushed(k, <<c, pos>>)
  OBVIOUS
<1>12. PICK u \in Nat : u = Updates(client[k].filter, pos)
  BY <1>10, PushedType
<1>13. /\ ms \in Seq(Message) /\ Len(ms) = u
       /\ \A i \in 1 .. u : ms[i] = [sub |-> now, commitment |-> c, pos |-> pos, item |-> i]
  BY <1>6, <1>10, <1>11, <1>12, PushedType
<1>14. client'[k].messages = client[k].messages \o ms
  BY <1>8, <1>9, <1>11
<1>15. /\ Len(t) = Len(s) + u /\ \A i \in 1 .. Len(s) : t[i] = s[i]
       /\ \A i \in 1 .. u : t[Len(s) + i] = ms[i]
  <2> DEFINE M == client[k].messages
             N == client'[k].messages
  <2>2. M \in Seq(Message) /\ N = M \o ms
    BY <1>0, <1>14
  <2> HIDE DEF M, N
  <2>3. /\ Len(M) \in Nat /\ Len(N) = Len(M) + u /\ \A i \in 1 .. Len(M) : N[i] = M[i]
        /\ \A i \in 1 .. u : N[Len(M) + i] = ms[i]
    BY <1>13, <2>2, ConcatIs
  <2>4. /\ Len(s) = Len(M) + 1 /\ s[1] = last[k] /\ \A i \in 1 .. Len(M) : s[i + 1] = M[i]
        /\ Len(t) = Len(N) + 1 /\ t[1] = last[k] /\ \A i \in 1 .. Len(N) : t[i + 1] = N[i]
    BY <1>0, <1>3, OutgoingIs, SMTT(30) DEF M, N
  <2>5. Len(t) = Len(s) + u
    BY <2>3, <2>4
  <2>6. ASSUME NEW i \in 1 .. Len(s) PROVE t[i] = s[i]
    <3>1. CASE i = 1
      BY <2>4, <3>1
    <3>2. CASE i # 1
      <4>1. i - 1 \in 1 .. Len(M) /\ i = (i - 1) + 1 /\ i - 1 \in 1 .. Len(N)
        BY <2>3, <2>4, <3>2
      <4> QED
        BY <4>1, <2>3, <2>4, ZenonT(30)
    <3> QED
      BY <3>1, <3>2
  <2>7. ASSUME NEW i \in 1 .. u PROVE t[Len(s) + i] = ms[i]
    <3>0. Len(M) \in Nat /\ Len(N) = Len(M) + u /\ Len(s) = Len(M) + 1 /\ i \in Nat /\ 1 <= i /\ i <= u
      BY <2>3, <2>4
    <3>1. Len(M) + i \in 1 .. Len(N) /\ Len(s) + i = (Len(M) + i) + 1
      BY ONLY <3>0
    <3> QED
      BY <3>1, <2>3, <2>4
  <2> QED
    BY <2>5, <2>6, <2>7
<1>16. Gapless(k, t) /\ NextIs(k, now, pos + 1, t)
  <2>1. /\ subs[k][now].commitment = c /\ u = Updates(subs[k][now].filter, pos)
        /\ client[k].head = pos /\ HeadIsNext(k, s)
    BY <1>5, <1>6, <1>7, <1>8, <1>9, <1>12
  <2>2. \A i \in 1 .. u :
           t[Len(s) + i] = [sub |-> now, commitment |-> subs[k][now].commitment, pos |-> pos, item |-> i]
    BY <1>13, <1>15, <2>1
  <2>3. /\ subs[k][now].commitment \in Commitments /\ MaxPos(subs[k][now].commitment) \in Nat
        /\ pos <= MaxPos(subs[k][now].commitment)
    BY <1>10, <2>1
  <2>4. PushedAt(k, now, pos, u, s, t)
    BY <1>4, <1>5, <1>6, <1>15, <2>1, <2>2, <2>3 DEF PushedAt
  <2> QED
    BY <2>4, GaplessPush
<1>17. Len(t) \in Nat
  BY <1>4
<1>18. Gapless(k, t)'
  <2>1. Gapless(k, t)
    BY <1>16
  <2>2. /\ Len(subs[k]) \in Nat /\ Len(subs'[k]) \in Nat /\ Len(subs[k]) <= Len(subs'[k])
        /\ \A n \in 1 .. Len(subs[k]) : subs'[k][n] = subs[k][n]
    BY <1>0
  <2> QED
    BY ONLY <2>1, <2>2, <1>17, GaplessKept
<1>19. HeadIsNext(k, t)'
  <2>1. \A n, q : FirstFrom(k, n, q)' = FirstFrom(k, n, q)
    BY FirstFromKept
  <2>2. \A m : Successor(k, m)' = Successor(k, m)
    BY <2>1 DEF Successor
  <2>3. client'[k].head = pos + 1 /\ Len(subs'[k]) = now
    BY <1>6, <1>8
  <2> QED
    BY <1>16, <2>1, <2>2, <2>3 DEF HeadIsNext, NextIs
<1>20. FilterSet(k)'
  BY <1>5 DEF FilterSet
<1> QED
  BY <1>2, <1>18, <1>19, <1>20, DeliveryFrom DEF DeliveryOK

\* What is left of s once a message is yielded: the last updates of each filter, and
\* nothing that was not outgoing.
Shifted(s, t) ==
    /\ \A i \in 1 .. Len(s) : Final(s, i) => \E j \in 1 .. Len(t) : Final(t, j) /\ t[j] = s[i]
    /\ \A i \in 1 .. Len(t) : \E j \in 1 .. Len(s) : t[i] = s[j]

\* The stream yields a message.
LEMMA DeliveryShift ==
    ASSUME Types, Types', NEW k \in Clients, DeliveryOK(k), stream[k] # "dropped",
           NEW s, s = Outgoing(k), NEW t \in Seq(Message), t = Outgoing(k)',
           subs'[k] = subs[k], task'[k] # "none", ~Failed(k), ~Failed(k)',
           Gapless(k, t), Shifted(s, t),
           client'[k].head = client[k].head, client'[k].filter = client[k].filter,
           client'[k].commitment = client[k].commitment
    PROVE  DeliveryOK(k)'
<1>1. Gapless(k, s) /\ (subs[k] # <<>> => HeadIsNext(k, s)) /\ FilterSet(k)
  BY DEF DeliveryOK
<1>2. HeadIsNext(k, s) => HeadIsNext(k, t)
  BY DEF HeadIsNext, Shifted
<1>3. Len(t) \in Nat /\ Len(subs[k]) \in Nat
  BY DEF Types
<1>4. Gapless(k, t)'
  BY <1>3, GaplessKept
<1>5. subs[k] # <<>> => HeadIsNext(k, t)'
  BY <1>1, <1>2, <1>3, HeadIsNextKept
<1>6. FilterSet(k)'
  BY <1>1 DEF FilterSet
<1> QED
  BY <1>4, <1>5, <1>6, DeliveryFrom

\* Yielding the oldest update keeps the delivery of its client.
LEMMA DeliveryPoll ==
    ASSUME ClientsInv, Types', NEW k \in Clients, DeliveryOK(k), poll_next(k)
    PROVE  DeliveryOK(k)'
<1>0. /\ Types /\ client[k] \in ClientState /\ last[k] \in Message /\ client[k].messages \in Seq(Message)
      /\ stream[k] = "poll" /\ subs' = subs /\ task' = task /\ task[k] # "none"
  BY DEF ClientsInv, Types, ClientState, poll_next, Holding, Unborn
<1>1. CASE client[k].error
  <2>1. stream'[k] = "finished" /\ last' = last
    BY <1>0, <1>1 DEF poll_next, pop_message, Types
  <2> QED
    BY <1>0, <2>1, DeliveryFailed DEF Failed
<1>2. CASE ~client[k].error /\ client[k].messages = <<>>
  <2>1. /\ client' = [client EXCEPT ![k] = [client[k] EXCEPT !.waker = TRUE]]
        /\ stream' = [stream EXCEPT ![k] = "parked"] /\ last' = last
    BY <1>2 DEF poll_next, pop_message
  <2>2. client'[k] = [client[k] EXCEPT !.waker = TRUE] /\ stream'[k] = "parked"
    BY <1>0, <2>1 DEF Types
  <2>3. /\ client'[k].messages = client[k].messages /\ client'[k].error = client[k].error
        /\ client'[k].head = client[k].head /\ client'[k].filter = client[k].filter
        /\ client'[k].commitment = client[k].commitment
    BY <1>0, <2>2 DEF ClientState
  <2>4. Failed(k)' <=> Failed(k)
    BY <1>0, <2>2, <2>3 DEF Failed
  <2> QED
    BY <1>0, <2>1, <2>2, <2>3, <2>4, DeliverySame
<1>3. CASE ~client[k].error /\ client[k].messages # <<>>
  <2>1. /\ client' = [client EXCEPT ![k] = [client[k] EXCEPT !.messages = Tail(@)]]
        /\ last' = [last EXCEPT ![k] = IF Head(client[k].messages) = Ping THEN @
                                       ELSE Head(client[k].messages)]
        /\ stream' = stream
    BY <1>3 DEF poll_next, pop_message
  <2>2. client'[k] = [client[k] EXCEPT !.messages = Tail(@)]
        /\ last'[k] = IF Head(client[k].messages) = Ping THEN last[k] ELSE Head(client[k].messages)
    BY <1>0, <2>1 DEF Types
  <2>3. /\ client'[k].messages = Tail(client[k].messages) /\ client'[k].error = client[k].error
        /\ client'[k].head = client[k].head /\ client'[k].filter = client[k].filter
        /\ client'[k].commitment = client[k].commitment
    BY <1>0, <2>2 DEF ClientState
  <2>4. ~Failed(k)' /\ ~Failed(k)
    BY <1>0, <1>3, <2>1, <2>3 DEF Failed
  <2>5. PICK s : s = Outgoing(k)
    OBVIOUS
  <2>6. PICK t : t = Outgoing(k)'
    OBVIOUS
  <2> DEFINE M == client[k].messages
             N == client'[k].messages
  <2>7. s = <<last[k]>> \o M /\ t = <<last'[k]>> \o N
    BY <2>4, <2>5, <2>6 DEF Outgoing
  <2>8. /\ Len(M) \in Nat /\ Len(M) >= 1 /\ N \in Seq(Message) /\ Len(N) = Len(M) - 1
        /\ Head(M) = M[1] /\ \A i \in 1 .. Len(N) : N[i] = M[i + 1]
    BY <1>0, <1>3, <2>3
  <2>9. last'[k] \in Message
    BY DEF Types
  <2>10. /\ Len(s) = Len(M) + 1 /\ s[1] = last[k] /\ \A i \in 1 .. Len(M) : s[i + 1] = M[i]
         /\ Len(t) = Len(N) + 1 /\ t[1] = last'[k] /\ \A i \in 1 .. Len(N) : t[i + 1] = N[i]
         /\ s \in Seq(Message) /\ t \in Seq(Message)
    BY <1>0, <2>7, <2>8, <2>9, OutgoingIs, SMTT(30)
  <2>11. last'[k] = IF M[1] = Ping THEN last[k] ELSE M[1]
    BY <2>2, <2>8
  <2>12. Gapless(k, s)
    BY <1>0, <2>5 DEF DeliveryOK
  <2> HIDE DEF M, N
  <2>13. Len(s) >= 2 /\ s[2] = M[1] /\ Len(t) = Len(s) - 1
    <3>1. 1 \in 1 .. Len(M)
      BY <2>8
    <3> QED
      BY <2>8, <2>10, <3>1
  <2>14. ASSUME NEW i \in 2 .. Len(t) PROVE t[i] = s[i + 1]
    <3>1. i - 1 \in 1 .. Len(N) /\ i = (i - 1) + 1 /\ i \in 1 .. Len(M)
      BY <2>8, <2>10
    <3>2. t[i] = N[i - 1] /\ N[i - 1] = M[i] /\ s[i + 1] = M[i]
      BY <2>8, <2>10, <3>1
    <3> QED
      BY <3>2
  <2>15. /\ Gapless(k, t)
         /\ \A i \in 1 .. Len(s) : Final(s, i) => \E j \in 1 .. Len(t) : Final(t, j) /\ t[j] = s[i]
         /\ \A i \in 1 .. Len(t) : \E j \in 1 .. Len(s) : t[i] = s[j]
    <3>1. CASE M[1] = Ping
      <4>1. t[1] = s[1] /\ s[2] = Ping
        BY <3>1, <2>10, <2>11, <2>13
      <4>2. \A i \in 2 .. Len(t) : t[i] = s[i + 1]
        BY <2>14
      <4>3. s \in Seq(Message) /\ t \in Seq(Message) /\ Len(s) >= 2 /\ Len(t) = Len(s) - 1
        BY <2>10, <2>13
      <4> QED
        BY ONLY <4>1, <4>2, <4>3, <2>12, GaplessSkip, SMTT(30)
    <3>2. CASE M[1] # Ping
      <4>1. \A i \in 1 .. Len(t) : t[i] = s[i + 1]
        BY <3>2, <2>8, <2>10, <2>11, <2>13, <2>14
      <4>2. /\ Gapless(k, t)
            /\ \A i \in 1 .. Len(s) :
                  Final(s, i) => i - 1 \in 1 .. Len(t) /\ Final(t, i - 1) /\ t[i - 1] = s[i]
            /\ \A i \in 1 .. Len(t) : i + 1 \in 1 .. Len(s) /\ t[i] = s[i + 1]
        BY <3>2, <4>1, <2>10, <2>12, <2>13, GaplessTail
      <4> QED
        BY <4>2
    <3> QED
      BY <3>1, <3>2
  <2> QED
    <3>1. Gapless(k, t) /\ Shifted(s, t)
      BY ONLY <2>15 DEF Shifted
    <3>2. Types /\ Types' /\ stream[k] # "dropped" /\ subs'[k] = subs[k] /\ task'[k] # "none"
      BY <1>0
    <3>3. t \in Seq(Message)
      BY <2>10
    <3> QED
      BY ONLY <2>3, <2>4, <2>5, <2>6, <3>1, <3>2, <3>3, k \in Clients, DeliveryOK(k), DeliveryShift
<1> QED
  BY <1>1, <1>2, <1>3

\* A filter is set: its updates come after what is outgoing.
LEMMA DeliverySub ==
    ASSUME Types, Types', NEW k \in Clients, DeliveryOK(k),
           NEW e \in Sub, subs'[k] = Append(subs[k], e), last'[k] = last[k],
           stream'[k] = "dropped" <=> stream[k] = "dropped", Failed(k)' <=> Failed(k), task'[k] # "none",
           client'[k].messages = client[k].messages, client'[k].head = e.start,
           client'[k].filter = e.filter, client'[k].commitment = e.commitment
    PROVE  DeliveryOK(k)'
<1>1. CASE stream[k] = "dropped"
  BY <1>1 DEF DeliveryOK
<1>2. CASE stream[k] # "dropped" /\ Failed(k)
  BY <1>2, DeliveryFailed
<1>3. CASE stream[k] # "dropped" /\ ~Failed(k)
  <2>1. PICK t : t = Outgoing(k)
    OBVIOUS
  <2>2. t = Outgoing(k)'
    BY <1>3, <2>1 DEF Outgoing
  <2>3. Gapless(k, t)
    BY <1>3, <2>1 DEF DeliveryOK
  <2>4. Len(t) \in Nat
    BY <1>3, <2>1, OutgoingIs DEF Outgoing, Types, ClientState
  <2>5. PICK now \in Nat : now = Len(subs[k])
    BY DEF Types
  <2>6. /\ Len(subs'[k]) = now + 1 /\ subs'[k][now + 1] = e /\ subs'[k] # <<>>
        /\ \A n \in 1 .. now : subs'[k][n] = subs[k][n]
    <3>1. subs[k] \in Seq(Sub)
      BY DEF Types
    <3> QED
      BY <3>1, <2>5, AppendIs
  <2>7. Gapless(k, t)'
    BY <2>3, <2>4, <2>5, <2>6, GaplessKept
  <2>8. \A i \in 1 .. Len(t) : t[i] # Ping => t[i].sub # now + 1
    BY <2>3, <2>5 DEF Gapless
  <2>9. HeadIsNext(k, t)'
    BY <2>6, <2>8 DEF HeadIsNext
  <2>10. FilterSet(k)'
    BY <2>6 DEF FilterSet
  <2> QED
    BY <2>2, <2>7, <2>9, <2>10, DeliveryFrom
<1> QED
  BY <1>1, <1>2, <1>3

\* A step that touches one client keeps the delivery of the others.
LEMMA DeliveryFrame ==
    ASSUME Types, Types', DeliveryInv, NEW k \in Clients, DeliveryOK(k)',
           \A j \in Clients : j # k => /\ client'[j] = client[j] /\ stream'[j] = stream[j]
                                      /\ task'[j] = task[j] /\ subs'[j] = subs[j] /\ last'[j] = last[j]
    PROVE  DeliveryInv'
<1> SUFFICES ASSUME NEW j \in Clients, j # k PROVE DeliveryOK(j)'
  BY DEF DeliveryInv
<1>1. DeliveryOK(j)
  BY DEF DeliveryInv
<1>2. Failed(j)' <=> Failed(j)
  BY DEF Failed
<1> QED
  BY <1>1, <1>2, DeliverySame

\* A change of the state of a client by its task or by a worker.
LEMMA DeliveryState ==
    ASSUME Types, Types', DeliveryInv, NEW k \in Clients, NEW st \in ClientState, SetState(k, st),
           UNCHANGED <<subs, last>>,
           task' = task \/ (task[k] # "none" /\ \E s \in {"break", "ended"} : task' = [task EXCEPT ![k] = s]),
           client[k].error => st.error,
           ~st.error =>
              /\ st.filter = client[k].filter /\ st.commitment = client[k].commitment
              /\ \/ st.head = client[k].head /\ st.messages = client[k].messages
                 \/ st.head = client[k].head /\ st.messages = client[k].messages \o <<Ping>>
                 \/ /\ client[k].filter # Nothing
                    /\ client[k].head \in FirstPos .. MaxPos(client[k].commitment)
                    /\ st.head = client[k].head + 1
                    /\ st.messages = client[k].messages
                                        \o Pushed(k, <<client[k].commitment, client[k].head>>)
    PROVE  DeliveryInv'
<1>1. /\ client'[k] = st
      /\ \A j \in Clients : j # k => client'[j] = client[j] /\ stream'[j] = stream[j]
      /\ stream'[k] = "dropped" <=> stream[k] = "dropped"
      /\ stream'[k] = "finished" <=> stream[k] = "finished"
  BY SetStateFacts
<1>2. /\ \A j \in Clients : j # k => task'[j] = task[j]
      /\ task'[k] = "none" <=> task[k] = "none"
  BY DEF Types
<1>3. DeliveryOK(k)
  BY DEF DeliveryInv
<1>4. DeliveryOK(k)'
  <2>1. CASE stream[k] = "dropped"
    BY <1>1, <1>2, <1>3, <2>1 DEF DeliveryOK
  <2>2. CASE stream[k] # "dropped" /\ Failed(k)'
    <3>1. task'[k] = "none" => subs'[k] = <<>> /\ last'[k] = Nothing
      BY <1>2, <1>3 DEF DeliveryOK
    <3> QED
      BY <1>3, <2>2, <3>1, DeliveryFailed
  <2>3. CASE stream[k] # "dropped" /\ ~Failed(k)'
    <3>1. ~st.error /\ ~Failed(k)
      BY <1>1, <2>3 DEF Failed
    <3>2. client'[k].filter = client[k].filter /\ client'[k].commitment = client[k].commitment
      BY <1>1, <3>1
    <3>3. CASE st.head = client[k].head /\ st.messages = client[k].messages
      BY <1>1, <1>2, <1>3, <2>3, <3>1, <3>2, <3>3, DeliverySame
    <3>4. CASE st.head = client[k].head /\ st.messages = client[k].messages \o <<Ping>>
      BY <1>1, <1>2, <1>3, <2>3, <3>1, <3>2, <3>4, DeliveryPing
    <3>5. CASE /\ client[k].filter # Nothing
               /\ client[k].head \in FirstPos .. MaxPos(client[k].commitment)
               /\ st.head = client[k].head + 1
               /\ st.messages = client[k].messages
                                    \o Pushed(k, <<client[k].commitment, client[k].head>>)
      BY <1>1, <1>2, <1>3, <2>3, <3>1, <3>2, <3>5, DeliveryPush
    <3> QED
      BY <3>1, <3>3, <3>4, <3>5
  <2> QED
    BY <2>1, <2>2, <2>3
<1> QED
  BY <1>1, <1>2, <1>4, DeliveryFrame

\* The steps of a request task keep every delivery.
LEMMA DeliveryTask ==
    ASSUME ClientsInv, Types', DeliveryInv, NEW k \in Clients, Task(k)
    PROVE  DeliveryInv'
<1>0. client[k] \in ClientState /\ Types
  BY DEF ClientsInv, Types
<1>1. CASE RequestPing(k)
  <2> DEFINE st == push_message([client[k] EXCEPT !.pings = @ + 1], <<Ping>>)
  <2>1. /\ st \in ClientState /\ st.error = client[k].error /\ st.filter = client[k].filter
        /\ st.messages = client[k].messages \o <<Ping>>
        /\ st.head = client[k].head /\ st.commitment = client[k].commitment
    BY <1>0, PingFields
  <2>2. SetState(k, st) /\ UNCHANGED <<task, subs, last>>
    BY <1>1 DEF RequestPing
  <2> HIDE DEF st
  <2> QED
    BY <1>0, <2>1, <2>2, DeliveryState
<1>2. CASE RequestRefused(k) \/ TaskStops(k)
  <2>1. push_error(client[k]) \in ClientState /\ push_error(client[k]).error
    BY <1>0, ErrorState, ErrorFields
  <2>2. /\ SetState(k, push_error(client[k])) /\ UNCHANGED <<subs, last>>
        /\ task[k] = "select" /\ task' = [task EXCEPT ![k] = "break"]
    BY <1>2 DEF RequestRefused, TaskStops
  <2> QED
    BY <1>0, <2>1, <2>2, DeliveryState
<1>3. CASE RequestsEnd(k)
  <2>1. /\ UNCHANGED <<client, stream, subs, last>> /\ task[k] = "select"
        /\ task' = [task EXCEPT ![k] = "break"]
    BY <1>3 DEF RequestsEnd
  <2>2. SetState(k, client[k])
    BY <1>0, <2>1 DEF SetState, Woken, Types
  <2> QED
    BY <1>0, <2>1, <2>2, DeliveryState
<1>4. CASE TaskEnds(k)
  <2> DEFINE st == Drop(client[k])
  <2>1. /\ st \in ClientState /\ st.error = client[k].error
        /\ st.filter = client[k].filter /\ st.messages = client[k].messages
        /\ st.head = client[k].head /\ st.commitment = client[k].commitment
    BY <1>0, ErrorState, DropFields
  <2>2. /\ SetState(k, st) /\ UNCHANGED <<subs, last>>
        /\ task[k] = "break" /\ task' = [task EXCEPT ![k] = "ended"]
    BY <1>4 DEF TaskEnds
  <2> HIDE DEF st
  <2> QED
    BY <1>0, <2>1, <2>2, DeliveryState
<1>5. ASSUME NEW r \in Requests[k], RequestFilter(k, r) PROVE DeliveryInv'
  <2> DEFINE old == [client[k] EXCEPT !.commitment = r.commitment]
             Sub1(pos) == [filter |-> r.filter, commitment |-> r.commitment, start |-> pos]
  <2>1. r.commitment \in Commitments /\ r.replay \in BOOLEAN /\ r.filter # Nothing
    BY GrpcAssumption
  <2>2. r.filter \in FilterValues
    BY DEF FilterValues
  <2>3. PICK pos \in get_current_tail(r.commitment, r.replay) :
          \/ /\ pos = Nothing
             /\ SetState(k, push_error(old))
             /\ task' = [task EXCEPT ![k] = "break"]
             /\ subs' = subs
          \/ /\ pos # Nothing
             /\ SetState(k, [old EXCEPT !.head = pos, !.filter = r.filter])
             /\ subs' = [subs EXCEPT ![k] = Append(@, Sub1(pos))]
             /\ UNCHANGED task
    BY <1>5 DEF RequestFilter
  <2>4. old \in ClientState /\ old.error = client[k].error /\ old.messages = client[k].messages
    BY <1>0, <2>1 DEF ClientState
  <2>5. pos # Nothing => pos \in Nat
    BY <1>0, <2>1, CurrentTail
  <2>6. last' = last /\ task[k] = "select"
    BY <1>5 DEF RequestFilter
  <2>7. CASE pos = Nothing
    <3> HIDE DEF old
    <3>1. push_error(old) \in ClientState /\ push_error(old).error
      BY <2>4, ErrorState, ErrorFields
    <3>2. SetState(k, push_error(old)) /\ subs' = subs /\ task' = [task EXCEPT ![k] = "break"]
      BY <2>3, <2>7
    <3> QED
      BY <1>0, <2>6, <3>1, <3>2, DeliveryState
  <2>8. CASE pos # Nothing
    <3> DEFINE st == [old EXCEPT !.head = pos, !.filter = r.filter]
    <3>1. /\ st \in ClientState /\ st.head = pos /\ st.filter = r.filter /\ st.error = client[k].error
          /\ st.messages = client[k].messages /\ st.commitment = r.commitment
      BY <1>0, <2>1, <2>2, <2>4, <2>5, <2>8 DEF ClientState
    <3>2. PICK e \in Sub : e = Sub1(pos)
      BY <2>1, <2>2, <2>5, <2>8 DEF Sub
    <3>3. e.filter = r.filter /\ e.commitment = r.commitment /\ e.start = pos
      BY <3>2
    <3>4. SetState(k, st) /\ subs' = [subs EXCEPT ![k] = Append(@, e)] /\ task' = task
      BY <2>3, <2>8, <3>2
    <3> HIDE DEF st, old, Sub1
    <3>5. /\ client'[k] = st
          /\ \A j \in Clients : j # k => client'[j] = client[j] /\ stream'[j] = stream[j]
          /\ stream'[k] = "dropped" <=> stream[k] = "dropped"
          /\ stream'[k] = "finished" <=> stream[k] = "finished"
      BY <1>0, <3>1, <3>4, SetStateFacts
    <3>6. subs'[k] = Append(subs[k], e) /\ \A j \in Clients : j # k => subs'[j] = subs[j]
      BY <1>0, <3>4 DEF Types
    <3>7. Failed(k)' <=> Failed(k)
      BY <3>1, <3>5 DEF Failed
    <3>8. DeliveryOK(k)
      BY DEF DeliveryInv
    <3>9. /\ client'[k].messages = client[k].messages /\ client'[k].head = e.start
          /\ client'[k].filter = e.filter /\ client'[k].commitment = e.commitment
      BY <3>1, <3>3, <3>5
    <3>10. DeliveryOK(k)'
      BY <1>0, <2>6, <3>4, <3>5, <3>6, <3>7, <3>8, <3>9, DeliverySub
    <3> QED
      BY <1>0, <2>6, <3>4, <3>5, <3>6, <3>10, DeliveryFrame
  <2> QED
    BY <2>7, <2>8
<1> QED
  BY <1>1, <1>2, <1>3, <1>4, <1>5 DEF Task

\* The steps of a stream keep every delivery.
LEMMA DeliveryStream ==
    ASSUME ClientsInv, Types', DeliveryInv,
           NEW k \in Clients, subscribe(k) \/ poll_next(k) \/ DropStream(k)
    PROVE  DeliveryInv'
<1>0. client[k] \in ClientState /\ Types /\ DeliveryOK(k)
  BY DEF ClientsInv, Types, DeliveryInv
<1>1. CASE subscribe(k)
  <2>1. /\ client' = [client EXCEPT ![k] = [NewState EXCEPT !.ref_count = 3]]
        /\ task[k] = "none" /\ task' = [task EXCEPT ![k] = "select"]
        /\ stream' = [stream EXCEPT ![k] = "poll"] /\ UNCHANGED <<subs, last>>
    BY <1>1 DEF subscribe
  <2>2. /\ client'[k] = [NewState EXCEPT !.ref_count = 3] /\ task'[k] = "select" /\ stream'[k] = "poll"
        /\ \A j \in Clients : j # k => client'[j] = client[j] /\ stream'[j] = stream[j] /\ task'[j] = task[j]
    BY <1>0, <2>1 DEF Types
  <2>3. client'[k].messages = <<>> /\ client'[k].filter = Nothing /\ client'[k].error = FALSE
    BY <2>2, NewStateType DEF NewState, ClientState
  <2>4. subs'[k] = <<>> /\ last'[k] = Nothing
    BY <1>0, <2>1 DEF DeliveryOK
  <2>5. PICK t : t = Outgoing(k)'
    OBVIOUS
  <2>6. t = <<Ping>>
    <3>1. t = <<Ping>> \o <<>>
      BY <2>2, <2>3, <2>4, <2>5 DEF Outgoing, Failed, Ping
    <3> QED
      BY <3>1
  <2>7. Len(t) = 1 /\ t[1] = Ping
    BY <2>6
  <2>8. Gapless(k, t)'
    BY <2>7 DEF Gapless, Adjacent
  <2>9. FilterSet(k)'
    BY <2>3, <2>4 DEF FilterSet
  <2>10. DeliveryOK(k)'
    BY <2>2, <2>4, <2>5, <2>8, <2>9, DeliveryFrom
  <2> QED
    BY <1>0, <2>1, <2>2, <2>10, DeliveryFrame
<1>2. CASE poll_next(k)
  <2>1. DeliveryOK(k)'
    BY <1>0, <1>2, DeliveryPoll
  <2>2. \A j \in Clients : j # k => /\ client'[j] = client[j] /\ stream'[j] = stream[j]
                                    /\ task'[j] = task[j] /\ subs'[j] = subs[j] /\ last'[j] = last[j]
    BY <1>0, <1>2 DEF poll_next, pop_message, Types
  <2> QED
    BY <1>0, <2>1, <2>2, DeliveryFrame
<1>3. CASE DropStream(k)
  <2>1. /\ client' = [client EXCEPT ![k] = Drop(client[k])] /\ stream' = [stream EXCEPT ![k] = "dropped"]
        /\ last' = [last EXCEPT ![k] = Nothing] /\ UNCHANGED <<task, subs>>
    BY <1>3 DEF DropStream
  <2>2. /\ stream'[k] = "dropped" /\ last'[k] = Nothing
        /\ \A j \in Clients : j # k => /\ client'[j] = client[j] /\ stream'[j] = stream[j]
                                       /\ last'[j] = last[j]
    BY <1>0, <2>1 DEF Types
  <2>3. DeliveryOK(k)'
    BY <1>0, <2>1, <2>2 DEF DeliveryOK
  <2> QED
    BY <1>0, <2>1, <2>2, <2>3, DeliveryFrame
<1> QED
  BY <1>1, <1>2, <1>3

\* The steps of a worker keep every delivery.
LEMMA DeliveryWork ==
    ASSUME ClientsInv, Types', DeliveryInv, NEW w \in Workers, Work(w)
    PROVE  DeliveryInv'
<1>0. Types /\ Holding /\ TurnHasFilter /\ RingBounds /\ CacheSound
  BY DEF ClientsInv
<1>1. UNCHANGED <<task, subs, last>>
  BY DEF Work, pop_client, DropLast, StartTurn, TurnStep, push_client, DropErrored, WorkerStops
<1>2. CASE UNCHANGED <<client, stream>>
  <2> SUFFICES ASSUME NEW k \in Clients PROVE DeliveryOK(k)'
    BY DEF DeliveryInv
  <2>1. DeliveryOK(k) /\ (Failed(k)' <=> Failed(k))
    BY <1>2 DEF DeliveryInv, Failed
  <2> QED
    BY <1>0, <1>1, <1>2, <2>1, DeliverySame
<1>3. ASSUME NEW k \in Clients, SetState(k, Drop(client[k])) PROVE DeliveryInv'
  <2> DEFINE st == Drop(client[k])
  <2>0. client[k] \in ClientState
    BY <1>0 DEF Types
  <2>1. /\ st \in ClientState /\ st.error = client[k].error
        /\ st.filter = client[k].filter /\ st.messages = client[k].messages
        /\ st.head = client[k].head /\ st.commitment = client[k].commitment
    BY <2>0, ErrorState, DropFields
  <2>2. SetState(k, st)
    BY <1>3
  <2> HIDE DEF st
  <2> QED
    BY <1>0, <1>1, <2>1, <2>2, DeliveryState
<1>4. ASSUME NEW k \in Clients, k = worker[w].client, StartTurn(w) PROVE DeliveryInv'
  <2> DEFINE pinged == push_message([client[k] EXCEPT !.pings = @ + 1], <<Ping>>)
  <2>0. client[k] \in ClientState
    BY <1>0 DEF Types
  <2>1. SetState(k, client[k]) \/ SetState(k, pinged)
    BY <1>4 DEF StartTurn
  <2>2. /\ pinged \in ClientState /\ pinged.error = client[k].error /\ pinged.filter = client[k].filter
        /\ pinged.messages = client[k].messages \o <<Ping>>
        /\ pinged.head = client[k].head /\ pinged.commitment = client[k].commitment
    BY <2>0, PingFields
  <2> HIDE DEF pinged
  <2>3. CASE SetState(k, client[k])
    BY <1>0, <1>1, <2>0, <2>3, DeliveryState
  <2>4. CASE SetState(k, pinged)
    BY <1>0, <1>1, <2>2, <2>4, DeliveryState
  <2> QED
    BY <2>1, <2>3, <2>4
<1>5. ASSUME NEW k \in Clients, k = worker[w].client, TurnStep(w) PROVE DeliveryInv'
  <2> DEFINE old == client[k]
             c == old.commitment
             ms == Pushed(k, <<c, old.head>>)
             next == [old EXCEPT !.head = @ + 1]
             some == push_message(next, ms)
  <2>0. old \in ClientState
    BY <1>0 DEF Types
  <2>1. \/ UNCHANGED <<client, stream>>
        \/ SetState(k, push_error(old))
        \/ /\ SetState(k, some) /\ some \in ClientState /\ ms \in Seq(Message)
           /\ old.head \in FirstPos .. MaxPos(c)
    BY <1>0, <1>5, TurnState
  <2>2. CASE SetState(k, push_error(old))
    <3>1. push_error(old) \in ClientState /\ push_error(old).error
      BY <2>0, ErrorState, ErrorFields
    <3> QED
      BY <1>0, <1>1, <2>2, <3>1, DeliveryState
  <2>3. CASE /\ SetState(k, some) /\ some \in ClientState /\ ms \in Seq(Message)
             /\ old.head \in FirstPos .. MaxPos(c)
    <3>1. /\ next \in ClientState /\ next.error = old.error /\ next.filter = old.filter
          /\ next.messages = old.messages /\ next.head = old.head + 1 /\ next.commitment = c
      BY <2>0 DEF ClientState
    <3>2. old.filter # Nothing
      BY <1>0, <1>5 DEF TurnHasFilter, TurnStep
    <3> HIDE DEF next
    <3>3. /\ some.error = next.error /\ some.filter = next.filter
          /\ some.messages = next.messages \o ms /\ some.head = next.head
          /\ some.commitment = next.commitment
      BY <2>3, <3>1, MessageFields
    <3> HIDE DEF some
    <3>4. /\ some.error = client[k].error /\ some.filter = client[k].filter
          /\ some.commitment = client[k].commitment /\ some.head = client[k].head + 1
          /\ some.messages = client[k].messages \o Pushed(k, <<client[k].commitment, client[k].head>>)
          /\ client[k].filter # Nothing
          /\ client[k].head \in FirstPos .. MaxPos(client[k].commitment)
      BY <2>3, <3>1, <3>2, <3>3
    <3> QED
      BY <1>0, <1>1, <2>3, <3>4, DeliveryState
  <2> QED
    BY <1>2, <2>1, <2>2, <2>3
<1>6. worker[w].pc \in HoldingPcs => worker[w].client \in Clients
  BY <1>0, HeldClient
<1>7. queue # <<>> => Head(queue) \in Clients
  BY <1>0 DEF Types
<1>8. CASE pop_client(w) \/ push_client(w)
  BY <1>2, <1>8 DEF pop_client, push_client
<1>9. CASE DropLast(w) \/ DropErrored(w)
  BY <1>3, <1>6, <1>9 DEF DropLast, DropErrored, HoldingPcs
<1>10. CASE StartTurn(w)
  BY <1>4, <1>6, <1>10 DEF StartTurn, HoldingPcs
<1>11. CASE TurnStep(w)
  BY <1>5, <1>6, <1>11 DEF TurnStep, HoldingPcs
<1>12. CASE WorkerStops(w)
  BY <1>2, <1>3, <1>7, <1>12 DEF WorkerStops
<1> QED
  BY <1>8, <1>9, <1>10, <1>11, <1>12 DEF Work

\* Nothing is under way at first.
LEMMA DeliveryInit ==
    ASSUME Init
    PROVE  DeliveryInv
<1> SUFFICES ASSUME NEW k \in Clients PROVE DeliveryOK(k)
  BY DEF DeliveryInv
<1>1. client[k] = NewState /\ subs[k] = <<>> /\ last[k] = Ping /\ last[k] = Nothing
  BY DEF Init, Ping
<1>2. client[k].messages = <<>> /\ client[k].filter = Nothing
  BY <1>1 DEF NewState
<1>3. Outgoing(k) = <<Ping>>
  <2>1. Outgoing(k) = <<Ping>> \o <<>>
    BY <1>1, <1>2 DEF Outgoing
  <2> QED
    BY <2>1
<1>4. Len(Outgoing(k)) = 1 /\ Outgoing(k)[1] = Ping
  BY <1>3
<1>5. Gapless(k, Outgoing(k))
  BY <1>4 DEF Gapless, Adjacent
<1>6. FilterSet(k)
  BY <1>1, <1>2 DEF FilterSet
<1> QED
  BY <1>1, <1>5, <1>6 DEF DeliveryOK

\* Every step keeps every delivery.
LEMMA DeliveryStep ==
    ASSUME ClientsInv, Types', DeliveryInv, [Next]_vars
    PROVE  DeliveryInv'
<1>1. CASE UNCHANGED vars \/ (\E c \in Commitments : Push(c)) \/ Stop
  <2>1. UNCHANGED <<client, task, stream, subs, last>>
    BY <1>1 DEF vars, Push, Stop
  <2> SUFFICES ASSUME NEW k \in Clients PROVE DeliveryOK(k)'
    BY DEF DeliveryInv
  <2>2. DeliveryOK(k) /\ (Failed(k)' <=> Failed(k)) /\ Types
    BY <2>1 DEF DeliveryInv, Failed, ClientsInv
  <2> QED
    BY <2>1, <2>2, DeliverySame
<1>2. ASSUME NEW k \in Clients, subscribe(k) \/ Task(k) \/ poll_next(k) \/ DropStream(k)
      PROVE  DeliveryInv'
  BY <1>2, DeliveryTask, DeliveryStream
<1>3. ASSUME NEW w \in Workers, Work(w) PROVE DeliveryInv'
  BY <1>3, DeliveryWork
<1> QED
  BY <1>1, <1>2, <1>3 DEF Next

\* Per filter, the stream yields the updates of consecutive positions of the ring, from
\* where get_current_tail said, without a gap or a repetition (worker_messages, the caches
\* of the workers and pop_message), for any number of clients, workers, filters and turns.
THEOREM GaplessDeliveryTheorem == Spec => []GaplessDelivery
<1>1. Init => DeliveryInv
  BY DeliveryInit
<1>2. ClientsInv /\ ClientsInv' /\ DeliveryInv /\ [Next]_vars => DeliveryInv'
  BY DeliveryStep DEF ClientsInv
<1>3. DeliveryInv => GaplessDelivery
  BY DEF DeliveryInv, DeliveryOK, GaplessDelivery
<1> QED
  BY <1>1, <1>2, <1>3, ClientsInvariant, PTL DEF Spec

=============================================================================
