------------------------------ MODULE Shutdown ------------------------------
(***************************************************************************)
(* The shutdown signal (shared/src/shutdown.rs): handles that share one    *)
(* State behind a Mutex.  A handle is a future; a task that polls it parks *)
(* with its waker stored under the handle's id, and shutdown() wakes every *)
(* stored waker.  Ids are recycled when handles are dropped.               *)
(***************************************************************************)
EXTENDS Integers, FiniteSets

CONSTANTS
    Handles,      \* handles that may exist, at most one task polling each
    First         \* the handle Shutdown::new returns

ASSUME HandlesAssumption == IsFiniteSet(Handles) /\ First \in Handles

VARIABLES
    shutdown,     \* State::shutdown
    map,          \* State::map: id -> handle whose waker is stored, or NoWaker
    id,           \* Shutdown::id of each handle
    task          \* what the task of each handle does

vars == <<shutdown, map, id, task>>

NoWaker == "no waker"

\* "none": the handle does not exist; "run": its task is about to poll it;
\* "parked": the poll returned Pending; "done": it returned Ready.
Tasks == {"none", "run", "parked", "done"}

Live == {h \in Handles : task[h] # "none"}

\* The key with i smaller keys: the one BTreeMap::keys yields at index i.
KeyOfRank(ids, i) == CHOOSE k \in ids : Cardinality({j \in ids : j < k}) = i

\* The indices at which the ordered keys are not their own index.
Mismatches(ids) == {i \in 0 .. Cardinality(ids) - 1 : KeyOfRank(ids, i) # i}

\* State::get_next_id
get_next_id(ids) ==
    IF Mismatches(ids) = {}
    THEN Cardinality(ids)
    ELSE CHOOSE i \in Mismatches(ids) : \A j \in Mismatches(ids) : i <= j

\* Shutdown::new
Init ==
    /\ shutdown = FALSE
    /\ map = [i \in {get_next_id({})} |-> NoWaker]
    /\ id = [h \in Handles |-> IF h = First THEN get_next_id({}) ELSE 0]
    /\ task = [h \in Handles |-> IF h = First THEN "run" ELSE "none"]

\* map.insert(i, w)
Insert(i, w) == [k \in DOMAIN map \union {i} |-> IF k = i THEN w ELSE map[k]]

\* Faulty variant: ids are counted instead of searched for.
CloneCounted(h) ==
    /\ Live # {}
    /\ task[h] = "none"
    /\ id' = [id EXCEPT ![h] = Cardinality(DOMAIN map)]
    /\ map' = Insert(Cardinality(DOMAIN map), NoWaker)
    /\ task' = [task EXCEPT ![h] = "run"]
    /\ UNCHANGED shutdown

\* Clone::clone of some live handle
Clone(h) ==
    /\ Live # {}
    /\ task[h] = "none"
    /\ LET i == get_next_id(DOMAIN map)
       IN /\ id' = [id EXCEPT ![h] = i]
          /\ map' = Insert(i, NoWaker)
    /\ task' = [task EXCEPT ![h] = "run"]
    /\ UNCHANGED shutdown

\* Drop::drop
Drop(h) ==
    /\ h \in Live
    /\ map' = [k \in DOMAIN map \ {id[h]} |-> map[k]]
    /\ task' = [task EXCEPT ![h] = "none"]
    /\ id' = [id EXCEPT ![h] = 0]
    /\ UNCHANGED shutdown

\* Faulty variant: the flag is looked at before the lock is taken, here by a
\* task that found it unset just before shutdown() ran.
PollStale(h) ==
    /\ task[h] = "run"
    /\ map' = Insert(id[h], h)
    /\ task' = [task EXCEPT ![h] = "parked"]
    /\ UNCHANGED <<shutdown, id>>

\* Future::poll
Poll(h) ==
    /\ task[h] = "run"
    /\ \/ /\ shutdown
          /\ task' = [task EXCEPT ![h] = "done"]
          /\ UNCHANGED map
       \/ /\ ~shutdown
          /\ map' = Insert(id[h], h)
          /\ task' = [task EXCEPT ![h] = "parked"]
    /\ UNCHANGED <<shutdown, id>>

\* The select the handle is part of runs again for another reason.
Repoll(h) ==
    /\ task[h] = "parked"
    /\ task' = [task EXCEPT ![h] = "run"]
    /\ UNCHANGED <<shutdown, map, id>>

\* Shutdown::shutdown through a live handle; it may be called again.
Signal ==
    /\ Live # {}
    /\ shutdown' = TRUE
    /\ task' = [h \in Handles |->
                   IF /\ task[h] = "parked"
                      /\ \E k \in DOMAIN map : map[k] = h
                   THEN "run" ELSE task[h]]
    /\ map' = [k \in DOMAIN map |-> NoWaker]
    /\ UNCHANGED id

Next ==
    \/ Signal
    \/ \E h \in Handles : Clone(h) \/ Drop(h) \/ Poll(h) \/ Repoll(h)

Spec == Init /\ [][Next]_vars

\* A task that runs gets to its poll.
FairSpec == Spec /\ \A h \in Handles : WF_vars(Poll(h))

-----------------------------------------------------------------------------

TypeOK ==
    /\ shutdown \in BOOLEAN
    /\ DOMAIN map \subseteq Nat
    /\ \A k \in DOMAIN map : map[k] \in Handles \union {NoWaker}
    /\ id \in [Handles -> Nat]
    /\ task \in [Handles -> Tasks]

\* Every live handle owns one entry of the map and nobody else's: recycling the
\* id of a dropped handle never makes two handles share a waker.
IdsOwned ==
    /\ DOMAIN map = {id[h] : h \in Live}
    /\ \A g, h \in Live : id[g] = id[h] => g = h

\* A parked task is parked because shutdown was not called, and its own waker
\* is stored under its own id: no call of shutdown() can miss it.
ParkedWillBeWoken ==
    \A h \in Handles : task[h] = "parked" => ~shutdown /\ map[id[h]] = h

\* After shutdown() every task that waits for it learns of it, or its handle is
\* dropped.
EveryoneLearns ==
    \A h \in Handles : shutdown /\ task[h] \in {"run", "parked"} ~> task[h] \in {"done", "none"}

=============================================================================
