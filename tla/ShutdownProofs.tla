--------------------------- MODULE ShutdownProofs ---------------------------
(***************************************************************************)
(* Proofs about Shutdown for any finite set of handles: get_next_id never  *)
(* returns an id in use, so every live handle owns its entry of the map    *)
(* and shutdown() wakes every parked task.                                 *)
(***************************************************************************)
EXTENDS Shutdown, FiniteSetTheorems, WellFoundedInduction, TLAPS

\* A nonempty set of naturals has a least element.
LEMMA Least ==
    ASSUME NEW T \in SUBSET Nat, T # {}
    PROVE  \E x \in T : \A y \in T : x <= y
<1>1. PICK x \in T : \A y \in T : <<y, x>> \notin OpToRel(<, Nat)
    BY NatLessThanWellFounded, WFMin
<1>2. \A y \in T : ~ (y < x)
    BY <1>1 DEF OpToRel
<1>. QED
    BY <1>2

\* The keys below a key grow with it, so no two keys have the same rank.
LEMMA RankInjective ==
    ASSUME NEW ids \in SUBSET Nat, IsFiniteSet(ids),
           NEW k \in ids, NEW l \in ids,
           Cardinality({j \in ids : j < k}) = Cardinality({j \in ids : j < l})
    PROVE  k = l
<1>. DEFINE Below(x) == {j \in ids : j < x}
<1>1. ASSUME NEW x \in ids, NEW y \in ids, x < y
      PROVE  Cardinality(Below(x)) # Cardinality(Below(y))
    <2>1. IsFiniteSet(Below(y))
        BY FS_Subset
    <2>2. Below(x) \in SUBSET Below(y)
        <3>1. \A j \in ids : j \in Nat
            OBVIOUS
        <3>2. \A j \in ids : j < x => j < y
            BY <1>1, <3>1
        <3>. QED
            BY <3>2
    <2>3. x \in Below(y) /\ x \notin Below(x)
        BY <1>1
    <2>. QED
        BY <2>1, <2>2, <2>3, FS_Subset
<1>. QED
    BY <1>1

\* The interval of the first n numbers has n elements.
LEMMA FirstNumbers ==
    ASSUME NEW n \in Nat
    PROVE  IsFiniteSet(0 .. n - 1) /\ Cardinality(0 .. n - 1) = n
<1>1. IsFiniteSet(0 .. n - 1)
    BY FS_Interval
<1>2. Cardinality(0 .. n - 1) = n
    BY FS_Interval
<1>. QED
    BY <1>1, <1>2

\* If every number below i is a key, i of them are.
LEMMA InitialSegment ==
    ASSUME NEW ids \in SUBSET Nat, NEW i \in Nat, 0 .. i - 1 \subseteq ids
    PROVE  \A k \in Nat :
              i <= k /\ (\A j \in ids : j < k => j < i)
                 => Cardinality({j \in ids : j < k}) = i
<1>1. Cardinality(0 .. i - 1) = i
    BY FirstNumbers
<1>. SUFFICES ASSUME NEW k \in Nat, i <= k, \A j \in ids : j < k => j < i
              PROVE  Cardinality({j \in ids : j < k}) = i
    OBVIOUS
<1>2. {j \in ids : j < k} = 0 .. i - 1
    <2>1. ASSUME NEW j \in 0 .. i - 1 PROVE j \in ids /\ j < k
        OBVIOUS
    <2>2. ASSUME NEW j \in ids, j < k PROVE j \in 0 .. i - 1
        <3>1. j \in Nat /\ j < i
            BY <2>2
        <3>. QED
            BY <3>1
    <2>. QED
        BY <2>1, <2>2
<1>. QED
    BY <1>1, <1>2

\* Where no index mismatches, every index is a key.
LEMMA MatchedAreKeys ==
    ASSUME NEW ids \in SUBSET Nat, IsFiniteSet(ids),
           NEW n \in Nat, n <= Cardinality(ids),
           \A i \in 0 .. n - 1 : KeyOfRank(ids, i) = i
    PROVE  0 .. n - 1 \subseteq ids
<1>. DEFINE Missing == {i \in 0 .. n - 1 : i \notin ids}
<1>. SUFFICES ASSUME Missing # {} PROVE FALSE
    OBVIOUS
<1>0. Cardinality(ids) \in Nat
    BY FS_CardinalityType
<1>1. PICK m \in Missing : \A y \in Missing : m <= y
    <2>1. Missing \in SUBSET Nat
        OBVIOUS
    <2>. QED
        BY <2>1, Least
<1>2. m \in Nat /\ m - 1 \in Int /\ m < n /\ m \notin ids
    OBVIOUS
<1>3. 0 .. m - 1 \subseteq ids
    BY <1>1, <1>2
<1>. HIDE DEF Missing
<1>4. ids \ (0 .. m - 1) # {}
    <2>1. SUFFICES ASSUME ids \subseteq 0 .. m - 1 PROVE FALSE
        OBVIOUS
    <2>2. IsFiniteSet(0 .. m - 1) /\ Cardinality(0 .. m - 1) = m
        BY <1>2, FirstNumbers
    <2>3. Cardinality(ids) <= m
        BY <2>1, <2>2, FS_Subset
    <2>. QED
        BY <2>3, <1>0, <1>2
<1>5. PICK k \in ids \ (0 .. m - 1) : \A y \in ids \ (0 .. m - 1) : k <= y
    <2>1. ids \ (0 .. m - 1) \in SUBSET Nat
        OBVIOUS
    <2>. QED
        BY <2>1, <1>4, Least
<1>6. k \in Nat /\ m <= k /\ \A j \in ids : j < k => j < m
    BY <1>2, <1>5
<1>7. Cardinality({j \in ids : j < k}) = m
    BY <1>2, <1>3, <1>6, InitialSegment
<1>8. KeyOfRank(ids, m) \in ids
    BY <1>7 DEF KeyOfRank
<1>. QED
    BY <1>8, <1>2

\* An id that State::get_next_id returns is not in use.
THEOREM FreshId ==
    ASSUME NEW ids \in SUBSET Nat, IsFiniteSet(ids)
    PROVE  get_next_id(ids) \in Nat \ ids
<1>. DEFINE n == get_next_id(ids)
<1>0. Cardinality(ids) \in Nat
    BY FS_CardinalityType
<1>1. CASE Mismatches(ids) = {}
    <2>1. n = Cardinality(ids)
        BY <1>1 DEF get_next_id
    <2>2. \A i \in 0 .. n - 1 : KeyOfRank(ids, i) = i
        BY <1>1, <2>1 DEF Mismatches
    <2>3. 0 .. n - 1 \subseteq ids
        BY <1>0, <2>1, <2>2, MatchedAreKeys
    <2>4. Cardinality(0 .. n - 1) = n
        BY <1>0, <2>1, FirstNumbers
    <2>5. ids = 0 .. n - 1
        BY <2>1, <2>3, <2>4, FS_Subset
    <2>. QED
        BY <1>0, <2>1, <2>5
<1>2. CASE Mismatches(ids) # {}
    <2>1. Mismatches(ids) \in SUBSET Nat
        BY <1>0 DEF Mismatches
    <2>2. n \in Mismatches(ids) /\ \A j \in Mismatches(ids) : n <= j
        BY <1>2, <2>1, Least DEF get_next_id
    <2>. HIDE DEF n
    <2>3. n \in Nat /\ n < Cardinality(ids) /\ KeyOfRank(ids, n) # n
        BY <1>0, <2>2 DEF Mismatches
    <2>4. \A i \in 0 .. n - 1 : KeyOfRank(ids, i) = i
        BY <1>0, <2>2, <2>3 DEF Mismatches
    <2>5. 0 .. n - 1 \subseteq ids
        BY <1>0, <2>3, <2>4, MatchedAreKeys
    <2>6. ASSUME n \in ids PROVE FALSE
        <3>1. Cardinality({j \in ids : j < n}) = n
            BY <2>3, <2>5, InitialSegment
        <3>2. KeyOfRank(ids, n) \in ids
              /\ Cardinality({j \in ids : j < KeyOfRank(ids, n)}) = n
            BY <2>6, <3>1 DEF KeyOfRank
        <3>. DEFINE k == KeyOfRank(ids, n)
        <3>. HIDE DEF k
        <3>3. ASSUME k \in ids, Cardinality({j \in ids : j < k}) = n PROVE k = n
            BY <2>6, <3>1, <3>3, RankInjective
        <3>4. KeyOfRank(ids, n) = n
            BY <3>2, <3>3 DEF k
        <3>. QED
            BY <2>3, <3>4
    <2>. QED
        BY <2>3, <2>6 DEF n
<1>. QED
    BY <1>1, <1>2

-----------------------------------------------------------------------------

\* The inductive invariant: the two properties lean on each other, since only
\* an id of its own keeps a stored waker from being replaced or removed.
ShutdownInv ==
    /\ TypeOK
    /\ IsFiniteSet(DOMAIN map)
    /\ IdsOwned
    /\ ParkedWillBeWoken

\* The first handle satisfies the invariant.
LEMMA InitInv == Init => ShutdownInv
<1>. SUFFICES ASSUME Init PROVE ShutdownInv
    OBVIOUS
<1>. USE HandlesAssumption
<1>0. get_next_id({}) \in Nat
    BY FS_EmptySet, FreshId
<1>. DEFINE i == get_next_id({})
<1>. HIDE DEF i
<1>1. /\ shutdown = FALSE
      /\ map = [k \in {i} |-> NoWaker]
      /\ id = [h \in Handles |-> IF h = First THEN i ELSE 0]
      /\ task = [h \in Handles |-> IF h = First THEN "run" ELSE "none"]
      /\ i \in Nat
    BY <1>0 DEF Init, i
<1>2. TypeOK
    BY <1>1 DEF TypeOK, Tasks
<1>3. IsFiniteSet(DOMAIN map)
    <2>1. DOMAIN map = {} \union {i}
        BY <1>1
    <2>. QED
        BY <2>1, FS_EmptySet, FS_AddElement
<1>4. Live = {First}
    BY <1>1 DEF Live
<1>5. IdsOwned
    BY <1>1, <1>4 DEF IdsOwned
<1>6. ParkedWillBeWoken
    BY <1>1 DEF ParkedWillBeWoken
<1>. QED
    BY <1>2, <1>3, <1>5, <1>6 DEF ShutdownInv

\* clone, drop, poll and shutdown keep the invariant.
LEMMA StepInv == ShutdownInv /\ [Next]_vars => ShutdownInv'
<1>. SUFFICES ASSUME ShutdownInv, [Next]_vars PROVE ShutdownInv'
    OBVIOUS
<1>0. /\ TypeOK /\ IdsOwned /\ ParkedWillBeWoken
      /\ IsFiniteSet(DOMAIN map)
    BY DEF ShutdownInv
<1>1. CASE Signal
    <2>1. TypeOK'
        BY <1>0, <1>1 DEF TypeOK, Signal, Tasks
    <2>2. DOMAIN map' = DOMAIN map /\ Live' = Live /\ id' = id
        BY <1>0, <1>1 DEF TypeOK, Signal, Tasks, Live
    <2>3. IdsOwned'
        BY <1>0, <2>2 DEF IdsOwned
    <2>4. \A h \in Handles : task'[h] # "parked"
        <3>. TAKE h \in Handles
        <3>1. CASE task[h] = "parked"
            <4>1. id[h] \in DOMAIN map /\ map[id[h]] = h
                BY <1>0, <3>1 DEF IdsOwned, ParkedWillBeWoken, Live
            <4>. QED
                BY <4>1, <1>1 DEF Signal
        <3>2. CASE task[h] # "parked"
            BY <1>1, <3>2 DEF Signal
        <3>. QED
            BY <3>1, <3>2
    <2>. QED
        BY <1>0, <2>1, <2>2, <2>3, <2>4 DEF ShutdownInv, ParkedWillBeWoken
<1>2. ASSUME NEW h \in Handles, Clone(h) PROVE ShutdownInv'
    <2>. DEFINE i == get_next_id(DOMAIN map)
    <2>1. i \in Nat \ DOMAIN map
        BY <1>0, FreshId DEF TypeOK
    <2>. HIDE DEF i
    <2>2. /\ task[h] = "none"
          /\ id' = [id EXCEPT ![h] = i]
          /\ map' = [k \in DOMAIN map \union {i} |-> IF k = i THEN NoWaker ELSE map[k]]
          /\ task' = [task EXCEPT ![h] = "run"]
          /\ shutdown' = shutdown
        BY <1>2 DEF Clone, Insert, i
    <2>3. TypeOK'
        BY <1>0, <2>1, <2>2 DEF TypeOK, Tasks
    <2>4. IsFiniteSet(DOMAIN map')
        BY <1>0, <2>2, FS_AddElement
    <2>5. Live' = Live \union {h} /\ h \notin Live
        BY <1>0, <2>2 DEF TypeOK, Live
    <2>6. IdsOwned'
        BY <1>0, <2>1, <2>2, <2>5 DEF IdsOwned, TypeOK, Live
    <2>7. ParkedWillBeWoken'
        BY <1>0, <2>1, <2>2 DEF ParkedWillBeWoken, IdsOwned, TypeOK, Live
    <2>. QED
        BY <2>3, <2>4, <2>6, <2>7 DEF ShutdownInv
<1>3. ASSUME NEW h \in Handles, Drop(h) PROVE ShutdownInv'
    <2>2. /\ h \in Live
          /\ map' = [k \in DOMAIN map \ {id[h]} |-> map[k]]
          /\ task' = [task EXCEPT ![h] = "none"]
          /\ id' = [id EXCEPT ![h] = 0]
          /\ shutdown' = shutdown
        BY <1>3 DEF Drop
    <2>3. TypeOK'
        BY <1>0, <2>2 DEF TypeOK, Tasks
    <2>4. IsFiniteSet(DOMAIN map')
        BY <1>0, <2>2, FS_RemoveElement
    <2>5. Live' = Live \ {h} /\ h \in Live
        BY <1>0, <2>2 DEF TypeOK, Live
    <2>6. IdsOwned'
        BY <1>0, <2>2, <2>5 DEF IdsOwned, TypeOK, Live
    <2>7. ParkedWillBeWoken'
        BY <1>0, <2>2 DEF ParkedWillBeWoken, IdsOwned, TypeOK, Live
    <2>. QED
        BY <2>3, <2>4, <2>6, <2>7 DEF ShutdownInv
<1>4. ASSUME NEW h \in Handles, Poll(h) PROVE ShutdownInv'
    <2>1. CASE shutdown
        <3>2. /\ task[h] = "run"
              /\ task' = [task EXCEPT ![h] = "done"]
              /\ UNCHANGED <<map, id, shutdown>>
            BY <1>4, <2>1 DEF Poll
        <3>3. TypeOK'
            BY <1>0, <3>2 DEF TypeOK, Tasks
        <3>4. Live' = Live
            BY <1>0, <3>2 DEF TypeOK, Live
        <3>5. IdsOwned'
            BY <1>0, <3>2, <3>4 DEF IdsOwned
        <3>6. ParkedWillBeWoken'
            BY <1>0, <3>2 DEF ParkedWillBeWoken, TypeOK
        <3>. QED
            BY <1>0, <3>2, <3>3, <3>5, <3>6 DEF ShutdownInv
    <2>2. CASE ~shutdown
        <3>2. /\ task[h] = "run"
              /\ map' = [k \in DOMAIN map \union {id[h]} |-> IF k = id[h] THEN h ELSE map[k]]
              /\ task' = [task EXCEPT ![h] = "parked"]
              /\ UNCHANGED <<id, shutdown>>
            BY <1>4, <2>2 DEF Poll, Insert
        <3>3. TypeOK'
            BY <1>0, <3>2 DEF TypeOK, Tasks
        <3>4. Live' = Live /\ h \in Live
            BY <1>0, <3>2 DEF TypeOK, Live
        <3>5. DOMAIN map' = DOMAIN map
            BY <1>0, <3>2, <3>4 DEF IdsOwned
        <3>6. IdsOwned'
            BY <1>0, <3>2, <3>4, <3>5 DEF IdsOwned
        <3>7. ParkedWillBeWoken'
            BY <1>0, <2>2, <3>2, <3>4 DEF ParkedWillBeWoken, IdsOwned, TypeOK, Live
        <3>. QED
            BY <1>0, <3>3, <3>5, <3>6, <3>7 DEF ShutdownInv
    <2>. QED
        BY <2>1, <2>2
<1>5. ASSUME NEW h \in Handles, Repoll(h) PROVE ShutdownInv'
    <2>2. /\ task[h] = "parked"
          /\ task' = [task EXCEPT ![h] = "run"]
          /\ UNCHANGED <<map, id, shutdown>>
        BY <1>5 DEF Repoll
    <2>3. TypeOK'
        BY <1>0, <2>2 DEF TypeOK, Tasks
    <2>4. Live' = Live
        BY <1>0, <2>2 DEF TypeOK, Live
    <2>5. IdsOwned'
        BY <1>0, <2>2, <2>4 DEF IdsOwned
    <2>6. ParkedWillBeWoken'
        BY <1>0, <2>2 DEF ParkedWillBeWoken, TypeOK
    <2>. QED
        BY <1>0, <2>2, <2>3, <2>5, <2>6 DEF ShutdownInv
<1>6. CASE UNCHANGED vars
    BY <1>0, <1>6 DEF vars, ShutdownInv, TypeOK, IdsOwned, ParkedWillBeWoken, Live
<1>. QED
    BY <1>1, <1>2, <1>3, <1>4, <1>5, <1>6 DEF Next

\* The inductive invariant holds in every behaviour of the shutdown signal.
THEOREM ShutdownInvariant == Spec => []ShutdownInv
BY InitInv, StepInv, PTL DEF Spec

\* Types of the shared state of the handles.
THEOREM ShutdownTypes == Spec => []TypeOK
<1>1. ShutdownInv => TypeOK
    BY DEF ShutdownInv
<1>. QED
    BY <1>1, ShutdownInvariant, PTL

\* Clones and drops in any order: no two handles share an entry of the map.
THEOREM IdsTheorem == Spec => []IdsOwned
<1>1. ShutdownInv => IdsOwned
    BY DEF ShutdownInv
<1>. QED
    BY <1>1, ShutdownInvariant, PTL

\* A task parked on its handle is woken by the next call of shutdown().
THEOREM ParkedTheorem == Spec => []ParkedWillBeWoken
<1>1. ShutdownInv => ParkedWillBeWoken
    BY DEF ShutdownInv
<1>. QED
    BY <1>1, ShutdownInvariant, PTL

=============================================================================
