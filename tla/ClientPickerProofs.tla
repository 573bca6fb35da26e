------------------------- MODULE ClientPickerProofs -------------------------
(* HashRing and ClientPicker.

   The ring matches its members, for every placement of the virtual nodes without
   collisions, and for callers that add a node only when it is not on the ring.
   The picker is such a caller: the ring, the clients and the connections stay in
   step, and it knows the registered nodes, for every number of nodes and events
   and whatever the balancer does meanwhile.                                  *)
EXTENDS ClientPicker, FiniteSetTheorems, TLAPS

-----------------------------------------------------------------------------
(* The ring: theorems about Spec, the ring with any callers.                  *)

\* Replicas are those a node joined with: no rebalancing gets to change them.
ReplicasInv == nodeReplicas \in [Nodes -> {0, DefaultReplicas}]

\* The balancer has nodes left to look at or to adjust only while it has the
\* lock, and nobody is inside a Get while it has it for writing.
TodoInv ==
    /\ Locked \/ balancer = "look" \/ todo = {}
    /\ Locked => adding = 0

TInv == TypeOK /\ ReplicasInv /\ TodoInv

IInv == TInv /\ RingMatchesNodes

Owners(h) == {n \in Nodes : h \in HashesOf(n, nodeReplicas[n])}

LEMMA ReplicasBounds ==
    /\ DefaultReplicas \in Nat \ {0}
    /\ DefaultReplicas \in MinReplicas .. MaxReplicas
BY RingAssumption

LEMMA NoHashes == \A n : HashesOf(n, 0) = {}
BY DEF HashesOf

\* A hash is the hash of a virtual node of one node.
LEMMA OneOwner ==
    ASSUME NEW m \in Nodes, NEW n \in Nodes,
           NEW r \in {0, DefaultReplicas}, NEW s \in {0, DefaultReplicas},
           NEW h, h \in HashesOf(m, r), h \in HashesOf(n, s)
    PROVE  m = n
<1>1. PICK i \in 0 .. r - 1 : h = HashOf[m][i]
  BY DEF HashesOf
<1>2. PICK j \in 0 .. s - 1 : h = HashOf[n][j]
  BY DEF HashesOf
<1>3. i \in 0 .. MaxReplicas - 1 /\ j \in 0 .. MaxReplicas - 1
  BY RingAssumption, ReplicasBounds
<1> QED
  BY <1>1, <1>2, <1>3, NoCollisions

LEMMA InitIInv == Init => IInv
<1> SUFFICES ASSUME Init PROVE IInv
  OBVIOUS
<1>1. TypeOK /\ ReplicasInv /\ TodoInv
  BY RingAssumption DEF Init, TypeOK, ReplicasInv, TodoInv, Nothing, Locked
<1>2. RingMatchesNodes
  <2> SUFFICES ASSUME NEW h \in Hashes
               PROVE  Owners(h) = {} /\ keys[h] = 0 /\ hashMap[h] = NoNode
    BY DEF RingMatchesNodes, Owners
  <2> QED
    BY NoHashes DEF Init, Owners
<1> QED
  BY <1>1, <1>2 DEF IInv, TInv

\* A step that leaves the ring alone leaves the ring invariants alone.
LEMMA RingUnchanged ==
    ASSUME ReplicasInv, RingMatchesNodes, UNCHANGED ring
    PROVE  ReplicasInv' /\ RingMatchesNodes'
BY DEF ReplicasInv, RingMatchesNodes, HashesOf, ring

LEMMA AddKeepsTypes ==
    ASSUME TInv, NEW n \in Nodes, Add(n)
    PROVE  TInv'
<1>1. ReplicasInv' /\ TodoInv'
  BY DEF TInv, ReplicasInv, TodoInv, Locked, Add, load
<1>2. todo = {}
  BY DEF TInv, TodoInv, Add, Free
<1>3. TypeOK'
  BY <1>2, ReplicasBounds DEF TInv, TypeOK, Add, load
<1> QED
  BY <1>1, <1>3 DEF TInv

\* Whoever adds only nodes that are not on the ring keeps it sound.
LEMMA AddKeeps ==
    ASSUME IInv, NEW n \in Nodes, n \notin Members, Add(n)
    PROVE  IInv'
<1> USE DEF IInv
<1> DEFINE new == HashesOf(n, DefaultReplicas)
<1>1. nodeReplicas[n] = 0
  BY ReplicasBounds DEF TInv, ReplicasInv, Members
<1>2. TInv'
  BY AddKeepsTypes
<1>3. RingMatchesNodes'
  <2> SUFFICES ASSUME NEW h \in Hashes
               PROVE  IF Owners(h)' = {} THEN keys'[h] = 0 /\ hashMap'[h] = NoNode
                      ELSE keys'[h] = 1 /\ hashMap'[h] \in Owners(h)'
    BY DEF RingMatchesNodes, Owners
  <2>1. Owners(h)' = IF h \in new THEN Owners(h) \cup {n} ELSE Owners(h)
    BY <1>1, NoHashes DEF Owners, Add, TInv, ReplicasInv, HashesOf
  <2>2. IF Owners(h) = {} THEN keys[h] = 0 /\ hashMap[h] = NoNode
        ELSE keys[h] = 1 /\ hashMap[h] \in Owners(h)
    BY DEF RingMatchesNodes, Owners
  <2>3. CASE h \in new
    <3>1. Owners(h) = {}
      <4> SUFFICES ASSUME NEW m \in Owners(h) PROVE FALSE
        OBVIOUS
      <4>1. m \in Nodes /\ h \in HashesOf(m, nodeReplicas[m]) /\ nodeReplicas[m] \in {0, DefaultReplicas}
        BY DEF Owners, TInv, ReplicasInv
      <4>2. m = n
        BY <2>3, <4>1, OneOwner
      <4> QED
        BY <1>1, <4>1, <4>2, NoHashes
    <3> QED
      BY <2>1, <2>2, <2>3, <3>1 DEF Add
  <2>4. CASE h \notin new
    BY <2>1, <2>2, <2>4 DEF Add
  <2> QED
    BY <2>3, <2>4
<1> QED
  BY <1>2, <1>3

LEMMA RemoveKeepsTypes ==
    ASSUME TInv, NEW n \in Nodes, Remove(n)
    PROVE  TInv'
<1>1. ReplicasInv' /\ TodoInv'
  BY DEF TInv, ReplicasInv, TodoInv, Locked, Remove, TakeOff
<1>2. todo = {}
  BY DEF TInv, TodoInv, Remove, Free
<1>3. keys' \in [Hashes -> Nat]
  BY DEF TInv, TypeOK, Remove, TakeOff
<1>4. TypeOK'
  BY <1>2, <1>3 DEF TInv, TypeOK, Remove, TakeOff
<1> QED
  BY <1>1, <1>4 DEF TInv

LEMMA RemoveKeeps ==
    ASSUME IInv, NEW n \in Nodes, Remove(n)
    PROVE  IInv'
<1> USE DEF IInv
<1> DEFINE old == HashesOf(n, nodeReplicas[n])
<1>1. nodeReplicas[n] = DefaultReplicas /\ n \in Nodes
  BY DEF TInv, ReplicasInv, Remove, TakeOff, Members
<1>2. TInv'
  BY RemoveKeepsTypes
<1>3. RingMatchesNodes'
  <2> SUFFICES ASSUME NEW h \in Hashes
               PROVE  IF Owners(h)' = {} THEN keys'[h] = 0 /\ hashMap'[h] = NoNode
                      ELSE keys'[h] = 1 /\ hashMap'[h] \in Owners(h)'
    BY DEF RingMatchesNodes, Owners
  <2>1. Owners(h)' = Owners(h) \ {n}
    BY NoHashes DEF Owners, Remove, TakeOff, TInv, ReplicasInv, HashesOf
  <2>2. IF Owners(h) = {} THEN keys[h] = 0 /\ hashMap[h] = NoNode
        ELSE keys[h] = 1 /\ hashMap[h] \in Owners(h)
    BY DEF RingMatchesNodes, Owners
  <2>3. CASE h \in old
    <3>1. Owners(h) = {n}
      BY <1>1, <2>3, OneOwner DEF Owners, TInv, ReplicasInv
    <3> QED
      BY <2>1, <2>2, <2>3, <3>1 DEF Remove, TakeOff
  <2>4. CASE h \notin old
    <3>1. n \notin Owners(h)
      BY <2>4 DEF Owners
    <3> QED
      BY <2>1, <2>2, <2>4, <3>1 DEF Remove, TakeOff
  <2> QED
    BY <2>3, <2>4
<1> QED
  BY <1>2, <1>3

\* A step that leaves the ring alone and keeps the types keeps the ring sound.
LEMMA RestKeeps ==
    ASSUME IInv, TInv', UNCHANGED ring
    PROVE  IInv'
BY RingUnchanged DEF IInv, TInv

LEMMA GetKeepsTypes ==
    ASSUME TInv, NEW key \in Keys, Get(key)
    PROVE  TInv'
<1>1. nodeCounts' \in [Nodes -> Nat]
  <2>1. PICK node : node = Route(key)
    OBVIOUS
  <2>2. nodeCounts' = [nodeCounts EXCEPT ![node] = nodeCounts[node] + 1]
    BY <2>1 DEF Get
  <2>3. nodeCounts \in [Nodes -> Nat]
    BY DEF TInv, TypeOK
  <2>4. nodeCounts[node] \in Nat => nodeCounts[node] + 1 \in Nat
    OBVIOUS
  <2>5. ASSUME NEW n \in Nodes PROVE nodeCounts'[n] \in Nat
    BY <2>2, <2>3, <2>4
  <2> QED
    BY <2>2, <2>3, <2>5
<1> QED
  BY <1>1 DEF TInv, TypeOK, ReplicasInv, TodoInv, Locked, Get, ring, Members

LEMMA GetTotalKeepsTypes ==
    ASSUME TInv, GetTotal
    PROVE  TInv'
BY DEF TInv, TypeOK, ReplicasInv, TodoInv, Locked, GetTotal, ring, Members

LEMMA BalanceKeepsTypes ==
    ASSUME TInv, Balance \/ Close
    PROVE  TInv'
<1> USE DEF TInv, TypeOK, ReplicasInv, TodoInv, Locked, ring, load, Members
<1>1. CASE Quit \/ Close \/ BeginRebalance
  BY <1>1 DEF Quit, Close, BeginRebalance
<1>2. CASE CheckLoad \/ EndLook
  <2>1. seen' \in [total : Nat, wide : BOOLEAN]
    <3>1. seen' \in {[total |-> totalRequests, wide |-> FALSE], [total |-> 0, wide |-> FALSE]}
      BY <1>2 DEF CheckLoad, EndLook, Nothing
    <3>2. ASSUME NEW t \in Nat, NEW w \in BOOLEAN
          PROVE  [total |-> t, wide |-> w] \in [total : Nat, wide : BOOLEAN]
      OBVIOUS
    <3>3. totalRequests \in Nat /\ 0 \in Nat /\ FALSE \in BOOLEAN
      OBVIOUS
    <3> QED
      BY ONLY <3>1, <3>2, <3>3
  <2>2. /\ todo' \subseteq Members
        /\ balancer' \in {"look", "rebalance", "idle"} /\ (balancer' # "look" => todo' = {})
        /\ UNCHANGED <<ring, load, closed>>
    BY <1>2 DEF CheckLoad, EndLook
  <2> QED
    BY <2>1, <2>2
<1>3. CASE \E n \in Nodes : LookAt(n) \/ KeepReplicas(n) \/ CallRemove(n)
  <2>1. CASE \E n \in Nodes : KeepReplicas(n) \/ CallRemove(n)
    BY <2>1 DEF KeepReplicas, CallRemove
  <2>2. ASSUME NEW n \in Nodes, LookAt(n) PROVE TInv'
    <3>1. PICK wide \in BOOLEAN : seen' = [seen EXCEPT !.wide = wide]
      <4>1. seen' = [seen EXCEPT !.wide = seen.wide \/ Wide(n)]
        BY <2>2 DEF LookAt
      <4>2. (seen.wide \/ Wide(n)) \in BOOLEAN
        OBVIOUS
      <4> QED
        BY <4>1, <4>2
    <3>2. seen' \in [total : Nat, wide : BOOLEAN]
      BY <3>1
    <3>3. /\ todo' \subseteq Members /\ balancer = "look" /\ ~Locked
          /\ UNCHANGED <<ring, load, balancer, closed>>
      BY <2>2 DEF LookAt
    <3> QED
      BY <3>2, <3>3
  <2> QED
    BY <1>3, <2>1, <2>2
<1>4. CASE EndRebalance
  BY <1>4 DEF EndRebalance
<1> QED
  BY <1>1, <1>2, <1>3, <1>4 DEF Balance

LEMMA OffRing ==
    (\E key \in Keys : Get(key)) \/ GetTotal \/ Balance \/ Close \/ UNCHANGED vars => UNCHANGED ring
BY DEF Get, GetTotal, Balance, CheckLoad, LookAt, EndLook, BeginRebalance, KeepReplicas, CallRemove, EndRebalance,
       Quit, Close, vars

LEMMA TypesInductive == TInv /\ [Next]_vars => TInv'
<1> SUFFICES ASSUME TInv, [Next]_vars PROVE TInv'
  OBVIOUS
<1>1. CASE UNCHANGED vars
  BY <1>1 DEF TInv, TypeOK, ReplicasInv, TodoInv, Locked, Members, vars, ring, load
<1> QED
  BY <1>1, AddKeepsTypes, RemoveKeepsTypes, GetKeepsTypes, GetTotalKeepsTypes, BalanceKeepsTypes
     DEF Next
-----------------------------------------------------------------------------
\* A non-empty set of hashes has a first one.
LEMMA FirstIsLeast ==
    ASSUME NEW S, S \subseteq Nat, S # {}
    PROVE  First(S) \in S /\ \A g \in S : First(S) <= g
<1>1. PICK h \in S : \A g \in S : ~ (<<g, h>> \in OpToRel(<, Nat))
  BY WFMin, NatLessThanWellFounded
<1>2. ASSUME NEW g \in S PROVE h <= g
  <2>1. g \in Nat /\ h \in Nat /\ <<g, h>> \in Nat \X Nat
    OBVIOUS
  <2>2. ~ (g < h)
    BY <1>1, <2>1 DEF OpToRel
  <2> QED
    BY <2>1, <2>2
<1> QED
  BY <1>2 DEF First

\* The place of a hash among the virtual nodes at the hashes P.
SlotIn(P, hash) ==
    LET after == {h \in P : h >= hash} IN
    IF after # {} THEN First(after) ELSE First(P)

LEMMA SlotIsPlaced ==
    ASSUME NEW P, P \subseteq Nat, P # {}, NEW hash \in Nat
    PROVE  SlotIn(P, hash) \in P
BY FirstIsLeast DEF SlotIn

\* A slot stays the slot of a hash when other virtual nodes go, and was the slot
\* before others came.
LEMMA SlotStable ==
    ASSUME NEW P, P \subseteq Nat, NEW Q, Q \subseteq P, NEW hash \in Nat,
           SlotIn(P, hash) \in Q
    PROVE  SlotIn(Q, hash) = SlotIn(P, hash)
<1> DEFINE s == SlotIn(P, hash)
           afterP == {h \in P : h >= hash}
           afterQ == {h \in Q : h >= hash}
<1>1. CASE afterP # {}
  <2>1. s \in afterP /\ \A g \in afterP : s <= g
    BY <1>1, FirstIsLeast DEF SlotIn
  <2>2. s \in afterQ /\ \A g \in afterQ : s <= g
    BY <2>1
  <2>3. First(afterQ) \in afterQ /\ \A g \in afterQ : First(afterQ) <= g
    BY <2>2, FirstIsLeast
  <2>4. First(afterQ) \in Nat /\ s \in Nat
    BY <2>2, <2>3
  <2>5. First(afterQ) = s
    BY <2>2, <2>3, <2>4
  <2> QED
    BY <2>2, <2>5 DEF SlotIn
<1>2. CASE afterP = {}
  <2>1. s \in P /\ \A g \in P : s <= g
    BY <1>2, FirstIsLeast DEF SlotIn
  <2>2. First(Q) \in Q /\ \A g \in Q : First(Q) <= g
    BY FirstIsLeast
  <2>3. First(Q) \in Nat /\ s \in Nat
    BY <2>2, <2>1
  <2>4. First(Q) = s
    BY <2>1, <2>2, <2>3
  <2> QED
    BY <1>2, <2>4 DEF SlotIn
<1> QED
  BY <1>1, <1>2

LEMMA RouteBySlot ==
    ASSUME NEW key \in Keys
    PROVE  /\ Route(key) = IF Placed = {} THEN NoNode ELSE hashMap[SlotIn(Placed, KeyHash[key])]
           /\ Route(key)' = IF Placed' = {} THEN NoNode ELSE hashMap'[SlotIn(Placed', KeyHash[key])]
BY DEF Route, Slot, SlotIn, Placed

\* What a step may do to the route of a key.
RouteMoves(key) ==
    Route(key)' # Route(key) =>
       \/ Route(key)' \in Members' \ Members
       \/ Route(key) \in Members \ Members'

LEMMA AddMovesRoutes ==
    ASSUME IInv, NEW n \in Nodes, n \notin Members, Add(n), NEW key \in Keys
    PROVE  RouteMoves(key)
<1> DEFINE new == HashesOf(n, DefaultReplicas)
           hash == KeyHash[key]
           slot == SlotIn(Placed', hash)
<1>1. hash \in Nat /\ Placed \subseteq Nat /\ Placed' \subseteq Nat
  BY RingAssumption DEF Placed
<1>2. n \in Members' \ Members
  BY ReplicasBounds DEF IInv, TInv, TypeOK, Add, Members
<1>3. Placed' = Placed \cup (new \cap Hashes)
  BY DEF Placed, Add, IInv, TInv, TypeOK
<1>4. CASE Placed' = {}
  BY <1>3, <1>4, RouteBySlot DEF RouteMoves
<1>5. CASE Placed' # {} /\ slot \in new
  <2>1. slot \in Hashes
    BY <1>1, <1>5, SlotIsPlaced DEF Placed
  <2>2. Route(key)' = n
    BY <1>5, <2>1, RouteBySlot DEF Add
  <2> QED
    BY <1>2, <2>2 DEF RouteMoves
<1>6. CASE Placed' # {} /\ slot \notin new
  <2>1. slot \in Placed
    BY <1>1, <1>3, <1>6, SlotIsPlaced
  <2>2. SlotIn(Placed, hash) = slot
    BY <1>1, <1>3, <2>1, SlotStable
  <2>3. slot \in Hashes /\ Placed # {}
    BY <2>1 DEF Placed
  <2>4. hashMap'[slot] = hashMap[slot]
    BY <1>6, <2>3 DEF Add
  <2> QED
    BY <1>6, <2>2, <2>3, <2>4, RouteBySlot DEF RouteMoves
<1> QED
  BY <1>4, <1>5, <1>6

LEMMA RemoveMovesRoutes ==
    ASSUME IInv, NEW n \in Nodes, Remove(n), NEW key \in Keys
    PROVE  RouteMoves(key)
<1> DEFINE old == HashesOf(n, nodeReplicas[n])
           hash == KeyHash[key]
           slot == SlotIn(Placed, hash)
<1>1. hash \in Nat /\ Placed \subseteq Nat /\ Placed' \subseteq Nat
  BY RingAssumption DEF Placed
<1>2. n \in Members \ Members'
  BY DEF IInv, TInv, TypeOK, Remove, TakeOff, Members
<1>3. Placed' = Placed \ old
  <2>1. \A h \in Hashes : keys[h] \in {0, 1}
    BY DEF IInv, RingMatchesNodes
  <2>2. \A h \in Hashes : keys'[h] = IF h \in old /\ keys[h] > 0 THEN keys[h] - 1 ELSE keys[h]
    BY DEF Remove, TakeOff
  <2> QED
    BY <2>1, <2>2 DEF Placed
<1>4. CASE Placed = {}
  BY <1>3, <1>4, RouteBySlot DEF RouteMoves
<1>5. CASE Placed # {} /\ slot \in old
  <2>1. slot \in Hashes
    BY <1>1, <1>5, SlotIsPlaced DEF Placed
  <2>2. n \in Owners(slot)
    BY <1>5 DEF Owners
  <2>3. hashMap[slot] \in Owners(slot)
    BY <2>1, <2>2 DEF IInv, RingMatchesNodes, Owners
  <2>4. Owners(slot) = {n}
    BY <2>2, OneOwner DEF Owners, IInv, TInv, ReplicasInv
  <2>5. Route(key) = n
    BY <1>5, <2>3, <2>4, RouteBySlot
  <2> QED
    BY <1>2, <2>5 DEF RouteMoves
<1>6. CASE Placed # {} /\ slot \notin old
  <2>1. slot \in Placed'
    BY <1>1, <1>3, <1>6, SlotIsPlaced
  <2>2. SlotIn(Placed', hash) = slot
    BY <1>1, <1>3, <2>1, SlotStable
  <2>3. slot \in Hashes /\ Placed' # {}
    BY <2>1 DEF Placed
  <2>4. hashMap'[slot] = hashMap[slot]
    BY <1>6, <2>3 DEF Remove, TakeOff
  <2> QED
    BY <1>6, <2>2, <2>3, <2>4, RouteBySlot DEF RouteMoves
<1> QED
  BY <1>4, <1>5, <1>6

LEMMA RouteUnchanged ==
    ASSUME UNCHANGED ring, NEW key \in Keys
    PROVE  Route(key)' = Route(key)
BY DEF ring, Route, Slot, Placed
-----------------------------------------------------------------------------
\* The requests counted by f for the nodes in S, one by one.
Units(f, S) == {u \in S \X Nat : u[2] < f[u[1]]}

LEMMA OneNodesUnits ==
    ASSUME NEW f \in [Nodes -> Nat], NEW n \in Nodes
    PROVE  IsFiniteSet(Units(f, {n})) /\ Cardinality(Units(f, {n})) = f[n]
<1> DEFINE I == 0 .. f[n] - 1
           count == [i \in I |-> <<n, i>>]
<1>1. IsFiniteSet(I) /\ Cardinality(I) = f[n]
  BY FS_Interval
<1>2. Units(f, {n}) = {<<n, i>> : i \in I}
  <2>1. \A i \in Nat : i < f[n] <=> i \in I
    OBVIOUS
  <2> QED
    BY <2>1 DEF Units
<1>3. count \in Injection(I, Units(f, {n}))
  BY <1>2 DEF Injection, IsInjective
<1>4. count \in Surjection(I, Units(f, {n}))
  BY <1>2 DEF Surjection
<1>5. ExistsBijection(I, Units(f, {n}))
  BY <1>3, <1>4 DEF ExistsBijection, Bijection
<1> QED
  BY <1>1, <1>5, FS_Bijection

LEMMA UnitsFinite ==
    ASSUME NEW f \in [Nodes -> Nat], NEW S \in SUBSET Nodes
    PROVE  IsFiniteSet(Units(f, S)) /\ Cardinality(Units(f, S)) \in Nat
<1> DEFINE parts == {Units(f, {n}) : n \in S}
           part == [n \in S |-> Units(f, {n})]
<1>1. part \in Surjection(S, parts)
  BY DEF Surjection
<1>2. IsFiniteSet(parts)
  BY <1>1, FiniteNodes, FS_Subset, FS_Surjection
<1>3. IsFiniteSet(UNION parts)
  <2>1. \A T \in parts : IsFiniteSet(T)
    BY OneNodesUnits
  <2> QED
    BY <1>2, <2>1, FS_UNION
<1>4. Units(f, S) = UNION parts
  BY DEF Units
<1> QED
  BY <1>3, <1>4, FS_CardinalityType

LEMMA UnitsSplit ==
    ASSUME NEW f \in [Nodes -> Nat], NEW S \in SUBSET Nodes, NEW n \in S
    PROVE  Cardinality(Units(f, S)) = f[n] + Cardinality(Units(f, S \ {n}))
<1> DEFINE A == Units(f, {n})
           B == Units(f, S \ {n})
<1>1. Units(f, S) = A \cup B /\ A \cap B = {}
  BY DEF Units
<1>2. IsFiniteSet(A) /\ Cardinality(A) = f[n]
  BY OneNodesUnits
<1>3. IsFiniteSet(B) /\ Cardinality(B) \in Nat
  BY UnitsFinite
<1> HIDE DEF A, B
<1>4. Cardinality(A \cup B) = Cardinality(A) + Cardinality(B) - Cardinality(A \cap B)
  BY <1>1, <1>2, <1>3, FS_Union
<1> QED
  <2>1. Cardinality(A \cap B) = 0
    BY <1>1, FS_EmptySet
  <2>2. f[n] \in Nat
    OBVIOUS
  <2>3. Cardinality(A \cup B) = f[n] + Cardinality(B)
    BY <1>2, <1>3, <1>4, <2>1, <2>2
  <2> QED
    BY <1>1, <2>3 DEF B

Total(f) == MapThenSumSet(LAMBDA n : f[n], Nodes)

\* The sum of the counts is the number of requests counted.
LEMMA SumIsUnits ==
    ASSUME NEW f \in [Nodes -> Nat]
    PROVE  Total(f) = Cardinality(Units(f, Nodes))
<1> DEFINE pick(S) == CHOOSE x \in S : TRUE
           step(h) == [S \in SUBSET Nodes |-> IF S = {} THEN 0 ELSE f[pick(S)] + h[S \ {pick(S)}]]
           iter == CHOOSE h : h = step(h)
           size == [S \in SUBSET Nodes |-> Cardinality(Units(f, S))]
<1>1. Total(f) = iter[Nodes]
  BY DEF Total, MapThenSumSet, MapThenFoldSet
<1>2. size = step(size)
  <2> SUFFICES ASSUME NEW S \in SUBSET Nodes PROVE size[S] = step(size)[S]
    OBVIOUS
  <2>1. CASE S = {}
    <3>1. Units(f, S) = {}
      BY <2>1 DEF Units
    <3> QED
      BY <2>1, <3>1, FS_EmptySet
  <2>2. CASE S # {}
    <3>1. pick(S) \in S
      BY <2>2
    <3>2. S \ {pick(S)} \in SUBSET Nodes
      OBVIOUS
    <3> HIDE DEF pick
    <3>3. Cardinality(Units(f, S)) = f[pick(S)] + Cardinality(Units(f, S \ {pick(S)}))
      BY <3>1, UnitsSplit
    <3> QED
      BY <2>2, <3>2, <3>3
  <2> QED
    BY <2>1, <2>2
<1> HIDE DEF step
<1>3. iter = step(iter)
  BY <1>2
<1> HIDE DEF iter
<1>4. \A S \in SUBSET Nodes : iter[S] = size[S]
  <2> DEFINE bad == {S \in SUBSET Nodes : iter[S] # size[S]}
  <2> SUFFICES ASSUME bad # {} PROVE FALSE
    OBVIOUS
  <2>1. IsWellFoundedOn(StrictSubsetOrdering(Nodes), SUBSET Nodes)
    BY FS_StrictSubsetOrderingWellFounded, FS_FiniteSubsetsOfFinite, FiniteNodes
  <2>2. PICK S \in bad : \A T \in bad : ~ (<<T, S>> \in StrictSubsetOrdering(Nodes))
    BY <2>1, WFMin
  <2>3. \A T \in SUBSET S : T # S => iter[T] = size[T]
    BY <2>2 DEF StrictSubsetOrdering
  <2>4. step(iter)[S] = step(size)[S]
    <3>1. S # {} => S \ {pick(S)} \in SUBSET S /\ S \ {pick(S)} # S
      OBVIOUS
    <3> QED
      BY <2>3, <3>1 DEF step
  <2> QED
    BY <2>4, <1>2, <1>3
<1> QED
  BY <1>1, <1>4

(* Counts that are nowhere more add up to no more, one more request to one
   more, and none to none.                                                   *)
LEMMA SumMonotonic ==
    ASSUME NEW f \in [Nodes -> Nat], NEW g \in [Nodes -> Nat], \A n \in Nodes : f[n] <= g[n]
    PROVE  Total(f) <= Total(g)
<1>1. Units(f, Nodes) \subseteq Units(g, Nodes)
  BY DEF Units
<1> QED
  BY <1>1, SumIsUnits, UnitsFinite, FS_Subset

LEMMA SumOneMore ==
    ASSUME NEW f \in [Nodes -> Nat], NEW g \in [Nodes -> Nat], NEW m \in Nodes,
           \A n \in Nodes : g[n] = IF n = m THEN f[n] + 1 ELSE f[n]
    PROVE  /\ Total(f) \in Nat
           /\ Total(g) = Total(f) + 1
<1>1. Units(g, Nodes) = Units(f, Nodes) \cup {<<m, f[m]>>}
  <2>1. ASSUME NEW u \in Nodes \X Nat
        PROVE  u[2] < g[u[1]] <=> u[2] < f[u[1]] \/ u = <<m, f[m]>>
    <3>1. PICK n \in Nodes, i \in Nat : u = <<n, i>>
      OBVIOUS
    <3>2. f[n] \in Nat
      OBVIOUS
    <3> QED
      BY <3>1, <3>2
  <2>2. <<m, f[m]>> \in Nodes \X Nat
    OBVIOUS
  <2> QED
    BY <2>1, <2>2 DEF Units
<1>2. <<m, f[m]>> \notin Units(f, Nodes)
  BY DEF Units
<1>3. IsFiniteSet(Units(f, Nodes)) /\ Cardinality(Units(f, Nodes)) \in Nat
  BY UnitsFinite
<1>4. Cardinality(Units(g, Nodes)) = Cardinality(Units(f, Nodes)) + 1
  BY <1>1, <1>2, <1>3, FS_AddElement
<1> QED
  BY <1>3, <1>4, SumIsUnits

LEMMA SumOfNone ==
    ASSUME NEW f \in [Nodes -> Nat], \A n \in Nodes : f[n] = 0
    PROVE  Total(f) = 0
<1>1. Units(f, Nodes) = {}
  BY DEF Units
<1> QED
  BY <1>1, SumIsUnits, FS_EmptySet

LEMMA RoutesToNode ==
    ASSUME TInv, NEW key \in Keys, Route(key) # NoNode
    PROVE  Route(key) \in Nodes
<1>1. Placed # {} /\ Placed \subseteq Hashes /\ Hashes \subseteq Nat /\ KeyHash[key] \in Nat
  BY RingAssumption DEF Route, Placed
<1>2. SlotIn(Placed, KeyHash[key]) \in Hashes
  BY <1>1, SlotIsPlaced
<1> QED
  BY <1>1, <1>2, RouteBySlot DEF TInv, TypeOK

\* What is counted for the nodes and not yet in the total is on its way there.
CountsInv == Total(nodeCounts) <= totalRequests + adding

LEMMA CountsByTotal == TInv /\ CountsInv => CountsWithinTotal
<1> SUFFICES ASSUME TInv, CountsInv PROVE CountsWithinTotal
  OBVIOUS
<1>1. Locked => adding = 0
  BY DEF TInv, TodoInv
<1>2. totalRequests \in Nat /\ nodeCounts \in [Nodes -> Nat]
  BY DEF TInv, TypeOK
<1>3. Locked => Total(nodeCounts) <= totalRequests
  BY <1>1, <1>2 DEF CountsInv
<1> QED
  BY <1>3 DEF CountsWithinTotal, CountsInv, Total

LEMMA CountsKept ==
    ASSUME TInv, TInv', CountsInv,
           \/ \E n \in Nodes : Add(n) \/ Remove(n)
           \/ \E key \in Keys : Get(key)
           \/ GetTotal \/ Balance
           \/ UNCHANGED load
    PROVE  CountsInv'
<1>1. /\ nodeCounts \in [Nodes -> Nat] /\ nodeCounts' \in [Nodes -> Nat]
      /\ totalRequests \in Nat /\ adding \in Nat
  BY DEF TInv, TypeOK
<1>2. Total(nodeCounts) <= totalRequests + adding
  BY DEF CountsInv
<1>3. Total(nodeCounts) \in Nat /\ Total(nodeCounts') \in Nat
  BY <1>1, SumIsUnits, UnitsFinite
<1>4. SUFFICES Total(nodeCounts') <= totalRequests' + adding'
  <2>1. CountsInv' <=> (Total(nodeCounts) <= totalRequests + adding)'
    BY DEF CountsInv
  <2> QED
    BY <2>1
<1>5. ASSUME \A m \in Nodes : nodeCounts'[m] <= nodeCounts[m],
             totalRequests' + adding' = totalRequests + adding
      PROVE  Total(nodeCounts') <= totalRequests' + adding'
  <2>1. Total(nodeCounts') <= Total(nodeCounts)
    BY <1>1, <1>5, SumMonotonic
  <2> QED
    BY <1>1, <1>2, <1>3, <1>5, <2>1
<1>6. CASE UNCHANGED load \/ GetTotal \/ \E n \in Nodes : Remove(n)
  <2>1. \A m \in Nodes : nodeCounts'[m] <= nodeCounts[m]
    BY <1>1, <1>6 DEF load, GetTotal, Remove, TakeOff
  <2>2. totalRequests' + adding' = totalRequests + adding
    BY <1>1, <1>6 DEF load, GetTotal, Remove, TakeOff
  <2> QED
    BY <1>5, <2>1, <2>2
<1>7. ASSUME NEW key \in Keys, Get(key) PROVE Total(nodeCounts') <= totalRequests' + adding'
  <2>1. PICK node \in Nodes : node = Route(key)
    BY <1>7, RoutesToNode DEF Get
  <2>2. \A m \in Nodes : nodeCounts'[m] = IF m = node THEN nodeCounts[m] + 1 ELSE nodeCounts[m]
    BY <1>1, <1>7, <2>1 DEF Get
  <2>3. Total(nodeCounts') = Total(nodeCounts) + 1
    BY <1>1, <2>2, SumOneMore
  <2>4. totalRequests' = totalRequests /\ adding' = adding + 1
    BY <1>7 DEF Get
  <2> QED
    BY <1>1, <1>2, <1>3, <2>3, <2>4
<1>8. CASE EndRebalance
  <2>1. \A n \in Nodes : nodeCounts'[n] = 0
    BY <1>8 DEF EndRebalance
  <2>2. Total(nodeCounts') = 0
    BY <1>1, <2>1, SumOfNone
  <2> QED
    BY <1>1, <1>8, <2>2 DEF EndRebalance
<1>9. (\E n \in Nodes : Add(n)) \/ (Balance /\ ~EndRebalance) => UNCHANGED load
  BY DEF Add, Balance, CheckLoad, LookAt, EndLook, BeginRebalance, KeepReplicas, CallRemove,
         Quit, load
<1> QED
  BY <1>6, <1>7, <1>8, <1>9
-----------------------------------------------------------------------------
LEMMA Inductive ==
    ASSUME Readded = {}
    PROVE  IInv /\ [Next]_vars => IInv'
<1> SUFFICES ASSUME IInv, [Next]_vars PROVE IInv'
  OBVIOUS
<1>1. ASSUME NEW n \in Nodes, Add(n) PROVE IInv'
  <2>1. n \notin Members
    BY <1>1 DEF Add
  <2> QED
    BY <1>1, <2>1, AddKeeps
<1>2. ASSUME NEW n \in Nodes, Remove(n) PROVE IInv'
  BY <1>2, RemoveKeeps
<1>3. CASE UNCHANGED ring
  BY <1>3, TypesInductive, RestKeeps DEF IInv
<1> QED
  BY <1>1, <1>2, <1>3, OffRing DEF Next

(* The variables keep their types, and a rebalancing in progress only has
   members of the ring left to adjust (consistenthash.go 245-290).            *)
THEOREM RingTypeCorrect == Spec => []TypeOK
<1>1. Init => TInv
  BY InitIInv DEF IInv
<1>2. TInv => TypeOK
  BY DEF TInv
<1> QED
  BY <1>1, <1>2, TypesInductive, PTL DEF Spec

(* The ring is exactly the virtual nodes of its members: Get never routes to a
   node without a counter (consistenthash.go 124-137, 174-175, 184-194).      *)
THEOREM RingAlwaysMatches ==
    ASSUME Readded = {}
    PROVE  Spec => []RingMatchesNodes
<1>1. IInv => RingMatchesNodes
  BY DEF IInv
<1> QED
  BY <1>1, InitIInv, Inductive, PTL DEF Spec

(* A node that joins takes keys and a node that leaves hands on its own, and no
   other key moves (consistenthash.go 22, 163-174).                           *)
THEOREM OnlyNeededMoves ==
    ASSUME Readded = {}
    PROVE  Spec => MinimalDisruption
<1>1. ASSUME IInv, [Next]_vars, NEW key \in Keys
      PROVE  RouteMoves(key)
  <2>1. ASSUME NEW n \in Nodes, Add(n) PROVE RouteMoves(key)
    <3>1. n \notin Members
      BY <2>1 DEF Add
    <3> QED
      BY <1>1, <2>1, <3>1, AddMovesRoutes
  <2>2. ASSUME NEW n \in Nodes, Remove(n) PROVE RouteMoves(key)
    BY <1>1, <2>2, RemoveMovesRoutes
  <2>3. CASE UNCHANGED ring
    BY <2>3, RouteUnchanged DEF RouteMoves
  <2> QED
    BY <1>1, <2>1, <2>2, <2>3, OffRing DEF Next
<1>2. IInv /\ [Next]_vars => [\A key \in Keys : RouteMoves(key)]_vars
  BY <1>1
<1>3. Spec => [][\A key \in Keys : RouteMoves(key)]_vars
  BY <1>2, InitIInv, Inductive, PTL DEF Spec
<1> QED
  BY <1>3, PTL DEF MinimalDisruption, RouteMoves

\* The counters start at zero.
LEMMA CountsAtFirst == Init => CountsInv
<1> SUFFICES ASSUME Init PROVE CountsInv
  OBVIOUS
<1>1. nodeCounts \in [Nodes -> Nat] /\ \A n \in Nodes : nodeCounts[n] = 0
  BY DEF Init
<1> QED
  BY <1>1, SumOfNone DEF Init, CountsInv

(* The counters of the nodes are ahead of the total only by the Gets between their
   two adds, and never while a rebalancing divides them (consistenthash.go
   136-137, 175-176, 252-256, 282-286).                                       *)
THEOREM CountsAddUp == Spec => []CountsWithinTotal
<1>1. Init => TInv /\ CountsInv
  BY InitIInv, CountsAtFirst DEF IInv
<1>2. TInv /\ CountsInv /\ [Next]_vars => TInv' /\ CountsInv'
  <2>1. Close \/ UNCHANGED vars => UNCHANGED load
    BY DEF Close, vars
  <2> QED
    BY <2>1, TypesInductive, CountsKept DEF Next
<1> QED
  BY <1>1, <1>2, CountsByTotal, PTL DEF Spec

-----------------------------------------------------------------------------
(* The picker on the ring: theorems about PickerSpec.                         *)

PTypes ==
    /\ registered \subseteq Nodes
    /\ discovery \in {"new", "fetched", "watching", "ended", "failed"}
    /\ events \in Seq(Event)
    /\ batch \in 0 .. Len(events)
    /\ clients \subseteq Nodes
    /\ conns \in [Nodes -> {0, 1}]
    /\ unsure \subseteq Nodes
    /\ closing \in {"open", "cancelled", "shut"}

\* The ring follows the clients also while the lock is held.
ClientsInv ==
    /\ Members = clients
    /\ \A n \in Nodes : n \notin clients => conns[n] = 0
    /\ closing # "shut" => \A n \in clients : conns[n] = 1

\* The i-th event is the last one on its way about the node.
Last(i, n) == events[i].n = n /\ \A j \in 1 .. Len(events) : j > i => events[j].n # n

\* A node without an event on its way is known if it is registered; the last
\* event about any other says whether it is.
Known(n) ==
    \/ /\ \A i \in 1 .. Len(events) : events[i].n # n
       /\ n \in clients <=> n \in registered
    \/ \E i \in 1 .. Len(events) :
          Last(i, n) /\ (events[i].op = "put" <=> n \in registered)

DiscoveryInv ==
    /\ discovery = "new" => events = <<>> /\ clients = {} /\ unsure = {}
    /\ discovery \in {"fetched", "watching"} /\ closing = "open" =>
           \A n \in Nodes \ unsure : Known(n)

PInv == IInv /\ PTypes /\ ClientsInv /\ DiscoveryInv
-----------------------------------------------------------------------------
\* SetToSeq lists the elements of a finite set, each once.
LEMMA SetToSeqLists ==
    ASSUME NEW S, IsFiniteSet(S)
    PROVE  /\ Seqs!SetToSeq(S) \in Seq(S)
           /\ Len(Seqs!SetToSeq(S)) = Cardinality(S)
           /\ \A x \in S : \E i \in DOMAIN Seqs!SetToSeq(S) : Seqs!SetToSeq(S)[i] = x
           /\ \A i, j \in DOMAIN Seqs!SetToSeq(S) :
                 Seqs!SetToSeq(S)[i] = Seqs!SetToSeq(S)[j] => i = j
<1> DEFINE I == 1 .. Cardinality(S)
           q == Seqs!SetToSeq(S)
<1>1. Cardinality(S) \in Nat /\ ExistsBijection(I, S)
  BY FS_CardinalityType
<1>2. PICK f \in [I -> S] : \A i, j \in DOMAIN f : f[i] = f[j] => i = j
  BY <1>1 DEF ExistsBijection, Bijection, Injection, IsInjective
<1>3. q \in [I -> S] /\ \A i, j \in DOMAIN q : q[i] = q[j] => i = j
  <2>1. q = CHOOSE g \in [I -> S] : Seqs!IsInjective(g)
    <3>1. Seqs!Cardinality(S) = Cardinality(S)
      BY Zenon DEF Seqs!Cardinality, Cardinality
    <3> QED
      BY <3>1 DEF Seqs!SetToSeq
  <2>2. \E g \in [I -> S] : Seqs!IsInjective(g)
    BY <1>2 DEF Seqs!IsInjective
  <2> HIDE DEF q
  <2>3. q \in [I -> S] /\ Seqs!IsInjective(q)
    BY <2>1, <2>2
  <2> QED
    BY <2>3 DEF Seqs!IsInjective
<1>4. q \in Surjection(I, S)
  <2>1. q \in Injection(I, S)
    BY <1>3 DEF Injection, IsInjective
  <2>2. Cardinality(I) = Cardinality(S)
    BY <1>1, FS_Interval
  <2> QED
    BY <2>1, <2>2, FS_Injection
<1>5. q \in Seq(S) /\ Len(q) = Cardinality(S)
  BY <1>1, <1>3
<1> QED
  BY <1>3, <1>4, <1>5 DEF Surjection

LEMMA TypesOK == PTypes => PickerTypeOK
BY DEF PTypes, PickerTypeOK, Seqs!ToSet

LEMMA PickerInitPInv == PickerInit => PInv
<1> SUFFICES ASSUME PickerInit PROVE PInv
  OBVIOUS
<1>1. IInv
  BY InitIInv DEF PickerInit
<1>2. PTypes
  BY DEF PickerInit, PTypes
<1>3. ClientsInv
  BY DEF PickerInit, Init, ClientsInv, Members
<1> QED
  BY <1>1, <1>2, <1>3 DEF PInv, PickerInit, DiscoveryInv

\* What the steps of the picker are on the ring: it adds only absent nodes.
LEMMA RingSteps ==
    ASSUME ClientsInv, [PickerNext]_pickerVars
    PROVE  \/ \E n \in Nodes : n \notin Members /\ Add(n)
           \/ \E n \in Nodes : Remove(n)
           \/ \E key \in Keys : Get(key)
           \/ GetTotal \/ Balance \/ Close \/ UNCHANGED vars
<1>1. ASSUME NEW n \in Nodes, Connect(n) PROVE n \notin Members /\ Add(n)
  BY <1>1 DEF Connect, ClientsInv
<1>2. ASSUME NEW n \in Nodes, DropOld(n) \/ Forget(n) PROVE Remove(n)
  BY <1>2 DEF DropOld, Forget
<1>3. ASSUME NEW n \in Nodes, Register(n) \/ Unregister(n) \/ ConnectFails(n) \/ ForgetUnknown(n)
      PROVE  UNCHANGED vars
  BY <1>3 DEF Register, Unregister, ConnectFails, ForgetUnknown
<1>4. Fetch \/ FetchFails \/ Watch \/ EndWatch \/ Receive \/ Cancel \/ UNCHANGED pickerVars
      => UNCHANGED vars
  BY DEF Fetch, FetchFails, Watch, EndWatch, Receive, Cancel, pickerVars
<1>5. /\ (Shut => Close) /\ (Rebalance => Balance) /\ (EndPick => GetTotal)
      /\ \A key \in Keys : PickPeer(key) => Get(key)
  BY DEF Shut, Rebalance, EndPick, PickPeer
<1> QED
  BY <1>1, <1>2, <1>3, <1>4, <1>5 DEF PickerNext

LEMMA RingKept ==
    ASSUME PInv, [PickerNext]_pickerVars
    PROVE  IInv'
<1>1. CASE \E n \in Nodes : n \notin Members /\ Add(n)
  BY <1>1, AddKeeps DEF PInv
<1>2. CASE \E n \in Nodes : Remove(n)
  BY <1>2, RemoveKeeps DEF PInv
<1>3. CASE (\E key \in Keys : Get(key)) \/ GetTotal \/ Balance \/ Close \/ UNCHANGED vars
  <2>1. TInv'
    BY <1>3, TypesInductive DEF PInv, IInv, Next
  <2> QED
    BY <1>3, <2>1, OffRing, RestKeeps DEF PInv
<1> QED
  BY <1>1, <1>2, <1>3, RingSteps DEF PInv
-----------------------------------------------------------------------------
\* The event in hand is about a node, and there is another queue without it.
LEMMA HandFacts ==
    ASSUME PTypes, NEW op, NEW n, InHand(op, n)
    PROVE  /\ Len(events) > 0 /\ events[1] = [op |-> op, n |-> n]
           /\ Tail(events) \in Seq(Event) /\ Len(Tail(events)) = Len(events) - 1
           /\ \A i \in 1 .. Len(Tail(events)) : Tail(events)[i] = events[i + 1]
           /\ batch - 1 \in 0 .. Len(Tail(events))
<1>1. events \in Seq(Event) /\ batch \in 1 .. Len(events) /\ events # <<>>
  BY DEF PTypes, InHand
<1> QED
  BY <1>1 DEF InHand

\* An event that is done with leaves what is known of every node.
LEMMA AppliedKnown ==
    ASSUME PTypes, NEW op, NEW n, InHand(op, n), Applied, UNCHANGED registered,
           NEW m \in Nodes, Known(m),
           IF m = n THEN m \in clients' <=> op = "put" ELSE m \in clients' <=> m \in clients
    PROVE  Known(m)'
<1>1. /\ Len(events) \in Nat /\ Len(events) > 0 /\ events[1] = [op |-> op, n |-> n]
      /\ Len(events') = Len(events) - 1
      /\ \A i \in 1 .. Len(events') : events'[i] = events[i + 1]
  BY HandFacts DEF Applied, PTypes
<1>2. CASE \A i \in 1 .. Len(events) : events[i].n # m
  <2>1. \A i \in 1 .. Len(events') : events'[i].n # m
    BY <1>1, <1>2
  <2>2. m # n /\ (m \in clients <=> m \in registered)
    BY <1>1, <1>2 DEF Known, Last
  <2> QED
    BY <2>1, <2>2 DEF Known
<1>3. ASSUME NEW i \in 1 .. Len(events), Last(i, m), events[i].op = "put" <=> m \in registered
      PROVE  Known(m)'
  <2>1. CASE i = 1
    <3>1. m = n /\ (op = "put" <=> m \in registered)
      BY <1>1, <1>3, <2>1 DEF Last
    <3>2. \A j \in 1 .. Len(events') : events'[j].n # m
      BY <1>1, <1>3, <2>1 DEF Last
    <3> QED
      BY <3>1, <3>2 DEF Known
  <2>2. CASE i > 1
    <3>1. i - 1 \in 1 .. Len(events') /\ events'[i - 1] = events[i]
      BY <1>1, <2>2
    <3>2. \A j \in 1 .. Len(events') : j > i - 1 => events'[j].n # m
      BY <1>1, <1>3, <2>2 DEF Last
    <3> QED
      BY <1>3, <3>1, <3>2 DEF Known, Last
  <2> QED
    BY <2>1, <2>2
<1> QED
  BY <1>2, <1>3 DEF Known

LEMMA NotifyKeeps ==
    ASSUME PTypes, DiscoveryInv, NEW op \in {"put", "delete"}, NEW n \in Nodes, Notify(op, n),
           registered' = IF op = "put" THEN registered \cup {n} ELSE registered \ {n},
           UNCHANGED <<discovery, batch, clients, conns, closing>>
    PROVE  PTypes' /\ DiscoveryInv'
<1> DEFINE e == [op |-> op, n |-> n]
<1>1. CASE Watching /\ events' = Append(events, e) /\ unsure' = unsure \ {n}
  <2>1. /\ events \in Seq(Event) /\ events' \in Seq(Event) /\ Len(events) \in Nat
        /\ Len(events') = Len(events) + 1 /\ events'[Len(events) + 1] = e
        /\ \A i \in 1 .. Len(events) : events'[i] = events[i]
    BY <1>1 DEF PTypes, Event
  <2>2. PTypes'
    BY <1>1, <2>1 DEF PTypes
  <2>3. ASSUME NEW m \in Nodes \ unsure' PROVE Known(m)'
    <3>1. CASE m = n
      BY <2>1, <3>1 DEF Known, Last
    <3>2. CASE m # n
      <4>1. Known(m) /\ (m \in registered' <=> m \in registered)
        BY <1>1, <2>3, <3>2 DEF DiscoveryInv, Watching
      <4>2. CASE \A i \in 1 .. Len(events) : events[i].n # m
        <5>1. m \in clients <=> m \in registered
          BY <4>1, <4>2 DEF Known, Last
        <5>2. \A i \in 1 .. Len(events') : events'[i].n # m
          BY <2>1, <3>2, <4>2
        <5> QED
          BY <4>1, <5>1, <5>2 DEF Known
      <4>3. ASSUME NEW i \in 1 .. Len(events), Last(i, m),
                   events[i].op = "put" <=> m \in registered
            PROVE  Known(m)'
        <5>1. i \in 1 .. Len(events') /\ events'[i] = events[i]
          BY <2>1
        <5>2. \A j \in 1 .. Len(events') : j > i => events'[j].n # m
          BY <2>1, <3>2, <4>3 DEF Last
        <5> QED
          BY <4>1, <4>3, <5>1, <5>2 DEF Known, Last
      <4> QED
        BY <4>1, <4>2, <4>3 DEF Known
    <3> QED
      BY <3>1, <3>2
  <2> QED
    BY <1>1, <2>2, <2>3 DEF DiscoveryInv, Watching
<1>2. CASE discovery = "fetched" /\ unsure' = unsure \cup {n} /\ UNCHANGED events
  <2>1. PTypes'
    BY <1>2 DEF PTypes
  <2>2. ASSUME NEW m \in Nodes \ unsure', Known(m) PROVE Known(m)'
    BY <1>2, <2>2 DEF Known, Last
  <2> QED
    BY <1>2, <2>1, <2>2 DEF DiscoveryInv
<1> QED
  BY <1>1, <1>2 DEF Notify

\* fetchAllServices: one put for every node that is registered.
LEMMA FetchKeeps ==
    ASSUME PInv, Fetch
    PROVE  PTypes' /\ DiscoveryInv'
<1> DEFINE puts == [op : {"put"}, n : registered]
           put == [n \in registered |-> [op |-> "put", n |-> n]]
<1>1. IsFiniteSet(registered) /\ Cardinality(registered) \in Nat
  BY FiniteNodes, FS_Subset, FS_CardinalityType DEF PInv, PTypes
<1>2. IsFiniteSet(puts) /\ Cardinality(puts) = Cardinality(registered)
  <2>1. put \in Injection(registered, puts)
    BY DEF Injection, IsInjective
  <2>2. put \in Surjection(registered, puts)
    <3>1. put \in [registered -> puts]
      OBVIOUS
    <3>2. ASSUME NEW e \in puts PROVE \E n \in registered : put[n] = e
      <4>1. e.n \in registered /\ e = [op |-> "put", n |-> e.n]
        OBVIOUS
      <4> QED
        BY <4>1
    <3> QED
      BY <3>1, <3>2 DEF Surjection
  <2> QED
    BY <1>1, <2>1, <2>2, FS_Bijection DEF ExistsBijection, Bijection
<1>3. /\ events' \in Seq(puts) /\ Len(events') = Cardinality(registered)
      /\ \A e \in puts : \E i \in DOMAIN events' : events'[i] = e
      /\ \A i, j \in DOMAIN events' : events'[i] = events'[j] => i = j
  BY <1>2, SetToSeqLists DEF Fetch
<1>4. /\ \A e \in puts : e = [op |-> "put", n |-> e.n] /\ e.n \in registered
      /\ \A n \in registered : [op |-> "put", n |-> n] \in puts
      /\ puts \subseteq Event
  BY DEF PInv, PTypes, Event
<1>5. /\ registered' = registered /\ clients' = {} /\ batch' = Cardinality(registered)
      /\ discovery' = "fetched"
      /\ UNCHANGED <<clients, conns, unsure, closing>>
  BY DEF PInv, DiscoveryInv, Fetch
<1> HIDE DEF puts
<1>6. /\ DOMAIN events' = 1 .. Len(events') /\ \A i \in 1 .. Len(events') : events'[i] \in puts
      /\ events' \in Seq(Event)
  BY <1>3, <1>4
<1>7. PTypes'
  BY <1>1, <1>3, <1>5, <1>6 DEF PInv, PTypes
<1>8. ASSUME NEW m \in Nodes PROVE Known(m)'
  <2>1. CASE m \in registered
    <3>1. PICK i \in 1 .. Len(events') : events'[i] = [op |-> "put", n |-> m]
      BY <1>3, <1>4, <1>6, <2>1
    <3>2. ASSUME NEW j \in 1 .. Len(events'), events'[j].n = m PROVE j = i
      <4>1. events'[j] = [op |-> "put", n |-> m]
        BY <1>4, <1>6, <3>2
      <4> QED
        BY <1>3, <1>6, <3>1, <4>1
    <3>3. \A j \in 1 .. Len(events') : j > i => events'[j].n # m
      BY <3>2
    <3> QED
      BY <1>5, <2>1, <3>1, <3>3 DEF Known, Last
  <2>2. CASE m \notin registered
    <3>1. \A i \in 1 .. Len(events') : events'[i].n # m
      BY <1>4, <1>6, <2>2
    <3> QED
      BY <1>5, <2>2, <3>1 DEF Known
  <2> QED
    BY <2>1, <2>2
<1> QED
  BY <1>5, <1>7, <1>8 DEF DiscoveryInv
-----------------------------------------------------------------------------
LEMMA MembersChange ==
    ASSUME TInv, NEW n \in Nodes
    PROVE  /\ Add(n) => Members' = Members \cup {n}
           /\ Remove(n) => Members' = Members \ {n}
BY ReplicasBounds DEF TInv, TypeOK, Add, Remove, TakeOff, Members

LEMMA HangupEffect ==
    ASSUME PTypes, NEW n \in Nodes, Hangup(n)
    PROVE  /\ conns' \in [Nodes -> {0, 1}] /\ conns'[n] = 0
           /\ \A m \in Nodes : m # n => conns'[m] = conns[m]
BY DEF PTypes, Hangup

\* A client goes, together with its place on the ring: DropOld and Forget.
LEMMA GoneKeepsClients ==
    ASSUME PInv, NEW n \in Nodes, Hangup(n), Remove(n), clients' = clients \ {n},
           UNCHANGED closing
    PROVE  ClientsInv'
<1>1. Members' = Members \ {n}
  BY MembersChange DEF PInv, IInv
<1> QED
  BY <1>1, HangupEffect DEF PInv, ClientsInv, PTypes

\* set in front of a client: the event stays in hand.
LEMMA DropOldKeeps ==
    ASSUME PInv, NEW n \in Nodes, DropOld(n)
    PROVE  PTypes' /\ ClientsInv' /\ DiscoveryInv'
<1>1. PTypes'
  BY HangupEffect DEF PInv, PTypes, DropOld, rest
<1>2. ClientsInv'
  BY GoneKeepsClients DEF DropOld, rest
<1>3. ASSUME NEW m \in Nodes, Known(m) PROVE Known(m)'
  <2>1. CASE m = n
    <3>1. 1 \in 1 .. Len(events) /\ events[1].n = m
      <4>1. PTypes /\ Len(events) \in Nat /\ InHand("put", n)
        BY DEF PInv, PTypes, DropOld
      <4>2. Len(events) > 0 /\ events[1] = [op |-> "put", n |-> n]
        BY <4>1, HandFacts
      <4> QED
        BY <2>1, <4>1, <4>2
    <3> QED
      BY <1>3, <3>1 DEF Known, Last, DropOld, rest
  <2>2. CASE m # n
    BY <1>3, <2>2 DEF Known, Last, DropOld, rest
  <2> QED
    BY <2>1, <2>2
<1>4. discovery # "new"
  BY DEF DropOld, InHand, PInv, PTypes, DiscoveryInv
<1> QED
  BY <1>1, <1>2, <1>3, <1>4 DEF PInv, DiscoveryInv, DropOld, rest

LEMMA AppliedKeeps ==
    ASSUME PInv, NEW op, NEW n \in Nodes, InHand(op, n), Applied,
           UNCHANGED <<registered, discovery, closing>>,
           unsure \subseteq unsure' /\ unsure' \subseteq Nodes,
           clients' \subseteq Nodes /\ conns' \in [Nodes -> {0, 1}],
           \A m \in Nodes \ unsure' :
               IF m = n THEN m \in clients' <=> op = "put" ELSE m \in clients' <=> m \in clients
    PROVE  PTypes' /\ DiscoveryInv'
<1>1. PTypes'
  BY HandFacts DEF PInv, PTypes, Applied
<1>2. ASSUME NEW m \in Nodes \ unsure', Known(m) PROVE Known(m)'
  BY <1>2, AppliedKnown DEF PInv
<1>3. discovery # "new"
  BY DEF InHand, PInv, PTypes, DiscoveryInv
<1> QED
  BY <1>1, <1>2, <1>3 DEF PInv, DiscoveryInv

LEMMA ConnectKeeps ==
    ASSUME PInv, NEW n \in Nodes, Connect(n)
    PROVE  PTypes' /\ ClientsInv' /\ DiscoveryInv'
<1>1. Members' = Members \cup {n}
  BY MembersChange DEF PInv, IInv, Connect
<1>2. /\ conns' \in [Nodes -> {0, 1}] /\ conns'[n] = 1
      /\ \A m \in Nodes : m # n => conns'[m] = conns[m]
  BY DEF PInv, PTypes, ClientsInv, Connect
<1>3. ClientsInv'
  BY <1>1, <1>2 DEF PInv, ClientsInv, Connect, rest
<1>4. PTypes' /\ DiscoveryInv'
  <2>1. /\ InHand("put", n) /\ Applied /\ clients' = clients \cup {n}
        /\ UNCHANGED <<registered, discovery, closing, unsure>>
    BY DEF Connect, rest
  <2>2. clients' \subseteq Nodes /\ unsure' \subseteq Nodes
    BY <2>1 DEF PInv, PTypes
  <2> QED
    BY <1>2, <2>1, <2>2, AppliedKeeps
<1> QED
  BY <1>3, <1>4

LEMMA ConnectFailsKeeps ==
    ASSUME PInv, NEW n \in Nodes, ConnectFails(n)
    PROVE  PTypes' /\ ClientsInv' /\ DiscoveryInv'
<1>1. ClientsInv'
  BY DEF PInv, ClientsInv, Members, ConnectFails, vars, ring
<1>2. /\ InHand("put", n) /\ Applied /\ unsure' = unsure \cup {n}
      /\ UNCHANGED <<registered, discovery, closing, clients, conns>>
  BY DEF ConnectFails
<1>3. clients' \subseteq Nodes /\ unsure' \subseteq Nodes /\ conns' \in [Nodes -> {0, 1}]
  BY <1>2 DEF PInv, PTypes
<1> QED
  BY <1>1, <1>2, <1>3, AppliedKeeps

LEMMA ForgetKeeps ==
    ASSUME PInv, NEW n \in Nodes, Forget(n)
    PROVE  PTypes' /\ ClientsInv' /\ DiscoveryInv'
<1>1. ClientsInv'
  BY GoneKeepsClients DEF Forget, rest
<1>2. /\ InHand("delete", n) /\ Applied /\ clients' = clients \ {n}
      /\ UNCHANGED <<registered, discovery, closing, unsure>>
  BY DEF Forget, rest
<1>3. clients' \subseteq Nodes /\ unsure' \subseteq Nodes /\ conns' \in [Nodes -> {0, 1}]
  BY <1>2, HangupEffect DEF PInv, PTypes, Forget
<1> QED
  BY <1>1, <1>2, <1>3, AppliedKeeps

LEMMA ForgetUnknownKeeps ==
    ASSUME PInv, NEW n \in Nodes, ForgetUnknown(n)
    PROVE  PTypes' /\ ClientsInv' /\ DiscoveryInv'
<1>1. ClientsInv'
  BY DEF PInv, ClientsInv, Members, ForgetUnknown, vars, ring, rest
<1>2. /\ InHand("delete", n) /\ Applied /\ n \notin clients
      /\ UNCHANGED <<registered, discovery, closing, unsure, clients, conns>>
  BY DEF ForgetUnknown, rest
<1>3. clients' \subseteq Nodes /\ unsure' \subseteq Nodes /\ conns' \in [Nodes -> {0, 1}]
  BY <1>2 DEF PInv, PTypes
<1> QED
  BY <1>1, <1>2, <1>3, AppliedKeeps

LEMMA OthersKeep ==
    ASSUME PInv,
           \/ FetchFails \/ Watch \/ EndWatch \/ Receive \/ Cancel \/ Rebalance \/ EndPick
           \/ \E key \in Keys : PickPeer(key)
           \/ UNCHANGED pickerVars
    PROVE  PTypes' /\ ClientsInv' /\ DiscoveryInv'
<1>1. UNCHANGED ring
  BY OffRing DEF FetchFails, Watch, EndWatch, Receive, Cancel, Rebalance, EndPick, PickPeer, pickerVars, vars
<1>2. UNCHANGED <<registered, clients, conns>>
  BY DEF FetchFails, Watch, EndWatch, Receive, Cancel, Rebalance, EndPick, PickPeer, pickerVars, rest
<1>3. closing' = closing \/ Cancel
  BY DEF FetchFails, Watch, EndWatch, Receive, Rebalance, EndPick, PickPeer, pickerVars, rest
<1>4. ClientsInv'
  BY <1>1, <1>2, <1>3 DEF PInv, ClientsInv, Members, ring, Cancel
<1>5. CASE EndWatch
  BY <1>2, <1>4, <1>5 DEF EndWatch, PInv, PTypes, DiscoveryInv
<1>6. CASE ~EndWatch
  <2>1. UNCHANGED <<events, unsure>>
    BY <1>6 DEF FetchFails, Watch, Receive, Cancel, Rebalance, EndPick, PickPeer, pickerVars, rest
  <2>2. PTypes'
    BY <1>2, <1>6, <2>1
       DEF PInv, PTypes, FetchFails, Watch, Receive, Cancel, Rebalance, EndPick, PickPeer, pickerVars, rest
  <2>3. ASSUME NEW m \in Nodes, Known(m) PROVE Known(m)'
    BY <1>2, <2>1, <2>3 DEF Known, Last
  <2>4. /\ discovery' = "new" => discovery = "new"
        /\ discovery' \in {"fetched", "watching"} /\ closing' = "open" =>
               discovery \in {"fetched", "watching"} /\ closing = "open"
    BY <1>6 DEF FetchFails, Watch, Receive, Cancel, Rebalance, EndPick, PickPeer, pickerVars, rest
  <2> QED
    BY <1>2, <1>4, <2>1, <2>2, <2>3, <2>4 DEF PInv, DiscoveryInv
<1> QED
  BY <1>4, <1>5, <1>6

LEMMA ShutKeeps ==
    ASSUME PInv, Shut
    PROVE  PTypes' /\ ClientsInv' /\ DiscoveryInv'
<1>1. UNCHANGED <<registered, discovery, events, batch, clients, unsure>> /\ closing' = "shut"
  BY DEF Shut
<1>2. Members' = Members
  BY DEF Shut, Close, Members, ring
<1>3. conns' \in [Nodes -> {0, 1}] /\ \A n \in Nodes : n \notin clients => conns'[n] = conns[n]
  BY DEF PInv, PTypes, Shut
<1>4. PTypes'
  BY <1>1, <1>3 DEF PInv, PTypes
<1>5. ClientsInv'
  BY <1>1, <1>2, <1>3 DEF PInv, ClientsInv
<1> QED
  BY <1>1, <1>4, <1>5 DEF PInv, DiscoveryInv

LEMMA PickerInductive == PInv /\ [PickerNext]_pickerVars => PInv'
<1> SUFFICES ASSUME PInv, [PickerNext]_pickerVars PROVE PTypes' /\ ClientsInv' /\ DiscoveryInv'
  BY RingKept DEF PInv
<1>1. ASSUME NEW n \in Nodes, Register(n) \/ Unregister(n)
      PROVE  PTypes' /\ ClientsInv' /\ DiscoveryInv'
  <2>1. ClientsInv'
    BY <1>1 DEF PInv, ClientsInv, Members, Register, Unregister, vars, ring
  <2> DEFINE op == IF Register(n) THEN "put" ELSE "delete"
  <2>2. /\ op \in {"put", "delete"} /\ Notify(op, n)
        /\ registered' = IF op = "put" THEN registered \cup {n} ELSE registered \ {n}
        /\ UNCHANGED <<discovery, batch, clients, conns, closing>>
    BY <1>1 DEF Register, Unregister
  <2> HIDE DEF op
  <2>3. PTypes' /\ DiscoveryInv'
    BY <2>2, NotifyKeeps DEF PInv
  <2> QED
    BY <2>1, <2>3
<1>2. CASE Fetch
  <2>1. ClientsInv'
    BY <1>2 DEF PInv, ClientsInv, Members, Fetch, vars, ring
  <2> QED
    BY <1>2, <2>1, FetchKeeps
<1>3. ASSUME NEW n \in Nodes,
             DropOld(n) \/ Connect(n) \/ ConnectFails(n) \/ Forget(n) \/ ForgetUnknown(n)
      PROVE  PTypes' /\ ClientsInv' /\ DiscoveryInv'
  BY <1>3, DropOldKeeps, ConnectKeeps, ConnectFailsKeeps, ForgetKeeps, ForgetUnknownKeeps
<1> QED
  BY <1>1, <1>2, <1>3, ShutKeeps, OthersKeep DEF PickerNext
-----------------------------------------------------------------------------
LEMMA PickerInvariant == PickerSpec => []PInv
BY PickerInitPInv, PickerInductive, PTL DEF PickerSpec

(* The variables of the picker and of its ring keep their types: a node never
   has two open connections, also when it registers again (peers.go 239-261). *)
THEOREM PickerTypeCorrect == PickerSpec => [](PickerTypeOK /\ TypeOK)
<1>1. PInv => PickerTypeOK /\ TypeOK
  BY TypesOK DEF PInv, IInv, TInv
<1> QED
  BY <1>1, PickerInvariant, PTL

(* The picker keeps to what the ring needs of its callers, so its ring is exactly
   the virtual nodes of its members (peers.go 239-277, consistenthash.go 80-142). *)
THEOREM PickerRingMatches == PickerSpec => []RingMatchesNodes
<1>1. PInv => RingMatchesNodes
  BY DEF PInv, IInv
<1> QED
  BY <1>1, PickerInvariant, PTL

(* Whenever PickPeer can look, the nodes on the ring are those with a client
   (peers.go 239-261, 270-277).                                               *)
THEOREM RingFollowsClients == PickerSpec => []MembersHaveClients
<1>1. PInv => MembersHaveClients
  BY DEF PInv, ClientsInv, MembersHaveClients
<1> QED
  BY <1>1, PickerInvariant, PTL

(* Until Close every client has its one open connection and nothing else is
   open (peers.go 240-253, 205-207).                                          *)
THEOREM NoConnectionLeaks == PickerSpec => []ConnectionsAccounted
<1>1. PInv => ConnectionsAccounted
  BY DEF PInv, ClientsInv, ConnectionsAccounted
<1> QED
  BY <1>1, PickerInvariant, PTL

(* While the watch runs, a node whose last change the picker can know and has
   handled is known exactly if it is registered (peers.go 152-158, 187-233).  *)
THEOREM PickerConverges == PickerSpec => []Converges
<1>1. PInv => Converges
  <2> SUFFICES ASSUME PInv, Watching, NEW n \in Nodes \ unsure,
                      \A i \in DOMAIN events : events[i].n # n
               PROVE  n \in clients <=> n \in registered
    BY DEF Converges
  <2>1. Known(n)
    BY DEF PInv, DiscoveryInv, Watching
  <2>2. DOMAIN events = 1 .. Len(events)
    BY DEF PInv, PTypes
  <2> QED
    BY <2>1, <2>2 DEF Known, Last
<1> QED
  BY <1>1, PickerInvariant, PTL

(* On the ring of the picker too, only the keys of a node that joins or leaves
   move (consistenthash.go 22, 163-174; peers.go 239-277).                    *)
THEOREM PickerMovesOnlyNeeded == PickerSpec => MinimalDisruption
<1>1. ASSUME PInv, [PickerNext]_pickerVars, NEW key \in Keys
      PROVE  RouteMoves(key)
  <2>1. CASE UNCHANGED ring
    BY <2>1, RouteUnchanged DEF RouteMoves
  <2> QED
    BY <1>1, <2>1, RingSteps, OffRing, AddMovesRoutes, RemoveMovesRoutes DEF PInv
<1>2. PInv /\ [PickerNext]_pickerVars => [\A key \in Keys : RouteMoves(key)]_vars
  BY <1>1
<1>3. PickerSpec => [][\A key \in Keys : RouteMoves(key)]_vars
  BY <1>2, PickerInvariant, PTL DEF PickerSpec
<1> QED
  BY <1>3, PTL DEF MinimalDisruption, RouteMoves

(* The counters of the picker's ring add up as well, with PickPeers in place of
   the Gets (peers.go 267-271; consistenthash.go 136-137, 175-176, 252-256, 282-286). *)
THEOREM PickerCountsAddUp == PickerSpec => []CountsWithinTotal
<1>1. PickerInit => CountsInv
  BY CountsAtFirst DEF PickerInit
<1>2. PInv /\ PInv' /\ CountsInv /\ [PickerNext]_pickerVars => CountsInv'
  <2>1. Close \/ UNCHANGED vars => UNCHANGED load
    BY DEF Close, vars
  <2> QED
    BY <2>1, RingSteps, CountsKept DEF PInv, IInv
<1>3. PInv /\ CountsInv => CountsWithinTotal
  BY CountsByTotal DEF PInv, IInv
<1> QED
  BY <1>1, <1>2, <1>3, PickerInvariant, PTL DEF PickerSpec
=============================================================================
