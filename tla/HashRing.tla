------------------------------ MODULE HashRing ------------------------------
(* The hash ring (consistenthash/consistenthash.go) and its balancer goroutine.
   Add and Remove hold the lock of the map from start to end, so each is one
   step.  A Get counts its request by two atomic adds under the read lock; the
   balancer looks at the counters one by one under the read lock, next to the
   Gets, releases it, and rebalances under the write lock.

   The sorted slice of hashes is the count of each hash; the loads are ratios
   of integers, where the code divides floats.                               *)
EXTENDS Integers, FiniteSetsExt

CONSTANTS Nodes, NoNode,
          Keys,            \* keys looked up
          Hashes,          \* the range of HashFunc, numbers
          HashOf,          \* HashOf[node][i]: the hash of "node-i"
          KeyHash,         \* KeyHash[key]
          DefaultReplicas, MinReplicas, MaxReplicas,
          Threshold,       \* LoadBalanceThreshold, in percent
          MinRequests,     \* the sample checkAndRebalance waits for (1000)
          MaxRequests,     \* bound on the requests counted
          Readded          \* nodes added again while present; ClientPicker has none

ASSUME RingAssumption ==
    /\ NoNode \notin Nodes
    /\ Hashes \subseteq Nat
    /\ MinReplicas \in Nat \ {0} /\ DefaultReplicas \in Nat /\ MaxReplicas \in Nat
    /\ MinReplicas <= DefaultReplicas /\ DefaultReplicas <= MaxReplicas
    /\ HashOf \in [Nodes -> [0 .. MaxReplicas - 1 -> Hashes]]
    /\ KeyHash \in [Keys -> Hashes]
    /\ MinRequests \in Nat \ {0} /\ MaxRequests \in Nat
    /\ Threshold \in Nat /\ Readded \subseteq Nodes

\* No two virtual nodes have the same hash.
ASSUME NoCollisions ==
    \A a, b \in Nodes, i, j \in 0 .. MaxReplicas - 1 :
        HashOf[a][i] = HashOf[b][j] => a = b /\ i = j

\* The balancer counts the members.
ASSUME FiniteNodes == IsFiniteSet(Nodes)

VARIABLES keys,            \* how often a hash is in the slice
          hashMap,         \* the node of a hash, NoNode for none
          nodeReplicas,    \* 0 for a node that is not on the ring
          nodeCounts, totalRequests,
          adding,          \* Gets that have counted the node and not yet the total
          balancer,        \* where the balancer goroutine is
          todo,            \* the nodes it still has to look at or adjust
          seen,            \* what it has found under the read lock
          closed

ring == <<keys, hashMap, nodeReplicas>>
load == <<nodeCounts, totalRequests, adding>>
vars == <<ring, load, balancer, todo, seen, closed>>

Members == {n \in Nodes : nodeReplicas[n] > 0}
HashesOf(n, replicas) == {HashOf[n][i] : i \in 0 .. replicas - 1}

\* The balancer has the write lock; nobody else keeps that one between steps.
Locked == balancer \in {"adjust", "remove"}

\* Nobody has the lock, neither for writing nor for reading.
Free == ~Locked /\ balancer # "look" /\ adding = 0

Nothing == [total |-> 0, wide |-> FALSE]

Init ==
    /\ keys = [h \in Hashes |-> 0]
    /\ hashMap = [h \in Hashes |-> NoNode]
    /\ nodeReplicas = [n \in Nodes |-> 0]
    /\ nodeCounts = [n \in Nodes |-> 0]
    /\ totalRequests = 0
    /\ adding = 0
    /\ balancer = "idle"
    /\ todo = {}
    /\ seen = Nothing
    /\ closed = FALSE

\* addNode, then the sort.
Add(n) ==
    /\ Free
    /\ n \in Members => n \in Readded
    /\ LET new == HashesOf(n, DefaultReplicas) IN
       /\ keys' = [h \in Hashes |-> IF h \in new THEN keys[h] + 1 ELSE keys[h]]
       /\ hashMap' = [h \in Hashes |-> IF h \in new THEN n ELSE hashMap[h]]
    /\ nodeReplicas' = [nodeReplicas EXCEPT ![n] = DefaultReplicas]
    /\ UNCHANGED <<load, balancer, todo, seen, closed>>

\* The node leaves with its first virtual nodes: one occurrence of each hash.
TakeOff(n, replicas) ==
    /\ n \in Members
    /\ LET old == HashesOf(n, replicas) IN
       /\ keys' = [h \in Hashes |-> IF h \in old /\ keys[h] > 0 THEN keys[h] - 1 ELSE keys[h]]
       /\ hashMap' = [h \in Hashes |-> IF h \in old THEN NoNode ELSE hashMap[h]]
    /\ nodeReplicas' = [nodeReplicas EXCEPT ![n] = 0]
    /\ nodeCounts' = [nodeCounts EXCEPT ![n] = 0]
    /\ UNCHANGED <<totalRequests, adding, balancer, todo, seen, closed>>

\* Faulty variant: the lock is not taken.
RemoveUnlocked(n) == TakeOff(n, nodeReplicas[n])

Remove(n) == Free /\ TakeOff(n, nodeReplicas[n])

Placed == {h \in Hashes : keys[h] > 0}
First(S) == CHOOSE h \in S : \A g \in S : h <= g

\* Faulty variant: the hash picks the slot by its remainder.
SlotByRemainder(hash) ==
    CHOOSE h \in Placed : Cardinality({g \in Placed : g < h}) = hash % Cardinality(Placed)

\* The first virtual node at or after a hash, round the end of the slice.
Slot(hash) ==
    LET after == {h \in Placed : h >= hash} IN
    IF after # {} THEN First(after) ELSE First(Placed)

\* The node a key is routed to, NoNode on an empty ring.
Route(key) == IF Placed = {} THEN NoNode ELSE hashMap[Slot(KeyHash[key])]

\* Get of a routed key takes the read lock and counts the request of the node,
Get(key) ==
    /\ ~Locked
    /\ totalRequests + adding < MaxRequests
    /\ Route(key) # NoNode
    /\ nodeCounts' = [nodeCounts EXCEPT ![Route(key)] = @ + 1]
    /\ adding' = adding + 1
    /\ UNCHANGED <<ring, totalRequests, balancer, todo, seen, closed>>

\* and then that of the ring, and gives the lock back.
GetTotal ==
    /\ adding > 0
    /\ totalRequests' = totalRequests + 1
    /\ adding' = adding - 1
    /\ UNCHANGED <<ring, nodeCounts, balancer, todo, seen, closed>>

(* checkAndRebalance takes the read lock and reads the total.  It has read it
   before, without the lock; only the balancer makes the total smaller, so that
   a sample that was large enough still is.                                  *)
CheckLoad ==
    /\ balancer = "idle"
    /\ totalRequests >= MinRequests
    /\ Members # {}
    /\ balancer' = "look"
    /\ todo' = Members
    /\ seen' = [total |-> totalRequests, wide |-> FALSE]
    /\ UNCHANGED <<ring, load, closed>>

Abs(x) == IF x < 0 THEN -x ELSE x

\* The node's load is further from the average than the threshold.
Wide(n) ==
    100 * Abs(nodeCounts[n] * Cardinality(Members) - seen.total) > Threshold * seen.total

\* One counter after the other, while Gets go on counting.
LookAt(n) ==
    /\ balancer = "look" /\ n \in todo
    /\ todo' = todo \ {n}
    /\ seen' = [seen EXCEPT !.wide = @ \/ Wide(n)]
    /\ UNCHANGED <<ring, load, balancer, closed>>

\* The read lock goes, and what was seen decides.
EndLook ==
    /\ balancer = "look" /\ todo = {}
    /\ balancer' = IF seen.wide THEN "rebalance" ELSE "idle"
    /\ seen' = Nothing
    /\ UNCHANGED <<ring, load, todo, closed>>

\* rebalanceNodes takes the write lock, once no Get is inside.
BeginRebalance ==
    /\ balancer = "rebalance" /\ adding = 0
    /\ balancer' = "adjust"
    /\ todo' = Members
    /\ UNCHANGED <<ring, load, seen, closed>>

\* The replicas a node should have, between the limits.
NewReplicas(n) ==
    LET share == nodeCounts[n] * Cardinality(Members)
        wanted == IF share > totalRequests
                  THEN (nodeReplicas[n] * totalRequests) \div share
                  ELSE (nodeReplicas[n] * (2 * totalRequests - share)) \div totalRequests
        atLeast == IF wanted < MinReplicas THEN MinReplicas ELSE wanted
    IN IF atLeast > MaxReplicas THEN MaxReplicas ELSE atLeast

KeepReplicas(n) ==
    /\ balancer = "adjust" /\ n \in todo
    /\ NewReplicas(n) = nodeReplicas[n]
    /\ todo' = todo \ {n}
    /\ UNCHANGED <<ring, load, balancer, seen, closed>>

\* m.Remove(node), which waits for the lock that rebalanceNodes holds: the
\* balancer has no step after this one.
CallRemove(n) ==
    /\ balancer = "adjust" /\ n \in todo
    /\ NewReplicas(n) # nodeReplicas[n]
    /\ balancer' = "remove"
    /\ UNCHANGED <<ring, load, todo, seen, closed>>

\* Faulty variant: the counters of the nodes are not reset.
EndRebalanceKeepsCounts ==
    /\ balancer = "adjust" /\ todo = {}
    /\ totalRequests' = 0
    /\ balancer' = "idle"
    /\ UNCHANGED <<ring, nodeCounts, adding, todo, seen, closed>>

EndRebalance ==
    /\ balancer = "adjust" /\ todo = {}
    /\ nodeCounts' = [n \in Nodes |-> 0]
    /\ totalRequests' = 0
    /\ balancer' = "idle"
    /\ UNCHANGED <<ring, adding, todo, seen, closed>>

Close ==
    /\ ~closed
    /\ closed' = TRUE
    /\ UNCHANGED <<ring, load, balancer, todo, seen>>

\* The balancer sees done; select may first take a tick that is due as well.
Quit ==
    /\ closed /\ balancer = "idle"
    /\ balancer' = "gone"
    /\ UNCHANGED <<ring, load, todo, seen, closed>>

Balance ==
    \/ CheckLoad \/ EndLook \/ BeginRebalance \/ EndRebalance \/ Quit
    \/ \E n \in Nodes : LookAt(n) \/ KeepReplicas(n) \/ CallRemove(n)

Next ==
    \/ \E n \in Nodes : Add(n) \/ Remove(n)
    \/ \E key \in Keys : Get(key)
    \/ GetTotal
    \/ Balance
    \/ Close

Spec == Init /\ [][Next]_vars

\* The balancer goroutine runs, and so does a Get that has begun to count.
FairSpec == Spec /\ WF_vars(Balance) /\ WF_vars(GetTotal)
-----------------------------------------------------------------------------
TypeOK ==
    /\ keys \in [Hashes -> Nat]
    /\ hashMap \in [Hashes -> Nodes \cup {NoNode}]
    /\ nodeReplicas \in [Nodes -> {0} \cup MinReplicas .. MaxReplicas]
    /\ nodeCounts \in [Nodes -> Nat] /\ totalRequests \in Nat /\ adding \in Nat
    /\ balancer \in {"idle", "look", "rebalance", "adjust", "remove", "gone"}
    /\ todo \subseteq Members
    /\ seen \in [total : Nat, wide : BOOLEAN]
    /\ closed \in BOOLEAN

(* After any sequence of Add and Remove the ring holds the virtual nodes of its
   members, each once and owned by its node, and nothing else: Get never meets
   a hash without an owner, whose counter it would dereference as nil
   (consistenthash.go 124-137, 174-175, 184-194).                             *)
RingMatchesNodes ==
    \A h \in Hashes :
        LET owners == {n \in Nodes : h \in HashesOf(n, nodeReplicas[n])} IN
        IF owners = {} THEN keys[h] = 0 /\ hashMap[h] = NoNode
        ELSE keys[h] = 1 /\ hashMap[h] \in owners

(* A node that joins takes keys from the others and a node that leaves hands on
   its own; no other key changes its node (the promise of consistenthash.go:22,
   kept by the search of Get, 163-174).                                       *)
MinimalDisruption ==
    [][ring' # ring =>
         \A key \in Keys :
            Route(key)' # Route(key) =>
               \/ Route(key)' \in Members' \ Members
               \/ Route(key) \in Members \ Members']_vars

(* The counters of the nodes are ahead of the total only by the requests of the
   Gets between their two adds.  So a rebalancing, which waits for those, never
   divides counts that claim more requests than the total, through Remove, a node
   that joins again and the reset after a rebalancing; the balancer's look under
   the read lock may (consistenthash.go 136-137, 175-176, 217-222, 252-256, 282-286). *)
CountsWithinTotal ==
    LET counted == MapThenSumSet(LAMBDA n : nodeCounts[n], Nodes) IN
    /\ counted <= totalRequests + adding
    /\ Locked => counted <= totalRequests

(* What the comment at consistenthash.go:244 says of rebalanceNodes: it ends by
   resetting all counters, and the next period begins.                        *)
RebalanceCompletes == balancer = "rebalance" ~> balancer \in {"idle", "gone"}
=============================================================================
