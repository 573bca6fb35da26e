------------------------------ MODULE Recency ------------------------------
(* A level of the LRU-2 store as a sequence of nodes, most recently used
   first: what cache.put, get and del of store/lru2.go do, without indices.
   A node is [k, v, exp]; exp = 0 marks a node that is deleted but keeps its
   place until it is reused.                                                 *)
EXTENDS Naturals, SequencesExt

Node(k, v, exp) == [k |-> k, v |-> v, exp |-> exp]

NodeKeys(s) == {s[i].k : i \in DOMAIN s}
Has(s, k) == \E i \in DOMAIN s : s[i].k = k
PlaceOf(s, k) == CHOOSE i \in DOMAIN s : s[i].k = k
NodeOf(s, k) == s[PlaceOf(s, k)]
Alive(s, k) == \E i \in DOMAIN s : s[i].k = k /\ s[i].exp > 0
Live(s) == {s[i] : i \in {j \in DOMAIN s : s[j].exp > 0}}
Without(s, k) == RemoveAt(s, PlaceOf(s, k))

\* The node a put of k overwrites: the tail of a full level.
Reuses(s, k, cap) == ~Has(s, k) /\ Len(s) = cap
LastNode(s) == s[Len(s)]

\* The live nodes a put of k evicts: none or one.
EvictedBy(s, k, cap) ==
    IF Reuses(s, k, cap) /\ LastNode(s).exp > 0 THEN {LastNode(s)} ELSE {}

PutNode(s, k, v, exp, cap) ==
    <<Node(k, v, exp)>> \o
      IF Has(s, k) THEN Without(s, k)
      ELSE IF Reuses(s, k, cap) THEN SubSeq(s, 1, Len(s) - 1) ELSE s

\* A lookup moves the node to the front, also one that is deleted.
Touch(s, k) == IF Has(s, k) THEN <<NodeOf(s, k)>> \o Without(s, k) ELSE s

\* A deletion moves the node to the end, to be reused first.
Kill(s, k) ==
    IF Alive(s, k) THEN Append(Without(s, k), Node(k, NodeOf(s, k).v, 0)) ELSE s
=============================================================================
