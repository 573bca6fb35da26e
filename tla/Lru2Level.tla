----------------------------- MODULE Lru2Level -----------------------------
(* One level of a bucket of the LRU-2 store: the cache of store/lru2.go, a
   doubly linked list of array indices with a hash map.  Its methods run
   under the lock of the bucket, so each is one step.                        *)
EXTENDS Naturals, FiniteSets, Sequences

CONSTANTS Keys, Values,
          Expiries,   \* the positive expireAt values
          Cap,
          NoKey       \* the key of a node never used

ASSUME LevelAssumption ==
    /\ Cap \in Nat \ {0}
    /\ Values # {} /\ 0 \notin Expiries /\ NoKey \notin Keys

VARIABLES dlnk,       \* <<previous, next>> per index; index 0 is the sentinel
          m,          \* the nodes, 1 .. Cap
          hmap,       \* the index of a key, 0 for none
          last        \* nodes allocated so far

vars == <<dlnk, m, hmap, last>>

Indices == 0 .. Cap
p == 1                \* the columns of dlnk, counted from 1
n == 2

Node(k, v, exp) == [k |-> k, v |-> v, exp |-> exp]

Init ==
    /\ dlnk = [i \in Indices |-> <<0, 0>>]
    /\ m = [i \in 1 .. Cap |-> Node(NoKey, CHOOSE v \in Values : TRUE, 0)]
    /\ hmap = [k \in Keys |-> 0]
    /\ last = 0

Link(d, i, column, j) == [d EXCEPT ![i][column] = j]

\* Faulty variant: the neighbour towards t keeps pointing at the moved node.
AdjustHalf(d, i, f, t) ==
    IF d[i][f] = 0 THEN d
    ELSE LET d2 == Link(d, d[i][f], t, d[i][t])
             d3 == Link(d2, i, f, 0)
             d4 == Link(d3, i, t, d3[0][t])
             d5 == Link(d4, d4[0][t], f, i)
         IN Link(d5, 0, t, i)

\* adjust: unlink i and link it at the end named t, unless it is there.
Adjust(d, i, f, t) ==
    IF d[i][f] = 0 THEN d
    ELSE LET d1 == Link(d, d[i][t], f, d[i][f])
             d2 == Link(d1, d1[i][f], t, d1[i][t])
             d3 == Link(d2, i, f, 0)
             d4 == Link(d3, i, t, d3[0][t])
             d5 == Link(d4, d4[0][t], f, i)
         IN Link(d5, 0, t, i)

ToFront(i) == Adjust(dlnk, i, p, n)
ToBack(i) == Adjust(dlnk, i, n, p)

PutExisting(k, v, exp) ==
    /\ hmap[k] # 0
    /\ m' = [m EXCEPT ![hmap[k]] = Node(k, v, exp)]
    /\ dlnk' = ToFront(hmap[k])
    /\ UNCHANGED <<hmap, last>>

PutFull(k, v, exp) ==
    /\ hmap[k] = 0
    /\ last = Cap
    /\ LET tail == dlnk[0][p] IN
       /\ hmap' = [hmap EXCEPT ![m[tail].k] = 0, ![k] = tail]
       /\ m' = [m EXCEPT ![tail] = Node(k, v, exp)]
       /\ dlnk' = ToFront(tail)
    /\ UNCHANGED last

\* A node never used, linked in at the front.
Allocate(k, v, exp) ==
    /\ last' = last + 1
    /\ LET d1 == IF \A j \in Keys : hmap[j] = 0
                 THEN Link(dlnk, 0, p, last')
                 ELSE Link(dlnk, dlnk[0][n], p, last')
           d2 == [d1 EXCEPT ![last'] = <<0, d1[0][n]>>]
       IN dlnk' = Link(d2, 0, n, last')
    /\ m' = [m EXCEPT ![last'] = Node(k, v, exp)]
    /\ hmap' = [hmap EXCEPT ![k] = last']

\* Faulty variant: the check for a full level is off by one.
PutFreshOverruns(k, v, exp) == hmap[k] = 0 /\ last <= Cap /\ Allocate(k, v, exp)

PutFresh(k, v, exp) == hmap[k] = 0 /\ last < Cap /\ Allocate(k, v, exp)

Put(k, v, exp) == PutExisting(k, v, exp) \/ PutFull(k, v, exp) \/ PutFresh(k, v, exp)

Get(k) ==
    /\ hmap[k] # 0
    /\ dlnk' = ToFront(hmap[k])
    /\ UNCHANGED <<m, hmap, last>>

\* Faulty variant: a deleted node keeps its place.
DelInPlace(k) ==
    /\ hmap[k] # 0 /\ m[hmap[k]].exp > 0
    /\ m' = [m EXCEPT ![hmap[k]].exp = 0]
    /\ UNCHANGED <<dlnk, hmap, last>>

Del(k) ==
    /\ hmap[k] # 0 /\ m[hmap[k]].exp > 0
    /\ m' = [m EXCEPT ![hmap[k]].exp = 0]
    /\ dlnk' = ToBack(hmap[k])
    /\ UNCHANGED <<hmap, last>>

Next ==
    \E k \in Keys :
        \/ \E v \in Values, exp \in Expiries : Put(k, v, exp)
        \/ Get(k)
        \/ Del(k)

Spec == Init /\ [][Next]_vars
-----------------------------------------------------------------------------
\* The indices met in d from the sentinel along a column, at most Cap of them.
Walk(d, column) ==
    LET at[i \in 0 .. Cap] == IF i = 0 THEN d[0][column] ELSE d[at[i - 1]][column]
        met == {i \in 0 .. Cap - 1 : \A j \in 0 .. i : at[j] # 0}
    IN [i \in 1 .. Cardinality(met) |-> at[i - 1]]

TypeOK ==
    /\ dlnk \in [Indices -> Indices \X Indices]
    /\ m \in [1 .. Cap -> [k : Keys \cup {NoKey}, v : Values, exp : Expiries \cup {0}]]
    /\ hmap \in [Keys -> Indices]
    /\ last \in Indices

\* The two directions of the list agree; every allocated node is on it once.
ListSound ==
    LET w == Walk(dlnk, n) IN
    /\ Len(w) = last
    /\ {w[i] : i \in 1 .. Len(w)} = 1 .. last
    /\ Walk(dlnk, p) = [i \in 1 .. Len(w) |-> w[Len(w) + 1 - i]]

\* hmap names exactly the allocated nodes, each by the key it holds.
MapSound ==
    /\ \A k \in Keys : hmap[k] # 0 => hmap[k] <= last /\ m[hmap[k]].k = k
    /\ \A i \in 1 .. last : m[i].k \in Keys /\ hmap[m[i].k] = i

(* After any sequence of put, get and del the list and the map are sound, nodes
   handed from key to key at the tail included (lru2.go adjust and put,
   380-420, 463-475).                                                         *)
LevelSound == ListSound /\ MapSound

listBar == LET w == Walk(dlnk, n) IN [i \in 1 .. Len(w) |-> m[w[i]]]

List == INSTANCE RecencyList WITH list <- listBar

\* The index arithmetic implements a bounded recency list.
ImplementsRecencyList == List!ListSpec
=============================================================================
