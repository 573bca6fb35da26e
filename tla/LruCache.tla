------------------------------ MODULE LruCache ------------------------------
(* The LRU store (store/lru.go): a recency list, an items map and an expires
   map under one lock, bounded in bytes.  Every critical section is one step.
   A Get is two: it reads under the read lock and comes back under the write
   lock, to move the element it saw or to delete the key it found expired.

   The values are numbered in the order of their Sets.  An element is named by
   the Set that pushed it, so that a key deleted and set again has a new one.

   The callers are those Cache lets through: Cache.Clear holds the write lock of
   the cache, Cache.Get its read lock (cache.go:161, 280), so that no Clear runs
   between the halves of a Get.  Other callers may do that, and are not modelled:
   Clear leaves its elements thinking they are in the list (list.Init, lru.go:239),
   and a Get that moves one of them after its key was set again (lru.go:119-121)
   links it back in, next to a list of another length.                        *)
EXTENDS Integers, SequencesExt, FiniteSetsExt

CONSTANTS Procs,       \* goroutines that call Get
          Keys,
          Sizes,       \* len(key) + value.Len()
          Limits,      \* values of MaxBytes, 0 for no limit
          Durations,   \* the positive expirations
          MaxTime,     \* bound on the clock
          MaxVersion   \* bound on the Sets

ASSUME LruAssumption ==
    /\ Keys # {} /\ Sizes \subseteq Nat \ {0} /\ Limits \subseteq Nat /\ Limits # {}
    /\ MaxTime \in Nat \ {0} /\ Durations \subseteq 1 .. MaxTime
    /\ MaxVersion \in Nat

VARIABLES c,           \* list, items, expires and usedBytes of lruCache
          maxBytes, closed,
          now,
          pc, seen,    \* a Get between its halves: the key and its element
          expiry,      \* history: the expiry each value was Set with
          got,         \* the version the last step returned from Get, 0 for none
          reported     \* how often OnEvicted was called for each version

vars == <<c, maxBytes, closed, now, pc, seen, expiry, got, reported>>

Versions == 1 .. MaxVersion
Never == 2 * MaxTime + 1                          \* no clock reaches it
NoItem == [v |-> 0, elem |-> 0, size |-> 0]
NoElem == [k |-> CHOOSE k \in Keys : TRUE, elem |-> 0]

Expired(k) == now > c.expires[k]
Has(d, k) == d.items[k] # NoItem
Held(d) == {k \in Keys : Has(d, k)}
Bytes(d, S) == MapThenSumSet(LAMBDA k : d.items[k].size, S)

Init ==
    /\ c = [list |-> <<>>, items |-> [k \in Keys |-> NoItem],
            expires |-> [k \in Keys |-> Never], usedBytes |-> 0]
    /\ maxBytes \in Limits /\ closed = FALSE
    /\ now = 1
    /\ pc = [p \in Procs |-> "idle"]
    /\ seen = [p \in Procs |-> NoElem]
    /\ expiry = <<>>
    /\ got = 0
    /\ reported = [v \in Versions |-> 0]

\* l without the keys in S.
Without(l, S) ==
    LET kept[i \in 0 .. Len(l)] ==
          IF i = 0 THEN <<>>
          ELSE IF l[i] \in S THEN kept[i - 1] ELSE Append(kept[i - 1], l[i])
    IN kept[Len(l)]
MoveToBack(l, k) == Append(Without(l, {k}), k)

\* removeElement, for the keys in S.
Removed(d, S) ==
    [d EXCEPT !.list = Without(@, S),
              !.items = [k \in Keys |-> IF k \in S THEN NoItem ELSE @[k]],
              !.expires = [k \in Keys |-> IF k \in S THEN Never ELSE @[k]],
              !.usedBytes = @ - Bytes(d, S)]

\* How many keys evict takes from the front of l until the rest fits.
Excess(d, l, used, limit) ==
    LET fits(i) == limit = 0 \/ used - Bytes(d, ToSet(SubSeq(l, 1, i))) <= limit
    IN CHOOSE i \in 0 .. Len(l) : fits(i) /\ \A j \in 0 .. i - 1 : ~fits(j)

\* Faulty variant: evict looks only at the memory limit.
VictimsBySize(d, limit) ==
    ToSet(SubSeq(d.list, 1, Excess(d, d.list, d.usedBytes, limit)))

\* What evict removes: the expired keys, then from the front until it fits.
Victims(d, limit) ==
    LET old == {k \in Held(d) : now > d.expires[k]}
        rest == Without(d.list, old)
    IN old \cup ToSet(SubSeq(rest, 1, Excess(d, rest, d.usedBytes - Bytes(d, old), limit)))

\* c' is d without the keys in S, OnEvicted called for each.
RemoveElements(d, S) ==
    /\ c' = Removed(d, S)
    /\ reported' = [v \in Versions |->
                       IF \E k \in S : d.items[k].v = v THEN reported[v] + 1 ELSE reported[v]]

Tick ==
    /\ now < MaxTime
    /\ now' = now + 1 /\ got' = 0
    /\ UNCHANGED <<c, maxBytes, closed, pc, seen, expiry, reported>>

\* Key k takes its next value: size bytes, usedBytes grows by growth.
Overwritten(k, exp, size, growth) ==
    [c EXCEPT !.list = MoveToBack(@, k), !.expires[k] = exp,
              !.items[k].v = Len(expiry) + 1, !.items[k].size = size,
              !.usedBytes = @ + growth]

\* Faulty variant: the old and the new size are swapped.
UpdateSwapsSizes(k, exp, size) ==
    /\ Has(c, k)
    /\ c' = Overwritten(k, exp, size, c.items[k].size - size)
    /\ UNCHANGED reported

\* Faulty variant: OnEvicted is given the entry after it took the new value.
UpdateReportsEntry(k, exp, size) ==
    /\ Has(c, k)
    /\ c' = Overwritten(k, exp, size, size - c.items[k].size)
    /\ reported' = [reported EXCEPT ![Len(expiry) + 1] = @ + 1]

\* SetWithExpiration of a key that exists: no eviction, no callback.
Update(k, exp, size) ==
    /\ Has(c, k)
    /\ c' = Overwritten(k, exp, size, size - c.items[k].size)
    /\ UNCHANGED reported

\* ... and of a new one: push it, then evict, the new element itself if need be.
Insert(k, exp, size) ==
    LET v == Len(expiry) + 1
        d == [c EXCEPT !.list = Append(@, k), !.expires[k] = exp,
                       !.items[k] = [v |-> v, elem |-> v, size |-> size],
                       !.usedBytes = @ + size] IN
    /\ ~Has(c, k)
    /\ RemoveElements(d, Victims(d, maxBytes))

Set(k, exp, size) ==
    /\ Len(expiry) < MaxVersion
    /\ Update(k, exp, size) \/ Insert(k, exp, size)
    /\ expiry' = Append(expiry, exp)
    /\ got' = 0
    /\ UNCHANGED <<maxBytes, closed, now, pc, seen>>

\* Get under the read lock: a miss, an expired key, or a value.
GetMiss(p, k) ==
    /\ ~Has(c, k)
    /\ got' = 0
    /\ UNCHANGED <<pc, seen>>

GetExpired(p, k) ==
    /\ Has(c, k) /\ Expired(k)
    /\ pc' = [pc EXCEPT ![p] = "expired"]
    /\ seen' = [seen EXCEPT ![p].k = k]
    /\ got' = 0

\* Faulty variant: the expiry is not looked at.
GetHitAlways(p, k) ==
    /\ Has(c, k)
    /\ pc' = [pc EXCEPT ![p] = "touch"]
    /\ seen' = [seen EXCEPT ![p] = [k |-> k, elem |-> c.items[k].elem]]
    /\ got' = c.items[k].v

GetHit(p, k) ==
    /\ Has(c, k) /\ ~Expired(k)
    /\ pc' = [pc EXCEPT ![p] = "touch"]
    /\ seen' = [seen EXCEPT ![p] = [k |-> k, elem |-> c.items[k].elem]]
    /\ got' = c.items[k].v

Get(p, k) ==
    /\ pc[p] = "idle"
    /\ GetMiss(p, k) \/ GetExpired(p, k) \/ GetHit(p, k)
    /\ UNCHANGED <<c, maxBytes, closed, now, expiry, reported>>

EndGet(p) ==
    /\ pc' = [pc EXCEPT ![p] = "idle"]
    /\ seen' = [seen EXCEPT ![p] = NoElem]
    /\ got' = 0
    /\ UNCHANGED <<maxBytes, closed, now, expiry>>

\* Faulty variant: the key is not looked up again under the write lock.
TouchUnchecked(p) ==
    LET k == seen[p].k IN
    /\ pc[p] = "touch"
    /\ c' = [c EXCEPT !.list = MoveToBack(@, k)]
    /\ UNCHANGED reported
    /\ EndGet(p)

\* Get under the write lock: move the element, unless it is no longer in the list.
Touch(p) ==
    LET k == seen[p].k IN
    /\ pc[p] = "touch"
    /\ c' = IF Has(c, k) /\ c.items[k].elem = seen[p].elem
            THEN [c EXCEPT !.list = MoveToBack(@, k)] ELSE c
    /\ UNCHANGED reported
    /\ EndGet(p)

\* Get deletes the key it found expired, whatever the key holds by now.
DropExpired(p) ==
    LET k == seen[p].k IN
    /\ pc[p] = "expired"
    /\ RemoveElements(c, {k} \cap Held(c))
    /\ EndGet(p)

Delete(k) ==
    /\ RemoveElements(c, {k} \cap Held(c))
    /\ got' = 0
    /\ UNCHANGED <<maxBytes, closed, now, pc, seen, expiry>>

Clear ==
    /\ RemoveElements(c, Held(c))
    /\ got' = 0
    /\ UNCHANGED <<maxBytes, closed, now, pc, seen, expiry>>

UpdateExpiration(k, exp) ==
    /\ Has(c, k)
    /\ c' = [c EXCEPT !.expires[k] = exp]
    /\ expiry' = [expiry EXCEPT ![c.items[k].v] = exp]
    /\ got' = 0
    /\ UNCHANGED <<maxBytes, closed, now, pc, seen, reported>>

SetMaxBytes(limit) ==
    /\ maxBytes' = limit
    /\ RemoveElements(c, IF limit > 0 THEN Victims(c, limit) ELSE {})
    /\ got' = 0
    /\ UNCHANGED <<closed, now, pc, seen, expiry>>

\* The cleanup goroutine, a tick buffered before Close included.
Cleanup ==
    /\ RemoveElements(c, Victims(c, maxBytes))
    /\ got' = 0
    /\ UNCHANGED <<maxBytes, closed, now, pc, seen, expiry>>

Close ==
    /\ ~closed
    /\ closed' = TRUE /\ got' = 0
    /\ UNCHANGED <<c, maxBytes, now, pc, seen, expiry, reported>>

\* What Cache's lock sees to when it calls Clear.
NoGetInside == \A p \in Procs : pc[p] = "idle"

Expiries == {Never} \cup {now + d : d \in Durations}

Next ==
    \/ Tick \/ Cleanup \/ Close
    \/ NoGetInside /\ Clear
    \/ \E limit \in Limits : SetMaxBytes(limit)
    \/ \E k \in Keys :
          \/ Delete(k)
          \/ \E exp \in Expiries : UpdateExpiration(k, exp)
          \/ \E exp \in Expiries, size \in Sizes : Set(k, exp, size)
    \/ \E p \in Procs : Touch(p) \/ DropExpired(p) \/ \E k \in Keys : Get(p, k)

Spec == Init /\ [][Next]_vars

\* Until Close the ticker keeps firing.
FairSpec == Spec /\ WF_vars(~closed /\ Cleanup)
-----------------------------------------------------------------------------
TypeOK ==
    /\ c \in [list : Seq(Keys),
              items : [Keys -> [v : 0 .. MaxVersion, elem : 0 .. MaxVersion, size : Sizes \cup {0}]],
              expires : [Keys -> 1 .. Never],
              usedBytes : Nat]
    /\ maxBytes \in Limits /\ closed \in BOOLEAN
    /\ now \in 1 .. MaxTime
    /\ pc \in [Procs -> {"idle", "expired", "touch"}]
    /\ seen \in [Procs -> [k : Keys, elem : 0 .. MaxVersion]]
    /\ expiry \in Seq(1 .. Never) /\ Len(expiry) <= MaxVersion
    /\ got \in 0 .. Len(expiry)
    /\ reported \in [Versions -> Nat]

(* In a store used through Cache the list, the items map and the expires map stay
   in step, and usedBytes, kept by differences, is the size of what it holds: one
   element per key, and no expiry of a key that is gone, whichever Delete, eviction
   or Set ran between the halves of a Get; a Clear never does
   (lru.go 117-121, 144-169, 179-189, 205-223; cache.go 161, 280).            *)
StructuresAgree ==
    /\ Len(c.list) = Cardinality(ToSet(c.list))
    /\ ToSet(c.list) = Held(c)
    /\ \A k \in Keys : c.expires[k] # Never => Has(c, k)
    /\ c.usedBytes = Bytes(c, Held(c))

(* A Get returns a value only before the expiry last given to it
   (lru.go 100-112).                                                          *)
NeverServedExpired == got # 0 => now <= expiry[got]

(* OnEvicted is told of a value at most once, and never of one that the store
   still holds (lru.go 179-189, 231-237).                                     *)
ReportsFinal ==
    \A v \in Versions :
        reported[v] <= 1 /\ (reported[v] = 1 => \A k \in Keys : c.items[k].v # v)

(* The cleanup goroutine removes what has expired, until Close
   (lru.go 205-214, 253-264).                                                 *)
ExpiredDropped ==
    \A v \in Versions :
        (\E k \in Keys : c.items[k].v = v /\ Expired(k))
        ~> (closed \/ \A k \in Keys : c.items[k].v = v => ~Expired(k))

(* What the comment at lru.go:103 says Get deletes: an expired entry.         *)
OnlyExpiredDropped ==
    [][\A p \in Procs, k \in Keys :
          pc[p] = "expired" /\ pc'[p] = "idle" /\ Has(c, k) /\ ~(k \in Held(c)')
          => Expired(k)]_vars
=============================================================================
