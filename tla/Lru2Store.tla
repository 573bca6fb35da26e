----------------------------- MODULE Lru2Store -----------------------------
(* The LRU-2 store (store/lru2.go): keys hash to buckets, a bucket has a lock
   and two levels, a write goes to level 1 and a read promotes to level 2.
   Each critical section of a bucket's lock is one step; what happens between
   two of them (the expiry a Set computes before it locks, the keys Clear still
   has to delete, the buckets a cleanup pass still has to visit) is open to the
   other goroutines.  OnEvicted is called after the unlock and cannot reach into
   the levels: the model records a call when it becomes due.

   The values are numbered in the order of their Sets, so that old and new can
   be told apart.  The levels are those of Recency, which Lru2Level implements. *)
EXTENDS Recency, FiniteSets

CONSTANTS Procs,       \* goroutines that call the store
          Clearers,    \* those of them that call Clear
          Keys,
          NoSet,       \* no Set in progress
          BucketCount,
          BucketOf,    \* hashBKRD(key) & mask, counted from 1
          L1Cap, L2Cap,
          Durations,   \* the positive expirations
          MaxTime,     \* bound on the clock
          MaxVersion   \* bound on the Sets

Buckets == 1 .. BucketCount

ASSUME StoreAssumption ==
    /\ Clearers \subseteq Procs
    /\ BucketOf \in [Keys -> Buckets]
    /\ L1Cap \in Nat \ {0} /\ L2Cap \in Nat \ {0}
    /\ Durations \subseteq 1 .. MaxTime
    /\ BucketCount \in Nat \ {0} /\ MaxTime \in Nat \ {0} /\ MaxVersion \in Nat

VARIABLES now,         \* the clock of lru2.go:284
          level,       \* level[b] = <<level 1, level 2>> of bucket b
          closed,      \* closeCh is closed
          log,         \* history: key and expiry of each Set, in order
          pc,
          set,         \* the key and expiry of the Set a goroutine is in
          at, keys,    \* Clear: next bucket to collect from, keys to delete
          since,       \* Clear: the Sets before it began
          got,         \* the version the last step returned from Get, 0 for none
          sweepAt, sweepTime,   \* the cleanup goroutine's pass, 0 between passes
          reported,    \* how often OnEvicted was called for each version
          forgotten    \* history: versions of a key up to this were deleted

clear == <<at, keys, since>>
sweep == <<sweepAt, sweepTime>>
vars == <<now, level, closed, log, pc, set, clear, got, sweep, reported, forgotten>>

Versions == 1 .. MaxVersion
Forever == 2 * MaxTime + 1          \* math.MaxInt64: no clock reaches it

Expired(e, t) == t >= e.exp

Init ==
    /\ now = 1
    /\ level = [b \in Buckets |-> <<<<>>, <<>>>>]
    /\ closed = FALSE
    /\ log = <<>>
    /\ pc = [p \in Procs |-> "idle"]
    /\ set = [p \in Procs |-> NoSet]
    /\ at = [p \in Procs |-> 1]
    /\ keys = [p \in Procs |-> {}]
    /\ since = [p \in Procs |-> 0]
    /\ got = 0
    /\ sweepAt = 0 /\ sweepTime = 0
    /\ reported = [v \in Versions |-> 0]
    /\ forgotten = [k \in Keys |-> 0]

Goto(p, label) == pc' = [pc EXCEPT ![p] = label]

\* OnEvicted is due for these versions.
Report(versions) ==
    reported' = [v \in Versions |-> IF v \in versions THEN reported[v] + 1 ELSE reported[v]]

\* The clock goroutine of lru2.go:287.
Tick ==
    /\ now < MaxTime
    /\ now' = now + 1 /\ got' = 0
    /\ UNCHANGED <<level, closed, log, pc, set, clear, sweep, reported, forgotten>>

\* SetWithExpiration up to the lock: the expiry is computed from the clock.
\* One that the bounded clock does not reach is left out: it is as good as none.
BeginSet(p) ==
    /\ pc[p] = "idle"
    /\ Len(log) + Cardinality({q \in Procs : pc[q] = "put"}) < MaxVersion
    /\ \E k \in Keys, exp \in {Forever} \cup {now + d : d \in Durations} :
          /\ exp <= MaxTime \/ exp = Forever
          /\ set' = [set EXCEPT ![p] = [k |-> k, exp |-> exp]]
    /\ Goto(p, "put") /\ got' = 0
    /\ UNCHANGED <<now, level, closed, log, clear, sweep, reported, forgotten>>

\* Faulty variant: a new node joins a full level without taking over its tail.
PutSetOverfull(p) ==
    LET k == set[p].k
        b == BucketOf[k]
        l1 == level[b][1] IN
    /\ pc[p] = "put"
    /\ log' = Append(log, set[p])
    /\ level' = [level EXCEPT ![b][1] = PutNode(l1, k, Len(log'), set[p].exp, L1Cap + 1)]
    /\ Report({e.v : e \in EvictedBy(l1, k, L1Cap + 1)})
    /\ set' = [set EXCEPT ![p] = NoSet]
    /\ Goto(p, "idle") /\ got' = 0
    /\ UNCHANGED <<now, closed, clear, sweep, forgotten>>

\* ... and its critical section: always into level 1.
PutSet(p) ==
    LET k == set[p].k
        b == BucketOf[k]
        l1 == level[b][1] IN
    /\ pc[p] = "put"
    /\ log' = Append(log, set[p])
    /\ level' = [level EXCEPT ![b][1] = PutNode(l1, k, Len(log'), set[p].exp, L1Cap)]
    /\ Report({e.v : e \in EvictedBy(l1, k, L1Cap)})
    /\ set' = [set EXCEPT ![p] = NoSet]
    /\ Goto(p, "idle") /\ got' = 0
    /\ UNCHANGED <<now, closed, clear, sweep, forgotten>>

\* Faulty variant: delete leaves level 2 alone when level 1 has the key.
KilledFirst(b, k) ==
    IF Alive(level[b][1], k) THEN <<Kill(level[b][1], k), level[b][2]>>
                             ELSE <<level[b][1], Kill(level[b][2], k)>>

\* delete of lru2.go:494: both levels, and the one version it reports.
Killed(b, k) == <<Kill(level[b][1], k), Kill(level[b][2], k)>>
ReportOf(b, k) ==
    IF Alive(level[b][1], k) THEN {NodeOf(level[b][1], k).v}
    ELSE IF Alive(level[b][2], k) THEN {NodeOf(level[b][2], k).v} ELSE {}

\* A Get leaves levels l1 and l2, reports versions and returns v.
Found(b, l1, l2, versions, v) ==
    /\ level' = [level EXCEPT ![b] = <<l1, l2>>]
    /\ Report(versions)
    /\ got' = v

\* Get finds the key in level 1 past its expiry: only level 2 can have a report.
GetExpired(k) ==
    LET b == BucketOf[k]
        l1 == level[b][1]
        l2 == level[b][2] IN
    /\ Alive(l1, k) /\ Expired(NodeOf(l1, k), now)
    /\ Found(b, Kill(l1, k), Kill(l2, k), IF Alive(l2, k) THEN {NodeOf(l2, k).v} ELSE {}, 0)

\* The node e of k goes to level 2 with expiry exp; l1 is what is left of level 1.
Promote(k, l1, e, exp) ==
    LET b == BucketOf[k]
        l2 == level[b][2] IN
    Found(b, l1, PutNode(l2, k, e.v, exp, L2Cap), {f.v : f \in EvictedBy(l2, k, L2Cap)}, e.v)

\* Faulty variant: the promoted node stays in level 1 as well.
GetCopies(k) ==
    LET l1 == level[BucketOf[k]][1]
        e == NodeOf(l1, k) IN
    /\ Alive(l1, k) /\ ~Expired(e, now)
    /\ Promote(k, l1, e, e.exp)

\* Faulty variant: promotion stores the value as if Set without expiry.
GetPromotesForever(k) ==
    LET l1 == level[BucketOf[k]][1]
        e == NodeOf(l1, k) IN
    /\ Alive(l1, k) /\ ~Expired(e, now)
    /\ Promote(k, Kill(l1, k), e, Forever)

\* Get finds the key in level 1: promote it.
GetPromotes(k) ==
    LET l1 == level[BucketOf[k]][1]
        e == NodeOf(l1, k) IN
    /\ Alive(l1, k) /\ ~Expired(e, now)
    /\ Promote(k, Kill(l1, k), e, e.exp)

\* Get looks in level 2; an expired or deleted node is a miss but moves to the front.
GetLevel2(k) ==
    LET b == BucketOf[k]
        l2 == level[b][2]
        hit == Alive(l2, k) /\ ~Expired(NodeOf(l2, k), now) IN
    /\ ~Alive(level[b][1], k)
    /\ Found(b, level[b][1], Touch(l2, k), {}, IF hit THEN NodeOf(l2, k).v ELSE 0)

Get(p, k) ==
    /\ pc[p] = "idle"
    /\ GetExpired(k) \/ GetPromotes(k) \/ GetLevel2(k)
    /\ UNCHANGED <<now, closed, log, pc, set, clear, sweep, forgotten>>

\* The latest of the first n Sets that was of key k, 0 if there is none.
LatestSet(k, n) == Max({0} \cup {v \in 1 .. n : log[v].k = k})

DeleteKey(k) ==
    /\ level' = [level EXCEPT ![BucketOf[k]] = Killed(BucketOf[k], k)]
    /\ Report(ReportOf(BucketOf[k], k))
    /\ forgotten' = [forgotten EXCEPT ![k] = LatestSet(k, Len(log))]
    /\ got' = 0

Delete(p, k) ==
    /\ pc[p] = "idle"
    /\ DeleteKey(k)
    /\ UNCHANGED <<now, closed, log, pc, set, clear, sweep>>

BeginClear(p) ==
    /\ p \in Clearers /\ pc[p] = "idle"
    /\ since' = [since EXCEPT ![p] = Len(log)]
    /\ Goto(p, "collect") /\ got' = 0
    /\ UNCHANGED <<now, level, closed, log, set, at, keys, sweep, reported, forgotten>>

\* Clear collects the live keys of one bucket after the other ...
Collect(p) ==
    /\ pc[p] = "collect"
    /\ keys' = [keys EXCEPT ![p] = @ \cup
                  UNION {{e.k : e \in Live(level[at[p]][i])} : i \in {1, 2}}]
    /\ IF at[p] < BucketCount
       THEN at' = [at EXCEPT ![p] = @ + 1] /\ UNCHANGED pc
       ELSE at' = [at EXCEPT ![p] = 1] /\ Goto(p, "clear")
    /\ got' = 0
    /\ UNCHANGED <<now, level, closed, log, set, since, sweep, reported, forgotten>>

\* ... then deletes them one by one.
ClearKey(p, k) ==
    /\ pc[p] = "clear"
    /\ k \in keys[p]
    /\ DeleteKey(k)
    /\ keys' = [keys EXCEPT ![p] = @ \ {k}]
    /\ UNCHANGED <<now, closed, log, pc, set, at, since, sweep>>

EndClear(p) ==
    /\ pc[p] = "clear" /\ keys[p] = {}
    /\ forgotten' = [k \in Keys |-> Max({forgotten[k], LatestSet(k, since[p])})]
    /\ since' = [since EXCEPT ![p] = 0]
    /\ Goto(p, "idle") /\ got' = 0
    /\ UNCHANGED <<now, level, closed, log, set, at, keys, sweep, reported>>

\* Close, once; Get, Set and Delete never ask whether it was called.
Close ==
    /\ ~closed
    /\ closed' = TRUE /\ got' = 0
    /\ UNCHANGED <<now, level, log, pc, set, clear, sweep, reported, forgotten>>

\* The cleanup goroutine takes a tick, after Close too if one was buffered.
BeginSweep ==
    /\ sweepAt = 0
    /\ sweepAt' = 1 /\ sweepTime' = now /\ got' = 0
    /\ UNCHANGED <<now, level, closed, log, pc, set, clear, reported, forgotten>>

ExpiredNodes(s) == {e \in Live(s) : Expired(e, sweepTime)}

\* Faulty variant: the pass forgets level 2.
SweepLevel1(b) == ExpiredNodes(level[b][1])

\* The nodes of a bucket that are expired, in either level.
SweepNodes(b) == ExpiredNodes(level[b][1]) \cup ExpiredNodes(level[b][2])

\* s after the keys of these nodes are deleted in the order of a walk.
Swept(s, walk, nodes) ==
    LET after[i \in 0 .. Len(walk)] ==
          IF i = 0 THEN s
          ELSE IF walk[i] \in nodes THEN Kill(after[i - 1], walk[i].k)
          ELSE after[i - 1]
    IN after[Len(walk)]

\* The cleanup goroutine's critical section for one bucket, level 1 walked first.
Sweep ==
    LET b == sweepAt
        nodes == SweepNodes(b)
        gone(s) == Swept(s, level[b][1] \o level[b][2], nodes) IN
    /\ b # 0
    /\ sweepAt' = (b + 1) % (BucketCount + 1)
    /\ sweepTime' = IF b < BucketCount THEN sweepTime ELSE 0
    /\ level' = [level EXCEPT ![b] = <<gone(@[1]), gone(@[2])>>]
    /\ Report(UNION {ReportOf(b, e.k) : e \in nodes})
    /\ got' = 0
    /\ UNCHANGED <<now, closed, log, pc, set, clear, forgotten>>

Step(p) ==
    \/ BeginSet(p) \/ PutSet(p) \/ BeginClear(p) \/ Collect(p) \/ EndClear(p)
    \/ \E k \in Keys : Get(p, k) \/ Delete(p, k) \/ ClearKey(p, k)

Next == Tick \/ Close \/ BeginSweep \/ Sweep \/ \E p \in Procs : Step(p)

Spec == Init /\ [][Next]_vars

\* Until Close, the ticker keeps firing and the cleanup goroutine keeps running.
FairSpec == Spec /\ WF_vars(Sweep \/ (~closed /\ BeginSweep))
-----------------------------------------------------------------------------
Nodes == [k : Keys, v : Versions, exp : 0 .. Forever]

\* A level holds its keys once, within its capacity, in the bucket they hash to.
LevelOK(b, i) ==
    LET s == level[b][i] IN
    /\ ToSet(s) \subseteq Nodes
    /\ Len(s) <= IF i = 1 THEN L1Cap ELSE L2Cap
    /\ Cardinality(NodeKeys(s)) = Len(s)
    /\ \A k \in NodeKeys(s) : BucketOf[k] = b

TypeOK ==
    /\ now \in 1 .. MaxTime
    /\ \A b \in Buckets, i \in {1, 2} : LevelOK(b, i)
    /\ closed \in BOOLEAN
    /\ Len(log) <= MaxVersion /\ ToSet(log) \subseteq [k : Keys, exp : 1 .. Forever]
    /\ pc \in [Procs -> {"idle", "put", "collect", "clear"}]
    /\ set \in [Procs -> [k : Keys, exp : 1 .. Forever] \cup {NoSet}]
    /\ at \in [Procs -> Buckets] /\ keys \in [Procs -> SUBSET Keys]
    /\ since \in [Procs -> 0 .. MaxVersion]
    /\ got \in 0 .. Len(log)
    /\ sweepAt \in 0 .. BucketCount /\ sweepTime \in 0 .. MaxTime
    /\ reported \in [Versions -> Nat]
    /\ forgotten \in [Keys -> 0 .. MaxVersion]

LiveNodes == UNION {Live(level[b][i]) : b \in Buckets, i \in {1, 2}}
Holds(v) == \E e \in LiveNodes : e.v = v

(* What was in the store when a Delete of its key ran, or when a Clear that has
   returned began, never comes back: neither from the other level nor through
   a promotion or Set that runs between the two phases of Clear
   (lru2.go 199-246, 494-511).                                                *)
ForgottenStaysForgotten == \A e \in LiveNodes : e.v > forgotten[e.k]

(* A Get returns a value only before the expiry that value was Set with,
   through promotion, re-use of nodes and the two clock readings of Get
   (lru2.go 105-155, 479-490).                                                *)
NeverServedExpired == got # 0 => now < log[got].exp

(* OnEvicted is told of a value at most once, by whichever of Set, Get,
   Delete, Clear or the cleanup goroutine removed it, and from the moment it is
   due the store never holds that value again (lru2.go 119-140, 190-211, 557-569). *)
ReportsFinal == \A v \in Versions : reported[v] <= 1 /\ (reported[v] = 1 => ~Holds(v))

(* The cleanup goroutine drops expired values from whichever level holds them:
   until the store is closed there is always a later moment without any
   (lru2.go 517-574).                                                         *)
ExpiredDropped == []<>(closed \/ \A e \in LiveNodes : ~Expired(e, now))

(* What Store.Set promises (store.go:52): setting a key that exists updates its
   value.  Then a Get returns the value of the latest Set of the key.        *)
ReadsLatest ==
    got # 0 => \A v \in 1 .. Len(log) : log[v].k = log[got].k => v <= got
=============================================================================
