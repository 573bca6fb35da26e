# ReachCache: specifications, model checking and proofs

ReachCache is a distributed in-memory cache in Go. This directory holds TLA+
modules translated from its source, the TLC configurations that check them on
small instances, and TLAPS proofs of what matters most about them for every value of
their constants. `PROJECT.json` lists the runs, the source lines
each definition stands for, the faulty variants each property is shown to
detect, the hazards of the code and the findings.

    tlc -workers 2 -config MCCache.cfg MCCache     # a run
    tlapm CacheProofs.tla                          # a proof

## 1. The system

| Part | Source | State | Operations | Used by |
|---|---|---|---|---|
| Cache | `cache.go` | flags `closed`, `initialized`; the store; `mu`; hit and miss counters | Get, Add, AddWithExpiration, Delete, Len, Clear, Close, Stats; `ensureInitialized` | Group |
| LRU store | `store/lru.go` | recency list, `items`, `expires`, `usedBytes`, `maxBytes`, cleanup goroutine | Get, Set, SetWithExpiration, Delete, Clear, Len, Close, UpdateExpiration, SetMaxBytes | Cache |
| LRU-2 store | `store/lru2.go` | per bucket a lock and two levels; a cleanup goroutine; a shared clock | Get, Set, Delete, Clear, Len, Close | Cache |
| LRU-2 level | `store/lru2.go` `cache` | index list `dlnk`, nodes `m`, map `hmap`, `last` | put, get, del, walk, adjust | LRU-2 store |
| Single flight | `singleflight/singleflight.go` | a `sync.Map` of calls in flight | Do | Group |
| Hash ring | `consistenthash/*.go` | sorted hashes, `hashMap`, replicas, load counters, balancer goroutine | Add, Remove, Get, Close, GetStats | ClientPicker |
| Group | `group.go` | main cache, loader, peers, closed flag; registry of groups | Get, Set, Delete, Clear, Close, load, syncToPeers | user code, Server |
| ClientPicker | `peers.go` | the ring, a client per peer, an etcd watch | PickPeer, fetch, watch, set, remove, Close | Group |
| Registration | `registry/register.go` | a lease and its keep-alive | Register | Server |
| Client, Server | `client.go`, `server.go` | connections | Get, Set, Delete over gRPC | peers |

How they interact. `Group.Get` asks its Cache; on a miss it goes through
`singleflight.Group.Do`, whose function picks the owner of the key on the ring
and asks that peer, or the local getter, and the result is written back to the
Cache. `Group.Set` and `Group.Delete` change the local Cache and tell the owner
from a goroutine of their own. The Cache takes its read lock for every
operation of the store, so several goroutines are inside one store at once, with
the store's own locks and its cleanup goroutine between them. The ring is
changed by the discovery goroutine, read by every request and rebalanced by its
own goroutine.

What is hard, and what makes each part correct:

- **Cache** - the store is created lazily by racing first writers and released
  by a Close that races with all of them. Correct: one store, never used nil or
  stopped, always released, each call returns.
- **Single flight** - map and wait group are separate atomic objects, so a
  goroutine may stop between Load and Store, or between Done and Delete; the
  function may panic. Correct: waiters get a result of their key, no entry
  stays, sharing does not reach into the past.
- **LRU-2 level** - a linked list in an array of indices, updated in place.
  Correct: it is a bounded recency list.
- **LRU-2 store** - a key can have a node in both levels; promotion, Clear's two
  phases, the cleanup pass and the expiry computed before the lock interleave.
  Correct: what is deleted stays deleted, nothing expired is served, callbacks
  are final, expired values go.
- **LRU store** - a Get releases its read lock before it takes the write lock.
  Correct: list, maps and byte count stay in step.
- **Hash ring** - nodes come and go, requests are counted by two atomic adds
  under a shared lock, the balancer judges the load next to them and acts under
  another lock. Correct: the ring is the virtual nodes of its members; a change
  moves only the keys it must; what a rebalancing divides adds up.
- **Group** - a load writes its result back after it has been overtaken by a Set or
  Delete; synchronisations overtake each other; the cache may keep overwritten
  copies (finding 1); close runs next to all of it. Correct: how far back the
  cache and its callers may see is bounded; a closed group holds nothing.
- **ClientPicker, registration** - nodes come, go and come back in etcd while
  requests are routed and the balancer runs; clients cannot be made; Close runs
  next to the discovery goroutine. Correct: ring, client map and connections
  agree whenever PickPeer can look; the picker follows etcd.
- **Client, Server, registry of groups** - a picker never has its own node on its
  ring, so nodes ask each other for the same key and wait in a circle; calls
  fail, time out or are answered late; groups are replaced, servers stop and
  processes restart meanwhile; several goroutines may lead a load of one group
  (finding 4), and a ring may block its callers for good (finding 3). Correct:
  nobody waits for a load that no goroutine is on; every Get returns and every
  Stop ends, unless the ring of that very node has blocked.

## 2. Modules

| Module | Models | Remarks |
|---|---|---|
| `CacheSpec` | what a Cache promises: phase new, open or closed, contents, counters, each operation in one step | abstract |
| `Cache` | `cache.go`, one step per atomic load, lock operation or critical section | implements `CacheSpec` |
| `CacheProofs` | proofs about `Cache` | |
| `SingleFlight`, `SingleFlightProofs` | `Do`, one step per operation on the map or the wait group | |
| `Recency` | operators on a recency list: touch, put, delete, evict | used by the next three |
| `RecencyList` | a bounded recency list | abstract |
| `Lru2Level`, `Lru2LevelProofs` | `put`, `get`, `del`, `adjust` on the index arrays | implements `RecencyList` |
| `Lru2Store`, `Lru2StoreProofs` | buckets of two levels, clock, cleanup, Clear, Close | composed of the levels `RecencyList` describes |
| `LruCache`, `LruCacheProofs` | the LRU store | |
| `HashRing` | the ring and its balancer | proved about in `ClientPickerProofs` |
| `Group`, `GroupProofs` | `group.go` on one node, with a peer | composed from `SingleFlight`, whose actions it uses, and the contract of Cache; the proofs cite those about `SingleFlight` |
| `ClientPicker`, `ClientPickerProofs` | `peers.go`: discovery, clients and connections; what registration does to etcd | extends `HashRing`, whose actions it calls; the proofs are about the ring with any callers first, then about the picker on it |
| `Cluster`, `ClusterProofs` | Gets between nodes: `Server.Get`, `Client.Get`, the load of a group, the registry of groups, Stop, restarts | the loader with its steps on the map; the cache as one flag; what blocks a ring is `HashRing`'s |
| `MC*` | the instances TLC checks | |

### State and actions against the code

**Cache.** `closed` and `initialized` are the two atomic flags, `store` is nil
(0) or the n-th store made, `writer` and `readers` are `c.mu`. `pc` is where a
goroutine is between two of its atomic steps: `Enter` (the first look at
`closed`, for Close its compare-and-swap), `CheckInitialized`, `FastPath`,
`Announce`/`Drain` (the two phases of `RWMutex.Lock`: a writer first turns new
readers away, then waits for those inside), `Recheck`, `MakeStore`,
`MarkInitialized` (`ensureInitialized`), `CheckExpired` (the deadline of
AddWithExpiration), `ReadLock`, `RecheckClosed`, `Use` (the call of the store),
`ClearStore`, and `CloseStore`, `DropStore`, `Unmark` (Close). The store is its
set of keys; a write may evict anything, `Expire` is its cleanup goroutine.
The counters are capped by `StatCap`, a bound on the Gets started.

**SingleFlight.** `m` is the `sync.Map`, a call is `<<p, n>>`, `done` and `res`
are its wait group and its result. `Join`/`Miss` are the Load, `Store` the
Store, `RunFn` the user's function, `Done` and `Delete` the deferred function on
its two paths. `fn` is not in this package: it reads the version its key has in
a backing store, fails or panics. A goroutine registers `MaxCalls` calls at
most. `got` and `quiet` are history variables.

**Lru2Level.** The variables are the fields; index 0 of `dlnk` is the sentinel,
a zero expiry marks a deleted node, as in the code. `PutExisting`, `PutFull`,
`PutFresh` are the three branches of `put`. `adjust` is the function of six
assignments, in their order.

**Lru2Store.** A step is a critical section of a bucket lock. `BeginSet` is the
part of `SetWithExpiration` before the lock, `PutSet` the rest; `GetExpired`,
`GetPromotes`, `GetLevel2` are the branches of `Get`; `BeginClear`, `Collect`,
`ClearKey`, `EndClear` are `Clear`, which collects bucket by bucket and then
deletes key by key; `BeginSweep` and `Sweep` are the cleanup goroutine, with
the time it read when the pass began; `Tick` is the clock goroutine. The two
clock readings of one Get are one: only a tick that falls between two
statements of it would tell them apart. Values are numbered by their Sets.
`OnEvicted` is user code: the model counts in `reported` when a call is due.

**LruCache.** `c` is the record of the four fields that change together. An
element is named by the Set that pushed it, so that a key removed and set again
is recognised as a different element. `Get` is the half under the read lock;
`Touch` and `DropExpired` are the second halves. `Victims` is `evict`: the
expired keys, then from the front until the limit is met. The callers are those
Cache lets through: `Next` takes a `Clear` when no Get is between its halves
(`NoGetInside`), because `Cache.Clear` holds the write lock that every `Cache.Get`
holds for reading. A caller of the exported store that does otherwise breaks it:
`list.Init` (239) leaves the elements pointing to the list, and a Get that moves
one of them after its key was set again links it back in. That is listed as a
hazard, and no theorem here speaks of such callers.

**HashRing.** The sorted slice with repetitions is the count `keys[h]` of each
hash. `Add` and `Remove` hold the lock from start to end. A request counts its
node (`Get`) and then the total (`GetTotal`), with `adding` the Gets in between; they
hold the read lock, as the balancer does when it reads the total
(`CheckLoad`) and then one counter after the other (`LookAt`, `EndLook`), so that other
Gets count meanwhile. Whoever needs the lock for writing waits for all of them
(`Free`). `BeginRebalance` takes it, `KeepReplicas` or `CallRemove` follows for each
node, then `EndRebalance`. The code also reads the total once before it has the lock
(207); only the balancer makes it smaller, so that the second reading implies
the first. The float ratios of the code are integer inequalities and integer
divisions with the same truncation.
`CallRemove` is the call of `m.Remove` that waits for the lock its caller holds:
`balancer = "remove"` has no step after it, which is the code's behaviour.

**Group.** `Loader` is an instance of `SingleFlight` on the group's own
variables: `CallDo`, `InDo`, `EndDo` are its actions, and `AskPeer`, `AskGetter`
are the function `load` hands to it. `Enter` is the check of `closed` with which Get,
Set, Delete and Clear begin; `Lookup`, `WriteBack`, `Set`, `Delete`, `Clear` are
their calls on the main cache, which is the contract of `CacheSpec` with the
copies held of each key. The default store is LRU-2, where a Set writes level 1 and leaves
the copy of level 2: `cached[k]` is the set of the versions held in either level. A
`Lookup` may find any of them, a Set adds one, only a Delete or a Clear removes
all, and `Evict` takes one away, also one that the store overwrites, and may uncover an
older one. The peer's copies (`remote`) are such a set too. `Close`, `CloseClears`,
`CloseCloses` are the three statements of `close`. `syncs` holds the orders on their way: what
`syncToPeers` sends and what the peer sends to `Server.Set` and `Server.Delete`.
They arrive in any order, late, or not at all. The peer is external: its copies
change in single steps (a write of its users, a load from the store or from
this node, an eviction), so races inside the peer are not seen. Who calls Set is
taken to hold the value the backing store had at the call: a caller that sets a
value it read long ago brings an old version back by itself. With `peers` false
the group runs alone.

**ClientPicker.** Extends HashRing: its variables are the ring, and `Add`, `Remove`,
`Get`, `GetTotal`, `Close` and `Balance` are called by the picker's actions. `registered` is
what etcd has; `Register` and `Unregister` are what `registry.Register` does to
it on the other nodes, and the end of a lease. `Fetch` reads the keys;
`events` with `batch` are what `fetchAllServices` or `handleWatchEvents` has in
hand, and behind that what the watch will deliver. The picker's lock is held
for writing while `batch > 0`, and for reading by each PickPeer that is in the
ring's Get (`PickPeer`, `EndPick`). An event takes `DropOld` and then `Connect` or
`ConnectFails` (`set`), or `Forget` or `ForgetUnknown`; each is one call on the
ring, so that the balancer, which has only the ring's lock, may run in between
and may block the handler. `conns` counts the open connections, `unsure` the
nodes the picker cannot know about: those whose change fell between the fetch
and the start of the watch, which etcd does not repeat, and those whose client
could not be made. `Cancel` and `Shut` are `Close` before and after it has the
lock; `Cancel` needs no lock and may fall inside a response, and a response may
still be handled in between and afterwards. A watch that
ends (`EndWatch`) is never started again. Changes in etcd that no watch will
see are left out. Addresses are parsed out of keys of one service name;
parsing is not modelled.

**Cluster.** `go[p]` is a goroutine: a user's, or a handler of a server with the
goroutine it answers in `from`. It enters Get (`Enter`: the check of closed and the
lookup) and on a miss the loader's Do, in the steps of `singleflight.go` on its map:
it finds a call and joins it (`Join`), or finds none (`Miss`), stores its own over
whatever is there by then (`Store`) and leads. So several may lead a load of one
group, a `Delete` may remove the call of another leader, and a newcomer may find
a call that is done. The leader asks the ring (`PickPeer`), which must let it
in, waits for another node (`Arrive`, `Return`, `GiveUp`) or asks the getter (`Load`),
wakes those who joined its call (`Done`), removes what is registered (`Delete`)
and writes the value back (`Back`). `Done` and the wake-up are one step, since the
result of a call is settled by then. `flight` is the call in the map of each group,
named by its leader; `on` is the call a joiner waits for.
`Stick` is the state finding 3 leaves a node's ring in: no PickPeer returns there until the
process is started again. `GiveUp` is every way `Client.Get` fails: no connection, a
refused token, its deadline; the handler that is at work for it goes on and its
answer reaches nobody. A group is its number in `registered`; it is closed as
soon as another or none is, which is one step because `groupsMu` is held.
`Restart` ends a process with its goroutines: their callers see an error, their
handlers elsewhere answer nobody. A getter that panics in a handler ends the
process in this way. PickPeer names any other node, since rings differ between
nodes; it never names its own (section 7).

## 3. Runs

| Run | Instance | Question | Result |
|---|---|---|---|
| `cache` | 2 goroutines, 1 key, any operations | Do racing first writes, reads, Clear and Close use, make and release the store correctly, implement `CacheSpec`, and all return? | yes |
| `singleflight` | 3 goroutines, 1 call each, one write | Are waiters served, entries removed, sharing bounded, and does each Do return? | yes |
| `singleflight_window` | the same | Is a goroutine never given an older version after a newer one? | **no** |
| `lru2_level` | 3 nodes, 4 keys, 2 values | Are list and map sound after any sequence, and is the level a recency list? | yes |
| `lru2_store` | 2 goroutines, 2 keys, one bucket with levels of 1 node, 3 Sets, clock to 2 | Deleted stays deleted, expired is not served, callbacks are final, and the cleanup drops what is expired in either level? | yes |
| `lru2_stale` | 1 goroutine, levels of 1 node | Does a Get return the latest Set? | **no** |
| `lru` | 2 goroutines, 2 keys, 2 sizes, limit 0 or 2, 2 Sets, clock to 3 | As Cache uses the store: do list, maps and bytes agree, expiry and callbacks hold, and cleanup progress? | yes |
| `lru_fresh` | 1 goroutine | Does a Get delete expired entries only? | **no** |
| `picker` | 3 nodes that come and go, 2 to 3 replicas, 2 keys, 2 requests, 2 events on their way | Do ring, clients and connections agree, does the picker follow etcd, does the ring match its members, move only the keys it must, and do the counters add up when they are divided? | yes |
| `ring_rebalance` | the ring alone, 4 keys | Does a rebalancing that began end? | **no** |
| `group` | 2 goroutines, 1 key, 1 load each, 1 write, 2 orders on their way, with and without a peer | Does nothing come back that was older than every copy when the key was quiet, and does a closed group hold nothing? | yes |
| `cluster` | 2 nodes, 1 user who may be on either, 2 handlers, one group under the name on each node | Is every load one waits for led, do Gets return and Stops end where the ring has not blocked, under several leaders, failures and restarts? | yes |

Why the bounds are enough. The hazards need two or three actors. Two goroutines
give every pair of operations of a Cache (two first writers, a writer or reader
and Close, two Closes, Clear and Close), and each may call any number of
operations. In single flight two goroutines race between Load and Store and the
third joins either. Three nodes are the least with a middle of the list; four
keys leave one without a node. Levels of one node make every put evict, which is
where copies in the two levels meet; three Sets are an overwritten value, its
successor and a key that evicts either. The clock has a moment before and one
after each expiry. In the LRU store a limit of 2 holds two small values or a
large one. Three nodes with alternating virtual nodes, a key between them and one that wraps
around cover the search; `MinRequests` 1 stands for the sample of 1000. Two
requests are what it takes for a Get to be between its two adds while the
balancer looks, and for a node to have all of the load, its share or none. Two events on their way
are a node that goes and comes back in one response, or two nodes; the fetch may
bring all three. All nodes may be put on the ring again (`Readded`), which is
what the order of `set` is for.
In `group` two goroutines are two loads that share or overlap, or a load and
whatever overtakes it; one write of the store makes an old and a new version;
two orders can overtake each other. In `cluster` a user on A, a handler on B and
a handler on A are the shortest circle. A user and two handlers are also two
leaders of one group and a third who joins a call that the Delete of the other
takes off the map: a goroutine whose call was given up leads on beside those
who come later. One node of each kind suffices, since what is
asked of a node does not depend on what else the other can do: users are on both
(`Asking`); B is the node whose group is closed and registered again and whose
process restarts (`Changing`), whose server stops (`Stoppable`) and whose ring
blocks (`Sticky`), so that Gets on A meet all of it in B and Gets on B meet it at
home. With `MaxGroups` 1 a group is closed, or lost in a restart, while
goroutines are in it, and the name is registered again once they have left; that a
second group takes the name before they have is not in this instance. The safety
theorem covers it; liveness was not checked there.
`group` uses the symmetry of the goroutines,
which no definition tells apart and no liveness property is checked with. In
`lru2_store` only goroutine `g1` calls Clear (`Clearers`): `Cache.Clear` holds
the write lock, so there is never more than one. Buckets share nothing but the
clock and the cleanup goroutine, so that run has one; expiries beyond the last
tick are one, `Forever`.
In the code two Closes are excluded by Cache, hence the guard `~closed` of the
stores' Close.

Deadlock is checked except in the models that may stop: `SingleFlight`, where
the goroutines have a bounded number of calls, `Group`, which a close ends, and
`HashRing` and `ClientPicker`, whose balancer blocks itself for good (the finding
below).

## 4. Fairness

- Cache: a goroutine inside an operation runs on (WF of `Work`). Acquiring the
  lock is strongly fair, because `sync.RWMutex` starves nobody: writers queue on a
  mutex with a starvation mode and `Unlock` lets the waiting readers in first.
- SingleFlight: a goroutine inside Do runs on, so `fn` returns or panics. No
  fairness is asked of callers or writers.
- Lru2Store, LruCache: until Close the ticker fires and the cleanup goroutine
  runs; after Close it may take a tick that is still due, or not. User
  goroutines and the clock get no fairness.
- HashRing: the balancer goroutine runs, and a Get that has counted its node goes on to
  count the total. ClientPicker has no liveness property:
  its balancer may block the handler for good (finding 3).
- Cluster: a goroutine inside Get runs on; one that waits for another node is
  answered or gives up, because `Client.Get` has a deadline of 3 s; the getter
  returns. One that is in PickPeer runs on only if its ring is free: a blocked
  ring disables `PickPeer`, and no deadline covers it. So `EveryGetReturns` and `EveryStopEnds`
  say that a Get or a Stop can be held up only by the ring of its own node; a Get
  that asks a node whose ring has blocked still returns. GracefulStop returns once
  no handler is left. No fairness is asked of
  users, of the delivery of calls, of the makers of groups or of restarts.

## 5. Findings

1. `lru2_stale` (`store/lru2.go:189`): a Set writes level 1 and leaves an older copy
   in level 2. Once the new node has been evicted from level 1, Get serves the
   overwritten value.
2. `lru_fresh` (`store/lru.go:104`): a Get that saw a key expired releases the lock
   and deletes the key without looking again; a value set meanwhile is lost.
3. `ring_rebalance` (`consistenthash/consistenthash.go:275`): `rebalanceNodes` calls
   `Remove` while it holds the lock `Remove` takes. Whenever the replicas of a
   node are to change, the balancer and then every user of the ring block.
4. `singleflight_window` (`singleflight/singleflight.go:65`): the window between Load
   and Store does more than run `fn` twice, which the package's README says is
   all: the older of two results may be delivered last.

The compositions take these as they are: `Group` has the copies of finding 1,
`Cluster` the several leaders of finding 4 and the blocked rings of finding 3.

## 6. Proofs

TLAPS proves the following for every value of the constants that meets the
named assumptions. The invariants that are proved are those the runs check
under the same names. Each proof follows the same argument: an inductive
invariant (`IInv`; `PInv` of the picker), one step per action and under it one
per conjunct the action can disturb, and a temporal step. Each of these
invariants was also checked by TLC on the instance of its run.

**Cache** (`CacheAssumption`). `TypeCorrect`, `StoreAlwaysUsable`,
`AtMostOneStore`, `CloseAlwaysReleases`, and `CacheImplementsContract` (the
refinement of `CacheSpec`, step by step). The properties speak of goroutines at
the store; they are inductive only together with what the lock guarantees
(`LockInv`: who is in a critical section holds it, and a reader and a writer
never do at once), with which operation may stand at which label (`OpInv`,
`LabelInv`), and with the relation between the flags, the number of stores made
and stopped, and the goroutine that is between two assignments (`StoreInv`).

**SingleFlight** (`SingleFlightAssumption`). `TypeCorrect`, `EveryWaiterServed`,
`RegistrationEnds`, `SharingBounded`. The invariant adds that a goroutine owns
the calls it numbers and none of a number it has not reached, and that a
result already there is no older than `quiet`, which only moves when no Do of
the key is active.

**LRU-2 level** (`LevelAssumption`). `TypeCorrect`, `LevelAlwaysSound`,
`LevelImplementsRecencyList`. `IInv` says of `dlnk` without a walk that some order `s`
of the allocated indices is what it links: column by column, the neighbours of
each index are its neighbours in `s`, with the sentinel at both ends (`Linked`).
The six assignments of `adjust` are followed cell by cell (`AdjustIs`) and make of
`s` the same order with one place moved to the front (`AdjustFronts`); the
other end is the same with the columns exchanged and `s` reversed (`AdjustBacks`).
A walk from the sentinel meets `s` (`WalkIs`), so that the list `RecencyList`
speaks of is the nodes along `s`, and each operation is shown to do to it what
`Recency` says: that a key has its place where the map points follows from
`MapSound`. With this theorem `Lru2Store`, whose levels are those lists, speaks of
the arrays too.

**LRU-2 store** (`StoreAssumption`). `TypeCorrect`, `NothingForgottenReturns`,
`ServesNothingExpired`, `ReportsAreFinal`. A value moves from Set to level 1, to
level 2 by a Get and back to the caller, and any of Set, Get, Delete, Clear and the
cleanup may take it out. The invariant says of each level that its
keys are distinct, belong to its bucket and fit in it; of the two levels that no
version is in both; of each live node that it is what some Set logged
(`LiveInv`); and of a Clear on its way that it has yet to collect or to
delete every value that was there when it began (`ClearInv`). `ReportsFinal` and
`ForgottenStaysForgotten` are inductive on top of these. The assumption that
there is a bucket leaves out `BucketCount` above 32768, for which the code makes
none (a hazard without a property).

**LRU store** (`LruAssumption`). `TypeCorrect`, `StructuresStayInStep`,
`ServesNothingExpired`, `ReportsAreFinal`. The invariant `Tidy` is the agreement of
list, items and expires, with what it takes to keep it: keys are distinct in the
list, each value held is that of a Set of its own, and its expiry is the one
last given to it. As in the model, Clear never runs between the halves of a Get.
That `usedBytes`, which Set and removeElement keep by
differences, is the sum over what is held needs that a sum over a finite set
splits: a sum is shown to be the cardinality of a set of units (`BytesIsUnits`),
and those add up. `Told` says that what was reported is held no more and
that nothing is reported of a Set to come.

**HashRing** (`RingAssumption`, `NoCollisions`, `FiniteNodes`). `RingTypeCorrect` and
`CountsAddUp` for any calls; `RingAlwaysMatches` and `OnlyNeededMoves` under
the hypothesis `Readded = {}`: a node is added only when it is not on the ring,
without which the code's `Add` leaves hashes behind. `IInv` adds that every
member has `DefaultReplicas` replicas, since no rebalancing gets to change them
(finding 3), that the balancer has nodes left only while it holds a lock, and
that no Get is between its two adds while it holds the one for writing: the
counters exceed the total by the Gets in between at most (`CountsAddUp`), and
what a rebalancing divides adds up.
`OnlyNeededMoves` describes a route by the least hash at or after the key's, or
the least of all (`RouteBySlot`), and shows that it stays the least when other
hashes come or go. `NoCollisions` says that no two virtual nodes hash alike; with
CRC-32 that is likely and not certain, and the code does not handle the other
case.

**ClientPicker** (the assumptions of the ring). For `PickerSpec` and without any
hypothesis on its callers: `PickerTypeCorrect`, `PickerRingMatches`,
`PickerMovesOnlyNeeded`, `PickerCountsAddUp`, `RingFollowsClients`,
`NoConnectionLeaks`, `PickerConverges`. The invariant is that of the ring, that the
members are the clients also in the middle of an event (`ClientsInv`), which is
why the picker adds only what is absent and `Readded = {}` is not needed, and
that the last event on its way about a node says whether it is registered
(`Known`), which makes `Converges` inductive.

**Group** (`GroupAssumption`, `LoaderAssumption`: those of the loader).
`TypeCorrect`, `NothingOldEverReturns`, `ClosedGroupStaysEmpty`. Every step of the group is shown
to be a step of `SingleFlight` or to leave its variables alone (`LoaderStep`), so that
its invariants hold here; all but sharing, which speaks of a backing store only,
while this loader may be answered by a peer with an old copy. `Afloat` names
every place a version of a key can be in: a cache, an order, a load, a result,
a goroutine about to write it. A cache is all the copies it holds, so that an
overwritten copy counts as afloat until it is gone, and `floor` is the oldest
of them when the key is quiet. All of them are between `floor` and the current version
(`BoundsInv`), and each step is shown to hand on only what was afloat.

**Cluster** (`ClusterAssumption`). `TypeCorrect`, `NoLoadLeftBehind`. The invariant
adds that a handler works for one waiting caller and a caller has one handler at
most. It does not say that the leader of a load is the one registered, because
that is not so: what it says instead is that a registered call is led by a goroutine
that has still to delete it, and that a joiner's call, registered or not, is led
and not done. A process that ends takes the leaders, the joiners and the map
with it; a group that is replaced keeps its number until they have left.

The recursive functions of the models (`Swept`, `Without`, the sums of the
community modules) are shown to be well defined, and properties of what they
build are shown along their prefixes, by taking a least counterexample with the
well-foundedness of `<` or of the subset ordering.

Only model-checked: liveness (`EveryCallReturns`, `EveryDoReturns`,
`ExpiredDropped`, `EveryGetReturns`, `EveryStopEnds`), which is out of the prover's
reach. Every safety property of a run that passes is a theorem.

## 7. Not modelled

- Stats, Len, GetStats, ListGroups and PrintPeers change no state. `LruCache.GetWithExpiration` moves a
  list element under a read lock; no code of the module calls it outside tests.
- A Clear of the LRU store between the halves of a Get, which the lock of Cache excludes
  (section 2).
- Callbacks: the models record that one is due. That `OnEvicted` runs under the
  lock of the LRU store, against `store.go:106`, is listed as a hazard.
- The zero and overflow cases of the sizes of the LRU-2 store: constants are
  positive and in range.
- `byteview.go` (immutable), the generated protocol code, the examples, TLS, the
  comparison of tokens and the HTTP statistics. A refused token is a call that
  fails (`GiveUp` in `Cluster`).
- A second `Server.Stop`, which closes `stopCh` twice and panics, and a failing
  `NewClientPicker`, which leaves the balancer of its ring running
  (`peers.go:140`): both need a caller that misuses the API or a process that
  goes on without its picker.
- Parsing of etcd keys. `peers.go` fetches and watches the prefix `/services/name`
  without the trailing slash, so the nodes of a service whose name begins with
  this one are put on the ring too, and `parseAddrFromKey` never takes them off.
- `PickPeer` returning the node itself. The README (350, 604) and the third result
  of `PickPeer` speak of keys the node owns itself, but fetch and watch skip
  `selfAddr` (`peers.go:195,229`), so a ring holds the other nodes only.
  `Cluster` is built on what the code does, and shows what follows: circles that
  only deadlines break.
- Set and Delete between more than two nodes. `Group` has their orders with one
  peer; `Server.Set` and `Server.Delete` mark them, so none is passed on.
- Liveness of a Get inside `Group`: `EveryGetReturns` of `Cluster` has the loader's
  steps; the cache's are `EveryCallReturns` of `Cache`.
- Panics of `fn` in `Cluster`, which `SingleFlight` has: there a panic in a handler is a
  restart of its process.

## 8. Plan

Done in this order: Cache and its contract with proofs; SingleFlight with
proofs; the LRU-2 level and store; the LRU store; the ring with proofs; the
group; discovery on the ring; the cluster; the proofs about the picker, the
group, the cluster, the two stores and the level. Next:

1. `Cluster` with a second group that takes the name while the first is in use,
   as a run: it takes a smaller instance elsewhere.
2. The load of `Cluster` as an instance of `SingleFlight`, as in `Group`.
