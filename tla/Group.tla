-------------------------------- MODULE Group --------------------------------
(* A cache group (group.go): goroutines that Get, Set, Delete and Clear on one
   node, a load that goes through SingleFlight and is written back to the main
   cache, syncToPeers goroutines, and the close of a group that is destroyed or
   replaced.  One step is one call on the cache, the loader or a peer.

   The main cache is the contract of CacheSpec, with the copies that the default
   store, LRU-2, holds of a key: a Set goes to level 1 and leaves the copy of level
   2 as it is, which comes back when the newer one is evicted (lru2.go:189); only a
   Delete or a Clear removes both.  A Get returns one of the copies.  The LRU store
   is the case in which a Set goes with an eviction of the older copy.

   The peer is external: its copies of a key change in single steps, its own users
   and evictions included; its orders to this node travel as the orders of this
   node to it do.                                                            *)
EXTENDS Naturals, FiniteSets

CONSTANTS Procs, Keys, NoCall, Err, Unset, MaxCalls, MaxVersion,  \* as in SingleFlight
          MaxSyncs      \* bound on the orders on their way as one more is given

VARIABLES version, m, made, ofKey, res, done, pc, arg, cur, got, quiet, \* SingleFlight
          peers,        \* whether g.peers is set
          cached,       \* the versions mainCache holds of a key, in either level
          cacheClosed,
          life,         \* of the group: where close is, open before and gone after
          gpc, task,    \* per goroutine: control, and the key and value it works on
          asked,        \* the peer failed the load of this goroutine
          syncs,        \* orders on their way, those of syncToPeers and the peer's
          remote,       \* the versions the peer holds
          floor         \* history: the oldest copy of a key when it was last quiet

Loader == INSTANCE SingleFlight

loader == <<version, m, made, ofKey, res, done, pc, arg, cur, got, quiet>>
group == <<cached, cacheClosed, life>>
flow == <<gpc, task, asked>>
vars == <<loader, peers, group, flow, syncs, remote, floor>>

Task == [k : Keys, v : Loader!Versions, fromPeer : BOOLEAN]
Orders == {"set", "delete"}
Sync == [to : {"peer", "us"}, op : Orders, k : Keys, v : Loader!Versions]
Labels == {"idle", "lookup", "do", "flight", "back", "set", "delete", "clear"}

ASSUME GroupAssumption == MaxSyncs \in Nat

\* What the loader assumes of its constants.
ASSUME LoaderAssumption ==
    /\ Keys # {}
    /\ MaxCalls \in Nat /\ MaxVersion \in Nat
    /\ NoCall \notin Loader!Calls
    /\ Err \notin Loader!Versions /\ Unset \notin Loader!Versions /\ Err # Unset

Init ==
    /\ Loader!Init
    /\ peers \in BOOLEAN
    /\ cached = [k \in Keys |-> {}] /\ cacheClosed = FALSE
    /\ life = "open"
    /\ gpc = [p \in Procs |-> "idle"]
    /\ task = [p \in Procs |-> [k |-> CHOOSE k \in Keys : TRUE, v |-> 0, fromPeer |-> FALSE]]
    /\ asked = [p \in Procs |-> FALSE]
    /\ syncs = {}
    /\ remote = [k \in Keys |-> {}]
    /\ floor = version

Goto(p, label) == gpc' = [gpc EXCEPT ![p] = label] /\ UNCHANGED task

Return(p) ==
    /\ gpc' = [gpc EXCEPT ![p] = "idle"]
    /\ task' = [task EXCEPT ![p].v = 0, ![p].fromPeer = FALSE]

\* Somebody writes the backing store.
Write(k) ==
    /\ Loader!Write(k)
    /\ UNCHANGED <<peers, group, flow, syncs, remote>>

StartTask(p, op, k, v, fromPeer) ==
    /\ gpc[p] = "idle" /\ life = "open"
    /\ gpc' = [gpc EXCEPT ![p] = op]
    /\ task' = [task EXCEPT ![p] = [k |-> k, v |-> v, fromPeer |-> fromPeer]]
    /\ UNCHANGED <<loader, peers, group, asked, remote>>

(* Get, Set, Delete and Clear past their check of closed; a closed group answers
   at once.  Who calls Set has the value from the backing store.             *)
Enter(p) ==
    /\ \E k \in Keys :
          \/ made[p] < MaxCalls /\ StartTask(p, "lookup", k, 0, FALSE)
          \/ StartTask(p, "clear", k, 0, FALSE)
          \/ /\ Cardinality(syncs) < MaxSyncs
             /\ \/ StartTask(p, "set", k, version[k], FALSE)
                \/ StartTask(p, "delete", k, 0, FALSE)
    /\ UNCHANGED syncs

\* Server.Set and Server.Delete mark an order of the peer as from_peer.
EnterFromPeer(p) ==
    \E s \in syncs :
        /\ s.to = "us"
        /\ StartTask(p, s.op, s.k, s.v, TRUE)
        /\ syncs' = syncs \ {s}

\* mainCache.Get: any copy will do.
Lookup(p) ==
    /\ gpc[p] = "lookup"
    /\ IF cached[task[p].k] # {} THEN Return(p) ELSE Goto(p, "do")
    /\ UNCHANGED <<loader, peers, group, asked, syncs, remote>>

\* g.loader.Do begins.
CallDo(p) ==
    /\ gpc[p] = "do"
    /\ Loader!Join(p, task[p].k) \/ Loader!Miss(p, task[p].k)
    /\ Goto(p, "flight")
    /\ UNCHANGED <<peers, group, asked, syncs, remote>>

\* Do registers its call, or wakes those who wait for it.
InDo(p) ==
    /\ Loader!Store(p) \/ Loader!Done(p)
    /\ UNCHANGED <<peers, group, flow, syncs, remote>>

\* loadData gets r from the peer.
PeerAnswers(p, r) ==
    /\ res' = [res EXCEPT ![cur[p]] = r]
    /\ pc' = [pc EXCEPT ![p] = "done"]
    /\ UNCHANGED <<version, m, made, ofKey, done, arg, cur, got, quiet, asked>>

(* loadData asks the peer: it answers with a copy of its own or with what it loads
   and keeps; or there is none, or it fails or is too late.                   *)
AskPeer(p) ==
    LET k == task[p].k IN
    /\ pc[p] = "fn" /\ peers /\ ~asked[p]
    /\ \/ (\E v \in remote[k] : PeerAnswers(p, v)) /\ UNCHANGED remote
       \/ /\ remote[k] = {}
          /\ PeerAnswers(p, version[k])
          /\ remote' = [remote EXCEPT ![k] = {version[k]}]
       \/ /\ asked' = [asked EXCEPT ![p] = TRUE]
          /\ UNCHANGED <<loader, remote>>
    /\ UNCHANGED <<peers, group, gpc, task, syncs>>

\* loadData asks the getter, which fails or panics as it likes.
AskGetter(p) ==
    /\ peers => asked[p]
    /\ Loader!RunFn(p)
    /\ asked' = [asked EXCEPT ![p] = FALSE]
    /\ UNCHANGED <<peers, group, gpc, task, syncs, remote>>

\* Faulty variant: Get leaves when its context ends, with Do still waiting.
EndDoOnCancel(p) ==
    /\ gpc[p] = "flight"
    /\ \/ (Loader!Wait(p) \/ Loader!Delete(p)) /\ Goto(p, "back")
       \/ pc[p] = "wait" /\ Return(p) /\ UNCHANGED loader
    /\ UNCHANGED <<peers, group, asked, syncs, remote>>

\* Do returns: a value, or the error of a getter that failed or panicked.
EndDo(p) ==
    /\ gpc[p] = "flight"
    /\ Loader!Wait(p) \/ Loader!Delete(p)
    /\ Goto(p, "back")
    /\ UNCHANGED <<peers, group, asked, syncs, remote>>

(* mainCache.Add or AddWithExpiration, next to the copy of level 2: nothing is
   written into a closed cache, nor with a deadline that has passed.         *)
Add(k, v) ==
    \/ UNCHANGED cached
    \/ ~cacheClosed /\ cached' = [cached EXCEPT ![k] = @ \cup {v}]

\* Get returns; nobody reads got again.
EndGet(p) ==
    /\ gpc[p] = "back"
    /\ got' = [got EXCEPT ![p] = [@ EXCEPT ![task[p].k] = Unset]]
    /\ Return(p)
    /\ UNCHANGED <<version, m, made, ofKey, res, done, pc, arg, cur, quiet,
                   peers, cacheClosed, life, asked, syncs, remote>>

\* load after Do: a value goes into the main cache.
WriteBack(p) ==
    /\ EndGet(p)
    /\ IF got[p][task[p].k] = Err THEN UNCHANGED cached
                                  ELSE Add(task[p].k, got[p][task[p].k])

\* go syncToPeers, unless the request came from a peer.
Spawn(p, op) ==
    syncs' = IF peers /\ ~task[p].fromPeer
             THEN syncs \cup {[to |-> "peer", op |-> op, k |-> task[p].k, v |-> task[p].v]}
             ELSE syncs

Set(p) ==
    /\ gpc[p] = "set"
    /\ Add(task[p].k, task[p].v)
    /\ Spawn(p, "set")
    /\ Return(p)
    /\ UNCHANGED <<loader, peers, cacheClosed, life, asked, remote>>

Delete(p) ==
    /\ gpc[p] = "delete"
    /\ cached' = [cached EXCEPT ![task[p].k] = {}]
    /\ Spawn(p, "delete")
    /\ Return(p)
    /\ UNCHANGED <<loader, peers, cacheClosed, life, asked, remote>>

Clear(p) ==
    /\ gpc[p] = "clear"
    /\ cached' = [k \in Keys |-> {}]
    /\ Return(p)
    /\ UNCHANGED <<loader, peers, cacheClosed, life, asked, syncs, remote>>

(* The main cache evicts a copy, or it expires, or a newer one is written or moved
   over it; another copy of the key stays and may be an older one.           *)
Evict(k) ==
    /\ \E v \in cached[k] : cached' = [cached EXCEPT ![k] = @ \ {v}]
    /\ UNCHANGED <<loader, peers, cacheClosed, life, flow, syncs, remote>>

\* Client.Set and Client.Delete: what the peer holds of k after the order.
CopiesAfter(op, k, v) == IF op = "set" THEN remote[k] \cup {v} ELSE {}

\* syncToPeers: the peer gets the order.
Deliver(s) ==
    /\ s.to = "peer"
    /\ remote' = [remote EXCEPT ![s.k] = CopiesAfter(s.op, s.k, s.v)]
    /\ syncs' = syncs \ {s}
    /\ UNCHANGED <<loader, peers, group, flow>>

\* An order has no peer to go to, fails, is too late, or meets a closed group.
GiveUp(s) ==
    /\ syncs' = syncs \ {s}
    /\ UNCHANGED <<loader, peers, group, flow, remote>>

\* The peer's users Set and Delete, with orders to this node.
PeerOrders(k, op) ==
    LET v == IF op = "set" THEN version[k] ELSE 0 IN
    /\ peers /\ Cardinality(syncs) < MaxSyncs
    /\ remote' = [remote EXCEPT ![k] = CopiesAfter(op, k, v)]
    /\ syncs' = syncs \cup {[to |-> "us", op |-> op, k |-> k, v |-> v]}
    /\ UNCHANGED <<loader, peers, group, flow>>

\* The peer's users Get, from the store or from the cache of this node, or it evicts.
PeerMoves(k) ==
    /\ peers
    /\ \/ \E v \in cached[k] \cup {version[k]} : remote' = [remote EXCEPT ![k] = @ \cup {v}]
       \/ \E v \in remote[k] : remote' = [remote EXCEPT ![k] = @ \ {v}]
    /\ UNCHANGED <<loader, peers, group, flow, syncs>>

\* close, called once under groupsMu by DestroyGroup, DestroyAllGroups or NewGroup.
Close ==
    /\ life = "open"
    /\ life' = "clear"
    /\ UNCHANGED <<loader, peers, cached, cacheClosed, flow, syncs, remote>>

CloseClears ==
    /\ life = "clear"
    /\ cached' = [k \in Keys |-> {}]
    /\ life' = "close"
    /\ UNCHANGED <<loader, peers, cacheClosed, flow, syncs, remote>>

\* Faulty variant: the cache is cleared and not closed.
CloseKeepsCache ==
    /\ life = "close"
    /\ life' = "gone"
    /\ UNCHANGED <<loader, peers, cached, cacheClosed, flow, syncs, remote>>

CloseCloses ==
    /\ life = "close"
    /\ cached' = [k \in Keys |-> {}]
    /\ cacheClosed' = TRUE
    /\ life' = "gone"
    /\ UNCHANGED <<loader, peers, flow, syncs, remote>>

Work(p) ==
    \/ Lookup(p) \/ CallDo(p) \/ InDo(p) \/ AskPeer(p) \/ AskGetter(p) \/ EndDo(p)
    \/ WriteBack(p) \/ Set(p) \/ Delete(p) \/ Clear(p)

Step ==
    \/ \E k \in Keys : Write(k) \/ Evict(k) \/ PeerMoves(k)
    \/ \E k \in Keys, op \in Orders : PeerOrders(k, op)
    \/ \E p \in Procs : Enter(p) \/ EnterFromPeer(p) \/ Work(p)
    \/ \E s \in syncs : Deliver(s) \/ GiveUp(s)
    \/ Close \/ CloseClears \/ CloseCloses

\* Nobody on this node works on the key, and no order for it is on its way.
Quiet(k) ==
    /\ \A p \in Procs : gpc[p] = "idle" \/ task[p].k # k
    /\ \A s \in syncs : s.k # k

HeldCopies(k) == cached[k] \cup remote[k]
Oldest(k) == IF HeldCopies(k) = {} THEN version[k]
             ELSE CHOOSE v \in HeldCopies(k) : \A w \in HeldCopies(k) : v <= w

\* Kept with every step.
Record == floor' = [k \in Keys |-> IF Quiet(k)' THEN Oldest(k)' ELSE floor[k]]

Next == Step /\ Record

Spec == Init /\ [][Next]_vars
-----------------------------------------------------------------------------
TypeOK ==
    /\ Loader!TypeOK
    /\ peers \in BOOLEAN /\ cacheClosed \in BOOLEAN
    /\ cached \in [Keys -> SUBSET Loader!Versions]
    /\ remote \in [Keys -> SUBSET Loader!Versions]
    /\ life \in {"open", "clear", "close", "gone"}
    /\ gpc \in [Procs -> Labels] /\ task \in [Procs -> Task]
    /\ asked \in [Procs -> BOOLEAN]
    /\ syncs \subseteq Sync
    /\ floor \in [Keys -> Loader!Versions]
    /\ \A p \in Procs : pc[p] # "idle" <=> gpc[p] = "flight"

(* Once nobody works on a key, what its copies were then is the past, the older
   ones that a store keeps beneath the newest included: no later write-back,
   shared load, Set, eviction or synchronisation brings an older version into the
   cache, to the peer or to a caller.  A version that was overwritten may come
   back as long as a store still holds it; after a Delete that finds the key quiet
   and removes its copies, no version from before it is seen again
   (group.go 194-203, 227-238, 256-264, 316-337; lru2.go 189, 214-221).        *)
NothingOldReturns ==
    /\ \A k \in Keys : \A v \in HeldCopies(k) : v >= floor[k]
    /\ \A p \in Procs : LET k == task[p].k IN
          gpc[p] = "back" /\ got[p][k] # Err => got[p][k] >= floor[k]

(* A closed group holds nothing and stays so, whatever loads, Sets and Clears
   were on their way when it was closed (group.go 286-297).                    *)
ClosedStaysEmpty == life = "gone" => \A k \in Keys : cached[k] = {}
=============================================================================
