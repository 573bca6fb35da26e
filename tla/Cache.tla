------------------------------- MODULE Cache -------------------------------
(* The life cycle of one Cache (cache.go): goroutines that call Get, Add,
   AddWithExpiration, Delete, Len, Clear and Close on a cache whose store is
   created by the first write and released by Close.  One step is one atomic
   load, one lock operation or one critical section.

   The store itself is abstracted to the set of keys it holds: a write may
   evict any key (store/lru.go and store/lru2.go are modelled in modules of
   their own).  A goroutine in pc "use" is about to call a method of c.store. *)
EXTENDS Naturals, FiniteSets

CONSTANTS Procs,      \* the goroutines
          Keys,
          None,       \* nobody holds the writer side of c.mu
          StatCap     \* bound on the counted Gets, so that TLC's graph is finite

ASSUME CacheAssumption ==
    /\ None \notin Procs
    /\ StatCap \in Nat

VARIABLES closed, initialized,   \* the two atomic flags
          store,                 \* 0 is nil, n is the n-th store created
          made,                  \* stores created so far
          stops,                 \* calls of Close on a store so far
          content,               \* the keys held by the current store
          writer,                \* the goroutine that announced or holds c.mu.Lock
          readers,               \* the goroutines that hold c.mu.RLock
          hits, misses,
          pc, op                 \* per goroutine: control and operation

vars == <<closed, initialized, store, made, stops, content, writer, readers,
          hits, misses, pc, op>>
flags == <<closed, initialized>>
storeVars == <<store, made, stops, content>>
lock == <<writer, readers>>
stats == <<hits, misses>>

Shared == {"Get", "Delete", "Len"}        \* operations that need c.mu.RLock only
Writes == {"Add", "AddWithExpiration"}
Ops == Shared \cup Writes \cup {"Clear", "Close"}

Labels == {"idle", "enter", "chkInit",
           "eiClosed", "eiInit", "eiLock", "eiDrain", "eiRecheck", "eiMake", "eiMark",
           "chkExpired", "rlock", "recheck", "use",
           "lock", "drain", "clear", "closeStore", "dropStore", "unmark"}

Goto(p, label) == pc' = [pc EXCEPT ![p] = label] /\ UNCHANGED op
Return(p) == pc' = [pc EXCEPT ![p] = "idle"] /\ op' = [op EXCEPT ![p] = "none"]

Init ==
    /\ closed = FALSE /\ initialized = FALSE
    /\ store = 0 /\ made = 0 /\ stops = 0 /\ content = {}
    /\ writer = None /\ readers = {}
    /\ hits = 0 /\ misses = 0
    /\ pc = [p \in Procs |-> "idle"]
    /\ op = [p \in Procs |-> "none"]

\* A goroutine calls an operation of the cache.
Call(p) ==
    /\ pc[p] = "idle"
    /\ \E o \in Ops :
          /\ o = "Get" => hits + misses < StatCap
          /\ op' = [op EXCEPT ![p] = o]
    /\ pc' = [pc EXCEPT ![p] = "enter"]
    /\ UNCHANGED <<flags, storeVars, lock, stats>>

(* The check of c.closed every operation starts with; Close makes it a
   compare-and-swap and is the one operation that writes the flag.           *)
Enter(p) ==
    /\ pc[p] = "enter"
    /\ \/ closed /\ Return(p)
       \/ ~closed /\ op[p] \in Writes /\ Goto(p, "eiClosed")
       \/ ~closed /\ op[p] \in Shared \cup {"Clear"} /\ Goto(p, "chkInit")
       \/ ~closed /\ op[p] = "Close" /\ Goto(p, "lock")
    /\ closed' = (closed \/ op[p] = "Close")
    /\ UNCHANGED <<initialized, storeVars, lock, stats>>

\* An uninitialised cache answers at once: Get counts a miss.
CheckInitialized(p) ==
    /\ pc[p] = "chkInit"
    /\ IF initialized
       THEN Goto(p, IF op[p] = "Clear" THEN "lock" ELSE "rlock") /\ UNCHANGED misses
       ELSE /\ Return(p)
            /\ misses' = IF op[p] = "Get" THEN misses + 1 ELSE misses
    /\ UNCHANGED <<flags, storeVars, lock, hits>>

AfterInit(p) == IF op[p] = "Add" THEN "rlock" ELSE "chkExpired"

\* ensureInitialized, its two checks without the lock.
FastPath(p) ==
    /\ \/ pc[p] = "eiClosed" /\ Goto(p, IF closed THEN AfterInit(p) ELSE "eiInit")
       \/ pc[p] = "eiInit" /\ Goto(p, IF initialized THEN AfterInit(p) ELSE "eiLock")
    /\ UNCHANGED <<flags, storeVars, lock, stats>>

\* RWMutex.Lock: take the writers' mutex, which turns new readers away ...
Announce(p) ==
    /\ writer = None
    /\ writer' = p
    /\ \/ pc[p] = "eiLock" /\ Goto(p, "eiDrain")
       \/ pc[p] = "lock" /\ Goto(p, "drain")
    /\ UNCHANGED <<flags, storeVars, readers, stats>>

\* ... and wait for the readers already in.
Drain(p) ==
    /\ readers = {}
    /\ \/ pc[p] = "eiDrain" /\ Goto(p, "eiRecheck")
       \/ pc[p] = "drain" /\ Goto(p, IF op[p] = "Clear" THEN "clear" ELSE "closeStore")
    /\ UNCHANGED <<flags, storeVars, lock, stats>>

\* Faulty variant: the second check forgets initialized.
RecheckClosedOnly(p) ==
    /\ pc[p] = "eiRecheck"
    /\ IF closed
       THEN Goto(p, AfterInit(p)) /\ writer' = None
       ELSE Goto(p, "eiMake") /\ UNCHANGED writer
    /\ UNCHANGED <<flags, storeVars, readers, stats>>

\* Faulty variant: the second check forgets closed.
RecheckInitializedOnly(p) ==
    /\ pc[p] = "eiRecheck"
    /\ IF initialized
       THEN Goto(p, AfterInit(p)) /\ writer' = None
       ELSE Goto(p, "eiMake") /\ UNCHANGED writer
    /\ UNCHANGED <<flags, storeVars, readers, stats>>

\* ensureInitialized, the second check under the write lock.
Recheck(p) ==
    /\ pc[p] = "eiRecheck"
    /\ IF closed \/ initialized
       THEN Goto(p, AfterInit(p)) /\ writer' = None
       ELSE Goto(p, "eiMake") /\ UNCHANGED writer
    /\ UNCHANGED <<flags, storeVars, readers, stats>>

MakeStore(p) ==
    /\ pc[p] = "eiMake"
    /\ made' = made + 1
    /\ store' = made'
    /\ content' = {}
    /\ Goto(p, "eiMark")
    /\ UNCHANGED <<flags, stops, lock, stats>>

MarkInitialized(p) ==
    /\ pc[p] = "eiMark"
    /\ initialized' = TRUE
    /\ writer' = None
    /\ Goto(p, AfterInit(p))
    /\ UNCHANGED <<closed, storeVars, readers, stats>>

\* AddWithExpiration gives up when the deadline has passed by now.
CheckExpired(p) ==
    /\ pc[p] = "chkExpired"
    /\ Goto(p, "rlock") \/ Return(p)
    /\ UNCHANGED <<flags, storeVars, lock, stats>>

ReadLock(p) ==
    /\ pc[p] = "rlock"
    /\ writer = None
    /\ readers' = readers \cup {p}
    /\ Goto(p, "recheck")
    /\ UNCHANGED <<flags, storeVars, writer, stats>>

\* Faulty variant: no second check.
NoRecheckClosed(p) ==
    /\ pc[p] = "recheck"
    /\ Goto(p, "use")
    /\ UNCHANGED <<flags, storeVars, lock, stats>>

\* Faulty variant: the early return keeps the read lock.
RecheckKeepsLock(p) ==
    /\ pc[p] = "recheck"
    /\ IF closed THEN Return(p) ELSE Goto(p, "use")
    /\ UNCHANGED <<flags, storeVars, lock, stats>>

\* The second check of c.closed, now under the read lock.
RecheckClosed(p) ==
    /\ pc[p] = "recheck"
    /\ IF closed THEN Return(p) /\ readers' = readers \ {p}
                 ELSE Goto(p, "use") /\ UNCHANGED readers
    /\ UNCHANGED <<flags, storeVars, writer, stats>>

\* Faulty variant: a failed lookup takes a miss back.
UseUncounts(p) ==
    /\ pc[p] = "use"
    /\ op[p] = "Get"
    /\ misses' = misses - 1
    /\ readers' = readers \ {p}
    /\ Return(p)
    /\ UNCHANGED <<flags, storeVars, writer, hits>>

\* The call on c.store, the counters, the return and the deferred RUnlock.
Use(p) ==
    /\ pc[p] = "use"
    /\ \E k \in Keys :
          \/ /\ op[p] \in Writes
             /\ content' \in SUBSET (content \cup {k})
             /\ UNCHANGED stats
          \/ /\ op[p] = "Delete"
             /\ content' = content \ {k}
             /\ UNCHANGED stats
          \/ /\ op[p] = "Len"
             /\ UNCHANGED <<content, stats>>
          \/ /\ op[p] = "Get" /\ k \in content
             /\ hits' = hits + 1
             /\ UNCHANGED <<content, misses>>
          \/ /\ op[p] = "Get" /\ k \notin content
             /\ misses' = misses + 1
             /\ UNCHANGED <<content, hits>>
    /\ readers' = readers \ {p}
    /\ Return(p)
    /\ UNCHANGED <<flags, store, made, stops, writer>>

\* Faulty variant: Clear trusts the checks it made before it had the lock.
ClearUnchecked(p) ==
    /\ pc[p] = "clear"
    /\ content' = {} /\ hits' = 0 /\ misses' = 0
    /\ writer' = None
    /\ Return(p)
    /\ UNCHANGED <<flags, store, made, stops, readers>>

\* Clear's critical section.
ClearStore(p) ==
    /\ pc[p] = "clear"
    /\ \/ closed /\ UNCHANGED <<content, stats>>
       \/ ~closed /\ content' = {} /\ hits' = 0 /\ misses' = 0
    /\ writer' = None
    /\ Return(p)
    /\ UNCHANGED <<flags, store, made, stops, readers>>

\* Close's critical section: stop the store's cleanup goroutine, ...
CloseStore(p) ==
    /\ pc[p] = "closeStore"
    /\ IF store # 0 THEN stops' = stops + 1 /\ Goto(p, "dropStore")
                    ELSE Goto(p, "unmark") /\ UNCHANGED stops
    /\ UNCHANGED <<flags, store, made, content, lock, stats>>

\* ... drop the reference, with everything the store holds, ...
DropStore(p) ==
    /\ pc[p] = "dropStore"
    /\ store' = 0
    /\ content' = {}
    /\ Goto(p, "unmark")
    /\ UNCHANGED <<flags, made, stops, lock, stats>>

\* ... and reset the flag.
Unmark(p) ==
    /\ pc[p] = "unmark"
    /\ initialized' = FALSE
    /\ writer' = None
    /\ Return(p)
    /\ UNCHANGED <<closed, storeVars, readers, stats>>

Acquire(p) == Announce(p) \/ ReadLock(p)

Work(p) ==
    \/ Enter(p) \/ CheckInitialized(p) \/ FastPath(p)
    \/ Drain(p) \/ Recheck(p) \/ MakeStore(p) \/ MarkInitialized(p)
    \/ CheckExpired(p) \/ RecheckClosed(p) \/ Use(p)
    \/ ClearStore(p) \/ CloseStore(p) \/ DropStore(p) \/ Unmark(p)

Step(p) == Call(p) \/ Acquire(p) \/ Work(p)

\* Entries expire and the store's cleanup goroutine, which takes no c.mu, drops them.
Expire ==
    /\ store # 0
    /\ content' \in SUBSET content
    /\ UNCHANGED <<flags, store, made, stops, lock, stats, pc, op>>

Next == Expire \/ \E p \in Procs : Step(p)

Spec == Init /\ [][Next]_vars

(* A runnable goroutine runs on, and sync.RWMutex starves nobody: writers
   queue on a mutex with a starvation mode, and Unlock admits the readers
   that wait before the next writer.                                         *)
Fairness ==
    \A p \in Procs : WF_vars(Work(p)) /\ SF_vars(Announce(p)) /\ SF_vars(ReadLock(p))

FairSpec == Spec /\ Fairness
-----------------------------------------------------------------------------
\* Every variable has its type.
TypeOK ==
    /\ closed \in BOOLEAN /\ initialized \in BOOLEAN
    /\ store \in Nat /\ made \in Nat /\ stops \in Nat
    /\ content \in SUBSET Keys
    /\ writer \in Procs \cup {None}
    /\ readers \in SUBSET Procs
    /\ hits \in Nat /\ misses \in Nat
    /\ pc \in [Procs -> Labels]
    /\ op \in [Procs -> Ops \cup {"none"}]

(* No goroutine that is about to call a method of c.store finds it nil, and
   none finds it stopped: the second check of closed under the lock is what
   keeps Get, Add, Delete, Len and Clear off a store that Close releases
   (cache.go 163-168, 203-205, 223-225, 247-251, 264-268, 283-285).          *)
StoreUsable ==
    \A p \in Procs :
        \/ pc[p] = "use"
        \/ pc[p] = "clear" /\ ~closed
        => store # 0 /\ stops = 0

(* ensureInitialized creates one store in the life of a cache, however many
   first writers race (cache.go 103-127).                                    *)
OneStore == made <= 1

(* A store is closed at most once (a second Close of an lruCache panics on
   its closed channel) and, once the Close that won the swap has returned,
   no store is left behind: none is referenced and every store ever created
   has had its cleanup goroutine stopped, also when a first Add was racing
   with Close (cache.go 297-318).                                            *)
CloseReleases ==
    /\ stops <= made
    /\ closed /\ (\A p \in Procs : op[p] # "Close")
         => store = 0 /\ stops = made /\ ~initialized

(* Every operation that was called returns: neither the two-phase write lock
   nor the early returns leave c.mu locked (cache.go, every deferred unlock). *)
EveryCallReturns == \A p \in Procs : pc[p] # "idle" ~> pc[p] = "idle"

\* A first write past its second check still opens a cache marked closed meanwhile.
phaseBar == IF store # 0 THEN "open"
            ELSE IF closed /\ \A p \in Procs : pc[p] # "eiMake" THEN "closed" ELSE "new"

Contract == INSTANCE CacheSpec WITH phase <- phaseBar

\* The locked, lazily initialised cache implements CacheSpec.
ImplementsContract == Contract!CacheContract
=============================================================================
