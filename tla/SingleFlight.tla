---------------------------- MODULE SingleFlight ----------------------------
(* Group.Do (singleflight/singleflight.go): goroutines that ask for a key
   share the call one of them registered in a sync.Map.  Every operation on
   the map and on a call's WaitGroup is a step, so a goroutine may stop
   between its Load and its Store, and between its Done and its Delete.

   The callers' fn is external: it reads the version the key has in the
   backing store at some moment, or fails, or panics.                        *)
EXTENDS Naturals

CONSTANTS Procs,      \* goroutines
          Keys,
          NoCall,
          Err,        \* the result of a call whose fn failed or panicked
          Unset,      \* the result of a call whose fn still runs
          MaxCalls,   \* bound on the calls one goroutine registers
          MaxVersion  \* bound on the versions of a key

Calls == Procs \X (1 .. MaxCalls)     \* <<p, n>> is the n-th call p registers
Versions == 0 .. MaxVersion
Results == Versions \cup {Err, Unset}

ASSUME SingleFlightAssumption ==
    /\ Keys # {}
    /\ MaxCalls \in Nat /\ MaxVersion \in Nat
    /\ NoCall \notin Calls
    /\ Err \notin Versions /\ Unset \notin Versions /\ Err # Unset

VARIABLES version,    \* the backing store's version of each key
          m,          \* the sync.Map: the call registered for each key
          made,       \* the calls each goroutine has registered so far
          ofKey, res, \* a call's key and its val or err
          done,       \* the calls whose wg.Done has been called
          pc, arg,    \* per goroutine: control and key
          cur,        \* ... and the call it works on or waits for
          got,        \* the last result Do returned to a goroutine for a key
          quiet       \* history: a key's version when last no Do for it was active

vars == <<version, m, made, ofKey, res, done, pc, arg, cur, got, quiet>>
calls == <<made, ofKey, res, done>>

Labels == {"idle", "wait", "store", "fn", "done", "delete", "donePanic", "deletePanic"}

\* The labels of a goroutine that executes its own, registered call.
Owning == {"fn", "done", "delete", "donePanic", "deletePanic"}

Active(k) == {p \in Procs : pc[p] # "idle" /\ arg[p] = k}

Init ==
    /\ version = [k \in Keys |-> 0]
    /\ m = [k \in Keys |-> NoCall]
    /\ made = [p \in Procs |-> 0]
    /\ ofKey = [c \in Calls |-> CHOOSE k \in Keys : TRUE]
    /\ res = [c \in Calls |-> Unset]
    /\ done = {}
    /\ pc = [p \in Procs |-> "idle"]
    /\ arg = [p \in Procs |-> CHOOSE k \in Keys : TRUE]
    /\ cur = [p \in Procs |-> NoCall]
    /\ got = [p \in Procs |-> [k \in Keys |-> Unset]]
    /\ quiet = version

Goto(p, label) == pc' = [pc EXCEPT ![p] = label] /\ UNCHANGED <<got, quiet>>

\* Do returns r to p.
Return(p, r) ==
    /\ pc' = [pc EXCEPT ![p] = "idle"]
    /\ cur' = [cur EXCEPT ![p] = NoCall]
    /\ got' = [got EXCEPT ![p] = [@ EXCEPT ![arg[p]] = r]]
    /\ quiet' = IF Active(arg[p]) = {p} THEN [quiet EXCEPT ![arg[p]] = version[arg[p]]]
                                        ELSE quiet

\* Somebody writes the key in the backing store.
Write(k) ==
    /\ version[k] < MaxVersion
    /\ version' = [version EXCEPT ![k] = @ + 1]
    /\ quiet' = IF Active(k) = {} THEN [quiet EXCEPT ![k] = version'[k]] ELSE quiet
    /\ UNCHANGED <<m, calls, pc, arg, cur, got>>

\* Do finds a registered call: it will wait for it.
Join(p, k) ==
    /\ pc[p] = "idle"
    /\ m[k] # NoCall
    /\ arg' = [arg EXCEPT ![p] = k]
    /\ cur' = [cur EXCEPT ![p] = m[k]]
    /\ Goto(p, "wait")
    /\ UNCHANGED <<version, m, calls>>

\* Do finds none: it will make one.
Miss(p, k) ==
    /\ pc[p] = "idle"
    /\ m[k] = NoCall
    /\ made[p] < MaxCalls
    /\ arg' = [arg EXCEPT ![p] = k]
    /\ Goto(p, "store")
    /\ UNCHANGED <<version, m, calls, cur>>

\* wg.Wait ends: share the result of the call.
Wait(p) ==
    /\ pc[p] = "wait"
    /\ cur[p] \in done
    /\ Return(p, res[cur[p]])
    /\ UNCHANGED <<version, m, calls, arg>>

\* Faulty variant: the new call is assigned to a variable that shadows Do's.
StoreShadowed(p) ==
    /\ pc[p] = "store"
    /\ made' = [made EXCEPT ![p] = @ + 1]
    /\ LET c == <<p, made'[p]>> IN
       /\ ofKey' = [ofKey EXCEPT ![c] = arg[p]]
       /\ m' = [m EXCEPT ![arg[p]] = c]
    /\ Goto(p, "fn")
    /\ UNCHANGED <<version, res, done, arg, cur>>

\* Register a new call, over any other registered since the Load.
Store(p) ==
    /\ pc[p] = "store"
    /\ made' = [made EXCEPT ![p] = @ + 1]
    /\ cur' = [cur EXCEPT ![p] = <<p, made'[p]>>]
    /\ ofKey' = [ofKey EXCEPT ![cur'[p]] = arg[p]]
    /\ m' = [m EXCEPT ![arg[p]] = cur'[p]]
    /\ Goto(p, "fn")
    /\ UNCHANGED <<version, res, done, arg>>

\* Faulty variant: the panic is not turned into an error for the waiters.
PanicUnrecorded(p) ==
    /\ pc[p] = "fn"
    /\ \/ /\ Goto(p, "done")
          /\ \E r \in {version[arg[p]], Err} : res' = [res EXCEPT ![cur[p]] = r]
       \/ Goto(p, "donePanic") /\ UNCHANGED res
    /\ UNCHANGED <<version, m, made, ofKey, done, arg, cur>>

\* fn reads the version, or fails; its panic is recovered into the error.
RunFn(p) ==
    /\ pc[p] = "fn"
    /\ \E r \in {version[arg[p]], Err} :
          /\ res' = [res EXCEPT ![cur[p]] = r]
          /\ Goto(p, "done") \/ (r = Err /\ Goto(p, "donePanic"))
    /\ UNCHANGED <<version, m, made, ofKey, done, arg, cur>>

\* Faulty variant: Done is not deferred, so a panic skips it.
DoneNotDeferred(p) ==
    /\ \/ pc[p] = "done" /\ Goto(p, "delete") /\ done' = done \cup {cur[p]}
       \/ pc[p] = "donePanic" /\ Goto(p, "deletePanic") /\ UNCHANGED done
    /\ UNCHANGED <<version, m, made, ofKey, res, arg, cur>>

\* wg.Done, on either path of the deferred function.
Done(p) ==
    /\ \/ pc[p] = "done" /\ Goto(p, "delete")
       \/ pc[p] = "donePanic" /\ Goto(p, "deletePanic")
    /\ done' = done \cup {cur[p]}
    /\ UNCHANGED <<version, m, made, ofKey, res, arg, cur>>

\* Faulty variant: a panic leaves the call registered.
DeleteNotDeferred(p) ==
    /\ pc[p] \in {"delete", "deletePanic"}
    /\ m' = IF pc[p] = "delete" THEN [m EXCEPT ![arg[p]] = NoCall] ELSE m
    /\ Return(p, res[cur[p]])
    /\ UNCHANGED <<version, calls, arg>>

\* Faulty variant: the call is kept, as a cache of the last result would be.
NeverDeleted(p) ==
    /\ pc[p] \in {"delete", "deletePanic"}
    /\ Return(p, res[cur[p]])
    /\ UNCHANGED <<version, m, calls, arg>>

\* Remove whatever call the key has now, and return or panic again.
Delete(p) ==
    /\ pc[p] \in {"delete", "deletePanic"}
    /\ m' = [m EXCEPT ![arg[p]] = NoCall]
    /\ Return(p, res[cur[p]])
    /\ UNCHANGED <<version, calls, arg>>

Work(p) == Wait(p) \/ Store(p) \/ RunFn(p) \/ Done(p) \/ Delete(p)

Next ==
    \/ \E k \in Keys : Write(k)
    \/ \E p \in Procs, k \in Keys : Join(p, k) \/ Miss(p, k)
    \/ \E p \in Procs : Work(p)

Spec == Init /\ [][Next]_vars

\* A runnable goroutine runs on, and fn returns (or panics).
FairSpec == Spec /\ \A p \in Procs : WF_vars(Work(p))
-----------------------------------------------------------------------------
TypeOK ==
    /\ version \in [Keys -> Versions]
    /\ m \in [Keys -> Calls \cup {NoCall}]
    /\ made \in [Procs -> 0 .. MaxCalls]
    /\ ofKey \in [Calls -> Keys]
    /\ res \in [Calls -> Results]
    /\ done \in SUBSET Calls
    /\ pc \in [Procs -> Labels]
    /\ arg \in [Procs -> Keys]
    /\ cur \in [Procs -> Calls \cup {NoCall}]
    /\ got \in [Procs -> [Keys -> Results]]
    /\ quiet \in [Keys -> Versions]

(* A waiter waits for a call of the key it asked for, and that call is either
   done, with a result, or still in the hands of the goroutine that will
   finish it, panic or not (singleflight.go 65-69, 79-88).                    *)
WaitersServed ==
    \A p \in Procs : pc[p] = "wait" =>
        LET c == cur[p] IN
        /\ c \in Calls /\ ofKey[c] = arg[p]
        /\ \/ c \in done /\ res[c] # Unset
           \/ cur[c[1]] = c /\ pc[c[1]] \in {"fn", "done", "donePanic"}

(* A registered call has an owner that will still delete it: neither a panic
   nor two calls stored over each other leave an entry behind, which would
   hand its old result to every later request (singleflight.go 79-88).        *)
NothingLeftRegistered ==
    \A k \in Keys : m[k] # NoCall =>
        LET p == m[k][1] IN cur[p] = m[k] /\ arg[p] = k /\ pc[p] \in Owning

(* Sharing never reaches back over a moment at which nobody asked: a result
   that is or will be handed out is no older than the version the key had when
   last no Do for it was active.  The window between Done and Delete, in which
   a newcomer joins a finished call, is inside this bound.                    *)
SharingIsLocal ==
    \A p \in Procs : pc[p] \in Owning \cup {"wait"} =>
        (cur[p] \in Calls /\ res[cur[p]] \in Versions => res[cur[p]] >= quiet[arg[p]])

(* Every Do returns: waiters are woken also when fn panics.                   *)
EveryDoReturns == \A p \in Procs : pc[p] # "idle" ~> pc[p] = "idle"

(* What README section 6 (singleflight/README.md:169) says of the window
   between Load and Store: it costs an execution or two of fn and no
   consistency.  Then a goroutine that has been given a version of a key is
   never given an older one later, as with one call at a time.                *)
MonotoneReads ==
    [][\A p \in Procs, k \in Keys :
          got[p][k] \in Versions /\ got'[p][k] \in Versions => got'[p][k] >= got[p][k]]_vars
=============================================================================
