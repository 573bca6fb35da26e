----------------------------- MODULE GroupProofs -----------------------------
(* Group: nothing old comes back after a quiet moment and a closed group stays
   empty, for every number of goroutines, keys, versions, calls and orders.   *)
EXTENDS Group, WellFoundedInduction, TLAPS

LP == INSTANCE SingleFlightProofs

(* The loader in a group: what its own proofs show of it, but for SharingIsLocal,
   which a peer with an old copy breaks.                                     *)
LoaderInv ==
    LP!TypeOK /\ LP!OwnInv /\ LP!NumberInv /\ LP!WaitersServed /\ LP!NothingLeftRegistered

\* The versions that are held of each key.
CopySets == [Keys -> SUBSET Loader!Versions]

CopyTypes == cached \in CopySets /\ remote \in CopySets

\* Group's TypeOK, but for what it says of the loader and of the two controls.
GTypes ==
    /\ peers \in BOOLEAN /\ cacheClosed \in BOOLEAN
    /\ CopyTypes
    /\ life \in {"open", "clear", "close", "gone"}
    /\ gpc \in [Procs -> Labels] /\ task \in [Procs -> Task]
    /\ asked \in [Procs -> BOOLEAN]
    /\ syncs \subseteq Sync
    /\ floor \in [Keys -> Loader!Versions]

\* A goroutine is in Do exactly while its task waits for Do, and for its key.
FlightInv ==
    \A p \in Procs :
        /\ pc[p] # "idle" <=> gpc[p] = "flight"
        /\ gpc[p] = "flight" => arg[p] = task[p].k

\* Do has given its result to who comes back from it.
GivenInv == \A p \in Procs : gpc[p] = "back" => got[p][task[p].k] # Unset

\* What is closed is empty, and what is gone is closed.
ClosedInv ==
    /\ life = "gone" => cacheClosed
    /\ cacheClosed => \A k \in Keys : cached[k] = {}

\* Goroutine p will hand on v: to a copy, to an order or to its caller.
Carries(p, v) ==
    \/ gpc[p] = "set" /\ task[p].v = v
    \/ gpc[p] = "flight" /\ pc[p] \in LP!Owning \cup {"wait"} /\ res[cur[p]] = v
    \/ gpc[p] = "back" /\ got[p][task[p].k] = v

\* The versions of k that a copy can have next, wherever they are now.
Afloat(k, v) ==
    \/ v = version[k] \/ v \in cached[k] \cup remote[k]
    \/ \E s \in syncs : s.k = k /\ s.op = "set" /\ s.v = v
    \/ \E p \in Procs : task[p].k = k /\ Carries(p, v)

(* The floor holds not for the copies alone but for every version that is afloat:
   that is what a step hands on.                                             *)
BoundsInv ==
    \A k \in Keys, v \in Loader!Versions :
        Afloat(k, v) => floor[k] <= v /\ v <= version[k]

IInv == LoaderInv /\ GTypes /\ FlightInv /\ GivenInv /\ ClosedInv /\ BoundsInv

-----------------------------------------------------------------------------
LEMMA SameConstants ==
    /\ LP!Calls = Loader!Calls /\ LP!Versions = Loader!Versions
    /\ LP!Results = Loader!Versions \cup {Err, Unset}
    /\ LP!Labels = Loader!Labels
    /\ Loader!Versions \subseteq Nat /\ 0 \in Loader!Versions
    /\ Err \notin Loader!Versions /\ Unset \notin Loader!Versions /\ Err # Unset
BY GroupAssumption, LoaderAssumption
   DEF LP!Calls, Loader!Calls, LP!Versions, Loader!Versions, LP!Results, LP!Labels, Loader!Labels

LEMMA LPAssumption ==
    /\ Keys # {}
    /\ MaxCalls \in Nat /\ MaxVersion \in Nat
    /\ NoCall \notin LP!Calls
    /\ Err \notin LP!Versions /\ Unset \notin LP!Versions /\ Err # Unset
BY LoaderAssumption, SameConstants

\* A step of the loader is a step of the loader that its own proofs are about.
LEMMA SameSteps ==
    ASSUME \/ \E k \in Keys : Loader!Write(k)
           \/ \E p \in Procs, k \in Keys : Loader!Join(p, k) \/ Loader!Miss(p, k)
           \/ \E p \in Procs : Loader!Work(p)
           \/ UNCHANGED loader
    PROVE  [LP!Next]_(LP!vars)
<1>1. \A k \in Keys : Loader!Write(k) <=> LP!Write(k)
  BY DEF Loader!Write, LP!Write, Loader!Active, LP!Active, Loader!calls, LP!calls
<1>2. \A p \in Procs, k \in Keys :
         (Loader!Join(p, k) <=> LP!Join(p, k)) /\ (Loader!Miss(p, k) <=> LP!Miss(p, k))
  BY DEF Loader!Join, LP!Join, Loader!Miss, LP!Miss, Loader!Goto, LP!Goto,
         Loader!calls, LP!calls
<1>3. \A p \in Procs : Loader!Wait(p) <=> LP!Wait(p)
  BY DEF Loader!Wait, LP!Wait, Loader!Return, LP!Return, Loader!Active, LP!Active,
         Loader!calls, LP!calls
<1>4. \A p \in Procs : Loader!Delete(p) <=> LP!Delete(p)
  BY DEF Loader!Delete, LP!Delete, Loader!Return, LP!Return, Loader!Active, LP!Active,
         Loader!calls, LP!calls
<1>5. \A p \in Procs : Loader!Store(p) <=> LP!Store(p)
  BY DEF Loader!Store, LP!Store, Loader!Goto, LP!Goto
<1>6. \A p \in Procs : Loader!RunFn(p) <=> LP!RunFn(p)
  BY DEF Loader!RunFn, LP!RunFn, Loader!Goto, LP!Goto
<1>7. \A p \in Procs : Loader!Done(p) <=> LP!Done(p)
  BY DEF Loader!Done, LP!Done, Loader!Goto, LP!Goto
<1>8. UNCHANGED loader => UNCHANGED LP!vars
  BY DEF loader, LP!vars, LP!calls
<1> QED
  BY <1>1, <1>2, <1>3, <1>4, <1>5, <1>6, <1>7, <1>8
     DEF LP!Next, LP!Work, Loader!Work

LEMMA LoaderSteps ==
    ASSUME LoaderInv, [LP!Next]_(LP!vars)
    PROVE  LoaderInv'
<1>1. LP!TypeOK'
  BY LPAssumption, LP!TypeStep DEF LoaderInv
<1>2. LP!OwnInv'
  BY LPAssumption, LP!OwnStep DEF LoaderInv
<1>3. LP!NumberInv'
  BY LPAssumption, LP!NumberStep DEF LoaderInv
<1>4. LP!WaitersServed'
  BY LPAssumption, LP!WaitersStep DEF LoaderInv
<1>5. LP!NothingLeftRegistered'
  BY LPAssumption, LP!NothingStep DEF LoaderInv
<1> QED
  BY <1>1, <1>2, <1>3, <1>4, <1>5 DEF LoaderInv

\* The call of a goroutine on its own load.
LEMMA OwnCall ==
    ASSUME LoaderInv, NEW p \in Procs, pc[p] \in LP!Owning
    PROVE  /\ cur[p] = <<p, made[p]>> /\ made[p] \in 1 .. MaxCalls /\ cur[p] \in LP!Calls
           /\ ofKey[cur[p]] = arg[p]
           /\ cur[p] \in done <=> pc[p] \in {"delete", "deletePanic"}
           /\ res[cur[p]] = Unset <=> pc[p] = "fn"
<1>1. cur[p] = <<p, made[p]>> /\ made[p] \in 1 .. MaxCalls /\ cur[p] \in LP!Calls
  BY LPAssumption, LP!OwnCall DEF LoaderInv
<1> QED
  BY <1>1 DEF LoaderInv, LP!OwnInv

\* The answer of a peer is to the loader what the end of fn is.
LEMMA PeerAnswersKeeps ==
    ASSUME LoaderInv, NEW p \in Procs, pc[p] = "fn", NEW r \in LP!Versions, PeerAnswers(p, r)
    PROVE  LoaderInv'
<1>1. /\ cur[p] = <<p, made[p]>> /\ made[p] \in 1 .. MaxCalls /\ cur[p] \in LP!Calls
      /\ ofKey[cur[p]] = arg[p] /\ cur[p] \notin done
  BY OwnCall DEF LP!Owning
<1>2. /\ \A c \in LP!Calls : res'[c] = IF c = cur[p] THEN r ELSE res[c]
      /\ res' \in [LP!Calls -> LP!Results]
      /\ pc' \in [Procs -> LP!Labels] /\ pc'[p] = "done"
      /\ \A q \in Procs : q # p => pc'[q] = pc[q]
      /\ UNCHANGED <<version, m, made, ofKey, done, arg, cur, got, quiet>>
      /\ r # Unset
  BY SameConstants DEF LoaderInv, LP!TypeOK, PeerAnswers, LP!Labels
<1>3. LP!TypeOK'
  BY <1>2 DEF LoaderInv, LP!TypeOK
<1>4. LP!OwnInv'
  <2> SUFFICES ASSUME NEW q \in Procs
               PROVE  /\ pc'[q] = "store" => made'[q] < MaxCalls
                      /\ pc'[q] \in LP!Owning =>
                            /\ made'[q] >= 1 /\ cur'[q] = <<q, made'[q]>>
                            /\ ofKey'[cur'[q]] = arg'[q]
                            /\ cur'[q] \in done' <=> pc'[q] \in {"delete", "deletePanic"}
                            /\ res'[cur'[q]] = Unset <=> pc'[q] = "fn"
    BY DEF LP!OwnInv
  <2>1. CASE q = p
    BY <1>1, <1>2, <2>1
  <2>2. CASE q # p
    <3>1. pc[q] \in LP!Owning => cur[q] = <<q, made[q]>> /\ cur[q] \in LP!Calls /\ cur[q] # cur[p]
      BY <1>1, <2>2, OwnCall
    <3> QED
      BY <1>2, <2>2, <3>1 DEF LoaderInv, LP!OwnInv
  <2> QED
    BY <2>1, <2>2
<1>5. LP!NumberInv'
  <2> SUFFICES ASSUME NEW q \in Procs, NEW n \in 1 .. MaxCalls
               PROVE  /\ n > made'[q] => <<q, n>> \notin done' /\ res'[<<q, n>>] = Unset
                      /\ <<q, n>> \in done' => res'[<<q, n>>] # Unset
    BY DEF LP!NumberInv
  <2>1. <<q, n>> \in LP!Calls /\ made[q] \in Nat
    BY LPAssumption DEF LP!Calls, LoaderInv, LP!TypeOK
  <2>2. <<q, n>> = cur[p] => n = made[q]
    BY <1>1
  <2> QED
    BY <1>1, <1>2, <2>1, <2>2 DEF LoaderInv, LP!NumberInv
<1>6. LP!WaitersServed'
  <2> SUFFICES ASSUME NEW q \in Procs, pc'[q] = "wait"
               PROVE  /\ cur[q] \in LP!Calls /\ ofKey[cur[q]] = arg[q]
                      /\ \/ cur[q] \in done /\ res'[cur[q]] # Unset
                         \/ cur[cur[q][1]] = cur[q] /\ pc'[cur[q][1]] \in {"fn", "done", "donePanic"}
    BY <1>2 DEF LP!WaitersServed
  <2>1. pc[q] = "wait"
    BY <1>2
  <2>2. cur[q] \in LP!Calls /\ cur[q][1] \in Procs
    BY <2>1 DEF LoaderInv, LP!WaitersServed, LP!Calls
  <2> QED
    BY <1>1, <1>2, <2>1, <2>2 DEF LoaderInv, LP!WaitersServed
<1>7. LP!NothingLeftRegistered'
  <2>1. \A q \in Procs : pc[q] \in LP!Owning => pc'[q] \in LP!Owning
    BY <1>2 DEF LP!Owning
  <2>2. \A k \in Keys : m[k] # NoCall => m[k][1] \in Procs
    BY DEF LoaderInv, LP!TypeOK, LP!Calls
  <2> QED
    BY <1>2, <2>1, <2>2 DEF LoaderInv, LP!NothingLeftRegistered
<1> QED
  BY <1>3, <1>4, <1>5, <1>6, <1>7 DEF LoaderInv

\* Forgetting a result that nobody reads again does nothing to the loader.
LEMMA ForgetGotKeeps ==
    ASSUME LoaderInv, NEW p \in Procs, NEW k \in Keys,
           got' = [got EXCEPT ![p] = [@ EXCEPT ![k] = Unset]],
           UNCHANGED <<version, m, made, ofKey, res, done, pc, arg, cur, quiet>>
    PROVE  LoaderInv'
<1>1. LP!TypeOK'
  <2>1. got[p] \in [Keys -> LP!Results] /\ Unset \in LP!Results
    BY SameConstants DEF LoaderInv, LP!TypeOK
  <2>2. [got[p] EXCEPT ![k] = Unset] \in [Keys -> LP!Results]
    BY <2>1
  <2>3. got' \in [Procs -> [Keys -> LP!Results]]
    BY <2>2 DEF LoaderInv, LP!TypeOK
  <2> QED
    BY <2>3 DEF LoaderInv, LP!TypeOK
<1> QED
  BY <1>1 DEF LoaderInv, LP!OwnInv, LP!NumberInv, LP!WaitersServed, LP!NothingLeftRegistered

-----------------------------------------------------------------------------
\* What the helpers of Group do to the controls and tasks of the goroutines.
LEMMA ReturnEffect ==
    ASSUME GTypes, NEW p \in Procs, Return(p)
    PROVE  /\ gpc' \in [Procs -> Labels] /\ task' \in [Procs -> Task]
           /\ \A q \in Procs : gpc'[q] = IF q = p THEN "idle" ELSE gpc[q]
           /\ \A q \in Procs : task'[q].k = task[q].k /\ (q # p => task'[q] = task[q])
<1>1. task[p] \in Task
  BY DEF GTypes
<1>2. PICK t \in Task : task' = [task EXCEPT ![p] = t] /\ t.k = task[p].k
  <2> DEFINE t == [k |-> task[p].k, v |-> 0, fromPeer |-> FALSE]
  <2>1. t \in Task
    BY <1>1, SameConstants DEF Task
  <2>2. task' = [task EXCEPT ![p] = [[task[p] EXCEPT !.v = 0] EXCEPT !.fromPeer = FALSE]]
    BY DEF Return, GTypes
  <2>3. [[task[p] EXCEPT !.v = 0] EXCEPT !.fromPeer = FALSE] = t
    <3>1. PICK r \in Task : r = task[p]
      BY <1>1
    <3>2. PICK c : c = [r EXCEPT !.v = 0]
      OBVIOUS
    <3>3. c = [k |-> r.k, v |-> 0, fromPeer |-> r.fromPeer]
      BY <3>2, SameConstants DEF Task
    <3>4. PICK d : d = [c EXCEPT !.fromPeer = FALSE]
      OBVIOUS
    <3>5. d = [k |-> r.k, v |-> 0, fromPeer |-> FALSE]
      BY <3>3, <3>4
    <3> QED
      BY <3>1, <3>2, <3>4, <3>5
  <2> QED
    BY <2>1, <2>2, <2>3
<1> QED
  BY <1>2 DEF Return, GTypes, Labels

LEMMA GotoEffect ==
    ASSUME GTypes, NEW p \in Procs, NEW l \in Labels, Goto(p, l)
    PROVE  /\ gpc' \in [Procs -> Labels] /\ task' = task
           /\ \A q \in Procs : gpc'[q] = IF q = p THEN l ELSE gpc[q]
  BY DEF Goto, GTypes

\* The goroutine p starts on a task that is known but for its fromPeer.
Started(p, l, k, v) ==
    /\ gpc' \in [Procs -> Labels] /\ task' \in [Procs -> Task]
    /\ \A q \in Procs : gpc'[q] = IF q = p THEN l ELSE gpc[q]
    /\ \A q \in Procs : q # p => task'[q] = task[q]
    /\ task'[p].k = k /\ task'[p].v = v
    /\ gpc[p] = "idle"
    /\ UNCHANGED <<loader, peers, group, asked, remote>>

LEMMA StartEffect ==
    ASSUME GTypes, NEW p \in Procs, NEW l \in Labels, NEW k \in Keys,
           NEW v \in Loader!Versions, NEW b \in BOOLEAN, StartTask(p, l, k, v, b)
    PROVE  Started(p, l, k, v)
  BY DEF StartTask, GTypes, Task, Started

\* What Enter may start: a Set carries the version the store has.
LEMMA EnterEffect ==
    ASSUME LoaderInv, GTypes, NEW p \in Procs, Enter(p)
    PROVE  \E l \in {"lookup", "clear", "set", "delete"}, k \in Keys, v \in Loader!Versions :
              /\ Started(p, l, k, v)
              /\ l = "set" => v = version[k]
              /\ UNCHANGED syncs
<1>1. \A k \in Keys : version[k] \in Loader!Versions
  BY SameConstants DEF LoaderInv, LP!TypeOK
<1>2. PICK l \in {"lookup", "clear", "set", "delete"}, k \in Keys, v \in Loader!Versions :
           StartTask(p, l, k, v, FALSE) /\ (l = "set" => v = version[k]) /\ UNCHANGED syncs
  BY <1>1, SameConstants DEF Enter
<1>3. l \in Labels /\ FALSE \in BOOLEAN
  BY DEF Labels
<1>4. Started(p, l, k, v)
  BY <1>2, <1>3, StartEffect
<1> QED
  BY <1>2, <1>4

LEMMA EnterFromPeerEffect ==
    ASSUME GTypes, NEW p \in Procs, EnterFromPeer(p)
    PROVE  \E s \in syncs :
              /\ s.op \in Orders /\ s.k \in Keys
              /\ Started(p, s.op, s.k, s.v)
              /\ syncs' = syncs \ {s}
<1>1. PICK s \in syncs : /\ s.op \in Orders /\ s.k \in Keys /\ s.v \in Loader!Versions
                         /\ StartTask(p, s.op, s.k, s.v, TRUE)
                         /\ syncs' = syncs \ {s}
  BY DEF EnterFromPeer, GTypes, Sync
<1>2. s.op \in Labels /\ TRUE \in BOOLEAN
  BY <1>1 DEF Labels, Orders
<1>3. Started(p, s.op, s.k, s.v)
  BY <1>1, <1>2, StartEffect
<1> QED
  BY <1>1, <1>3

\* Do returns to p: its result is the one of its call.
LEMMA EndDoEffect ==
    ASSUME LoaderInv, NEW p \in Procs, EndDo(p)
    PROVE  /\ gpc[p] = "flight" /\ Goto(p, "back")
           /\ pc[p] \in {"wait", "delete", "deletePanic"} /\ res[cur[p]] # Unset
           /\ \A q \in Procs : pc'[q] = IF q = p THEN "idle" ELSE pc[q]
           /\ \A q \in Procs : q # p => cur'[q] = cur[q] /\ got'[q] = got[q]
           /\ got'[p][arg[p]] = res[cur[p]]
           /\ UNCHANGED <<version, made, ofKey, res, done, arg>>
           /\ UNCHANGED <<peers, group, asked, syncs, remote>>
<1>1. /\ pc \in [Procs -> LP!Labels] /\ cur \in [Procs -> LP!Calls \cup {NoCall}]
      /\ got \in [Procs -> [Keys -> LP!Results]] /\ arg[p] \in Keys
  BY DEF LoaderInv, LP!TypeOK
<1>2. CASE Loader!Wait(p)
  <2>1. pc[p] = "wait" /\ cur[p] \in done
    BY <1>2 DEF Loader!Wait
  <2>2. res[cur[p]] # Unset
    <3>1. ASSUME pc[cur[p][1]] \in {"fn", "done", "donePanic"}, cur[cur[p][1]] = cur[p],
                 cur[p] \in LP!Calls
          PROVE  FALSE
      <4>1. cur[p][1] \in Procs
        BY <3>1 DEF LP!Calls
      <4> QED
        BY <2>1, <3>1, <4>1, OwnCall DEF LP!Owning
    <3> QED
      BY <2>1, <3>1 DEF LoaderInv, LP!WaitersServed
  <2> QED
    BY <1>1, <1>2, <2>1, <2>2 DEF EndDo, Loader!Wait, Loader!Return, Loader!calls
<1>3. CASE Loader!Delete(p)
  <2>1. pc[p] \in {"delete", "deletePanic"}
    BY <1>3 DEF Loader!Delete
  <2>2. res[cur[p]] # Unset
    BY <2>1, OwnCall DEF LP!Owning
  <2> QED
    BY <1>1, <1>3, <2>1, <2>2 DEF EndDo, Loader!Delete, Loader!Return, Loader!calls
<1> QED
  BY <1>2, <1>3 DEF EndDo

\* The two ways in which a load gets an answer, or none from the peer.
LEMMA AskPeerEffect ==
    ASSUME LoaderInv, GTypes, FlightInv, NEW p \in Procs, AskPeer(p)
    PROVE  /\ pc[p] = "fn" /\ gpc[p] = "flight" /\ arg[p] = task[p].k
           /\ UNCHANGED <<version, peers, group, gpc, task, syncs>>
           /\ asked' \in [Procs -> BOOLEAN] /\ remote' \in CopySets
           /\ \A k \in Keys : \A w \in remote'[k] : w = version[k] \/ w \in remote[k]
           /\ \/ UNCHANGED loader
              \/ \E r \in Loader!Versions :
                    PeerAnswers(p, r) /\ (r = version[task[p].k] \/ r \in remote[task[p].k])
<1>1. version[task[p].k] \in Loader!Versions /\ remote[task[p].k] \subseteq Loader!Versions
  BY SameConstants DEF LoaderInv, LP!TypeOK, GTypes, CopyTypes, CopySets, Task
<1>2. pc[p] = "fn" /\ gpc[p] = "flight" /\ arg[p] = task[p].k
  BY DEF AskPeer, FlightInv
<1>3. UNCHANGED <<version, peers, group, gpc, task, syncs>> /\ asked' \in [Procs -> BOOLEAN]
  BY DEF AskPeer, PeerAnswers, loader, GTypes
<1>4. CASE \E v \in remote[task[p].k] : PeerAnswers(p, v) /\ UNCHANGED remote
  BY <1>1, <1>2, <1>3, <1>4 DEF GTypes, CopyTypes
<1>5. CASE /\ remote' = [remote EXCEPT ![task[p].k] = {version[task[p].k]}]
           /\ PeerAnswers(p, version[task[p].k])
  <2>1. remote' \in CopySets
    BY <1>1, <1>5 DEF GTypes, CopyTypes, CopySets
  <2>2. \A k \in Keys : \A w \in remote'[k] : w = version[k] \/ w \in remote[k]
    BY <1>5 DEF GTypes, CopyTypes, CopySets
  <2> QED
    BY <1>1, <1>2, <1>3, <1>5, <2>1, <2>2
<1>6. CASE UNCHANGED <<loader, remote>>
  BY <1>2, <1>3, <1>6 DEF GTypes, CopyTypes
<1> QED
  BY <1>4, <1>5, <1>6 DEF AskPeer

-----------------------------------------------------------------------------
LEMMA LoaderStep ==
    ASSUME LoaderInv, GTypes, FlightInv, Step
    PROVE  LoaderInv'
<1>1. ASSUME NEW k \in Keys, Write(k) PROVE LoaderInv'
  BY <1>1, SameSteps, LoaderSteps DEF Write
<1>2. ASSUME NEW p \in Procs, CallDo(p) PROVE LoaderInv'
  <2>1. task[p].k \in Keys
    BY DEF GTypes, Task
  <2> QED
    BY <1>2, <2>1, SameSteps, LoaderSteps DEF CallDo
<1>3. ASSUME NEW p \in Procs, InDo(p) \/ AskGetter(p) \/ EndDo(p) PROVE LoaderInv'
  <2>1. Loader!Work(p)
    BY <1>3 DEF InDo, AskGetter, EndDo, Loader!Work
  <2> QED
    BY <2>1, SameSteps, LoaderSteps
<1>4. ASSUME NEW p \in Procs, AskPeer(p) PROVE LoaderInv'
  <2>1. CASE UNCHANGED loader
    BY <2>1, SameSteps, LoaderSteps
  <2>2. ASSUME NEW r \in Loader!Versions, PeerAnswers(p, r) PROVE LoaderInv'
    BY <1>4, <2>2, PeerAnswersKeeps, SameConstants DEF AskPeer
  <2> QED
    BY <1>4, <2>1, <2>2, AskPeerEffect
<1>5. ASSUME NEW p \in Procs, WriteBack(p) PROVE LoaderInv'
  <2>1. task[p].k \in Keys
    BY DEF GTypes, Task
  <2> QED
    BY <1>5, <2>1, ForgetGotKeeps DEF WriteBack, EndGet
<1>6. CASE UNCHANGED loader
  BY <1>6, SameSteps, LoaderSteps
<1>7. ASSUME NEW p \in Procs, Enter(p) \/ EnterFromPeer(p) \/ Lookup(p) \/ Set(p) \/ Delete(p) \/ Clear(p)
      PROVE  UNCHANGED loader
  BY <1>7 DEF Enter, EnterFromPeer, StartTask, Lookup, Set, Delete, Clear
<1>8. ASSUME NEW k \in Keys, Evict(k) \/ PeerMoves(k) \/ (\E op \in Orders : PeerOrders(k, op))
      PROVE  UNCHANGED loader
  BY <1>8 DEF Evict, PeerMoves, PeerOrders
<1>9. ASSUME Close \/ CloseClears \/ CloseCloses \/ \E s \in syncs : Deliver(s) \/ GiveUp(s)
      PROVE  UNCHANGED loader
  BY <1>9 DEF Close, CloseClears, CloseCloses, Deliver, GiveUp
<1> QED
  BY <1>1, <1>2, <1>3, <1>4, <1>5, <1>6, <1>7, <1>8, <1>9 DEF Step, Work

-----------------------------------------------------------------------------
\* The oldest copy is one of the copies, or the version if there is none.
OldestIsLeast ==
    \A k \in Keys :
        /\ Oldest(k) \in Loader!Versions
        /\ HeldCopies(k) \subseteq Loader!Versions
        /\ \A v \in HeldCopies(k) : Oldest(k) <= v
        /\ Oldest(k) \in HeldCopies(k) \cup {version[k]}

LEMMA OldestIs == LoaderInv /\ CopyTypes => OldestIsLeast
<1> SUFFICES ASSUME LoaderInv, CopyTypes, NEW k \in Keys
             PROVE  /\ Oldest(k) \in Loader!Versions
                    /\ HeldCopies(k) \subseteq Loader!Versions
                    /\ \A v \in HeldCopies(k) : Oldest(k) <= v
                    /\ Oldest(k) \in HeldCopies(k) \cup {version[k]}
  BY DEF OldestIsLeast
<1>1. version[k] \in Loader!Versions
  BY SameConstants DEF LoaderInv, LP!TypeOK
<1>2. HeldCopies(k) \subseteq Loader!Versions
  BY DEF HeldCopies, CopyTypes, CopySets
<1>3. CASE HeldCopies(k) = {}
  BY <1>1, <1>2, <1>3 DEF Oldest
<1>4. CASE HeldCopies(k) # {}
  <2>1. HeldCopies(k) \subseteq Nat
    BY <1>2, SameConstants
  <2>2. PICK v \in HeldCopies(k) : \A w \in HeldCopies(k) : ~ (<<w, v>> \in OpToRel(<, Nat))
    BY <1>4, <2>1, WFMin, NatLessThanWellFounded
  <2>3. ASSUME NEW w \in HeldCopies(k) PROVE v <= w
    <3>1. v \in Nat /\ w \in Nat /\ ~ (w < v)
      BY <2>1, <2>2 DEF OpToRel
    <3> QED
      BY <3>1
  <2> QED
    BY <1>2, <1>4, <2>3 DEF Oldest
<1> QED
  BY <1>3, <1>4

\* What Add may leave in the main cache.
LEMMA AddEffect ==
    ASSUME CopyTypes, NEW k \in Keys, NEW v \in Loader!Versions, Add(k, v)
    PROVE  /\ cached' \in CopySets
           /\ \A j \in Keys : \A w \in cached'[j] : w \in cached[j] \/ (j = k /\ w = v)
           /\ cacheClosed => cached' = cached
  BY DEF Add, CopyTypes, CopySets

LEMMA WriteBackEffect ==
    ASSUME LoaderInv, GTypes, GivenInv, NEW p \in Procs, WriteBack(p)
    PROVE  /\ gpc[p] = "back" /\ Return(p)
           /\ cached' \in CopySets
           /\ \A j \in Keys : \A w \in cached'[j] :
                 w \in cached[j] \/ (j = task[p].k /\ w = got[p][j])
           /\ cacheClosed => cached' = cached
           /\ \A q \in Procs : q # p => got'[q] = got[q]
           /\ UNCHANGED <<version, m, made, ofKey, res, done, pc, arg, cur, quiet>>
           /\ UNCHANGED <<peers, cacheClosed, life, asked, syncs, remote>>
<1>1. task[p].k \in Keys /\ got[p][task[p].k] \in LP!Results /\ got \in [Procs -> [Keys -> LP!Results]]
  BY DEF GTypes, Task, LoaderInv, LP!TypeOK
<1>2. gpc[p] = "back" /\ Return(p) /\ got[p][task[p].k] # Unset
  BY DEF WriteBack, EndGet, GivenInv
<1>3. CASE got[p][task[p].k] = Err
  BY <1>1, <1>2, <1>3 DEF WriteBack, EndGet, GTypes, CopyTypes
<1>4. CASE got[p][task[p].k] # Err
  <2>1. got[p][task[p].k] \in Loader!Versions
    BY <1>1, <1>2, <1>4, SameConstants
  <2> QED
    BY <1>1, <1>2, <1>4, <2>1, AddEffect DEF WriteBack, EndGet, GTypes
<1> QED
  BY <1>3, <1>4

LEMMA SetEffect ==
    ASSUME GTypes, NEW p \in Procs, Set(p)
    PROVE  /\ gpc[p] = "set" /\ Return(p)
           /\ cached' \in CopySets
           /\ \A j \in Keys : \A w \in cached'[j] :
                 w \in cached[j] \/ (j = task[p].k /\ w = task[p].v)
           /\ cacheClosed => cached' = cached
           /\ syncs' \subseteq Sync
           /\ \A s \in syncs' : s \in syncs \/ (s.k = task[p].k /\ s.v = task[p].v)
           /\ UNCHANGED <<loader, peers, cacheClosed, life, asked, remote>>
<1>1. task[p].k \in Keys /\ task[p].v \in Loader!Versions
  BY DEF GTypes, Task
<1>2. [to |-> "peer", op |-> "set", k |-> task[p].k, v |-> task[p].v] \in Sync
  BY <1>1 DEF Sync, Orders
<1> QED
  BY <1>1, <1>2, AddEffect DEF Set, Spawn, GTypes

LEMMA DeleteEffect ==
    ASSUME GTypes, NEW p \in Procs, Delete(p)
    PROVE  /\ gpc[p] = "delete" /\ Return(p)
           /\ cached' \in CopySets
           /\ \A j \in Keys : cached'[j] \subseteq cached[j]
           /\ syncs' \subseteq Sync
           /\ \A s \in syncs' : s \in syncs \/ s.op = "delete"
           /\ UNCHANGED <<loader, peers, cacheClosed, life, asked, remote>>
<1>1. task[p].k \in Keys /\ task[p].v \in Loader!Versions
  BY DEF GTypes, Task
<1>2. [to |-> "peer", op |-> "delete", k |-> task[p].k, v |-> task[p].v] \in Sync
  BY <1>1 DEF Sync, Orders
<1> QED
  BY <1>1, <1>2 DEF Delete, Spawn, GTypes, CopyTypes, CopySets

LEMMA OrdersEffect ==
    ASSUME LoaderInv, GTypes, NEW k \in Keys, NEW op \in Orders, PeerOrders(k, op)
    PROVE  /\ remote' \in CopySets /\ syncs' \subseteq Sync
           /\ \A j \in Keys : \A w \in remote'[j] : w \in remote[j] \/ w = version[j]
           /\ \A s \in syncs' : s \in syncs \/ (s.op = "set" => s.v = version[s.k])
           /\ UNCHANGED <<loader, peers, group, flow>>
<1>1. version[k] \in Loader!Versions
  BY SameConstants DEF LoaderInv, LP!TypeOK
<1>2. PICK v \in Loader!Versions : v = IF op = "set" THEN version[k] ELSE 0
  BY <1>1, SameConstants
<1>3. [to |-> "us", op |-> op, k |-> k, v |-> v] \in Sync
  BY <1>2 DEF Sync
<1> QED
  BY <1>1, <1>2, <1>3 DEF PeerOrders, CopiesAfter, GTypes, CopyTypes, CopySets

LEMMA DeliverEffect ==
    ASSUME GTypes, NEW s \in syncs, Deliver(s)
    PROVE  /\ remote' \in CopySets /\ syncs' = syncs \ {s}
           /\ \A j \in Keys : \A w \in remote'[j] :
                 w \in remote[j] \/ (j = s.k /\ s.op = "set" /\ w = s.v)
           /\ UNCHANGED <<loader, peers, group, flow>>
  BY DEF Deliver, CopiesAfter, GTypes, CopyTypes, CopySets, Sync, Orders

LEMMA PeerMovesEffect ==
    ASSUME LoaderInv, GTypes, NEW k \in Keys, PeerMoves(k)
    PROVE  /\ remote' \in CopySets
           /\ \A j \in Keys : \A w \in remote'[j] : w = version[j] \/ w \in remote[j] \cup cached[j]
           /\ UNCHANGED <<loader, peers, group, flow, syncs>>
<1>1. version[k] \in Loader!Versions
  BY SameConstants DEF LoaderInv, LP!TypeOK
<1> QED
  BY <1>1 DEF PeerMoves, GTypes, CopyTypes, CopySets

-----------------------------------------------------------------------------
LEMMA TypeStep ==
    ASSUME LoaderInv, GTypes, FlightInv, GivenInv, Next
    PROVE  GTypes'
<1> DEFINE Rest ==
        /\ peers \in BOOLEAN /\ cacheClosed \in BOOLEAN
        /\ CopyTypes
        /\ life \in {"open", "clear", "close", "gone"}
        /\ gpc \in [Procs -> Labels] /\ task \in [Procs -> Task]
        /\ asked \in [Procs -> BOOLEAN]
        /\ syncs \subseteq Sync
<1>0. Rest
  BY DEF GTypes
<1>1. ASSUME NEW k \in Keys, Write(k) \/ Evict(k) \/ PeerMoves(k) PROVE Rest'
  <2>1. CASE Write(k)
    BY <1>0, <2>1 DEF Write, CopyTypes, group, flow
  <2>2. CASE Evict(k)
    BY <1>0, <2>2 DEF Evict, CopyTypes, CopySets, flow
  <2>3. CASE PeerMoves(k)
    BY <1>0, <2>3, PeerMovesEffect DEF CopyTypes, group, flow
  <2> QED
    BY <1>1, <2>1, <2>2, <2>3
<1>2. ASSUME NEW k \in Keys, NEW op \in Orders, PeerOrders(k, op) PROVE Rest'
  BY <1>0, <1>2, OrdersEffect DEF CopyTypes, group, flow
<1>3. ASSUME NEW p \in Procs, Enter(p) PROVE Rest'
  BY <1>0, <1>3, EnterEffect DEF Started, CopyTypes, group
<1>4. ASSUME NEW p \in Procs, EnterFromPeer(p) PROVE Rest'
  BY <1>0, <1>4, EnterFromPeerEffect DEF Started, CopyTypes, group
<1>5. ASSUME NEW p \in Procs, Lookup(p) \/ Clear(p) PROVE Rest'
  <2>1. CASE Lookup(p)
    BY <1>0, <2>1, ReturnEffect, GotoEffect DEF Lookup, CopyTypes, group, Labels
  <2>2. CASE Clear(p)
    BY <1>0, <2>2, ReturnEffect DEF Clear, CopyTypes, CopySets
  <2> QED
    BY <1>5, <2>1, <2>2
<1>6. ASSUME NEW p \in Procs, CallDo(p) \/ InDo(p) \/ AskGetter(p) PROVE Rest'
  <2>1. CASE CallDo(p)
    BY <1>0, <2>1, GotoEffect DEF CallDo, CopyTypes, group, Labels
  <2>2. CASE InDo(p)
    BY <1>0, <2>2 DEF InDo, CopyTypes, group, flow
  <2>3. CASE AskGetter(p)
    BY <1>0, <2>3 DEF AskGetter, CopyTypes, group
  <2> QED
    BY <1>6, <2>1, <2>2, <2>3
<1>7. ASSUME NEW p \in Procs, AskPeer(p) PROVE Rest'
  BY <1>0, <1>7, AskPeerEffect DEF CopyTypes, group
<1>8. ASSUME NEW p \in Procs, EndDo(p) PROVE Rest'
  BY <1>0, <1>8, GotoEffect DEF EndDo, CopyTypes, group, Labels
<1>9. ASSUME NEW p \in Procs, WriteBack(p) PROVE Rest'
  BY <1>0, <1>9, WriteBackEffect, ReturnEffect DEF CopyTypes
<1>10. ASSUME NEW p \in Procs, Set(p) PROVE Rest'
  BY <1>0, <1>10, SetEffect, ReturnEffect DEF CopyTypes
<1>11. ASSUME NEW p \in Procs, Delete(p) PROVE Rest'
  BY <1>0, <1>11, DeleteEffect, ReturnEffect DEF CopyTypes
<1>12. ASSUME NEW s \in syncs, Deliver(s) \/ GiveUp(s) PROVE Rest'
  <2>1. CASE Deliver(s)
    BY <1>0, <2>1, DeliverEffect DEF CopyTypes, group, flow
  <2>2. CASE GiveUp(s)
    BY <1>0, <2>2 DEF GiveUp, CopyTypes, group, flow
  <2> QED
    BY <1>12, <2>1, <2>2
<1>13. ASSUME Close \/ CloseClears \/ CloseCloses PROVE Rest'
  BY <1>0, <1>13 DEF Close, CloseClears, CloseCloses, CopyTypes, CopySets, flow
<1>14. Rest'
  BY <1>1, <1>2, <1>3, <1>4, <1>5, <1>6, <1>7, <1>8, <1>9, <1>10, <1>11, <1>12, <1>13
     DEF Next, Step, Work
<1>15. LoaderInv'
  BY LoaderStep DEF Next
<1>16. \A k \in Keys : Oldest(k)' \in Loader!Versions
  <2>1. CopyTypes'
    BY <1>14
  <2>2. OldestIsLeast'
    BY <1>15, <2>1, OldestIs, PTL
  <2> QED
    BY <2>2 DEF OldestIsLeast, Loader!Versions
<1>17. floor' \in [Keys -> Loader!Versions]
  BY <1>16 DEF Next, Record, GTypes
<1> QED
  BY <1>14, <1>17 DEF GTypes

-----------------------------------------------------------------------------
\* Steps inside Do leave it where it is.
LEMMA InCallEffect ==
    ASSUME LoaderInv, NEW p \in Procs, Loader!Store(p) \/ Loader!Done(p) \/ Loader!RunFn(p)
    PROVE  /\ pc[p] # "idle" /\ pc'[p] # "idle"
           /\ \A q \in Procs : q # p => pc'[q] = pc[q]
           /\ UNCHANGED <<arg, got>>
  BY DEF Loader!Store, Loader!Done, Loader!RunFn, Loader!Goto, LoaderInv, LP!TypeOK

LEMMA CallDoEffect ==
    ASSUME LoaderInv, NEW p \in Procs, CallDo(p)
    PROVE  /\ gpc[p] = "do" /\ Goto(p, "flight")
           /\ pc[p] = "idle"
           /\ \/ pc'[p] = "store"
              \/ pc'[p] = "wait" /\ m[task[p].k] # NoCall /\ cur'[p] = m[task[p].k]
           /\ arg'[p] = task[p].k
           /\ \A q \in Procs : q # p => pc'[q] = pc[q] /\ arg'[q] = arg[q] /\ cur'[q] = cur[q]
           /\ UNCHANGED <<version, res, got, group, syncs, remote>>
  BY DEF CallDo, Loader!Join, Loader!Miss, Loader!Goto, Loader!calls, LoaderInv, LP!TypeOK

LEMMA FlightStep ==
    ASSUME LoaderInv, GTypes, FlightInv, GivenInv, Step
    PROVE  FlightInv' /\ GivenInv'
<1> USE DEF FlightInv, GivenInv
<1>1. ASSUME UNCHANGED <<pc, arg, got, gpc, task>> PROVE FlightInv' /\ GivenInv'
  BY <1>1
<1>2. ASSUME NEW k \in Keys, Write(k) \/ Evict(k) \/ PeerMoves(k) \/ \E op \in Orders : PeerOrders(k, op)
      PROVE  UNCHANGED <<pc, arg, got, gpc, task>>
  BY <1>2 DEF Write, Loader!Write, Evict, PeerMoves, PeerOrders, loader, flow
<1>3. ASSUME Close \/ CloseClears \/ CloseCloses \/ \E s \in syncs : Deliver(s) \/ GiveUp(s)
      PROVE  UNCHANGED <<pc, arg, got, gpc, task>>
  BY <1>3 DEF Close, CloseClears, CloseCloses, Deliver, GiveUp, loader, flow
<1>4. ASSUME NEW p \in Procs, Enter(p) PROVE FlightInv' /\ GivenInv'
  BY <1>4, EnterEffect DEF Started, loader
<1>5. ASSUME NEW p \in Procs, EnterFromPeer(p) PROVE FlightInv' /\ GivenInv'
  BY <1>5, EnterFromPeerEffect DEF Started, loader, Orders
<1>6. ASSUME NEW p \in Procs, Lookup(p) PROVE FlightInv' /\ GivenInv'
  <2>1. /\ \A q \in Procs : q # p => gpc'[q] = gpc[q]
        /\ gpc[p] = "lookup" /\ gpc'[p] \in {"idle", "do"}
        /\ \A q \in Procs : task'[q].k = task[q].k
        /\ UNCHANGED loader
    BY <1>6, ReturnEffect, GotoEffect DEF Lookup, Labels
  <2> QED
    BY <2>1 DEF loader
<1>7. ASSUME NEW p \in Procs, Set(p) \/ Delete(p) \/ Clear(p) PROVE FlightInv' /\ GivenInv'
  <2>1. gpc[p] \in {"set", "delete", "clear"} /\ Return(p) /\ UNCHANGED loader
    BY <1>7 DEF Set, Delete, Clear
  <2>2. /\ \A q \in Procs : gpc'[q] = IF q = p THEN "idle" ELSE gpc[q]
        /\ \A q \in Procs : task'[q].k = task[q].k
    BY <2>1, ReturnEffect
  <2> QED
    BY <2>1, <2>2 DEF loader
<1>8. ASSUME NEW p \in Procs, CallDo(p) PROVE FlightInv' /\ GivenInv'
  <2>1. \A q \in Procs : gpc'[q] = (IF q = p THEN "flight" ELSE gpc[q]) /\ task'[q] = task[q]
    BY <1>8, CallDoEffect, GotoEffect DEF Labels
  <2> QED
    BY <1>8, <2>1, CallDoEffect
<1>9. ASSUME NEW p \in Procs, InDo(p) \/ AskGetter(p) PROVE FlightInv' /\ GivenInv'
  <2>1. UNCHANGED <<gpc, task>>
    BY <1>9 DEF InDo, AskGetter, flow
  <2> QED
    BY <1>9, <2>1, InCallEffect DEF InDo, AskGetter
<1>10. ASSUME NEW p \in Procs, AskPeer(p) PROVE FlightInv' /\ GivenInv'
  <2>1. CASE UNCHANGED loader
    BY <1>10, <2>1, AskPeerEffect DEF loader
  <2>2. ASSUME NEW r, PeerAnswers(p, r) PROVE FlightInv' /\ GivenInv'
    <3>1. pc' = [pc EXCEPT ![p] = "done"] /\ pc \in [Procs -> LP!Labels] /\ UNCHANGED <<arg, got>>
      BY <2>2 DEF PeerAnswers, LoaderInv, LP!TypeOK
    <3> QED
      BY <1>10, <3>1, AskPeerEffect
  <2> QED
    BY <1>10, <2>1, <2>2, AskPeerEffect
<1>11. ASSUME NEW p \in Procs, EndDo(p) PROVE FlightInv' /\ GivenInv'
  <2>1. \A q \in Procs : gpc'[q] = (IF q = p THEN "back" ELSE gpc[q]) /\ task'[q] = task[q]
    BY <1>11, EndDoEffect, GotoEffect DEF Labels
  <2> QED
    BY <1>11, <2>1, EndDoEffect
<1>12. ASSUME NEW p \in Procs, WriteBack(p) PROVE FlightInv' /\ GivenInv'
  <2>1. /\ \A q \in Procs : gpc'[q] = IF q = p THEN "idle" ELSE gpc[q]
        /\ \A q \in Procs : task'[q].k = task[q].k
        /\ \A q \in Procs : q # p => got'[q] = got[q]
        /\ gpc[p] = "back" /\ UNCHANGED <<pc, arg>>
    BY <1>12, WriteBackEffect, ReturnEffect
  <2> QED
    BY <2>1
<1> QED
  BY <1>1, <1>2, <1>3, <1>4, <1>5, <1>6, <1>7, <1>8, <1>9, <1>10, <1>11, <1>12 DEF Step, Work

LEMMA ClosedStep ==
    ASSUME LoaderInv, GTypes, GivenInv, ClosedInv, Step
    PROVE  ClosedInv'
<1> USE DEF ClosedInv
<1>1. ASSUME UNCHANGED group PROVE ClosedInv'
  BY <1>1 DEF group
<1>2. ASSUME NEW k \in Keys, Write(k) \/ PeerMoves(k) \/ \E op \in Orders : PeerOrders(k, op)
      PROVE  UNCHANGED group
  BY <1>2 DEF Write, PeerMoves, PeerOrders
<1>3. ASSUME NEW s \in syncs, Deliver(s) \/ GiveUp(s) PROVE UNCHANGED group
  BY <1>3 DEF Deliver, GiveUp
<1>4. ASSUME NEW p \in Procs,
             \/ Enter(p) \/ EnterFromPeer(p) \/ Lookup(p) \/ CallDo(p) \/ InDo(p)
             \/ AskPeer(p) \/ AskGetter(p) \/ EndDo(p)
      PROVE  UNCHANGED group
  BY <1>4 DEF Enter, EnterFromPeer, StartTask, Lookup, CallDo, InDo, AskPeer, AskGetter, EndDo
<1>5. ASSUME NEW p \in Procs, WriteBack(p) PROVE ClosedInv'
  BY <1>5, WriteBackEffect
<1>6. ASSUME NEW p \in Procs, Set(p) PROVE ClosedInv'
  BY <1>6, SetEffect
<1>7. ASSUME NEW p \in Procs, Delete(p) PROVE ClosedInv'
  BY <1>7, DeleteEffect
<1>8. ASSUME NEW p \in Procs, Clear(p) PROVE ClosedInv'
  BY <1>8 DEF Clear
<1>9. ASSUME NEW k \in Keys, Evict(k) PROVE ClosedInv'
  BY <1>9 DEF Evict, GTypes, CopyTypes
<1>10. ASSUME Close \/ CloseClears \/ CloseCloses PROVE ClosedInv'
  BY <1>10 DEF Close, CloseClears, CloseCloses
<1> QED
  BY <1>1, <1>2, <1>3, <1>4, <1>5, <1>6, <1>7, <1>8, <1>9, <1>10 DEF Step, Work

-----------------------------------------------------------------------------
\* Who works on a call or waits for it has the call of its key.
LEMMA CallOfKey ==
    ASSUME LoaderInv, NEW q \in Procs, pc[q] \in LP!Owning \cup {"wait"}
    PROVE  cur[q] \in LP!Calls /\ ofKey[cur[q]] = arg[q]
  BY OwnCall DEF LoaderInv, LP!WaitersServed

\* A goroutine that a step leaves alone carries what it carried.
LEMMA CarriesStill ==
    ASSUME NEW q \in Procs, NEW v,
           gpc'[q] = gpc[q], task'[q] = task[q], got'[q] = got[q], pc'[q] = pc[q],
           pc[q] \in LP!Owning \cup {"wait"} => res'[cur'[q]] = res[cur[q]]
    PROVE  Carries(q, v)' <=> Carries(q, v)
  BY DEF Carries, LP!Owning

LEMMA CarriersStill ==
    ASSUME UNCHANGED <<loader, flow>>, NEW v
    PROVE  \A q \in Procs : (Carries(q, v)' <=> Carries(q, v)) /\ task'[q] = task[q]
  BY CarriesStill DEF loader, flow

\* The step leaves no version of k afloat but the ones before it and the newest.
Flows(k, v) == Afloat(k, v)' => Afloat(k, v) \/ v = version'[k]

\* The parts of Afloat, one by one.
LEMMA FlowByParts ==
    ASSUME NEW k \in Keys, NEW v,
           v \in cached'[k] => Afloat(k, v) \/ v = version'[k],
           v \in remote'[k] => Afloat(k, v) \/ v = version'[k],
           \A s \in syncs' : s.k = k /\ s.op = "set" /\ s.v = v => Afloat(k, v) \/ v = version'[k],
           \A q \in Procs : task'[q].k = k /\ Carries(q, v)' => Afloat(k, v) \/ v = version'[k]
    PROVE  Flows(k, v)
  BY DEF Afloat, Flows

\* A load that ends gives its result to all who share its call.
LEMMA ResultFlow ==
    ASSUME LoaderInv, GTypes, FlightInv, NEW p \in Procs, pc[p] = "fn", gpc[p] = "flight",
           NEW r, res' = [res EXCEPT ![cur[p]] = r],
           NEW l \in {"done", "donePanic"}, pc' = [pc EXCEPT ![p] = l],
           UNCHANGED <<cur, got, gpc, task>>,
           NEW k \in Keys, NEW v \in Loader!Versions,
           NEW q \in Procs, task[q].k = k, Carries(q, v)'
    PROVE  Carries(q, v) \/ (v = r /\ k = task[p].k)
<1>1. /\ cur[p] \in LP!Calls /\ ofKey[cur[p]] = arg[p] /\ arg[p] = task[p].k
      /\ pc \in [Procs -> LP!Labels] /\ res \in [LP!Calls -> LP!Results]
  BY OwnCall DEF LP!Owning, FlightInv, LoaderInv, LP!TypeOK
<1>2. CASE gpc[q] = "flight" /\ pc'[q] \in LP!Owning \cup {"wait"} /\ res'[cur[q]] = v
  <2>1. pc[q] \in LP!Owning \cup {"wait"}
    BY <1>1, <1>2 DEF LP!Owning
  <2>2. cur[q] \in LP!Calls /\ ofKey[cur[q]] = arg[q] /\ arg[q] = task[q].k
    BY <1>2, <2>1, CallOfKey DEF FlightInv
  <2> QED
    BY <1>1, <1>2, <2>1, <2>2 DEF Carries
<1> QED
  BY <1>2 DEF Carries

\* The store, the peer, the orders on their way and the life of the group.
LEMMA FlowAround ==
    ASSUME LoaderInv, GTypes, NEW k \in Keys, NEW v \in Loader!Versions,
           \/ \E j \in Keys : Write(j) \/ Evict(j) \/ PeerMoves(j)
           \/ \E j \in Keys, op \in Orders : PeerOrders(j, op)
           \/ \E s \in syncs : Deliver(s) \/ GiveUp(s)
           \/ Close \/ CloseClears \/ CloseCloses
    PROVE  Flows(k, v)
<1> USE SameConstants
<1>1. ASSUME NEW j \in Keys, Write(j) PROVE Flows(k, v)
  <2>1. UNCHANGED <<m, made, ofKey, res, done, pc, arg, cur, got>> /\ UNCHANGED <<flow, cached, remote, syncs>>
    BY <1>1 DEF Write, Loader!Write, Loader!calls, group
  <2>2. \A q \in Procs : Carries(q, v)' <=> Carries(q, v)
    BY <2>1, CarriesStill DEF flow
  <2> QED
    BY <2>1, <2>2, FlowByParts DEF Afloat, flow
<1>2. ASSUME NEW j \in Keys, Evict(j) \/ PeerMoves(j) PROVE Flows(k, v)
  <2>1. UNCHANGED <<loader, flow, syncs>>
    BY <1>2 DEF Evict, PeerMoves
  <2>2. /\ cached'[k] \subseteq cached[k]
        /\ \A w \in remote'[k] : w = version[k] \/ w \in remote[k] \cup cached[k]
    BY <1>2, PeerMovesEffect DEF Evict, GTypes, CopyTypes, CopySets, group
  <2> QED
    BY <2>1, <2>2, CarriersStill, FlowByParts DEF Afloat
<1>3. ASSUME NEW j \in Keys, NEW op \in Orders, PeerOrders(j, op) PROVE Flows(k, v)
  <2>1. UNCHANGED <<loader, group, flow>>
    BY <1>3 DEF PeerOrders
  <2> QED
    BY <1>3, <2>1, OrdersEffect, CarriersStill, FlowByParts DEF Afloat, group
<1>4. ASSUME NEW s \in syncs, Deliver(s) \/ GiveUp(s) PROVE Flows(k, v)
  <2>1. UNCHANGED <<loader, group, flow>> /\ syncs' \subseteq syncs
    BY <1>4 DEF Deliver, GiveUp
  <2>2. \A w \in remote'[k] : w \in remote[k] \/ (k = s.k /\ s.op = "set" /\ w = s.v)
    BY <1>4, DeliverEffect DEF GiveUp
  <2> QED
    BY <2>1, <2>2, CarriersStill, FlowByParts DEF Afloat, group
<1>5. ASSUME Close \/ CloseClears \/ CloseCloses PROVE Flows(k, v)
  <2>1. UNCHANGED <<loader, flow, remote, syncs>> /\ cached'[k] \subseteq cached[k]
    BY <1>5 DEF Close, CloseClears, CloseCloses
  <2> QED
    BY <2>1, CarriersStill, FlowByParts DEF Afloat
<1> QED
  BY <1>1, <1>2, <1>3, <1>4, <1>5

\* What a goroutine that starts a task or ends one hands on.
LEMMA FlowEnds ==
    ASSUME LoaderInv, GTypes, GivenInv, NEW k \in Keys, NEW v \in Loader!Versions, NEW p \in Procs,
           \/ Enter(p) \/ EnterFromPeer(p) \/ Lookup(p)
           \/ WriteBack(p) \/ Set(p) \/ Delete(p) \/ Clear(p)
    PROVE  Flows(k, v)
<1> USE SameConstants
<1>1. ASSUME Enter(p) PROVE Flows(k, v)
  <2>1. PICK l \in {"lookup", "clear", "set", "delete"}, j \in Keys, w \in Loader!Versions :
             Started(p, l, j, w) /\ (l = "set" => w = version[j]) /\ UNCHANGED syncs
    BY <1>1, EnterEffect
  <2>2. \A q \in Procs : q # p => (Carries(q, v)' <=> Carries(q, v))
    BY <2>1, CarriesStill DEF Started, loader
  <2>3. task'[p].k = k /\ Carries(p, v)' => v = version[k]
    BY <2>1 DEF Started, Carries
  <2> QED
    BY <2>1, <2>2, <2>3, FlowByParts DEF Started, Afloat, group, loader
<1>2. ASSUME EnterFromPeer(p) PROVE Flows(k, v)
  <2>1. PICK s \in syncs : /\ s.op \in Orders /\ s.k \in Keys
                           /\ Started(p, s.op, s.k, s.v)
                           /\ syncs' = syncs \ {s}
    BY <1>2, EnterFromPeerEffect
  <2>2. \A q \in Procs : q # p => (Carries(q, v)' <=> Carries(q, v))
    BY <2>1, CarriesStill DEF Started, loader
  <2>3. task'[p].k = k /\ Carries(p, v)' => s.k = k /\ s.op = "set" /\ s.v = v
    BY <2>1 DEF Started, Carries, Orders
  <2> QED
    BY <2>1, <2>2, <2>3, FlowByParts DEF Started, Afloat, group, loader
<1>3. ASSUME Lookup(p) PROVE Flows(k, v)
  <2>1. /\ \A q \in Procs : q # p => gpc'[q] = gpc[q] /\ task'[q] = task[q]
        /\ gpc'[p] \in {"idle", "do"}
        /\ UNCHANGED <<loader, group, remote, syncs>>
    BY <1>3, ReturnEffect, GotoEffect DEF Lookup, Labels
  <2>2. \A q \in Procs : q # p => (Carries(q, v)' <=> Carries(q, v))
    BY <2>1, CarriesStill DEF loader
  <2>3. ~Carries(p, v)'
    BY <2>1 DEF Carries
  <2> QED
    BY <2>1, <2>2, <2>3, FlowByParts DEF Afloat, group, loader
<1>4. ASSUME Return(p), UNCHANGED <<version, res, pc, cur>>,
             \A q \in Procs : q # p => got'[q] = got[q]
      PROVE  \A q \in Procs : task'[q].k = k /\ Carries(q, v)' => task[q].k = k /\ Carries(q, v)
  <2>1. /\ \A q \in Procs : gpc'[q] = IF q = p THEN "idle" ELSE gpc[q]
        /\ \A q \in Procs : task'[q].k = task[q].k /\ (q # p => task'[q] = task[q])
    BY <1>4, ReturnEffect
  <2>2. \A q \in Procs : q # p => (Carries(q, v)' <=> Carries(q, v))
    BY <1>4, <2>1, CarriesStill
  <2>3. ~Carries(p, v)'
    BY <2>1 DEF Carries
  <2> QED
    BY <2>1, <2>2, <2>3
<1>5. ASSUME WriteBack(p) PROVE Flows(k, v)
  <2>1. /\ gpc[p] = "back"
        /\ \A w \in cached'[k] : w \in cached[k] \/ (k = task[p].k /\ w = got[p][k])
        /\ UNCHANGED <<version, remote, syncs>>
        /\ \A q \in Procs : task'[q].k = k /\ Carries(q, v)' => task[q].k = k /\ Carries(q, v)
    BY <1>4, <1>5, WriteBackEffect
  <2>2. v \in cached'[k] => Afloat(k, v)
    BY <2>1 DEF Afloat, Carries
  <2> QED
    BY <2>1, <2>2, FlowByParts DEF Afloat
<1>6. ASSUME Set(p) PROVE Flows(k, v)
  <2>1. /\ gpc[p] = "set"
        /\ \A w \in cached'[k] : w \in cached[k] \/ (k = task[p].k /\ w = task[p].v)
        /\ \A s \in syncs' : s \in syncs \/ (s.k = task[p].k /\ s.v = task[p].v)
        /\ UNCHANGED <<version, remote>>
        /\ \A q \in Procs : task'[q].k = k /\ Carries(q, v)' => task[q].k = k /\ Carries(q, v)
    BY <1>4, <1>6, SetEffect DEF loader
  <2>2. task[p].k = k /\ task[p].v = v => Afloat(k, v)
    BY <2>1 DEF Afloat, Carries
  <2>3. \A s \in syncs' : s.k = k /\ s.op = "set" /\ s.v = v => Afloat(k, v)
    BY <2>1, <2>2 DEF Afloat
  <2> QED
    BY <2>1, <2>2, <2>3, FlowByParts DEF Afloat
<1>7. ASSUME Delete(p) \/ Clear(p) PROVE Flows(k, v)
  <2>1. /\ cached'[k] \subseteq cached[k]
        /\ \A s \in syncs' : s \in syncs \/ s.op = "delete"
        /\ UNCHANGED <<loader, remote>> /\ Return(p)
    BY <1>7, DeleteEffect DEF Clear
  <2>2. \A q \in Procs : task'[q].k = k /\ Carries(q, v)' => task[q].k = k /\ Carries(q, v)
    BY <1>4, <2>1 DEF loader
  <2> QED
    BY <2>1, <2>2, FlowByParts DEF Afloat
<1> QED
  BY <1>1, <1>2, <1>3, <1>5, <1>6, <1>7

\* What a load hands on, from the call it joins to the result of Do.
LEMMA FlowLoad ==
    ASSUME LoaderInv, GTypes, FlightInv, NEW k \in Keys, NEW v \in Loader!Versions, NEW p \in Procs,
           CallDo(p) \/ InDo(p) \/ AskPeer(p) \/ AskGetter(p) \/ EndDo(p)
    PROVE  Flows(k, v)
<1> USE SameConstants
<1>1. ASSUME CallDo(p) PROVE Flows(k, v)
  <2>1. \A q \in Procs : gpc'[q] = (IF q = p THEN "flight" ELSE gpc[q]) /\ task'[q] = task[q]
    BY <1>1, CallDoEffect, GotoEffect DEF Labels
  <2>2. \A q \in Procs : q # p => (Carries(q, v)' <=> Carries(q, v))
    BY <1>1, <2>1, CallDoEffect, CarriesStill
  <2>3. ASSUME task[p].k = k, Carries(p, v)' PROVE Afloat(k, v)
    <3>1. pc'[p] = "wait" /\ m[k] # NoCall /\ cur'[p] = m[k] /\ res[m[k]] = v
      BY <1>1, <2>1, <2>3, CallDoEffect DEF Carries, LP!Owning
    <3> DEFINE q == m[k][1]
    <3>2. q \in Procs /\ cur[q] = m[k] /\ arg[q] = k /\ pc[q] \in LP!Owning
      BY <3>1 DEF LoaderInv, LP!NothingLeftRegistered, LP!TypeOK, LP!Calls
    <3>3. gpc[q] = "flight" /\ task[q].k = k
      BY <3>2 DEF FlightInv, LP!Owning
    <3> QED
      BY <3>1, <3>2, <3>3 DEF Afloat, Carries
  <2> QED
    BY <1>1, <2>1, <2>2, <2>3, CallDoEffect, FlowByParts DEF Afloat, group
<1>2. ASSUME InDo(p) PROVE Flows(k, v)
  <2>1. UNCHANGED <<gpc, task, cached, remote, syncs>>
    BY <1>2 DEF InDo, group, flow
  <2>2. ASSUME Loader!Store(p), NEW q \in Procs, Carries(q, v)' PROVE Carries(q, v)
    <3>1. /\ pc[p] = "store" /\ pc' = [pc EXCEPT ![p] = "fn"] /\ UNCHANGED <<res, got>>
          /\ cur' = [cur EXCEPT ![p] = <<p, made[p] + 1>>]
      BY <2>2 DEF Loader!Store, Loader!Goto, LoaderInv, LP!TypeOK
    <3>2. made[p] + 1 \in 1 .. MaxCalls /\ made[p] + 1 > made[p]
      BY <3>1, LPAssumption DEF LoaderInv, LP!TypeOK, LP!OwnInv
    <3>3. res[<<p, made[p] + 1>>] = Unset
      BY <3>2 DEF LoaderInv, LP!NumberInv
    <3>4. q # p => cur'[q] = cur[q] /\ pc'[q] = pc[q]
      BY <3>1 DEF LoaderInv, LP!TypeOK
    <3>5. CASE q = p
      <4>1. cur'[p] = <<p, made[p] + 1>>
        BY <3>1 DEF LoaderInv, LP!TypeOK
      <4> QED
        BY <2>1, <2>2, <3>1, <3>3, <3>5, <4>1 DEF Carries
    <3> QED
      BY <2>1, <2>2, <3>1, <3>4, <3>5, CarriesStill
  <2>3. ASSUME Loader!Done(p), NEW q \in Procs, Carries(q, v)' PROVE Carries(q, v)
    <3>1. /\ pc[p] \in LP!Owning /\ UNCHANGED <<res, cur, got>>
          /\ \A r \in Procs : r # p => pc'[r] = pc[r]
      BY <2>3 DEF Loader!Done, Loader!Goto, LoaderInv, LP!TypeOK, LP!Owning
    <3> QED
      BY <2>1, <2>3, <3>1 DEF Carries
  <2> QED
    BY <1>2, <2>1, <2>2, <2>3, FlowByParts DEF InDo, Afloat
<1>3. ASSUME AskPeer(p) PROVE Flows(k, v)
  <2>1. /\ pc[p] = "fn" /\ gpc[p] = "flight"
        /\ \A w \in remote'[k] : w = version[k] \/ w \in remote[k]
        /\ UNCHANGED <<version, cached, gpc, task, syncs>>
    BY <1>3, AskPeerEffect DEF group
  <2>2. CASE UNCHANGED loader
    BY <2>1, <2>2, CarriesStill, FlowByParts DEF Afloat, loader
  <2>3. ASSUME NEW r \in Loader!Versions, PeerAnswers(p, r),
               r = version[task[p].k] \/ r \in remote[task[p].k]
        PROVE  Flows(k, v)
    <3>1. \A q \in Procs : task[q].k = k /\ Carries(q, v)' =>
             Carries(q, v) \/ (v = r /\ k = task[p].k)
      BY <2>1, <2>3, ResultFlow DEF PeerAnswers
    <3> QED
      BY <2>1, <2>3, <3>1, FlowByParts DEF Afloat
  <2> QED
    BY <1>3, <2>2, <2>3, AskPeerEffect
<1>4. ASSUME AskGetter(p) PROVE Flows(k, v)
  <2>1. /\ pc[p] = "fn" /\ gpc[p] = "flight" /\ task[p].k = arg[p]
        /\ UNCHANGED <<version, cur, got, cached, gpc, task, syncs, remote>>
    BY <1>4 DEF AskGetter, Loader!RunFn, Loader!Goto, group, FlightInv
  <2>2. PICK r \in {version[arg[p]], Err}, l \in {"done", "donePanic"} :
             res' = [res EXCEPT ![cur[p]] = r] /\ pc' = [pc EXCEPT ![p] = l]
    BY <1>4 DEF AskGetter, Loader!RunFn, Loader!Goto
  <2>3. \A q \in Procs : task[q].k = k /\ Carries(q, v)' =>
           Carries(q, v) \/ (v = r /\ k = task[p].k)
    BY <2>1, <2>2, ResultFlow
  <2> QED
    BY <2>1, <2>2, <2>3, FlowByParts DEF Afloat
<1>5. ASSUME EndDo(p) PROVE Flows(k, v)
  <2>1. \A q \in Procs : gpc'[q] = (IF q = p THEN "back" ELSE gpc[q]) /\ task'[q] = task[q]
    BY <1>5, EndDoEffect, GotoEffect DEF Labels
  <2>2. \A q \in Procs : q # p => (Carries(q, v)' <=> Carries(q, v))
    BY <1>5, <2>1, EndDoEffect, CarriesStill
  <2>3. Carries(p, v)' => Carries(p, v)
    BY <1>5, <2>1, EndDoEffect DEF Carries, FlightInv, LP!Owning
  <2> QED
    BY <1>5, <2>1, <2>2, <2>3, EndDoEffect, FlowByParts DEF Afloat, group
<1> QED
  BY <1>1, <1>2, <1>3, <1>4, <1>5

-----------------------------------------------------------------------------
\* No step takes a version of the store back.
LEMMA VersionsGrow ==
    ASSUME LoaderInv, GTypes, Step
    PROVE  \A k \in Keys : version'[k] >= version[k]
<1>1. \A k \in Keys : version[k] \in Nat
  BY SameConstants DEF LoaderInv, LP!TypeOK
<1>2. ASSUME NEW j \in Keys, Write(j) PROVE \A k \in Keys : version'[k] >= version[k]
  BY <1>1, <1>2 DEF Write, Loader!Write, LoaderInv, LP!TypeOK
<1>3. ASSUME NEW p \in Procs, Work(p) PROVE UNCHANGED version
  BY <1>3 DEF Work, Lookup, CallDo, Loader!Join, Loader!Miss, InDo, Loader!Store, Loader!Done,
     AskPeer, PeerAnswers, AskGetter, Loader!RunFn, EndDo, Loader!Wait, Loader!Delete,
     WriteBack, EndGet, Set, Delete, Clear, loader
<1>4. ASSUME NEW p \in Procs, Enter(p) \/ EnterFromPeer(p) PROVE UNCHANGED version
  BY <1>4 DEF Enter, EnterFromPeer, StartTask, loader
<1>5. ASSUME \/ \E j \in Keys : Evict(j) \/ PeerMoves(j)
             \/ \E j \in Keys, op \in Orders : PeerOrders(j, op)
             \/ \E s \in syncs : Deliver(s) \/ GiveUp(s)
             \/ Close \/ CloseClears \/ CloseCloses
      PROVE  UNCHANGED version
  BY <1>5 DEF Evict, PeerMoves, PeerOrders, Deliver, GiveUp, Close, CloseClears, CloseCloses, loader
<1> QED
  BY <1>1, <1>2, <1>3, <1>4, <1>5 DEF Step

(* On a quiet key only the copies and the version are afloat, so the floor may
   rise to the oldest of them; on a busy one it stays.                        *)
LEMMA BoundsStep ==
    ASSUME IInv, Next, LoaderInv', GTypes'
    PROVE  BoundsInv'
<1> USE DEF IInv
<1>1. /\ \A k \in Keys : version[k] \in Nat /\ version'[k] \in Nat /\ floor[k] \in Nat
      /\ \A k \in Keys : version[k] \in Loader!Versions /\ version'[k] \in Loader!Versions
      /\ Loader!Versions \subseteq Nat
  <2>1. LP!Versions' = LP!Versions
    BY DEF LP!Versions
  <2> QED
    BY <2>1, SameConstants DEF LoaderInv, LP!TypeOK, GTypes
<1>2. OldestIsLeast'
  <2>1. CopyTypes'
    BY DEF GTypes
  <2> QED
    BY <2>1, OldestIs, PTL
<1>3. ASSUME NEW k \in Keys, NEW v \in Loader!Versions PROVE Flows(k, v)
  BY FlowAround, FlowEnds, FlowLoad DEF Next, Step, Work
<1>4. \A k \in Keys : version'[k] >= version[k]
  BY VersionsGrow DEF Next
<1>5. ASSUME NEW k \in Keys PROVE floor[k] <= version[k]
  BY <1>1 DEF BoundsInv, Afloat
<1>6. ASSUME NEW k \in Keys, NEW v \in Loader!Versions, Afloat(k, v)' PROVE v <= version'[k]
  <2>1. v = version'[k] \/ v <= version[k]
    BY <1>3, <1>6 DEF Flows, BoundsInv
  <2> QED
    BY <1>1, <1>4, <2>1
<1>7. ASSUME NEW k \in Keys, NEW v \in Loader!Versions, Afloat(k, v)', ~Quiet(k)'
      PROVE  floor'[k] <= v
  <2>1. floor'[k] = floor[k]
    BY <1>7 DEF Next, Record
  <2>2. v = version'[k] \/ floor[k] <= v
    BY <1>3, <1>7 DEF Flows, BoundsInv
  <2> QED
    BY <1>1, <1>4, <1>5, <2>1, <2>2
<1>8. ASSUME NEW k \in Keys, NEW v \in Loader!Versions, Afloat(k, v)', Quiet(k)'
      PROVE  floor'[k] <= v
  <2>1. floor'[k] = Oldest(k)'
    BY <1>8 DEF Next, Record
  <2>2. /\ Oldest(k)' \in Loader!Versions
        /\ HeldCopies(k)' \subseteq Loader!Versions
        /\ \A w \in HeldCopies(k)' : Oldest(k)' <= w
        /\ Oldest(k)' \in HeldCopies(k)' \cup {version'[k]}
    BY <1>2 DEF OldestIsLeast, Loader!Versions
  <2>3. \A w \in HeldCopies(k)' : Afloat(k, w)'
    BY DEF HeldCopies, Afloat
  <2>4. Oldest(k)' <= version'[k]
    <3>1. CASE Oldest(k)' \in HeldCopies(k)'
      <4>1. PICK w \in Loader!Versions : w = Oldest(k)' /\ Afloat(k, w)'
        BY <2>2, <2>3, <3>1
      <4>2. w <= version'[k]
        BY <1>6, <4>1
      <4> QED
        BY <4>1, <4>2
    <3>2. CASE Oldest(k)' = version'[k]
      BY <1>1, <3>2
    <3> QED
      BY <2>2, <3>1, <3>2
  <2>5. v = version'[k] \/ v \in HeldCopies(k)'
    BY <1>8, SameConstants DEF Afloat, Quiet, Carries, HeldCopies
  <2> QED
    BY <2>1, <2>2, <2>4, <2>5
<1>9. \A k \in Keys : \A v \in Loader!Versions : Afloat(k, v)' => floor'[k] <= v /\ v <= version'[k]
  BY <1>6, <1>7, <1>8
<1> QED
  BY <1>9 DEF BoundsInv, Loader!Versions

LEMMA InitIInv == Init => IInv
<1> SUFFICES ASSUME Init PROVE IInv
  OBVIOUS
<1> USE SameConstants
<1>1. LoaderInv
  <2>1. LP!Init
    BY DEF Init, Loader!Init, LP!Init, Loader!Calls, LP!Calls
  <2> QED
    BY <2>1, LPAssumption, LP!InitIInv DEF LoaderInv, LP!IInv
<1>2. /\ \A k \in Keys : version[k] = 0 /\ floor[k] = 0 /\ cached[k] = {} /\ remote[k] = {}
      /\ \A p \in Procs : pc[p] = "idle" /\ gpc[p] = "idle"
      /\ syncs = {}
  BY DEF Init, Loader!Init
<1>3. GTypes
  <2>1. (CHOOSE k \in Keys : TRUE) \in Keys
    BY LoaderAssumption
  <2>2. version \in [Keys -> Loader!Versions]
    BY <1>1 DEF LoaderInv, LP!TypeOK
  <2> QED
    BY <2>1, <2>2 DEF Init, GTypes, CopyTypes, CopySets, Task, Labels
<1>4. FlightInv /\ GivenInv
  BY <1>2 DEF FlightInv, GivenInv
<1>5. ClosedInv
  BY <1>2 DEF Init, ClosedInv
<1>6. BoundsInv
  BY <1>2 DEF BoundsInv, Afloat, Carries
<1> QED
  BY <1>1, <1>3, <1>4, <1>5, <1>6 DEF IInv

(* The inductive invariant: every version that is held, in either level of a
   store, or can still reach a copy or a caller lies between the floor and the
   newest one.                                                               *)
THEOREM Inductive == Spec => []IInv
<1>1. IInv /\ [Next]_vars => IInv'
  <2> SUFFICES ASSUME IInv, [Next]_vars PROVE IInv'
    OBVIOUS
  <2>1. CASE Next
    <3>1. LoaderInv' /\ GTypes'
      BY <2>1, LoaderStep, TypeStep DEF IInv, Next
    <3> QED
      BY <2>1, <3>1, FlightStep, ClosedStep, BoundsStep DEF IInv, Next
  <2>2. CASE UNCHANGED vars
    <3>1. LoaderInv'
      BY <2>2, SameSteps, LoaderSteps DEF IInv, vars
    <3>2. UNCHANGED <<version, m, made, ofKey, res, done, pc, arg, cur, got, quiet>>
      BY <2>2 DEF vars, loader
    <3>3. UNCHANGED <<peers, cached, cacheClosed, life, gpc, task, asked, syncs, remote, floor>>
      BY <2>2 DEF vars, group, flow
    <3>4. GTypes' /\ FlightInv' /\ GivenInv' /\ ClosedInv'
      BY <3>2, <3>3 DEF IInv, GTypes, CopyTypes, FlightInv, GivenInv, ClosedInv
    <3>5. BoundsInv'
      BY <3>2, <3>3 DEF IInv, BoundsInv, Afloat, Carries
    <3> QED
      BY <3>1, <3>4, <3>5 DEF IInv
  <2> QED
    BY <2>1, <2>2
<1> QED
  BY <1>1, InitIInv, PTL DEF Spec

\* Type correctness of the group and of the loader inside it.
THEOREM TypeCorrect == Spec => []TypeOK
<1>1. IInv => TypeOK
  <2> SUFFICES ASSUME IInv PROVE TypeOK
    OBVIOUS
  <2>1. Loader!TypeOK
    BY SameConstants DEF IInv, LoaderInv, LP!TypeOK, Loader!TypeOK, Loader!Results
  <2> QED
    BY <2>1 DEF IInv, GTypes, CopyTypes, CopySets, FlightInv, TypeOK
<1> QED
  BY <1>1, Inductive, PTL

(* After a key was quiet, nothing older than the oldest of its copies of then, the
   overwritten ones of level 2 among them, reaches a copy or a caller: loads shared
   or asked of the peer, write-backs, Sets, evictions and orders hand on only
   versions that were afloat (group.go 194-203, 227-238, 256-264, 316-337;
   lru2.go 189).                                                              *)
THEOREM NothingOldEverReturns == Spec => []NothingOldReturns
<1>1. IInv => NothingOldReturns
  <2> SUFFICES ASSUME IInv PROVE NothingOldReturns
    OBVIOUS
  <2>1. \A k \in Keys : \A v \in HeldCopies(k) : v >= floor[k]
    <3> SUFFICES ASSUME NEW k \in Keys, NEW v \in HeldCopies(k) PROVE v >= floor[k]
      OBVIOUS
    <3>1. v \in Loader!Versions /\ Afloat(k, v)
      BY DEF HeldCopies, Afloat, IInv, GTypes, CopyTypes, CopySets
    <3> QED
      BY <3>1 DEF IInv, BoundsInv
  <2>2. ASSUME NEW p \in Procs, gpc[p] = "back", got[p][task[p].k] # Err
        PROVE  got[p][task[p].k] >= floor[task[p].k]
    <3>1. task[p].k \in Keys /\ got[p][task[p].k] \in LP!Results /\ got[p][task[p].k] # Unset
      BY <2>2 DEF IInv, GTypes, Task, LoaderInv, LP!TypeOK, GivenInv
    <3>2. got[p][task[p].k] \in Loader!Versions
      BY <2>2, <3>1, SameConstants
    <3>3. Afloat(task[p].k, got[p][task[p].k])
      BY <2>2 DEF Afloat, Carries
    <3> QED
      BY <3>1, <3>2, <3>3 DEF IInv, BoundsInv
  <2> QED
    BY <2>1, <2>2 DEF NothingOldReturns
<1> QED
  BY <1>1, Inductive, PTL

(* A group that is gone has an empty cache, for good: no load, Set or order that
   comes late fills it again (group.go 286-297).                             *)
THEOREM ClosedGroupStaysEmpty == Spec => []ClosedStaysEmpty
<1>1. IInv => ClosedStaysEmpty
  BY DEF IInv, ClosedInv, ClosedStaysEmpty
<1> QED
  BY <1>1, Inductive, PTL
=============================================================================
