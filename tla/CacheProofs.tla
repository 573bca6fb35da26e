---------------------------- MODULE CacheProofs ----------------------------
(* What MCCache shows for two goroutines, proved for any goroutines, any keys
   and any bound on the counters: the type invariant, the life of the store,
   and that the cache implements CacheSpec.                                  *)
EXTENDS Cache, TLAPS

\* The labels of the critical sections of c.mu.Lock.
Exclusive == {"eiRecheck", "eiMake", "eiMark", "clear", "closeStore", "dropStore", "unmark"}

\* The labels between the announcement of a writer and its Unlock.
Announced == Exclusive \cup {"eiDrain", "drain"}

\* The labels that only Close reaches, past its swap of the closed flag.
Releasing == {"closeStore", "dropStore", "unmark"}

\* p won the swap of Close and has not returned.
IsCloser(p) == op[p] = "Close" /\ pc[p] # "enter"

\* Who is in a critical section holds c.mu, alone.
LockInv ==
    \A p \in Procs :
        /\ pc[p] \in Announced => writer = p
        /\ pc[p] \in Exclusive => readers = {}
        /\ pc[p] \in {"recheck", "use"} => p \in readers

\* Control agrees with the operation, and one Close wins the swap.
OpInv ==
    /\ \A p \in Procs :
        /\ pc[p] = "idle" <=> op[p] = "none"
        /\ pc[p] \in {"lock", "drain"} => op[p] \in {"Clear", "Close"}
        /\ pc[p] \in Releasing => op[p] = "Close"
        /\ op[p] = "Close" => pc[p] \in {"enter", "lock", "drain"} \cup Releasing
        /\ IsCloser(p) => closed
    /\ \A p, q \in Procs : IsCloser(p) /\ IsCloser(q) => p = q

\* The life of the store: made once, released by the Close that won.
StoreInv ==
    /\ made \in {0, 1}
    /\ store = 0 \/ (store = 1 /\ made = 1)
    /\ store = 0 => stops = made /\ content = {}
    /\ store = 1 /\ (\A p \in Procs : pc[p] # "dropStore") => stops = 0
    /\ ~closed => stops = 0 /\ (made = 1 => store = 1)
    /\ initialized => made = 1
    /\ made = 1 => initialized \/ closed \/ \E p \in Procs : pc[p] = "eiMark"
    /\ closed /\ (\A p \in Procs : ~IsCloser(p))
         => store = 0 /\ ~initialized /\ \A p \in Procs : pc[p] \notin {"eiMake", "eiMark"}

\* What each label knows of the store.
LabelInv ==
    \A p \in Procs :
        /\ pc[p] = "eiMake" => made = 0 /\ ~initialized
        /\ pc[p] = "eiMark" => store = 1 /\ stops = 0
        /\ pc[p] \in {"chkExpired", "rlock", "recheck"} => closed \/ made = 1
        /\ op[p] = "Clear" /\ pc[p] \in {"lock", "drain", "clear"} => closed \/ made = 1
        /\ pc[p] = "use" => store = 1 /\ stops = 0
        /\ pc[p] = "clear" => op[p] = "Clear"
        /\ pc[p] = "dropStore" => store = 1 /\ stops = 1
        /\ pc[p] = "unmark" => store = 0

IInv == TypeOK /\ LockInv /\ OpInv /\ StoreInv /\ LabelInv

USE DEF flags, storeVars, lock, stats, Goto, Return, AfterInit

LEMMA InitIInv == Init => IInv
<1> SUFFICES ASSUME Init PROVE IInv
  OBVIOUS
<1> USE DEF Init
<1>1. TypeOK
  BY DEF TypeOK, Labels
<1>2. LockInv
  BY DEF LockInv, Exclusive, Announced
<1>3. OpInv
  BY DEF OpInv, Releasing, IsCloser
<1>4. StoreInv
  BY DEF StoreInv
<1>5. LabelInv
  BY DEF LabelInv
<1> QED
  BY <1>1, <1>2, <1>3, <1>4, <1>5 DEF IInv

LEMMA TypeStep == TypeOK /\ [Next]_vars => TypeOK'
<1> SUFFICES ASSUME TypeOK, [Next]_vars PROVE TypeOK'
  OBVIOUS
<1> USE DEF TypeOK, Labels, Ops, Shared, Writes
<1>0. CASE UNCHANGED vars
  BY <1>0 DEF vars
<1>1. CASE Expire
  BY <1>1 DEF Expire
<1>2. ASSUME NEW p \in Procs, Step(p) PROVE TypeOK'
  <2>1. CASE Call(p)
    BY <2>1 DEF Call
  <2>2. CASE Enter(p)
    BY <2>2 DEF Enter
  <2>3. CASE CheckInitialized(p)
    BY <2>3 DEF CheckInitialized
  <2>4. CASE FastPath(p)
    BY <2>4 DEF FastPath
  <2>5. CASE Announce(p)
    BY <2>5 DEF Announce
  <2>6. CASE Drain(p)
    BY <2>6 DEF Drain
  <2>7. CASE Recheck(p)
    BY <2>7 DEF Recheck
  <2>8. CASE MakeStore(p)
    BY <2>8 DEF MakeStore
  <2>9. CASE MarkInitialized(p)
    BY <2>9 DEF MarkInitialized
  <2>10. CASE CheckExpired(p)
    BY <2>10 DEF CheckExpired
  <2>11. CASE ReadLock(p)
    BY <2>11 DEF ReadLock
  <2>12. CASE RecheckClosed(p)
    BY <2>12 DEF RecheckClosed
  <2>13. CASE Use(p)
    BY <2>13 DEF Use
  <2>14. CASE ClearStore(p)
    BY <2>14 DEF ClearStore
  <2>15. CASE CloseStore(p)
    BY <2>15 DEF CloseStore
  <2>16. CASE DropStore(p)
    BY <2>16 DEF DropStore
  <2>17. CASE Unmark(p)
    BY <2>17 DEF Unmark
  <2> QED
    BY <1>2, <2>1, <2>2, <2>3, <2>4, <2>5, <2>6, <2>7, <2>8, <2>9, <2>10, <2>11, <2>12, <2>13, <2>14, <2>15, <2>16, <2>17 DEF Step, Acquire, Work
<1> QED
  BY <1>0, <1>1, <1>2 DEF Next

LEMMA LockStep == TypeOK /\ LockInv /\ [Next]_vars => LockInv'
<1> SUFFICES ASSUME TypeOK, LockInv, [Next]_vars PROVE LockInv'
  OBVIOUS
<1> USE DEF TypeOK, LockInv, Exclusive, Announced
<1>0. CASE UNCHANGED vars
  BY <1>0 DEF vars
<1>1. CASE Expire
  BY <1>1 DEF Expire
<1>2. ASSUME NEW p \in Procs, Step(p) PROVE LockInv'
  <2>1. CASE Call(p)
    BY <2>1 DEF Call, Labels
  <2>2. CASE Enter(p)
    BY <2>2 DEF Enter, Labels
  <2>3. CASE CheckInitialized(p)
    BY <2>3 DEF CheckInitialized, Labels
  <2>4. CASE FastPath(p)
    BY <2>4 DEF FastPath, Labels
  <2>5. CASE Announce(p)
    BY <2>5, CacheAssumption DEF Announce, Labels
  <2>6. CASE Drain(p)
    BY <2>6 DEF Drain, Labels
  <2>7. CASE Recheck(p)
    BY <2>7 DEF Recheck, Labels
  <2>8. CASE MakeStore(p)
    BY <2>8 DEF MakeStore, Labels
  <2>9. CASE MarkInitialized(p)
    BY <2>9 DEF MarkInitialized, Labels
  <2>10. CASE CheckExpired(p)
    BY <2>10 DEF CheckExpired, Labels
  <2>11. CASE ReadLock(p)
    BY <2>11, CacheAssumption DEF ReadLock, Labels
  <2>12. CASE RecheckClosed(p)
    BY <2>12 DEF RecheckClosed, Labels
  <2>13. CASE Use(p)
    BY <2>13 DEF Use, Labels
  <2>14. CASE ClearStore(p)
    BY <2>14 DEF ClearStore, Labels
  <2>15. CASE CloseStore(p)
    BY <2>15 DEF CloseStore, Labels
  <2>16. CASE DropStore(p)
    BY <2>16 DEF DropStore, Labels
  <2>17. CASE Unmark(p)
    BY <2>17 DEF Unmark, Labels
  <2> QED
    BY <1>2, <2>1, <2>2, <2>3, <2>4, <2>5, <2>6, <2>7, <2>8, <2>9, <2>10, <2>11, <2>12, <2>13, <2>14, <2>15, <2>16, <2>17 DEF Step, Acquire, Work
<1> QED
  BY <1>0, <1>1, <1>2 DEF Next

LEMMA OpStep == TypeOK /\ OpInv /\ [Next]_vars => OpInv'
<1> SUFFICES ASSUME TypeOK, OpInv, [Next]_vars PROVE OpInv'
  OBVIOUS
<1> USE DEF TypeOK, OpInv, Releasing, IsCloser, Ops, Shared, Writes
<1>0. CASE UNCHANGED vars
  BY <1>0 DEF vars
<1>1. CASE Expire
  BY <1>1 DEF Expire
<1>2. ASSUME NEW p \in Procs, Step(p) PROVE OpInv'
  <2>1. CASE Call(p)
    BY <2>1 DEF Call, Labels
  <2>2. CASE Enter(p)
    <3>1. CASE op[p] = "Close" /\ ~closed
      <4>1. \A q \in Procs : ~IsCloser(q)
        BY <3>1
      <4>2. closed' /\ op' = op /\ pc' = [pc EXCEPT ![p] = "lock"]
        BY <2>2, <3>1 DEF Enter
      <4>3. \A q \in Procs : IsCloser(q)' => q = p
        BY <4>1, <4>2
      <4> QED
        BY <3>1, <4>2, <4>3
    <3>2. CASE op[p] # "Close" \/ closed
      BY <2>2, <3>2 DEF Enter, Labels
    <3> QED
      BY <3>1, <3>2
  <2>3. CASE CheckInitialized(p)
    BY <2>3 DEF CheckInitialized, Labels
  <2>4. CASE FastPath(p)
    BY <2>4 DEF FastPath, Labels
  <2>5. CASE Announce(p)
    BY <2>5 DEF Announce, Labels
  <2>6. CASE Drain(p)
    BY <2>6 DEF Drain, Labels
  <2>7. CASE Recheck(p)
    BY <2>7 DEF Recheck, Labels
  <2>8. CASE MakeStore(p)
    BY <2>8 DEF MakeStore, Labels
  <2>9. CASE MarkInitialized(p)
    BY <2>9 DEF MarkInitialized, Labels
  <2>10. CASE CheckExpired(p)
    BY <2>10 DEF CheckExpired, Labels
  <2>11. CASE ReadLock(p)
    BY <2>11 DEF ReadLock, Labels
  <2>12. CASE RecheckClosed(p)
    BY <2>12 DEF RecheckClosed, Labels
  <2>13. CASE Use(p)
    BY <2>13 DEF Use, Labels
  <2>14. CASE ClearStore(p)
    BY <2>14 DEF ClearStore, Labels
  <2>15. CASE CloseStore(p)
    BY <2>15 DEF CloseStore, Labels
  <2>16. CASE DropStore(p)
    BY <2>16 DEF DropStore, Labels
  <2>17. CASE Unmark(p)
    BY <2>17 DEF Unmark, Labels
  <2> QED
    BY <1>2, <2>1, <2>2, <2>3, <2>4, <2>5, <2>6, <2>7, <2>8, <2>9, <2>10, <2>11, <2>12, <2>13, <2>14, <2>15, <2>16, <2>17 DEF Step, Acquire, Work
<1> QED
  BY <1>0, <1>1, <1>2 DEF Next

LEMMA StoreStep == IInv /\ [Next]_vars => StoreInv'
<1> SUFFICES ASSUME IInv, [Next]_vars PROVE StoreInv'
  OBVIOUS
<1> USE DEF IInv, TypeOK, LockInv, Exclusive, Announced, OpInv, Releasing, IsCloser, StoreInv, LabelInv
<1>0. CASE UNCHANGED vars
  BY <1>0 DEF vars
<1>1. CASE Expire
  BY <1>1 DEF Expire
<1>2. ASSUME NEW p \in Procs, Step(p) PROVE StoreInv'
  <2>1. CASE Call(p)
    BY <2>1 DEF Call
  <2>2. CASE Enter(p)
    BY <2>2 DEF Enter
  <2>3. CASE CheckInitialized(p)
    BY <2>3 DEF CheckInitialized
  <2>4. CASE FastPath(p)
    BY <2>4 DEF FastPath
  <2>5. CASE Announce(p)
    BY <2>5 DEF Announce
  <2>6. CASE Drain(p)
    BY <2>6 DEF Drain
  <2>7. CASE Recheck(p)
    BY <2>7 DEF Recheck
  <2>8. CASE MakeStore(p)
    BY <2>8 DEF MakeStore
  <2>9. CASE MarkInitialized(p)
    BY <2>9 DEF MarkInitialized
  <2>10. CASE CheckExpired(p)
    BY <2>10 DEF CheckExpired
  <2>11. CASE ReadLock(p)
    BY <2>11 DEF ReadLock
  <2>12. CASE RecheckClosed(p)
    BY <2>12 DEF RecheckClosed
  <2>13. CASE Use(p)
    BY <2>13 DEF Use
  <2>14. CASE ClearStore(p)
    BY <2>14 DEF ClearStore
  <2>15. CASE CloseStore(p)
    BY <2>15 DEF CloseStore
  <2>16. CASE DropStore(p)
    BY <2>16 DEF DropStore
  <2>17. CASE Unmark(p)
    BY <2>17 DEF Unmark
  <2> QED
    BY <1>2, <2>1, <2>2, <2>3, <2>4, <2>5, <2>6, <2>7, <2>8, <2>9, <2>10, <2>11, <2>12, <2>13, <2>14, <2>15, <2>16, <2>17 DEF Step, Acquire, Work
<1> QED
  BY <1>0, <1>1, <1>2 DEF Next

LEMMA LabelStep == IInv /\ [Next]_vars => LabelInv'
<1> SUFFICES ASSUME IInv, [Next]_vars PROVE LabelInv'
  OBVIOUS
<1> USE DEF IInv, TypeOK, LockInv, Exclusive, Announced, OpInv, Releasing, IsCloser, StoreInv, LabelInv, Shared, Writes, Ops
<1>0. CASE UNCHANGED vars
  BY <1>0 DEF vars
<1>1. CASE Expire
  BY <1>1 DEF Expire
<1>2. ASSUME NEW p \in Procs, Step(p) PROVE LabelInv'
  <2>1. CASE Call(p)
    BY <2>1 DEF Call
  <2>2. CASE Enter(p)
    BY <2>2 DEF Enter
  <2>3. CASE CheckInitialized(p)
    BY <2>3 DEF CheckInitialized
  <2>4. CASE FastPath(p)
    BY <2>4 DEF FastPath
  <2>5. CASE Announce(p)
    BY <2>5 DEF Announce
  <2>6. CASE Drain(p)
    BY <2>6 DEF Drain
  <2>7. CASE Recheck(p)
    BY <2>7 DEF Recheck
  <2>8. CASE MakeStore(p)
    BY <2>8 DEF MakeStore
  <2>9. CASE MarkInitialized(p)
    BY <2>9 DEF MarkInitialized
  <2>10. CASE CheckExpired(p)
    BY <2>10 DEF CheckExpired
  <2>11. CASE ReadLock(p)
    BY <2>11 DEF ReadLock
  <2>12. CASE RecheckClosed(p)
    BY <2>12 DEF RecheckClosed
  <2>13. CASE Use(p)
    BY <2>13 DEF Use
  <2>14. CASE ClearStore(p)
    BY <2>14 DEF ClearStore
  <2>15. CASE CloseStore(p)
    BY <2>15 DEF CloseStore
  <2>16. CASE DropStore(p)
    BY <2>16 DEF DropStore
  <2>17. CASE Unmark(p)
    BY <2>17 DEF Unmark
  <2> QED
    BY <1>2, <2>1, <2>2, <2>3, <2>4, <2>5, <2>6, <2>7, <2>8, <2>9, <2>10, <2>11, <2>12, <2>13, <2>14, <2>15, <2>16, <2>17 DEF Step, Acquire, Work
<1> QED
  BY <1>0, <1>1, <1>2 DEF Next

(* The strengthening of the safety properties of Cache.tla is an invariant.  *)
THEOREM Inductive == Spec => []IInv
<1>1. IInv /\ [Next]_vars => IInv'
  BY TypeStep, LockStep, OpStep, StoreStep, LabelStep DEF IInv
<1> QED
  BY InitIInv, <1>1, PTL DEF Spec

(* Type correctness, for any goroutines and keys.                            *)
THEOREM TypeCorrect == Spec => []TypeOK
<1>1. IInv => TypeOK
  BY DEF IInv
<1> QED
  BY Inductive, <1>1, PTL

(* No goroutine calls a method of a nil or a stopped store, however Get, Add,
   Delete, Len, Clear and Close interleave.                                  *)
THEOREM StoreAlwaysUsable == Spec => []StoreUsable
<1>1. IInv => StoreUsable
  BY DEF IInv, LabelInv, StoreInv, StoreUsable
<1> QED
  BY Inductive, <1>1, PTL

(* However many first writers race, ensureInitialized makes one store.       *)
THEOREM AtMostOneStore == Spec => []OneStore
<1>1. IInv => OneStore
  BY DEF IInv, StoreInv, OneStore
<1> QED
  BY Inductive, <1>1, PTL

(* Once the Close that won has returned no store is referenced and every
   store ever made has been stopped, exactly once.                           *)
THEOREM CloseAlwaysReleases == Spec => []CloseReleases
<1>1. ASSUME IInv PROVE CloseReleases
  <2>1. stops <= made
    BY <1>1 DEF IInv, StoreInv, LabelInv, TypeOK
  <2>2. ASSUME closed, \A p \in Procs : op[p] # "Close"
        PROVE store = 0 /\ stops = made /\ ~initialized
    BY <1>1, <2>2 DEF IInv, StoreInv, IsCloser
  <2> QED
    BY <2>1, <2>2 DEF CloseReleases
<1> QED
  BY Inductive, <1>1, PTL

-----------------------------------------------------------------------------
(* The refinement.  Most steps leave the set of goroutines at "eiMake" alone,
   and with it the phase of the abstract cache.                              *)
LEMMA PhaseKept ==
    ASSUME UNCHANGED <<closed, store>>,
           \A q \in Procs : pc'[q] = "eiMake" <=> pc[q] = "eiMake"
    PROVE  phaseBar' = phaseBar
  BY DEF phaseBar

LEMMA ContractInit == Init => Contract!SpecInit
  BY DEF Init, Contract!SpecInit, phaseBar

LEMMA ContractStep == IInv /\ [Next]_vars => [Contract!SpecNext]_(Contract!specVars)
<1> SUFFICES ASSUME IInv, [Next]_vars PROVE [Contract!SpecNext]_(Contract!specVars)
  OBVIOUS
<1> USE DEF Contract!specVars, IInv, TypeOK
<1>0. CASE UNCHANGED vars
  BY <1>0, PhaseKept DEF vars
<1>1. CASE Expire
  <2>1. phaseBar = "open" /\ phaseBar' = "open"
    BY <1>1 DEF Expire, phaseBar
  <2> QED
    BY <1>1, <2>1 DEF Expire, Contract!SpecNext, Contract!Lapse
<1>2. ASSUME NEW p \in Procs, Step(p) PROVE [Contract!SpecNext]_(Contract!specVars)
  <2>1. CASE Call(p)
    BY <2>1, PhaseKept DEF Call
  <2>2. CASE Enter(p)
    <3>1. CASE op[p] = "Close" /\ ~closed
      <4>1. closed' /\ UNCHANGED <<store, content, hits>>
        BY <2>2, <3>1 DEF Enter
      <4>2. \A q \in Procs : pc'[q] = "eiMake" <=> pc[q] = "eiMake"
        BY <2>2, <3>1 DEF Enter
      <4>3. CASE store # 0 \/ \E q \in Procs : pc[q] = "eiMake"
        BY <3>1, <4>1, <4>2, <4>3 DEF phaseBar
      <4>4. CASE store = 0 /\ \A q \in Procs : pc[q] # "eiMake"
        <5>1. phaseBar = "new" /\ phaseBar' = "closed" /\ content = {}
          BY <3>1, <4>1, <4>2, <4>4 DEF phaseBar, StoreInv
        <5> QED
          BY <4>1, <5>1 DEF Contract!SpecNext, Contract!Shut
      <4> QED
        BY <4>3, <4>4
    <3>2. CASE op[p] # "Close" \/ closed
      BY <2>2, <3>2, PhaseKept DEF Enter
    <3> QED
      BY <3>1, <3>2
  <2>3. CASE CheckInitialized(p)
    BY <2>3, PhaseKept DEF CheckInitialized
  <2>4. CASE FastPath(p)
    BY <2>4, PhaseKept DEF FastPath
  <2>5. CASE Announce(p)
    BY <2>5, PhaseKept DEF Announce
  <2>6. CASE Drain(p)
    BY <2>6, PhaseKept DEF Drain
  <2>7. CASE Recheck(p)
    <3>1. CASE closed \/ initialized
      BY <2>7, <3>1, PhaseKept DEF Recheck
    <3>2. CASE ~closed /\ ~initialized
      BY <2>7, <3>2 DEF Recheck, phaseBar
    <3> QED
      BY <3>1, <3>2
  <2>8. CASE MakeStore(p)
    <3>1. phaseBar = "new" /\ phaseBar' = "open" /\ content = {}
      BY <2>8 DEF MakeStore, phaseBar, StoreInv, LabelInv
    <3> QED
      BY <2>8, <3>1 DEF MakeStore, Contract!SpecNext, Contract!Open
  <2>9. CASE MarkInitialized(p)
    BY <2>9, PhaseKept DEF MarkInitialized
  <2>10. CASE CheckExpired(p)
    BY <2>10, PhaseKept DEF CheckExpired
  <2>11. CASE ReadLock(p)
    BY <2>11, PhaseKept DEF ReadLock
  <2>12. CASE RecheckClosed(p)
    BY <2>12, PhaseKept DEF RecheckClosed
  <2>13. CASE Use(p)
    <3>1. phaseBar = "open" /\ phaseBar' = "open"
      BY <2>13 DEF Use, phaseBar, LabelInv
    <3>2. PICK k \in Keys :
             \/ content' \in SUBSET (content \cup {k}) /\ hits' = hits
             \/ content' = content \ {k} /\ hits' = hits
             \/ content' = content /\ hits' = hits
             \/ content' = content /\ hits' = hits + 1 /\ k \in content
      BY <2>13 DEF Use
    <3> QED
      BY <3>1, <3>2
      DEF Contract!SpecNext, Contract!Write, Contract!Remove, Contract!Hit
  <2>14. CASE ClearStore(p)
    <3>1. CASE closed
      BY <2>14, <3>1, PhaseKept DEF ClearStore
    <3>2. CASE ~closed
      <4>1. phaseBar = "open" /\ phaseBar' = "open"
        BY <2>14, <3>2 DEF ClearStore, phaseBar, LabelInv, StoreInv
      <4> QED
        BY <2>14, <3>2, <4>1 DEF ClearStore, Contract!SpecNext, Contract!Wipe
    <3> QED
      BY <3>1, <3>2
  <2>15. CASE CloseStore(p)
    BY <2>15, PhaseKept DEF CloseStore
  <2>16. CASE DropStore(p)
    <3>1. closed /\ \A q \in Procs : pc'[q] # "eiMake"
      BY <2>16 DEF DropStore, OpInv, Releasing, IsCloser, LockInv, Announced, Exclusive, LabelInv
    <3>2. phaseBar = "open" /\ phaseBar' = "closed"
      BY <2>16, <3>1 DEF DropStore, phaseBar, LabelInv
    <3> QED
      BY <2>16, <3>2 DEF DropStore, Contract!SpecNext, Contract!Shut
  <2>17. CASE Unmark(p)
    BY <2>17, PhaseKept DEF Unmark
  <2> QED
    BY <1>2, <2>1, <2>2, <2>3, <2>4, <2>5, <2>6, <2>7, <2>8, <2>9, <2>10, <2>11, <2>12, <2>13, <2>14, <2>15, <2>16, <2>17 DEF Step, Acquire, Work
<1> QED
  BY <1>0, <1>1, <1>2 DEF Next

(* The cache of cache.go, with its double-checked locking and its early
   returns, implements the contract of CacheSpec.                            *)
THEOREM CacheImplementsContract == Spec => ImplementsContract
<1>1. Contract!SpecInit /\ [][Contract!SpecNext]_(Contract!specVars) => ImplementsContract
  BY DEF ImplementsContract, Contract!CacheContract
<1> QED
  BY Inductive, ContractInit, ContractStep, <1>1, PTL DEF Spec
=============================================================================
