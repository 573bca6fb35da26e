------------------------- MODULE SingleFlightProofs -------------------------
(* What MCSingleFlight shows for three goroutines, proved for any goroutines
   and keys and any bounds on calls and versions.                            *)
EXTENDS SingleFlight, TLAPS

\* A goroutine that owns a call, and what is known of that call at each label.
OwnInv ==
    \A p \in Procs :
        /\ pc[p] = "store" => made[p] < MaxCalls
        /\ pc[p] \in Owning =>
              /\ made[p] >= 1 /\ cur[p] = <<p, made[p]>> /\ ofKey[cur[p]] = arg[p]
              /\ cur[p] \in done <=> pc[p] \in {"delete", "deletePanic"}
              /\ res[cur[p]] = Unset <=> pc[p] = "fn"

\* The calls of p that are not registered yet, or registered and older.
NumberInv ==
    \A p \in Procs, n \in 1 .. MaxCalls :
        /\ n > made[p] => <<p, n>> \notin done /\ res[<<p, n>>] = Unset
        /\ <<p, n>> \in done => res[<<p, n>>] # Unset

\* The history variable stays behind the version.
QuietInv == \A k \in Keys : quiet[k] <= version[k]

IInv ==
    /\ TypeOK /\ OwnInv /\ NumberInv /\ QuietInv
    /\ WaitersServed /\ NothingLeftRegistered /\ SharingIsLocal

USE DEF calls, Goto, Return

LEMMA InitIInv == Init => IInv
<1> SUFFICES ASSUME Init PROVE IInv
  OBVIOUS
<1> USE SingleFlightAssumption DEF Init
<1>0. (CHOOSE k \in Keys : TRUE) \in Keys
  BY SingleFlightAssumption
<1>1. TypeOK
  BY <1>0 DEF TypeOK, Labels, Versions, Results
<1>2. OwnInv
  BY DEF OwnInv, Owning
<1>3. NumberInv
  BY DEF NumberInv, Calls
<1>4. QuietInv
  BY DEF QuietInv
<1>5. WaitersServed /\ NothingLeftRegistered /\ SharingIsLocal
  BY DEF WaitersServed, NothingLeftRegistered, SharingIsLocal, Owning
<1> QED
  BY <1>1, <1>2, <1>3, <1>4, <1>5 DEF IInv

\* The call of a goroutine that owns one.
LEMMA OwnCall ==
    ASSUME TypeOK, OwnInv, NEW p \in Procs, pc[p] \in Owning
    PROVE  cur[p] = <<p, made[p]>> /\ made[p] \in 1 .. MaxCalls /\ cur[p] \in Calls
<1>1. made[p] \in 0 .. MaxCalls /\ made[p] >= 1 /\ cur[p] = <<p, made[p]>>
  BY DEF TypeOK, OwnInv
<1> QED
  BY <1>1, SingleFlightAssumption DEF Calls

\* What RunFn and Done do, with the disjuncts of the code folded.
LEMMA RunFnEffect ==
    ASSUME TypeOK, NEW p \in Procs, RunFn(p)
    PROVE  \E r \in Versions \cup {Err} :
              /\ res' = [res EXCEPT ![cur[p]] = r]
              /\ r \in Versions => r = version[arg[p]]
              /\ \E l \in {"done", "donePanic"} : pc' = [pc EXCEPT ![p] = l]
              /\ UNCHANGED <<version, m, made, ofKey, done, arg, cur, got, quiet>>
<1>1. version[arg[p]] \in Versions
  BY DEF TypeOK
<1> QED
  BY <1>1, SingleFlightAssumption DEF RunFn

\* The result of one call changes, those of the others do not.
LEMMA ResUpdate ==
    ASSUME TypeOK, NEW c \in Calls, NEW r, res' = [res EXCEPT ![c] = r]
    PROVE  \A d \in Calls : res'[d] = IF d = c THEN r ELSE res[d]
  BY DEF TypeOK

LEMMA DoneEffect ==
    ASSUME NEW p \in Procs, Done(p)
    PROVE  /\ pc[p] \in {"done", "donePanic"}
           /\ \E l \in {"delete", "deletePanic"} : pc' = [pc EXCEPT ![p] = l]
           /\ done' = done \cup {cur[p]}
           /\ UNCHANGED <<version, m, made, ofKey, res, arg, cur, got, quiet>>
  BY DEF Done

LEMMA TypeStep == TypeOK /\ OwnInv /\ [Next]_vars => TypeOK'
<1> SUFFICES ASSUME TypeOK, OwnInv, [Next]_vars PROVE TypeOK'
  OBVIOUS
<1> USE SingleFlightAssumption DEF TypeOK, Labels, Calls, Versions, Results, OwnInv, Owning
<1>0. CASE UNCHANGED vars
  BY <1>0 DEF vars, calls
<1>1. ASSUME NEW k \in Keys, Write(k) PROVE TypeOK'
  BY <1>1 DEF Write
<1>2. ASSUME NEW p \in Procs, NEW k \in Keys, Join(p, k) PROVE TypeOK'
  BY <1>2 DEF Join
<1>3. ASSUME NEW p \in Procs, NEW k \in Keys, Miss(p, k) PROVE TypeOK'
  BY <1>3 DEF Miss
<1>4. ASSUME NEW p \in Procs, Wait(p) PROVE TypeOK'
  BY <1>4 DEF Wait
<1>5. ASSUME NEW p \in Procs, Store(p) PROVE TypeOK'
  BY <1>5 DEF Store
<1>6. ASSUME NEW p \in Procs, RunFn(p) PROVE TypeOK'
  <2>1. cur[p] = <<p, made[p]>> /\ made[p] \in 1 .. MaxCalls /\ cur[p] \in Calls
    BY <1>6, OwnCall DEF RunFn, Owning
  <2>2. PICK r \in Versions \cup {Err} :
             /\ res' = [res EXCEPT ![cur[p]] = r]
             /\ r \in Versions => r = version[arg[p]]
             /\ \E l \in {"done", "donePanic"} : pc' = [pc EXCEPT ![p] = l]
             /\ UNCHANGED <<version, m, made, ofKey, done, arg, cur, got, quiet>>
    BY <1>6, RunFnEffect
  <2>3. pc[p] = "fn" /\ r # Unset
    BY <1>6 DEF RunFn, Versions
  <2> QED
    BY <2>1, <2>2, <2>3
<1>7. ASSUME NEW p \in Procs, Done(p) PROVE TypeOK'
  <2>1. cur[p] = <<p, made[p]>> /\ made[p] \in 1 .. MaxCalls /\ cur[p] \in Calls
    BY <1>7, DoneEffect, OwnCall DEF Done, Owning
  <2>2. /\ pc[p] \in {"done", "donePanic"}
        /\ \E l \in {"delete", "deletePanic"} : pc' = [pc EXCEPT ![p] = l]
        /\ done' = done \cup {cur[p]}
        /\ UNCHANGED <<version, m, made, ofKey, res, arg, cur, got, quiet>>
    BY <1>7, DoneEffect
  <2> QED
    BY <2>1, <2>2
<1>8. ASSUME NEW p \in Procs, Delete(p) PROVE TypeOK'
  BY <1>8 DEF Delete
<1> QED
  BY <1>0, <1>1, <1>2, <1>3, <1>4, <1>5, <1>6, <1>7, <1>8 DEF Next, Work

LEMMA OwnStep == TypeOK /\ OwnInv /\ NumberInv /\ [Next]_vars => OwnInv'
<1> SUFFICES ASSUME TypeOK, OwnInv, NumberInv, [Next]_vars PROVE OwnInv'
  OBVIOUS
<1> USE SingleFlightAssumption DEF TypeOK, Labels, Calls, Versions, Results, OwnInv, Owning, NumberInv
<1>0. CASE UNCHANGED vars
  BY <1>0 DEF vars, calls
<1>1. ASSUME NEW k \in Keys, Write(k) PROVE OwnInv'
  BY <1>1 DEF Write
<1>2. ASSUME NEW p \in Procs, NEW k \in Keys, Join(p, k) PROVE OwnInv'
  BY <1>2 DEF Join
<1>3. ASSUME NEW p \in Procs, NEW k \in Keys, Miss(p, k) PROVE OwnInv'
  BY <1>3 DEF Miss
<1>4. ASSUME NEW p \in Procs, Wait(p) PROVE OwnInv'
  BY <1>4 DEF Wait
<1>5. ASSUME NEW p \in Procs, Store(p) PROVE OwnInv'
  BY <1>5 DEF Store
<1>6. ASSUME NEW p \in Procs, RunFn(p) PROVE OwnInv'
  <2>1. cur[p] = <<p, made[p]>> /\ made[p] \in 1 .. MaxCalls /\ cur[p] \in Calls
    BY <1>6, OwnCall DEF RunFn, Owning
  <2>2. PICK r \in Versions \cup {Err} :
             /\ res' = [res EXCEPT ![cur[p]] = r]
             /\ r \in Versions => r = version[arg[p]]
             /\ \E l \in {"done", "donePanic"} : pc' = [pc EXCEPT ![p] = l]
             /\ UNCHANGED <<version, m, made, ofKey, done, arg, cur, got, quiet>>
    BY <1>6, RunFnEffect
  <2>3. pc[p] = "fn" /\ r # Unset
    BY <1>6 DEF RunFn, Versions
  <2>4. \A q \in Procs : pc[q] \in Owning =>
            res'[cur[q]] = IF q = p THEN r ELSE res[cur[q]]
    <3>1. \A d \in Calls : res'[d] = IF d = cur[p] THEN r ELSE res[d]
      BY <2>1, <2>2, ResUpdate
    <3>2. \A q \in Procs : pc[q] \in Owning =>
              cur[q] = <<q, made[q]>> /\ made[q] \in 1 .. MaxCalls /\ cur[q] \in Calls
      BY OwnCall
    <3> QED
      BY <2>1, <3>1, <3>2
  <2> QED
    BY <2>1, <2>2, <2>3, <2>4
<1>7. ASSUME NEW p \in Procs, Done(p) PROVE OwnInv'
  <2>1. cur[p] = <<p, made[p]>> /\ made[p] \in 1 .. MaxCalls /\ cur[p] \in Calls
    BY <1>7, DoneEffect, OwnCall DEF Done, Owning
  <2>2. /\ pc[p] \in {"done", "donePanic"}
        /\ \E l \in {"delete", "deletePanic"} : pc' = [pc EXCEPT ![p] = l]
        /\ done' = done \cup {cur[p]}
        /\ UNCHANGED <<version, m, made, ofKey, res, arg, cur, got, quiet>>
    BY <1>7, DoneEffect
  <2> QED
    BY <2>1, <2>2
<1>8. ASSUME NEW p \in Procs, Delete(p) PROVE OwnInv'
  BY <1>8 DEF Delete
<1> QED
  BY <1>0, <1>1, <1>2, <1>3, <1>4, <1>5, <1>6, <1>7, <1>8 DEF Next, Work

LEMMA NumberStep == TypeOK /\ OwnInv /\ NumberInv /\ [Next]_vars => NumberInv'
<1> SUFFICES ASSUME TypeOK, OwnInv, NumberInv, [Next]_vars,
                    NEW q \in Procs, NEW n \in 1 .. MaxCalls
             PROVE  /\ n > made'[q] => <<q, n>> \notin done' /\ res'[<<q, n>>] = Unset
                    /\ <<q, n>> \in done' => res'[<<q, n>>] # Unset
  BY DEF NumberInv
<1>a. /\ n > made[q] => <<q, n>> \notin done /\ res[<<q, n>>] = Unset
      /\ <<q, n>> \in done => res[<<q, n>>] # Unset
  BY DEF NumberInv
<1>b. made[q] \in Nat /\ n \in Nat /\ <<q, n>> \in Calls
  BY SingleFlightAssumption DEF TypeOK, Calls
<1>0. CASE UNCHANGED <<made, res, done>>
  BY <1>0, <1>a
<1>1. ASSUME NEW p \in Procs, Store(p)
      PROVE  made'[q] \in {made[q], made[q] + 1} /\ UNCHANGED <<res, done>>
  BY <1>1 DEF Store, TypeOK
<1>2. ASSUME NEW p \in Procs, RunFn(p)
      PROVE  /\ UNCHANGED <<made, done>>
             /\ <<q, n>> # <<p, made[p]>> => res'[<<q, n>>] = res[<<q, n>>]
             /\ <<p, made[p]>> \notin done
  <2>1. cur[p] = <<p, made[p]>> /\ cur[p] \in Calls
    BY <1>2, OwnCall DEF RunFn, Owning
  <2>2. PICK r : res' = [res EXCEPT ![cur[p]] = r]
    BY <1>2, RunFnEffect
  <2>3. \A d \in Calls : res'[d] = IF d = cur[p] THEN r ELSE res[d]
    BY <2>1, <2>2, ResUpdate
  <2>4. cur[p] \notin done
    BY <1>2 DEF RunFn, OwnInv, Owning
  <2> QED
    BY <1>2, <1>b, <2>1, <2>3, <2>4, RunFnEffect
<1>3. ASSUME NEW p \in Procs, Done(p)
      PROVE  /\ UNCHANGED <<made, res>>
             /\ done' = done \cup {<<p, made[p]>>}
             /\ res[<<p, made[p]>>] # Unset
  <2>1. pc[p] \in {"done", "donePanic"}
    BY <1>3, DoneEffect
  <2>2. cur[p] = <<p, made[p]>> /\ res[cur[p]] # Unset
    BY <2>1 DEF OwnInv, Owning
  <2> QED
    BY <1>3, <2>2, DoneEffect
<1>4. CASE \E p \in Procs : Store(p)
  BY <1>1, <1>4, <1>a, <1>b
<1>5. CASE \E p \in Procs : RunFn(p)
  <2>1. PICK p \in Procs : RunFn(p)
    BY <1>5
  <2>2. CASE q = p /\ n = made[p]
    BY <1>2, <1>b, <2>1, <2>2
  <2>3. CASE <<q, n>> # <<p, made[p]>>
    BY <1>2, <1>a, <2>1, <2>3
  <2> QED
    BY <2>2, <2>3
<1>6. CASE \E p \in Procs : Done(p)
  <2>1. PICK p \in Procs : Done(p)
    BY <1>6
  <2>2. CASE q = p /\ n = made[p]
    BY <1>3, <1>b, <2>1, <2>2
  <2>3. CASE <<q, n>> # <<p, made[p]>>
    BY <1>3, <1>a, <2>1, <2>3
  <2> QED
    BY <2>2, <2>3
<1> QED
  BY <1>0, <1>4, <1>5, <1>6
  DEF Next, Work, vars, Write, Join, Miss, Wait, Delete

LEMMA QuietStep == TypeOK /\ QuietInv /\ [Next]_vars => QuietInv'
<1> SUFFICES ASSUME TypeOK, QuietInv, [Next]_vars, NEW k \in Keys
             PROVE  quiet'[k] <= version'[k]
  BY DEF QuietInv
<1>a. quiet[k] \in Nat /\ version[k] \in Nat /\ quiet[k] <= version[k]
  BY DEF TypeOK, Versions, QuietInv
<1>0. CASE UNCHANGED <<version, quiet>>
  BY <1>0, <1>a
<1>1. ASSUME NEW j \in Keys, Write(j) PROVE quiet'[k] <= version'[k]
  BY <1>1, <1>a DEF Write, TypeOK
<1>2. ASSUME NEW p \in Procs, Wait(p) \/ Delete(p) PROVE quiet'[k] <= version'[k]
  BY <1>2, <1>a DEF Wait, Delete, TypeOK
<1> QED
  BY <1>0, <1>1, <1>2 DEF Next, Work, vars, Join, Miss, Store, RunFn, Done

\* While a Do for a key is active, the history variable keeps its value.
LEMMA QuietKept ==
    ASSUME TypeOK, [Next]_vars, NEW p \in Procs, pc[p] # "idle", pc'[p] # "idle"
    PROVE  arg'[p] = arg[p] /\ quiet'[arg[p]] = quiet[arg[p]]
<1> USE DEF TypeOK
<1>a. arg[p] \in Keys /\ p \in Active(arg[p])
  BY DEF Active
<1>0. CASE UNCHANGED <<arg, quiet>>
  BY <1>0
<1>1. ASSUME NEW j \in Keys, Write(j) PROVE arg'[p] = arg[p] /\ quiet'[arg[p]] = quiet[arg[p]]
  BY <1>1, <1>a DEF Write
<1>2. ASSUME NEW q \in Procs, Wait(q) \/ Delete(q)
      PROVE  arg'[p] = arg[p] /\ quiet'[arg[p]] = quiet[arg[p]]
  <2>1. q # p
    BY <1>2 DEF Wait, Delete
  <2> QED
    BY <1>2, <1>a, <2>1 DEF Wait, Delete
<1>3. ASSUME NEW q \in Procs, NEW k \in Keys, Join(q, k) \/ Miss(q, k)
      PROVE  arg'[p] = arg[p] /\ quiet'[arg[p]] = quiet[arg[p]]
  <2>1. q # p
    BY <1>3 DEF Join, Miss
  <2> QED
    BY <1>3, <2>1 DEF Join, Miss
<1> QED
  BY <1>0, <1>1, <1>2, <1>3 DEF Next, Work, vars, Store, RunFn, Done

\* What is known of the owner of a registered call.
LEMMA RegisteredOwner ==
    ASSUME TypeOK, NothingLeftRegistered, NEW k \in Keys, m[k] # NoCall
    PROVE  \E o \in Procs, n \in 1 .. MaxCalls :
              m[k] = <<o, n>> /\ cur[o] = m[k] /\ arg[o] = k /\ pc[o] \in Owning
<1>1. m[k] \in Calls
  BY DEF TypeOK
<1>2. PICK o \in Procs, n \in 1 .. MaxCalls : m[k] = <<o, n>>
  BY <1>1 DEF Calls
<1> QED
  BY <1>2 DEF NothingLeftRegistered

LEMMA NothingStep ==
    TypeOK /\ OwnInv /\ NothingLeftRegistered /\ [Next]_vars => NothingLeftRegistered'
<1> SUFFICES ASSUME TypeOK, OwnInv, NothingLeftRegistered, [Next]_vars,
                    NEW k \in Keys, m'[k] # NoCall
             PROVE  \E o \in Procs, n \in 1 .. MaxCalls :
                       /\ m'[k] = <<o, n>> /\ cur'[o] = m'[k]
                       /\ arg'[o] = k /\ pc'[o] \in Owning
  BY DEF NothingLeftRegistered
<1>1. ASSUME NEW p \in Procs, Store(p), arg[p] = k
      PROVE  /\ m'[k] = <<p, made[p] + 1>> /\ cur'[p] = m'[k]
             /\ arg'[p] = k /\ pc'[p] \in Owning /\ made[p] + 1 \in 1 .. MaxCalls
  BY <1>1, SingleFlightAssumption DEF Store, TypeOK, OwnInv, Owning
<1>2. CASE m'[k] = m[k] /\ \A p \in Procs : Store(p) => arg[p] # k
  <2>1. PICK o \in Procs, n \in 1 .. MaxCalls :
            m[k] = <<o, n>> /\ cur[o] = m[k] /\ arg[o] = k /\ pc[o] \in Owning
    BY <1>2, RegisteredOwner
  <2>2. cur'[o] = cur[o] /\ arg'[o] = arg[o] /\ pc'[o] \in Owning
    <3>0. CASE UNCHANGED <<cur, arg, pc>>
      BY <2>1, <3>0
    <3>1. ASSUME NEW p \in Procs, p # o,
                 Wait(p) \/ Store(p) \/ RunFn(p) \/ Done(p) \/ Delete(p)
          PROVE  cur'[o] = cur[o] /\ arg'[o] = arg[o] /\ pc'[o] = pc[o]
      BY <3>1 DEF Wait, Store, RunFn, Done, Delete, TypeOK
    <3>2. ASSUME NEW p \in Procs, NEW j \in Keys, Join(p, j) \/ Miss(p, j)
          PROVE  cur'[o] = cur[o] /\ arg'[o] = arg[o] /\ pc'[o] = pc[o]
      BY <2>1, <3>2 DEF Join, Miss, Owning, TypeOK
    <3>3. ~Wait(o) /\ ~Store(o)
      BY <2>1 DEF Wait, Store, Owning
    <3>4. ~Delete(o)
      BY <1>2, <2>1 DEF Delete, TypeOK
    <3>5. ASSUME RunFn(o) \/ Done(o)
          PROVE  cur'[o] = cur[o] /\ arg'[o] = arg[o] /\ pc'[o] \in Owning
      BY <3>5 DEF RunFn, Done, Owning, TypeOK
    <3> QED
      BY <2>1, <3>0, <3>1, <3>2, <3>3, <3>4, <3>5 DEF Next, Work, vars, Write
  <2> QED
    BY <1>2, <2>1, <2>2
<1>3. m'[k] = m[k] \/ m'[k] = NoCall \/ \E p \in Procs : Store(p) /\ arg[p] = k
  BY DEF Next, Work, vars, Write, Join, Miss, Wait, Store, RunFn, Done, Delete, TypeOK
<1> QED
  BY <1>1, <1>2, <1>3

\* A waiter that was one before: its call is not the one Store registers.
LEMMA WaitersStep ==
    TypeOK /\ OwnInv /\ NumberInv /\ NothingLeftRegistered /\ WaitersServed /\ [Next]_vars
    => WaitersServed'
<1> SUFFICES ASSUME TypeOK, OwnInv, NumberInv, NothingLeftRegistered, WaitersServed,
                    [Next]_vars, NEW p \in Procs, pc'[p] = "wait"
             PROVE  /\ cur'[p] \in Calls /\ ofKey'[cur'[p]] = arg'[p]
                    /\ \/ cur'[p] \in done' /\ res'[cur'[p]] # Unset
                       \/ /\ cur'[cur'[p][1]] = cur'[p]
                          /\ pc'[cur'[p][1]] \in {"fn", "done", "donePanic"}
  BY DEF WaitersServed
<1>1. ASSUME NEW k \in Keys, Join(p, k)
      PROVE  \E o \in Procs, n \in 1 .. MaxCalls :
                       /\ cur'[p] = <<o, n>> /\ ofKey'[<<o, n>>] = arg'[p]
                       /\ \/ <<o, n>> \in done' /\ res'[<<o, n>>] # Unset
                          \/ cur'[o] = <<o, n>> /\ pc'[o] \in {"fn", "done", "donePanic"}
  <2>1. PICK o \in Procs, n \in 1 .. MaxCalls :
            m[k] = <<o, n>> /\ cur[o] = m[k] /\ arg[o] = k /\ pc[o] \in Owning
    BY <1>1, RegisteredOwner DEF Join
  <2>2. /\ ofKey[cur[o]] = k
        /\ \/ cur[o] \in done /\ res[cur[o]] # Unset
           \/ pc[o] \in {"fn", "done", "donePanic"}
    BY <2>1 DEF OwnInv, Owning
  <2>3. o # p
    BY <1>1, <2>1 DEF Join, Owning
  <2>4. cur'[p] = m[k] /\ arg'[p] = k /\ cur'[o] = cur[o] /\ pc'[o] = pc[o]
    BY <1>1, <2>3 DEF Join, TypeOK
  <2> QED
    BY <1>1, <2>1, <2>2, <2>4 DEF Join
<1>2. ASSUME pc[p] = "wait"
      PROVE  \E o \in Procs, n \in 1 .. MaxCalls :
                       /\ cur'[p] = <<o, n>> /\ ofKey'[<<o, n>>] = arg'[p]
                       /\ \/ <<o, n>> \in done' /\ res'[<<o, n>>] # Unset
                          \/ cur'[o] = <<o, n>> /\ pc'[o] \in {"fn", "done", "donePanic"}
  <2>1. cur[p] \in Calls
    BY <1>2 DEF WaitersServed
  <2>2. PICK o \in Procs, n \in 1 .. MaxCalls : cur[p] = <<o, n>>
    BY <2>1 DEF Calls
  <2>3. /\ ofKey[<<o, n>>] = arg[p]
        /\ \/ <<o, n>> \in done /\ res[<<o, n>>] # Unset
           \/ cur[o] = <<o, n>> /\ pc[o] \in {"fn", "done", "donePanic"}
    BY <1>2, <2>2 DEF WaitersServed
  <2>4. cur'[p] = cur[p] /\ arg'[p] = arg[p]
    BY <1>2 DEF Next, Work, vars, Write, Join, Miss, Wait, Store, RunFn, Done, Delete,
                TypeOK, Labels
  <2>5. ofKey'[<<o, n>>] = ofKey[<<o, n>>]
    <3>1. ASSUME NEW q \in Procs, Store(q) PROVE <<o, n>> # cur'[q]
      <4>1. cur'[q] = <<q, made[q] + 1>> /\ made[q] \in Nat /\ pc[q] = "store"
        BY <3>1, SingleFlightAssumption DEF Store, TypeOK
      <4>2. CASE <<o, n>> \in done
        BY <4>1, <4>2, SingleFlightAssumption DEF NumberInv
      <4>3. CASE pc[o] \in {"fn", "done", "donePanic"}
        BY <4>1, <4>3
      <4> QED
        BY <2>3, <4>2, <4>3
    <3>2. ASSUME NEW q \in Procs, Store(q) PROVE ofKey'[<<o, n>>] = ofKey[<<o, n>>]
      BY <2>1, <2>2, <3>1, <3>2 DEF Store, TypeOK
    <3> QED
      BY <3>2 DEF Next, Work, vars, Write, Join, Miss, Wait, RunFn, Done, Delete
  <2>6. CASE <<o, n>> \in done /\ res[<<o, n>>] # Unset
    <3>1. ASSUME NEW q \in Procs, RunFn(q) PROVE res'[<<o, n>>] = res[<<o, n>>]
      <4>1. cur[q] \in Calls /\ cur[q] \notin done
        BY <3>1, OwnCall DEF RunFn, Owning, OwnInv
      <4>2. PICK r : res' = [res EXCEPT ![cur[q]] = r]
        BY <3>1, RunFnEffect
      <4> QED
        BY <2>1, <2>2, <2>6, <4>1, <4>2, ResUpdate
    <3>2. <<o, n>> \in done' /\ res'[<<o, n>>] # Unset
      BY <2>6, <3>1 DEF Next, Work, vars, Write, Join, Miss, Wait, Store, RunFn, Done, Delete
    <3> QED
      BY <2>2, <2>3, <2>4, <2>5, <3>2
  <2>7. CASE cur[o] = <<o, n>> /\ pc[o] \in {"fn", "done", "donePanic"}
    <3>1. CASE Done(o)
      <4>1. <<o, n>> \in done' /\ res' = res
        BY <2>7, <3>1, DoneEffect
      <4>2. res[<<o, n>>] # Unset
        BY <2>7, <3>1 DEF Done, OwnInv, Owning
      <4> QED
        BY <2>2, <2>3, <2>4, <2>5, <4>1, <4>2
    <3>2. CASE ~Done(o)
      <4>1. cur'[o] = cur[o] /\ pc'[o] \in {"fn", "done", "donePanic"}
        <5>0. CASE UNCHANGED <<cur, pc>>
          BY <2>7, <5>0
        <5>1. ASSUME NEW q \in Procs, q # o,
                     Wait(q) \/ Store(q) \/ RunFn(q) \/ Done(q) \/ Delete(q)
              PROVE  cur'[o] = cur[o] /\ pc'[o] = pc[o]
          BY <5>1 DEF Wait, Store, RunFn, Done, Delete, TypeOK
        <5>2. ASSUME NEW q \in Procs, NEW j \in Keys, Join(q, j) \/ Miss(q, j)
              PROVE  cur'[o] = cur[o] /\ pc'[o] = pc[o]
          BY <2>7, <5>2 DEF Join, Miss, TypeOK
        <5>3. ~Wait(o) /\ ~Store(o) /\ ~Delete(o)
          BY <2>7 DEF Wait, Store, Delete
        <5>4. ASSUME RunFn(o)
              PROVE  cur'[o] = cur[o] /\ pc'[o] \in {"fn", "done", "donePanic"}
          BY <5>4 DEF RunFn, TypeOK
        <5> QED
          BY <2>7, <3>2, <5>0, <5>1, <5>2, <5>3, <5>4 DEF Next, Work, vars, Write
      <4> QED
        BY <2>2, <2>3, <2>4, <2>5, <2>7, <4>1
    <3> QED
      BY <3>1, <3>2
  <2> QED
    BY <2>3, <2>6, <2>7
<1>3. pc[p] = "wait" \/ \E k \in Keys : Join(p, k)
  BY DEF Next, Work, vars, Write, Join, Miss, Wait, Store, RunFn, Done, Delete, TypeOK
<1>4. PICK o \in Procs, n \in 1 .. MaxCalls :
          /\ cur'[p] = <<o, n>> /\ ofKey'[<<o, n>>] = arg'[p]
          /\ \/ <<o, n>> \in done' /\ res'[<<o, n>>] # Unset
             \/ cur'[o] = <<o, n>> /\ pc'[o] \in {"fn", "done", "donePanic"}
  BY <1>1, <1>2, <1>3
<1>5. <<o, n>> \in Calls /\ <<o, n>>[1] = o
  BY DEF Calls
<1> QED
  BY <1>4, <1>5

LEMMA SharingStep == IInv /\ [Next]_vars => SharingIsLocal'
<1> SUFFICES ASSUME IInv, [Next]_vars, NEW p \in Procs, pc'[p] \in Owning \cup {"wait"},
                    cur'[p] \in Calls, res'[cur'[p]] \in Versions
             PROVE  res'[cur'[p]] >= quiet'[arg'[p]]
  BY DEF SharingIsLocal
<1> USE DEF IInv
<1>a. ASSUME NEW k \in Keys PROVE quiet[k] \in Nat /\ version[k] \in Nat /\ quiet[k] <= version[k]
  BY DEF TypeOK, Versions, QuietInv
\* A new waiter takes over what holds of the owner of the call.
<1>1. ASSUME NEW k \in Keys, Join(p, k) PROVE res'[cur'[p]] >= quiet'[arg'[p]]
  <2>1. PICK o \in Procs, n \in 1 .. MaxCalls :
            m[k] = <<o, n>> /\ cur[o] = m[k] /\ arg[o] = k /\ pc[o] \in Owning
    BY <1>1, RegisteredOwner DEF Join
  <2>2. cur'[p] = m[k] /\ arg'[p] = k /\ UNCHANGED <<res, quiet>>
    BY <1>1 DEF Join, TypeOK
  <2>3. m[k] \in Calls
    BY <1>1 DEF Join, TypeOK
  <2> QED
    BY <2>1, <2>2, <2>3 DEF SharingIsLocal
\* A new call has no result.
<1>2. ~Store(p)
  <2>1. SUFFICES ASSUME Store(p) PROVE FALSE
    OBVIOUS
  <2>2. /\ cur'[p] = <<p, made[p] + 1>> /\ res' = res
        /\ made[p] + 1 \in 1 .. MaxCalls /\ made[p] + 1 > made[p]
    BY <2>1, SingleFlightAssumption DEF Store, TypeOK, OwnInv
  <2>3. res[<<p, made[p] + 1>>] = Unset
    BY <2>2 DEF NumberInv
  <2> QED
    BY <2>2, <2>3, SingleFlightAssumption
<1>3. CASE pc[p] \in Owning \cup {"wait"} /\ cur'[p] = cur[p]
  <2>1. arg'[p] = arg[p] /\ quiet'[arg[p]] = quiet[arg[p]] /\ arg[p] \in Keys
    BY <1>3, QuietKept DEF Owning, TypeOK
  <2>2. CASE res'[cur[p]] = res[cur[p]]
    BY <1>3, <2>1, <2>2 DEF SharingIsLocal
  <2>3. ASSUME NEW q \in Procs, RunFn(q), cur[p] = cur[q]
        PROVE  res'[cur[p]] >= quiet[arg[p]]
    <3>1. cur[q] \in Calls /\ ofKey[cur[q]] = arg[q]
      BY <2>3, OwnCall DEF RunFn, Owning, OwnInv
    <3>2. PICK r \in Versions \cup {Err} :
              res' = [res EXCEPT ![cur[q]] = r] /\ (r \in Versions => r = version[arg[q]])
      BY <2>3, RunFnEffect
    <3>3. res'[cur[p]] = version[arg[q]]
      <4>1. res'[cur[q]] = r
        <5>1. res' = [res EXCEPT ![cur[q]] = r]
          BY <3>2
        <5>2. res \in [Calls -> Results]
          BY DEF TypeOK
        <5> QED
          BY <3>1, <5>1, <5>2
      <4>2. res'[cur[p]] \in Versions
        BY <1>3
      <4> QED
        BY <2>3, <3>2, <4>1, <4>2
    <3>4. ofKey[cur[p]] = arg[p]
      BY <1>3 DEF WaitersServed, OwnInv
    <3> QED
      BY <1>a, <2>1, <2>3, <3>1, <3>3, <3>4
  <2>4. ASSUME NEW q \in Procs, RunFn(q), cur[p] # cur[q]
        PROVE  res'[cur[p]] = res[cur[p]]
    <3>1. cur[q] \in Calls
      BY <2>4, OwnCall DEF RunFn, Owning
    <3>2. PICK r : res' = [res EXCEPT ![cur[q]] = r]
      BY <2>4, RunFnEffect
    <3> QED
      BY <1>3, <2>4, <3>1, <3>2, ResUpdate
  <2> QED
    BY <1>3, <2>1, <2>2, <2>3, <2>4
    DEF Next, Work, vars, Write, Join, Miss, Wait, Store, Done, Delete
<1>4. \/ pc[p] \in Owning \cup {"wait"} /\ cur'[p] = cur[p]
      \/ Store(p)
      \/ \E k \in Keys : Join(p, k)
  BY DEF Next, Work, vars, Write, Join, Miss, Wait, Store, RunFn, Done, Delete, TypeOK, Owning
<1> QED
  BY <1>1, <1>2, <1>3, <1>4

(* The strengthening of the safety properties of SingleFlight.tla is an
   invariant.                                                                *)
THEOREM Inductive == Spec => []IInv
<1>1. IInv /\ [Next]_vars => IInv'
  BY TypeStep, OwnStep, NumberStep, QuietStep, WaitersStep, NothingStep, SharingStep DEF IInv
<1> QED
  BY InitIInv, <1>1, PTL DEF Spec

(* Type correctness, for any goroutines, keys and bounds.                    *)
THEOREM TypeCorrect == Spec => []TypeOK
<1>1. IInv => TypeOK
  BY DEF IInv
<1> QED
  BY Inductive, <1>1, PTL

(* A waiter's call is of its key, and is done with a result or will be: the
   deferred function of Do reaches wg.Done on every path.                    *)
THEOREM EveryWaiterServed == Spec => []WaitersServed
<1>1. IInv => WaitersServed
  BY DEF IInv
<1> QED
  BY Inductive, <1>1, PTL

(* Whatever calls were stored over each other and whatever fn does, a call is
   registered only as long as its owner executes Do.                         *)
THEOREM RegistrationEnds == Spec => []NothingLeftRegistered
<1>1. IInv => NothingLeftRegistered
  BY DEF IInv
<1> QED
  BY Inductive, <1>1, PTL

(* A shared result is never older than the last moment at which no Do for the
   key was active.                                                           *)
THEOREM SharingBounded == Spec => []SharingIsLocal
<1>1. IInv => SharingIsLocal
  BY DEF IInv
<1> QED
  BY Inductive, <1>1, PTL
=============================================================================
