---------------------------- MODULE ClusterProofs ----------------------------
(* Cluster: no load is left behind, with as many leaders of a group as there may
   be, for every number of nodes, users, handlers and groups.                 *)
EXTENDS Cluster, WellFoundedInduction, TLAPS

Calls == [at : Stages, n : Nodes \cup {None}, g : 0 .. MaxGroups, ok : BOOLEAN,
          on : Procs \cup {None}, from : Procs \cup {None}]

TypeInv ==
    /\ go \in [Procs -> Calls]
    /\ registered \in [Nodes -> 0 .. MaxGroups]
    /\ cached \in [Nodes -> BOOLEAN]
    /\ flight \in [Nodes -> [Ids -> Procs \cup {None}]]
    /\ serving \in [Nodes -> {"up", "stopping", "down"}]
    /\ ring \in [Nodes -> {"free", "stuck"}]
    /\ \A n \in Nodes : cached[n] => registered[n] # 0

\* A goroutine is idle or inside a group; it has joined a call only while it waits
\* for it; and one that works for another is a handler whose caller waits for it.
CallsInv ==
    \A p \in Procs :
        /\ go[p].at = "idle" => go[p] = Idle
        /\ go[p].at # "idle" => go[p].n \in Nodes /\ go[p].g \in Ids
        /\ go[p].on # None => go[p].at = "join"
        /\ go[p].from # None => p \in Handlers /\ go[p].from # p /\ go[go[p].from].at = "rpc"

OneHandler == \A p, q \in Procs : go[p].from = go[q].from /\ go[p].from # None => p = q

IInv == TypeInv /\ CallsInv /\ OneHandler /\ LoadsAreLed

LEMMA ConstantFacts ==
    /\ None \notin Procs /\ None \notin Nodes /\ MaxGroups \in Nat
    /\ Procs = Users \cup Handlers
    /\ Ids \subseteq Nat /\ 0 \notin Ids /\ \A g \in 0 .. MaxGroups : g # 0 => g \in Ids
    /\ Ids \subseteq 0 .. MaxGroups
BY ClusterAssumption DEF Procs, Ids

LEMMA IdleFacts ==
    /\ Idle \in Calls
    /\ Idle.at = "idle" /\ Idle.n = None /\ Idle.on = None /\ Idle.from = None
BY ClusterAssumption DEF Idle, Calls, Stages

LEMMA InitIInv == Init => IInv
<1> SUFFICES ASSUME Init PROVE IInv
  OBVIOUS
<1>1. TypeInv
  BY ConstantFacts, IdleFacts DEF Init, TypeInv
<1>2. CallsInv /\ OneHandler /\ LoadsAreLed
  BY ConstantFacts, IdleFacts DEF Init, CallsInv, OneHandler, LoadsAreLed, Ids
<1> QED
  BY <1>1, <1>2 DEF IInv

LEMMA FlightSet ==
    ASSUME NEW f \in [Nodes -> [Ids -> Procs \cup {None}]], NEW n \in Nodes, NEW g \in Ids,
           NEW x \in Procs \cup {None}
    PROVE  [f EXCEPT ![n][g] = x] \in [Nodes -> [Ids -> Procs \cup {None}]]
OBVIOUS

\* A goroutine goes on with its own Get: nobody else moves.
Moves(p, c) ==
    /\ go' = [go EXCEPT ![p] = c]
    /\ c \in Calls /\ c.n = go[p].n /\ c.g = go[p].g /\ c.from = go[p].from
    /\ go[p].at \notin {"idle", "rpc", "join"} /\ c.at # "idle"
    /\ go[p].at \in Leading => c.at \in Leading
    /\ c.on # None => c.at = "join"
    /\ c.at = "join" =>
          c.on \in Procs /\ go[c.on].at \in Leading /\ go[c.on].n = c.n /\ go[c.on].g = c.g

LEMMA MoveKeeps ==
    ASSUME IInv, NEW p \in Procs, NEW c, Moves(p, c), UNCHANGED <<groups, nodes>>,
           \/ UNCHANGED flight /\ go[p].at # "delete"
           \/ flight' = [flight EXCEPT ![go[p].n][go[p].g] = p] /\ c.at \in Leading
           \/ flight' = [flight EXCEPT ![go[p].n][go[p].g] = None]
    PROVE  IInv'
<1> USE DEF IInv
<1>1. /\ go'[p] = c /\ \A q \in Procs : q # p => go'[q] = go[q]
      /\ go[p].n \in Nodes /\ go[p].g \in Ids
      /\ c.n = go[p].n /\ c.g = go[p].g /\ c.from = go[p].from
  BY DEF TypeInv, CallsInv, Moves
<1>2. PICK x \in {p, None} :
         \/ UNCHANGED flight /\ go[p].at # "delete"
         \/ flight' = [flight EXCEPT ![go[p].n][go[p].g] = x] /\ (x = p => c.at \in Leading)
  BY ConstantFacts
<1>3. flight' \in [Nodes -> [Ids -> Procs \cup {None}]]
  <2>1. flight \in [Nodes -> [Ids -> Procs \cup {None}]] /\ x \in Procs \cup {None}
    BY DEF TypeInv
  <2>2. CASE flight' = [flight EXCEPT ![go[p].n][go[p].g] = x]
    BY ONLY <1>1, <2>1, <2>2, FlightSet
  <2> QED
    BY <1>2, <2>1, <2>2
<1>4. TypeInv'
  <2>1. go' \in [Procs -> Calls]
    BY DEF TypeInv, Moves
  <2> QED
    BY <1>3, <2>1 DEF TypeInv, groups, nodes
<1>5. CallsInv'
  <2> SUFFICES ASSUME NEW q \in Procs
               PROVE  /\ go'[q].at = "idle" => go'[q] = Idle
                      /\ go'[q].at # "idle" => go'[q].n \in Nodes /\ go'[q].g \in Ids
                      /\ go'[q].on # None => go'[q].at = "join"
                      /\ go'[q].from # None => /\ q \in Handlers /\ go'[q].from # q
                                               /\ go'[go'[q].from].at = "rpc"
    BY DEF CallsInv
  <2>1. go'[q].from = go[q].from
    BY <1>1
  <2>2. go[q].from # None => /\ q \in Handlers /\ go[q].from # q /\ go[q].from # p
                             /\ go[q].from \in Procs /\ go[go[q].from].at = "rpc"
    BY DEF CallsInv, TypeInv, Calls, Moves
  <2> QED
    BY <1>1, <2>1, <2>2 DEF CallsInv, Moves
<1>6. OneHandler'
  BY <1>1 DEF OneHandler
<1>7. LoadsAreLed'
  <2>1. ASSUME NEW q \in Procs, go'[q].at = "join"
        PROVE  /\ go'[q].on # None
               /\ LET call == go'[go'[q].on] IN
                  call.at \in Leading /\ call.n = go'[q].n /\ call.g = go'[q].g
    <3>1. /\ go'[q].on \in Procs /\ go[go'[q].on].at \in Leading
          /\ go[go'[q].on].n = go'[q].n /\ go[go'[q].on].g = go'[q].g
      <4>1. CASE q = p
        BY <1>1, <2>1, <4>1 DEF Moves
      <4>2. CASE q # p
        BY <1>1, <2>1, <4>2 DEF LoadsAreLed, TypeInv, Calls
      <4> QED
        BY <4>1, <4>2
    <3>2. go'[go'[q].on].at \in Leading /\ go'[go'[q].on].n = go[go'[q].on].n
          /\ go'[go'[q].on].g = go[go'[q].on].g
      BY <1>1, <3>1 DEF Moves
    <3> QED
      BY <3>1, <3>2, ConstantFacts
  <2>2. ASSUME NEW n \in Nodes, NEW g \in Ids, flight'[n][g] # None
        PROVE  LET call == go'[flight'[n][g]] IN
               call.at \in Leading \cup {"delete"} /\ call.n = n /\ call.g = g
    <3>1. CASE flight'[n][g] = flight[n][g] /\ flight[n][g] # p
      BY <1>1, <2>2, <3>1 DEF LoadsAreLed, TypeInv
    <3>2. CASE flight'[n][g] = p
      <4>1. ASSUME UNCHANGED flight, go[p].at # "delete" PROVE c.at \in Leading /\ c.n = n /\ c.g = g
        <5>1. go[p].at \in Leading \cup {"delete"} /\ go[p].n = n /\ go[p].g = g
          BY <2>2, <3>2, <4>1 DEF LoadsAreLed
        <5> QED
          BY <1>1, <4>1, <5>1 DEF Moves
      <4>2. ASSUME flight' = [flight EXCEPT ![go[p].n][go[p].g] = x], x = p => c.at \in Leading
            PROVE  c.at \in Leading /\ c.n = n /\ c.g = g
        <5>1. CASE n = go[p].n /\ g = go[p].g
          <6>1. flight'[n][g] = x
            BY <1>1, <4>2, <5>1 DEF TypeInv
          <6> QED
            BY <1>1, <3>2, <4>2, <5>1, <6>1
        <5>2. CASE ~ (n = go[p].n /\ g = go[p].g)
          <6>1. flight[n][g] = p
            BY <1>1, <3>2, <4>2, <5>2 DEF TypeInv
          <6> QED
            BY <2>2, <3>2, <5>2, <6>1 DEF LoadsAreLed
        <5> QED
          BY <5>1, <5>2
      <4> QED
        BY <1>1, <1>2, <3>2, <4>1, <4>2
    <3>3. flight'[n][g] = flight[n][g] \/ flight'[n][g] = x
      BY <1>1, <1>2 DEF TypeInv
    <3> QED
      BY <2>2, <3>1, <3>2, <3>3
  <2> QED
    BY <2>1, <2>2 DEF LoadsAreLed
<1> QED
  BY <1>4, <1>5, <1>6, <1>7

LEMMA AnsweredFacts ==
    ASSUME NEW call \in Calls, NEW good \in BOOLEAN
    PROVE  LET c == Answered(call, good) IN
           /\ c \in Calls /\ c.at \in {"end", "load"}
           /\ c.n = call.n /\ c.g = call.g /\ c.on = call.on /\ c.from = call.from
BY DEF Answered, Calls, Stages, Leading

\* A step in which nobody begins or ends a load, or joins one, and that leaves the
\* registered calls as they are.
LEMMA LoadsKeep ==
    ASSUME IInv, UNCHANGED flight,
           \A q \in Procs :
              /\ go[q].at \in Leading \cup {"delete"} =>
                    /\ go'[q].at \in Leading <=> go[q].at \in Leading
                    /\ go'[q].at \in Leading \cup {"delete"}
                    /\ go'[q].n = go[q].n /\ go'[q].g = go[q].g
              /\ go'[q].at = "join" =>
                    /\ go[q].at = "join" /\ go'[q].on = go[q].on
                    /\ go'[q].n = go[q].n /\ go'[q].g = go[q].g
    PROVE  LoadsAreLed'
<1> USE DEF IInv
<1>1. ASSUME NEW q \in Procs, go'[q].at = "join"
      PROVE  /\ go'[q].on # None
             /\ LET call == go'[go'[q].on] IN
                call.at \in Leading /\ call.n = go'[q].n /\ call.g = go'[q].g
  <2>1. go[q].on \in Procs
    BY <1>1 DEF LoadsAreLed, TypeInv, Calls
  <2> QED
    BY <1>1, <2>1 DEF LoadsAreLed
<1>2. ASSUME NEW n \in Nodes, NEW g \in Ids, flight'[n][g] # None
      PROVE  LET call == go'[flight'[n][g]] IN
             call.at \in Leading \cup {"delete"} /\ call.n = n /\ call.g = g
  BY <1>2 DEF LoadsAreLed, TypeInv
<1> QED
  BY <1>1, <1>2 DEF LoadsAreLed

\* Get returns: only the caller that waits for it moves with it.
LEMMA ReturnKeeps ==
    ASSUME IInv, NEW p \in Procs, NEW good \in BOOLEAN, Return(p, good),
           go[p].at \in {"enter", "back"},
           cached' \in [Nodes -> BOOLEAN], \A n \in Nodes : cached'[n] => registered[n] # 0,
           UNCHANGED <<registered, flight, nodes>>
    PROVE  IInv'
<1> USE DEF IInv
<1>1. /\ go'[p] = Idle
      /\ \A q \in Procs : q # p =>
            /\ go'[q] \in Calls /\ go'[q].n = go[q].n /\ go'[q].g = go[q].g
            /\ go'[q].on = go[q].on /\ go'[q].from = go[q].from
            /\ IF q = go[p].from THEN go[q].at = "rpc" /\ go'[q].at \in {"end", "load"}
               ELSE go'[q] = go[q]
  BY AnsweredFacts, ConstantFacts DEF Return, TypeInv, CallsInv
<1>2. \A q \in Procs : go[q].from # p
  BY ConstantFacts DEF CallsInv
<1>3. TypeInv'
  <2>1. go' \in [Procs -> Calls]
    BY <1>1, IdleFacts DEF Return
  <2> QED
    BY <2>1 DEF TypeInv, nodes
<1>4. OneHandler'
  BY <1>1, IdleFacts DEF OneHandler
<1>5. CallsInv'
  <2> SUFFICES ASSUME NEW q \in Procs, q # p
               PROVE  /\ go'[q].at = "idle" => go'[q] = Idle
                      /\ go'[q].at # "idle" => go'[q].n \in Nodes /\ go'[q].g \in Ids
                      /\ go'[q].on # None => go'[q].at = "join"
                      /\ go'[q].from # None => /\ q \in Handlers /\ go'[q].from # q
                                               /\ go'[go'[q].from].at = "rpc"
    BY <1>1, IdleFacts DEF CallsInv
  <2>1. ASSUME go[q].from # None PROVE go'[go[q].from].at = "rpc"
    <3>1. go[q].from \in Procs /\ go[q].from # p /\ go[q].from # go[p].from
      BY <1>2, <2>1 DEF TypeInv, Calls, OneHandler
    <3> QED
      BY <1>1, <2>1, <3>1 DEF CallsInv
  <2>2. go'[q].on # None => go'[q].at = "join"
    BY <1>1 DEF CallsInv
  <2> QED
    BY <1>1, <2>1, <2>2 DEF CallsInv
<1>6. LoadsAreLed'
  BY <1>1, IdleFacts, LoadsKeep DEF Leading
<1> QED
  BY <1>3, <1>4, <1>5, <1>6

\* An idle goroutine starts a Get in the group that is registered, for a user or
\* for a leader whose call no handler has taken yet.
LEMMA StartKeeps ==
    ASSUME IInv, NEW p \in Procs, go[p] = Idle, NEW c \in Calls, go' = [go EXCEPT ![p] = c],
           c.at = "enter", c.n \in Nodes, c.g \in Ids, c.on = None,
           \/ c.from = None
           \/ /\ p \in Handlers /\ c.from \in Procs /\ go[c.from].at = "rpc"
              /\ \A q \in Handlers : go[q].from # c.from,
           UNCHANGED <<groups, flight, nodes>>
    PROVE  IInv'
<1> USE DEF IInv
<1>1. /\ go'[p] = c /\ \A q \in Procs : q # p => go'[q] = go[q]
      /\ go[p].at = "idle" /\ go[p].from = None /\ c.from # p
  BY IdleFacts, ConstantFacts DEF TypeInv
<1>2. \A q \in Procs : go[q].from # p
  BY <1>1, ConstantFacts DEF CallsInv
<1>3. TypeInv'
  BY DEF TypeInv, groups, nodes
<1>4. OneHandler'
  BY <1>1 DEF OneHandler, CallsInv
<1>5. CallsInv'
  BY <1>1, <1>2, ConstantFacts DEF CallsInv, TypeInv, Calls
<1>6. LoadsAreLed'
  BY <1>1, LoadsKeep DEF Leading
<1> QED
  BY <1>3, <1>4, <1>5, <1>6

\* A call between nodes fails: its caller goes on with its load, and a handler
\* that was at work for it has nobody to answer.
LEMMA FailKeeps ==
    ASSUME IInv, NEW p \in Procs, go[p].at = "rpc", NEW good \in BOOLEAN,
           go' = [q \in Procs |-> IF q = p THEN Answered(go[p], good) ELSE Orphaned(q, p)],
           UNCHANGED <<groups, flight, nodes>>
    PROVE  IInv'
<1> USE DEF IInv
<1>1. /\ go'[p] \in Calls /\ go'[p].at \in {"end", "load"}
      /\ go'[p].n = go[p].n /\ go'[p].g = go[p].g /\ go'[p].on = go[p].on /\ go'[p].from = go[p].from
  BY AnsweredFacts DEF TypeInv
<1>2. \A q \in Procs : q # p =>
         /\ go'[q] \in Calls /\ go'[q].at = go[q].at /\ go'[q].n = go[q].n /\ go'[q].g = go[q].g
         /\ go'[q].on = go[q].on
         /\ go'[q].from = IF go[q].from = p THEN None ELSE go[q].from
         /\ go[q].from = None => go'[q] = go[q]
  <2> SUFFICES ASSUME NEW q \in Procs, q # p
               PROVE  LET c == Orphaned(q, p) IN
                      /\ c \in Calls /\ c.at = go[q].at /\ c.n = go[q].n /\ c.g = go[q].g
                      /\ c.on = go[q].on
                      /\ c.from = IF go[q].from = p THEN None ELSE go[q].from
                      /\ go[q].from = None => c = go[q]
    OBVIOUS
  <2>1. go[q] \in Calls
    BY DEF TypeInv
  <2> QED
    BY <2>1 DEF Orphaned, Calls
<1>3. go[p].from # p
  BY ConstantFacts DEF CallsInv
<1>4. \A q \in Procs :
         /\ go'[q].from # p
         /\ go'[q].from # None => go'[q].from = go[q].from
         /\ go'[q].n = go[q].n /\ go'[q].g = go[q].g /\ go'[q].on = go[q].on
         /\ q # p => go'[q].at = go[q].at
  BY <1>1, <1>2, <1>3, ConstantFacts
<1>5. TypeInv'
  BY <1>1, <1>2 DEF TypeInv, groups, nodes
<1>6. OneHandler'
  BY <1>4 DEF OneHandler
<1>7. CallsInv'
  <2> SUFFICES ASSUME NEW q \in Procs
               PROVE  /\ go'[q].at = "idle" => go'[q] = Idle
                      /\ go'[q].at # "idle" => go'[q].n \in Nodes /\ go'[q].g \in Ids
                      /\ go'[q].on # None => go'[q].at = "join"
                      /\ go'[q].from # None => /\ q \in Handlers /\ go'[q].from # q
                                               /\ go'[go'[q].from].at = "rpc"
    BY DEF CallsInv
  <2>1. go'[q].at = "idle" => go'[q] = Idle
    <3>1. ASSUME go'[q].at = "idle" PROVE q # p /\ go[q].at = "idle" /\ go[q].from = None
      BY <1>1, <1>4, <3>1, IdleFacts DEF CallsInv
    <3> QED
      BY <1>2, <3>1 DEF CallsInv
  <2>2. go'[q].at # "idle" => go'[q].n \in Nodes /\ go'[q].g \in Ids
    BY <1>4 DEF CallsInv
  <2>3. go'[q].on # None => go'[q].at = "join"
    BY <1>4 DEF CallsInv
  <2>4. ASSUME go'[q].from # None
        PROVE  q \in Handlers /\ go'[q].from # q /\ go'[go'[q].from].at = "rpc"
    <3>1. go'[q].from = go[q].from /\ go[q].from # p /\ go[q].from \in Procs
      BY <1>4, <2>4 DEF TypeInv, Calls
    <3> QED
      BY <1>4, <2>4, <3>1 DEF CallsInv
  <2> QED
    BY <2>1, <2>2, <2>3, <2>4
<1>8. LoadsAreLed'
  BY <1>1, <1>4, LoadsKeep DEF Leading
<1> QED
  BY <1>5, <1>6, <1>7, <1>8

\* A call is done, and whoever joined it goes on with its result.
LEMMA DoneKeeps ==
    ASSUME IInv, NEW p \in Procs, Done(p)
    PROVE  IInv'
<1> USE DEF IInv
<1>1. /\ go[p].at = "end" /\ go[p].on = None /\ UNCHANGED <<groups, flight, nodes>>
      /\ \A q \in Procs : go[q] \in Calls
  <2>1. go[p].at = "end" /\ UNCHANGED <<groups, flight, nodes>>
    BY DEF Done
  <2>2. go[p].on = None
    BY <2>1 DEF CallsInv
  <2> QED
    BY <2>1, <2>2 DEF TypeInv
<1>2. \A q \in Procs :
         /\ go'[q] \in Calls /\ go'[q].n = go[q].n /\ go'[q].g = go[q].g /\ go'[q].from = go[q].from
         /\ IF q = p THEN go'[q].at = "delete" /\ go'[q].on = None
            ELSE IF go[q].on = p THEN go[q].at = "join" /\ go'[q].at = "back" /\ go'[q].on = None
            ELSE go'[q] = go[q]
  <2>1. \A q \in Procs : go[q].on = p => go[q].at = "join"
    BY ConstantFacts DEF CallsInv
  <2> SUFFICES ASSUME NEW q \in Procs
               PROVE  /\ go'[q] \in Calls /\ go'[q].n = go[q].n /\ go'[q].g = go[q].g
                      /\ go'[q].from = go[q].from
                      /\ IF q = p THEN go'[q].at = "delete" /\ go'[q].on = None
                         ELSE IF go[q].on = p
                              THEN go[q].at = "join" /\ go'[q].at = "back" /\ go'[q].on = None
                              ELSE go'[q] = go[q]
    OBVIOUS
  <2>2. go'[q] = IF q = p THEN [go[q] EXCEPT !.at = "delete"]
                 ELSE IF go[q].on = p THEN [go[q] EXCEPT !.at = "back", !.ok = go[p].ok, !.on = None]
                 ELSE go[q]
    BY DEF Done
  <2>3. CASE q = p
    <3>1. PICK c : c = [go[q] EXCEPT !.at = "delete"]
      OBVIOUS
    <3>2. /\ c \in Calls /\ c.at = "delete" /\ c.n = go[q].n /\ c.g = go[q].g
          /\ c.on = go[q].on /\ c.from = go[q].from
      BY <1>1, <3>1 DEF Calls, Stages
    <3> QED
      BY <1>1, <2>2, <2>3, <3>1, <3>2
  <2>4. CASE q # p /\ go[q].on = p
    <3>1. PICK c : c = [go[q] EXCEPT !.at = "back", !.ok = go[p].ok, !.on = None]
      OBVIOUS
    <3>2. /\ c \in Calls /\ c.at = "back" /\ c.n = go[q].n /\ c.g = go[q].g
          /\ c.on = None /\ c.from = go[q].from
      BY <1>1, <3>1 DEF Calls, Stages
    <3>3. go'[q] = c
      BY <2>2, <2>4, <3>1
    <3> QED
      BY <2>1, <2>4, <3>2, <3>3
  <2>5. CASE q # p /\ go[q].on # p
    BY <1>1, <2>2, <2>5
  <2> QED
    BY <2>3, <2>4, <2>5
<1>3. TypeInv'
  <2>1. go' \in [Procs -> Calls]
    BY <1>2 DEF Done
  <2> QED
    BY <1>1, <2>1 DEF TypeInv, groups, nodes
<1>4. OneHandler'
  BY <1>2 DEF OneHandler
<1>5. CallsInv'
  BY <1>1, <1>2, IdleFacts, ConstantFacts DEF CallsInv, TypeInv, Calls
<1>6. LoadsAreLed'
  <2>1. ASSUME NEW q \in Procs, go'[q].at = "join"
        PROVE  /\ go'[q].on # None
               /\ LET call == go'[go'[q].on] IN
                  call.at \in Leading /\ call.n = go'[q].n /\ call.g = go'[q].g
    <3>1. go'[q] = go[q] /\ go[q].on # p
      BY <1>2, <2>1
    <3>2. /\ go[q].on \in Procs /\ go[go[q].on].at \in Leading
          /\ go[go[q].on].n = go[q].n /\ go[go[q].on].g = go[q].g
      BY <2>1, <3>1 DEF LoadsAreLed, TypeInv, Calls
    <3>3. go'[go[q].on] = go[go[q].on]
      BY <1>2, <3>1, <3>2 DEF Leading
    <3> QED
      BY <3>1, <3>2, <3>3, ConstantFacts
  <2>2. ASSUME NEW n \in Nodes, NEW g \in Ids, flight'[n][g] # None
        PROVE  LET call == go'[flight'[n][g]] IN
               call.at \in Leading \cup {"delete"} /\ call.n = n /\ call.g = g
    <3>1. flight' = flight /\ flight[n][g] \in Procs
      BY <1>1, <2>2 DEF TypeInv
    <3>2. go[flight[n][g]].at \in Leading \cup {"delete"} /\ go[flight[n][g]].n = n
          /\ go[flight[n][g]].g = g
      BY <2>2, <3>1 DEF LoadsAreLed
    <3>3. go'[flight[n][g]].at \in Leading \cup {"delete"} /\ go'[flight[n][g]].n = n
          /\ go'[flight[n][g]].g = g
      BY <1>2, <3>1, <3>2 DEF Leading
    <3> QED
      BY <3>1, <3>3
  <2> QED
    BY <2>1, <2>2 DEF LoadsAreLed
<1> QED
  BY <1>3, <1>4, <1>5, <1>6

\* A process ends with all it has: those it asked and those that asked it go on
\* without it.
LEMMA RestartKeeps ==
    ASSUME IInv, NEW n \in Nodes, Restart(n)
    PROVE  IInv'
<1> USE DEF IInv
<1> DEFINE lost(p) == p # None /\ go[p].n = n
           refused(p) == \E h \in Handlers : lost(h) /\ go[h].from = p
           kept(p) == IF refused(p) THEN Answered(go[p], FALSE) ELSE go[p]
<1>1. \A p \in Procs : refused(p) => go[p].at = "rpc"
  BY ConstantFacts DEF CallsInv
<1>2. \A p \in Procs :
         /\ kept(p) \in Calls /\ kept(p).n = go[p].n /\ kept(p).g = go[p].g
         /\ kept(p).on = go[p].on /\ kept(p).from = go[p].from
         /\ IF refused(p) THEN kept(p).at \in {"end", "load"} ELSE kept(p) = go[p]
  BY AnsweredFacts DEF TypeInv
<1>3. \A p \in Procs :
         go'[p] = IF lost(p) THEN Idle
                  ELSE IF lost(go[p].from) THEN [kept(p) EXCEPT !.from = None] ELSE kept(p)
  BY DEF Restart
<1> HIDE DEF kept, refused
<1>4. \A p \in Procs :
         IF lost(p) THEN go'[p] = Idle
         ELSE /\ go'[p] \in Calls /\ go'[p].n = go[p].n /\ go'[p].g = go[p].g
              /\ go'[p].at = kept(p).at /\ go'[p].on = go[p].on
              /\ go'[p].from = IF lost(go[p].from) THEN None ELSE go[p].from
              /\ go[p].from = None /\ ~refused(p) => go'[p] = go[p]
  <2>1. \A p \in Procs : LET c == [kept(p) EXCEPT !.from = None] IN
           /\ c \in Calls /\ c.n = go[p].n /\ c.g = go[p].g /\ c.at = kept(p).at
           /\ c.on = go[p].on /\ c.from = None
    BY <1>2 DEF Calls
  <2> SUFFICES ASSUME NEW p \in Procs, ~lost(p)
               PROVE  /\ go'[p] \in Calls /\ go'[p].n = go[p].n /\ go'[p].g = go[p].g
                      /\ go'[p].at = kept(p).at /\ go'[p].on = go[p].on
                      /\ go'[p].from = IF lost(go[p].from) THEN None ELSE go[p].from
                      /\ go[p].from = None /\ ~refused(p) => go'[p] = go[p]
    BY <1>3
  <2>2. CASE lost(go[p].from)
    <3>1. go'[p] = [kept(p) EXCEPT !.from = None] /\ go[p].from # None
      BY <1>3, <2>2
    <3> QED
      BY <2>1, <2>2, <3>1
  <2>3. CASE ~lost(go[p].from)
    <3>1. go'[p] = kept(p)
      BY <1>3, <2>3
    <3> QED
      BY <1>2, <2>3, <3>1
  <2> QED
    BY <2>2, <2>3
<1>5. \A p \in Procs : ~lost(p) =>
         /\ go'[p].at = "idle" => go[p].at = "idle" /\ ~refused(p)
         /\ go'[p].at = "join" <=> go[p].at = "join"
         /\ go'[p].at \in Leading <=> go[p].at \in Leading
         /\ go'[p].at = "delete" <=> go[p].at = "delete"
         /\ go[p].at = "rpc" /\ ~refused(p) => go'[p].at = "rpc"
  BY <1>1, <1>2, <1>4 DEF Leading
<1>6. /\ \A m \in Nodes, g \in Ids : flight'[m][g] = IF m = n THEN None ELSE flight[m][g]
      /\ flight' \in [Nodes -> [Ids -> Procs \cup {None}]]
  BY DEF Restart, TypeInv
<1>7. TypeInv'
  <2>1. go' \in [Procs -> Calls]
    BY <1>4, IdleFacts DEF Restart
  <2>2. registered' \in [Nodes -> 0 .. MaxGroups] /\ cached' \in [Nodes -> BOOLEAN]
    BY ConstantFacts DEF Restart, TypeInv
  <2>3. /\ serving' \in [Nodes -> {"up", "stopping", "down"}]
        /\ ring' \in [Nodes -> {"free", "stuck"}]
        /\ \A m \in Nodes : cached'[m] => registered'[m] # 0
    BY DEF Restart, TypeInv
  <2> QED
    BY <1>6, <2>1, <2>2, <2>3 DEF TypeInv
<1>8. \A p \in Procs : go'[p].from # None => ~lost(p) /\ go'[p].from = go[p].from /\ ~lost(go[p].from)
  BY <1>4, IdleFacts
<1>9. OneHandler'
  BY <1>8 DEF OneHandler
<1>10. CallsInv'
  <2> SUFFICES ASSUME NEW p \in Procs, ~lost(p)
               PROVE  /\ go'[p].at = "idle" => go'[p] = Idle
                      /\ go'[p].at # "idle" => go'[p].n \in Nodes /\ go'[p].g \in Ids
                      /\ go'[p].on # None => go'[p].at = "join"
                      /\ go'[p].from # None => /\ p \in Handlers /\ go'[p].from # p
                                               /\ go'[go'[p].from].at = "rpc"
    BY <1>4, IdleFacts DEF CallsInv
  <2>1. go'[p].at = "idle" => go'[p] = Idle
    BY <1>4, <1>5, IdleFacts DEF CallsInv
  <2>2. go'[p].at # "idle" => go'[p].n \in Nodes /\ go'[p].g \in Ids
    <3>1. go[p].at # "idle" => go[p].n \in Nodes /\ go[p].g \in Ids
      BY DEF CallsInv
    <3>2. go[p].at = "idle" => go'[p].at = "idle"
      BY <1>1, <1>2, <1>4
    <3> QED
      BY <1>4, <3>1, <3>2
  <2>3. go'[p].on # None => go'[p].at = "join"
    BY <1>4, <1>5 DEF CallsInv
  <2>4. ASSUME go'[p].from # None
        PROVE  p \in Handlers /\ go'[p].from # p /\ go'[go'[p].from].at = "rpc"
    <3>1. /\ go'[p].from = go[p].from /\ ~lost(go[p].from) /\ go[p].from \in Procs
          /\ p \in Handlers /\ go[p].from # p /\ go[go[p].from].at = "rpc"
      BY <1>8, <2>4 DEF CallsInv, TypeInv, Calls
    <3>2. ~refused(go[p].from)
      BY <2>4, <3>1, ConstantFacts DEF refused, OneHandler
    <3> QED
      BY <1>5, <3>1, <3>2
  <2> QED
    BY <2>1, <2>2, <2>3, <2>4
<1>11. LoadsAreLed'
  <2>1. ASSUME NEW q \in Procs, go'[q].at = "join"
        PROVE  /\ go'[q].on # None
               /\ LET call == go'[go'[q].on] IN
                  call.at \in Leading /\ call.n = go'[q].n /\ call.g = go'[q].g
    <3>1. ~lost(q) /\ go[q].at = "join"
      BY <1>4, <1>5, <2>1, IdleFacts
    <3>2. /\ go[q].on \in Procs /\ go[go[q].on].at \in Leading
          /\ go[go[q].on].n = go[q].n /\ go[go[q].on].g = go[q].g
      BY <3>1 DEF LoadsAreLed, TypeInv, Calls
    <3>3. ~lost(go[q].on) /\ go'[q].on = go[q].on /\ go'[q].n = go[q].n /\ go'[q].g = go[q].g
      BY <1>4, <3>1, <3>2, ConstantFacts
    <3> QED
      BY <1>4, <1>5, <3>2, <3>3, ConstantFacts
  <2>2. ASSUME NEW m \in Nodes, NEW g \in Ids, flight'[m][g] # None
        PROVE  LET call == go'[flight'[m][g]] IN
               call.at \in Leading \cup {"delete"} /\ call.n = m /\ call.g = g
    <3>1. /\ m # n /\ flight'[m][g] = flight[m][g] /\ flight[m][g] \in Procs
          /\ ~lost(flight[m][g])
      BY <1>6, <2>2 DEF LoadsAreLed, TypeInv
    <3> QED
      BY <1>4, <1>5, <2>2, <3>1 DEF LoadsAreLed
  <2> QED
    BY <2>1, <2>2 DEF LoadsAreLed
<1> QED
  BY <1>7, <1>9, <1>10, <1>11

LEMMA MinIsLeast ==
    ASSUME NEW S, S \subseteq Nat, S # {}
    PROVE  Min(S) \in S
<1>1. PICK x \in S : \A y \in S : ~ (<<y, x>> \in OpToRel(<, Nat))
  BY WFMin, NatLessThanWellFounded
<1>2. ASSUME NEW y \in S PROVE x <= y
  <2>1. y \in Nat /\ x \in Nat /\ <<y, x>> \in Nat \X Nat
    OBVIOUS
  <2>2. ~ (y < x)
    BY <1>1, <2>1 DEF OpToRel
  <2> QED
    BY <2>1, <2>2
<1> QED
  BY <1>2 DEF Min

\* What happens to the groups and the servers happens beside the goroutines.
LEMMA BesideKeeps ==
    ASSUME IInv, UNCHANGED <<go, flight>>, TypeInv'
    PROVE  IInv'
BY DEF IInv, CallsInv, OneHandler, LoadsAreLed

LEMMA GroupsKeep ==
    ASSUME IInv, NEW n \in Nodes,
           \/ NewGroup(n) \/ DestroyGroup(n) \/ Stop(n) \/ Stopped(n)
           \/ Evict(n) \/ Stick(n)
    PROVE  IInv'
<1> USE DEF IInv
<1>1. UNCHANGED <<go, flight>>
  BY DEF NewGroup, DestroyGroup, Stop, Stopped, Evict, Stick
<1>2. CASE NewGroup(n)
  <2> DEFINE fresh == {g \in Ids \ {registered[n]} : \A p \in Procs : go[p].n = n => go[p].g # g}
  <2>1. Min(fresh) \in fresh
    <3>1. fresh \subseteq Nat /\ fresh # {}
      BY <1>2, ConstantFacts DEF NewGroup
    <3> QED
      BY <3>1, MinIsLeast
  <2>2. Min(fresh) \in 0 .. MaxGroups /\ registered' = [registered EXCEPT ![n] = Min(fresh)]
    BY <1>2, <2>1, ConstantFacts DEF NewGroup
  <2> HIDE DEF fresh
  <2>3. TypeInv'
    BY <1>2, <2>2 DEF NewGroup, TypeInv, nodes
  <2> QED
    BY <1>1, <2>3, BesideKeeps
<1>3. CASE DestroyGroup(n)
  <2>1. TypeInv'
    BY <1>3, ConstantFacts DEF DestroyGroup, TypeInv, nodes
  <2> QED
    BY <1>1, <2>1, BesideKeeps
<1>4. CASE Stop(n) \/ Stopped(n) \/ Evict(n) \/ Stick(n)
  <2>1. TypeInv'
    BY <1>4 DEF Stop, Stopped, Evict, Stick, TypeInv, groups, nodes
  <2> QED
    BY <1>1, <2>1, BesideKeeps
<1> QED
  BY <1>2, <1>3, <1>4

LEMMA BeginKeeps ==
    ASSUME IInv, NEW u \in Users, Begin(u)
    PROVE  IInv'
<1>1. PICK n \in Asking :
         /\ registered[n] # 0
         /\ go' = [go EXCEPT ![u] = [Idle EXCEPT !.at = "enter", !.n = n, !.g = registered[n]]]
  BY DEF Begin
<1>2. n \in Nodes /\ registered[n] \in Ids /\ u \in Procs
  BY <1>1, ConstantFacts, ClusterAssumption DEF IInv, TypeInv
<1> DEFINE c == [Idle EXCEPT !.at = "enter", !.n = n, !.g = registered[n]]
<1>3. /\ c \in Calls /\ c.at = "enter" /\ c.n = n /\ c.g = registered[n]
      /\ c.on = None /\ c.from = None
  BY <1>2, IdleFacts, ConstantFacts DEF Calls, Stages
<1>4. go' = [go EXCEPT ![u] = c] /\ go[u] = Idle /\ UNCHANGED <<groups, flight, nodes>>
  BY <1>1 DEF Begin
<1> HIDE DEF c
<1> QED
  BY <1>2, <1>3, <1>4, StartKeeps

LEMMA ArriveKeeps ==
    ASSUME IInv, NEW h \in Handlers, NEW p \in Procs, Arrive(h, p)
    PROVE  IInv'
<1>1. /\ h \in Procs /\ go[h] = Idle /\ go[p].at = "rpc" /\ go \in [Procs -> Calls]
      /\ \A q \in Handlers : go[q].from # p
      /\ UNCHANGED <<groups, flight, nodes>>
  BY ConstantFacts DEF Arrive, IInv, TypeInv
<1>2. PICK n \in Nodes :
         go' = IF registered[n] = 0 THEN [go EXCEPT ![p] = Answered(@, FALSE)]
               ELSE [go EXCEPT ![h] = [at |-> "enter", n |-> n, g |-> registered[n],
                                       ok |-> FALSE, on |-> None, from |-> p]]
  BY DEF Arrive
<1>3. CASE registered[n] = 0
  <2>1. ASSUME NEW q \in Procs PROVE Orphaned(q, p) = go[q]
    <3>1. go[q].from # p /\ go[q] \in Calls
      BY <1>1, ConstantFacts DEF IInv, CallsInv
    <3> QED
      BY <3>1 DEF Orphaned, Calls
  <2>2. go' = [go EXCEPT ![p] = Answered(go[p], FALSE)]
    BY <1>2, <1>3
  <2>3. go' = [q \in Procs |-> IF q = p THEN Answered(go[p], FALSE) ELSE Orphaned(q, p)]
    BY <1>1, <2>1, <2>2
  <2> QED
    BY <1>1, <2>3, FailKeeps
<1>4. CASE registered[n] # 0
  <2> DEFINE c == [at |-> "enter", n |-> n, g |-> registered[n], ok |-> FALSE,
                   on |-> None, from |-> p]
  <2>1. registered[n] \in Ids /\ c \in Calls
    BY <1>4, ConstantFacts DEF IInv, TypeInv, Calls, Stages
  <2>2. /\ c.at = "enter" /\ c.n = n /\ c.g = registered[n] /\ c.on = None
        /\ c.from = p /\ go' = [go EXCEPT ![h] = c]
    BY <1>2, <1>4
  <2> HIDE DEF c
  <2> QED
    BY <1>1, <2>1, <2>2, StartKeeps
<1> QED
  BY <1>3, <1>4

LEMMA WorkKeeps ==
    ASSUME IInv, NEW p \in Procs, Work(p)
    PROVE  IInv'
<1>1. /\ go \in [Procs -> Calls] /\ go[p] \in Calls
      /\ go[p].at # "idle" => go[p].n \in Nodes /\ go[p].g \in Ids
      /\ go[p].at # "join" => go[p].on = None
      /\ cached \in [Nodes -> BOOLEAN] /\ \A n \in Nodes : cached[n] => registered[n] # 0
  BY DEF IInv, TypeInv, CallsInv
<1>2. ASSUME NEW stage \in {"do", "store", "pick", "rpc", "load", "back"}, Goto(p, stage),
             go[p].at \notin {"idle", "rpc", "join"},
             go[p].at \in Leading => stage \in Leading
      PROVE  \E c : Moves(p, c) /\ c.at = stage
  <2>1. go' = [go EXCEPT ![p] = [go[p] EXCEPT !.at = stage]] /\ stage \in Stages
    BY <1>2 DEF Goto, Stages, Leading
  <2>2. PICK c : c = [go[p] EXCEPT !.at = stage]
    OBVIOUS
  <2>3. /\ c \in Calls /\ c.at = stage /\ c.n = go[p].n /\ c.g = go[p].g
        /\ c.on = None /\ c.from = go[p].from
    <3>1. go[p].on = None
      BY <1>1, <1>2
    <3>2. /\ c \in Calls /\ c.at = stage /\ c.n = go[p].n /\ c.g = go[p].g
          /\ c.on = go[p].on /\ c.from = go[p].from
      <4>1. go[p] \in Calls /\ stage \in Stages
        BY <1>1, <2>1
      <4> QED
        BY ONLY <2>2, <4>1 DEF Calls
    <3> QED
      BY <3>1, <3>2
  <2> QED
    BY <1>2, <2>1, <2>2, <2>3 DEF Moves
<1>3. CASE Enter(p)
  <2>1. CASE Return(p, IsOpen(p))
    <3>1. IsOpen(p) \in BOOLEAN
      BY DEF IsOpen
    <3> QED
      BY <1>1, <1>3, <2>1, <3>1, ReturnKeeps DEF Enter, groups
  <2>2. CASE Goto(p, "do")
    <3>1. \E c : Moves(p, c)
      BY <1>2, <1>3, <2>2 DEF Enter, Leading
    <3> QED
      BY <1>3, <3>1, MoveKeeps DEF Enter
  <2> QED
    BY <1>3, <2>1, <2>2 DEF Enter
<1>4. CASE Join(p)
  <2> DEFINE q == MyFlight(p)
  <2>1. /\ q \in Procs /\ go[q].n = go[p].n /\ go[q].g = go[p].g /\ go[p].at = "do"
        /\ go[q].at # "delete" => go[q].at \in Leading
        /\ go[q] \in Calls
    BY <1>1, <1>4 DEF Join, MyFlight, IInv, LoadsAreLed, TypeInv
  <2>2. PICK c : c = IF go[q].at = "delete" THEN [go[p] EXCEPT !.at = "back", !.ok = go[q].ok]
                                            ELSE [go[p] EXCEPT !.at = "join", !.on = q]
    OBVIOUS
  <2>3. go' = [go EXCEPT ![p] = c] /\ UNCHANGED <<groups, flight, nodes>>
    BY <1>1, <1>4, <2>2 DEF Join
  <2> HIDE DEF q
  <2>4. CASE go[q].at = "delete"
    <3>1. /\ c \in Calls /\ c.at = "back" /\ c.n = go[p].n /\ c.g = go[p].g
          /\ c.on = go[p].on /\ c.from = go[p].from
      BY <1>1, <2>1, <2>2, <2>4 DEF Calls, Stages
    <3>2. Moves(p, c)
      BY <1>1, <2>1, <2>3, <3>1 DEF Moves, Leading
    <3> QED
      BY <2>1, <2>3, <3>2, MoveKeeps
  <2>5. CASE go[q].at # "delete"
    <3>1. /\ c \in Calls /\ c.at = "join" /\ c.n = go[p].n /\ c.g = go[p].g
          /\ c.on = q /\ c.from = go[p].from
      BY <1>1, <2>1, <2>2, <2>5 DEF Calls, Stages
    <3>2. Moves(p, c)
      BY <1>1, <2>1, <2>3, <2>5, <3>1 DEF Moves, Leading
    <3> QED
      BY <2>1, <2>3, <3>2, MoveKeeps
  <2> QED
    BY <2>4, <2>5
<1>5. CASE Miss(p)
  <2>1. \E c : Moves(p, c)
    BY <1>2, <1>5 DEF Miss, Leading
  <2> QED
    BY <1>5, <2>1, MoveKeeps DEF Miss
<1>6. CASE Store(p)
  <2>1. \E c : Moves(p, c) /\ c.at = "pick"
    BY <1>2, <1>6 DEF Store, Leading
  <2> QED
    BY <1>6, <2>1, MoveKeeps DEF Store, Leading
<1>7. CASE PickPeer(p)
  <2>1. \E c : Moves(p, c)
    BY <1>2, <1>7 DEF PickPeer, Leading
  <2> QED
    BY <1>7, <2>1, MoveKeeps DEF PickPeer
<1>8. CASE GiveUp(p)
  BY <1>8, FailKeeps DEF GiveUp
<1>9. CASE Load(p)
  <2>1. PICK good \in BOOLEAN : go' = [go EXCEPT ![p].at = "end", ![p].ok = good]
    BY <1>9 DEF Load
  <2>2. go' = [go EXCEPT ![p] = [go[p] EXCEPT !.at = "end", !.ok = good]]
    BY <1>1, <2>1
  <2>3. PICK c : c = [go[p] EXCEPT !.at = "end", !.ok = good]
    OBVIOUS
  <2>4. /\ c \in Calls /\ c.at = "end" /\ c.n = go[p].n /\ c.g = go[p].g
        /\ c.on = go[p].on /\ c.from = go[p].from
    BY <1>1, <2>3 DEF Calls, Stages, Leading
  <2>5. Moves(p, c)
    BY <1>1, <1>9, <2>2, <2>3, <2>4 DEF Load, Moves, Leading
  <2> QED
    BY <1>9, <2>5, MoveKeeps DEF Load
<1>10. CASE Done(p)
  BY <1>10, DoneKeeps
<1>11. CASE Delete(p)
  <2>1. \E c : Moves(p, c)
    BY <1>2, <1>11 DEF Delete, Leading
  <2> QED
    BY <1>11, <2>1, MoveKeeps DEF Delete
<1>12. CASE Back(p)
  <2>1. cached' \in [Nodes -> BOOLEAN] /\ \A n \in Nodes : cached'[n] => registered[n] # 0
    <3>1. go[p].n \in Nodes /\ go[p].g # 0
      BY <1>1, <1>12, ConstantFacts DEF Back
    <3>2. cached' = [cached EXCEPT ![go[p].n] = cached[go[p].n] \/ (go[p].ok /\ IsOpen(p))]
      BY <1>12 DEF Back
    <3>3. go[p].ok \in BOOLEAN /\ IsOpen(p) \in BOOLEAN
      BY <1>1 DEF Calls, IsOpen
    <3> QED
      BY <1>1, <3>1, <3>2, <3>3 DEF IsOpen
  <2>2. go[p].ok \in BOOLEAN
    BY <1>1 DEF Calls
  <2> QED
    BY <1>12, <2>1, <2>2, ReturnKeeps DEF Back
<1> QED
  BY <1>3, <1>4, <1>5, <1>6, <1>7, <1>8, <1>9, <1>10, <1>11, <1>12 DEF Work

LEMMA Inductive == IInv /\ [Next]_vars => IInv'
<1>1. ASSUME IInv, UNCHANGED vars PROVE IInv'
  <2>1. UNCHANGED <<go, flight>> /\ TypeInv'
    BY <1>1 DEF IInv, TypeInv, vars, groups, nodes
  <2> QED
    BY <1>1, <2>1, BesideKeeps
<1> QED
  BY <1>1, BeginKeeps, ArriveKeeps, WorkKeeps, GroupsKeep, RestartKeeps DEF Next

LEMMA Invariant == Spec => []IInv
BY InitIInv, Inductive, PTL DEF Spec
-----------------------------------------------------------------------------
(* The variables keep their types, and what is in a main cache is in the cache of
   a registered group: a group that is closed or replaced stays empty, although
   its goroutines go on (group.go 156-163, 325-340, 466-490).                 *)
THEOREM TypeCorrect == Spec => []TypeOK
<1>1. IInv => TypeOK
  BY DEF IInv, TypeInv, TypeOK, Calls
<1> QED
  BY <1>1, Invariant, PTL

(* Nobody waits for a load that no goroutine of the node is on, and no call stays
   registered without one who will delete it, however many lead a group at once and
   delete each other's calls, and whatever fails, restarts or is replaced meanwhile
   (group.go 316-318, 343-367; singleflight.go 65-88).                         *)
THEOREM NoLoadLeftBehind == Spec => []LoadsAreLed
<1>1. IInv => LoadsAreLed
  BY DEF IInv
<1> QED
  BY <1>1, Invariant, PTL
=============================================================================
