------------------------------- MODULE Cluster -------------------------------
(* Nodes that ask each other for a key (server.go, client.go, group.go): the Gets
   of users and the handlers of the server, each a goroutine that looks into the
   main cache of a group and on a miss leads or joins a load of the group, and a
   leader that asks the node its ring names.  No ring names its own node
   (ClientPicker), so a miss may come back to where it began.  A ring may block its
   callers for good: a rebalancing that changes replicas never gives its lock back
   (HashRing, RebalanceCompletes).

   There is one key and one group name.  A group is registered until it is closed,
   under groupsMu; it lives on, empty, in the goroutines that have it, and its
   number is taken again once there are none.  The loader is that of SingleFlight
   with its steps on the map: two goroutines that miss both store their calls and
   lead, a Delete removes the call of the other, and a newcomer joins what is done.
   Done and the wake-up of those who joined are one step, as the result of a call
   no longer changes then.                                                     *)
EXTENDS Naturals, FiniteSetsExt

CONSTANTS Nodes,
          Asking,     \* bound: the nodes whose users call Get
          Stoppable,  \* bound: the nodes whose server is stopped
          Changing,   \* bound: the nodes whose group is closed or replaced, or who restart
          Sticky,     \* bound: the nodes whose ring blocks
          Users,      \* the goroutines that call Get
          Handlers,   \* bound: the server goroutines at work at once
          MaxGroups,  \* bound on the groups a process has under the name
          None

VARIABLES go,         \* what each goroutine does
          registered, \* the group each node has under the name, 0 for none
          cached,     \* whether the main cache of that group has the key
          flight,     \* the call the loader of each group has, as the one who leads it
          serving,    \* of each node's server
          ring        \* of each node: whether it lets its callers in

groups == <<registered, cached>>
nodes == <<serving, ring>>
vars == <<go, groups, flight, nodes>>

Procs == Users \cup Handlers
Ids == 1 .. MaxGroups

ASSUME ClusterAssumption ==
    /\ Users \cap Handlers = {} /\ None \notin Nodes \cup Procs
    /\ Asking \cup Stoppable \cup Changing \cup Sticky \subseteq Nodes /\ MaxGroups \in Nat

\* Leading is a goroutine whose call is registered and not done; at delete it is done.
Leading == {"pick", "rpc", "load", "end"}
Stages == {"idle", "enter", "do", "join", "store", "delete", "back"} \cup Leading

\* What a goroutine does: its stage, node and group, its result, whose call it has
\* joined and who waits at another node for its answer.
Idle == [at |-> "idle", n |-> None, g |-> 0, ok |-> FALSE, on |-> None, from |-> None]

Init ==
    /\ go = [p \in Procs |-> Idle]
    /\ registered = [n \in Nodes |-> 0]
    /\ cached = [n \in Nodes |-> FALSE]
    /\ flight = [n \in Nodes |-> [g \in Ids |-> None]]
    /\ serving = [n \in Nodes |-> "up"]
    /\ ring = [n \in Nodes |-> "free"]

IsOpen(p) == registered[go[p].n] = go[p].g
MyFlight(p) == flight[go[p].n][go[p].g]

Goto(p, stage) == go' = [go EXCEPT ![p].at = stage]

\* What the caller of a handler does with its answer: fn has its value, or asks
\* the getter.
Answered(call, good) == [call EXCEPT !.at = IF good THEN "end" ELSE "load", !.ok = good]

\* Get returns, to a user or through the server to the node that asked.
Return(p, good) ==
    go' = [q \in Procs |-> IF q = p THEN Idle
                           ELSE IF q = go[p].from THEN Answered(go[q], good) ELSE go[q]]

\* A user calls Get on a group of a node.
Begin(u) ==
    /\ go[u] = Idle
    /\ \E n \in Asking :
          /\ registered[n] # 0
          /\ go' = [go EXCEPT ![u] = [Idle EXCEPT !.at = "enter", !.n = n, !.g = registered[n]]]
    /\ UNCHANGED <<groups, flight, nodes>>

\* Server.Get: GetGroup finds the group, or there is none and the answer is an error.
Arrive(h, p) ==
    /\ go[h] = Idle /\ go[p].at = "rpc"
    /\ \A q \in Handlers : go[q].from # p
    /\ \E n \in Nodes \ {go[p].n} :
          /\ serving[n] = "up"
          /\ go' = IF registered[n] = 0 THEN [go EXCEPT ![p] = Answered(@, FALSE)]
                   ELSE [go EXCEPT ![h] = [at |-> "enter", n |-> n, g |-> registered[n],
                                           ok |-> FALSE, on |-> None, from |-> p]]
    /\ UNCHANGED <<groups, flight, nodes>>

\* Get in a group that is closed is an error; a hit in the main cache returns.
\* Group has the steps in between.
Enter(p) ==
    /\ go[p].at = "enter"
    /\ IF IsOpen(p) => cached[go[p].n] THEN Return(p, IsOpen(p)) ELSE Goto(p, "do")
    /\ UNCHANGED <<groups, flight, nodes>>

\* g.loader.Do: a call is registered.  It is joined, or it is done and has a result.
Join(p) ==
    LET q == MyFlight(p) IN
    /\ go[p].at = "do" /\ q # None
    /\ go' = [go EXCEPT ![p] = IF go[q].at = "delete" THEN [@ EXCEPT !.at = "back", !.ok = go[q].ok]
                                                     ELSE [@ EXCEPT !.at = "join", !.on = q]]
    /\ UNCHANGED <<groups, flight, nodes>>

\* No call is registered.
Miss(p) ==
    /\ go[p].at = "do" /\ MyFlight(p) = None
    /\ Goto(p, "store")
    /\ UNCHANGED <<groups, flight, nodes>>

\* The call is registered, over any other that was since the Miss, and fn begins.
Store(p) ==
    /\ go[p].at = "store"
    /\ flight' = [flight EXCEPT ![go[p].n][go[p].g] = p]
    /\ Goto(p, "pick")
    /\ UNCHANGED <<groups, nodes>>

\* loadData: PickPeer, once the ring lets it in, names another node to ask, or there
\* is none and the getter is asked.
PickPeer(p) ==
    /\ go[p].at = "pick" /\ ring[go[p].n] = "free"
    /\ Goto(p, "rpc") \/ Goto(p, "load")
    /\ UNCHANGED <<groups, flight, nodes>>

\* The caller p leaves; a handler at work for it has nobody to answer.
Orphaned(h, p) == [go[h] EXCEPT !.from = IF @ = p THEN None ELSE @]

\* Faulty variants: Client.Get has no deadline, so only a call no server has taken
\* fails; or the failure leaves Get, with the load not ended.
GiveUpUnsent(p) ==
    /\ go[p].at = "rpc" /\ \A h \in Handlers : go[h].from # p
    /\ go' = [go EXCEPT ![p] = Answered(@, FALSE)]
    /\ UNCHANGED <<groups, flight, nodes>>

GiveUpReturns(p) ==
    /\ go[p].at = "rpc" /\ p \in Users
    /\ go' = [q \in Procs |-> IF q = p THEN Idle ELSE Orphaned(q, p)]
    /\ UNCHANGED <<groups, flight, nodes>>

\* Client.Get fails: no connection, a refused token, or its 3 seconds are over.
GiveUp(p) ==
    /\ go[p].at = "rpc"
    /\ go' = [q \in Procs |-> IF q = p THEN Answered(go[p], FALSE) ELSE Orphaned(q, p)]
    /\ UNCHANGED <<groups, flight, nodes>>

\* The getter returns a value or an error.
Load(p) ==
    /\ go[p].at = "load"
    /\ \E good \in BOOLEAN : go' = [go EXCEPT ![p].at = "end", ![p].ok = good]
    /\ UNCHANGED <<groups, flight, nodes>>

\* wg.Done: everybody who joined this call has its result.
Done(p) ==
    /\ go[p].at = "end"
    /\ go' = [q \in Procs |->
                IF q = p THEN [go[p] EXCEPT !.at = "delete"]
                ELSE IF go[q].on = p THEN [go[q] EXCEPT !.at = "back", !.ok = go[p].ok, !.on = None]
                ELSE go[q]]
    /\ UNCHANGED <<groups, flight, nodes>>

\* Whatever call is registered by now is removed, and Do ends.
Delete(p) ==
    /\ go[p].at = "delete"
    /\ flight' = [flight EXCEPT ![go[p].n][go[p].g] = None]
    /\ Goto(p, "back")
    /\ UNCHANGED <<groups, nodes>>

\* Faulty variant: the write-back ignores that the cache is closed.
BackUnchecked(p) ==
    /\ go[p].at = "back"
    /\ cached' = [cached EXCEPT ![go[p].n] = @ \/ go[p].ok]
    /\ Return(p, go[p].ok)
    /\ UNCHANGED <<registered, flight, nodes>>

\* load writes a value back, and Get returns.
Back(p) ==
    /\ go[p].at = "back"
    /\ cached' = [cached EXCEPT ![go[p].n] = @ \/ (go[p].ok /\ IsOpen(p))]
    /\ Return(p, go[p].ok)
    /\ UNCHANGED <<registered, flight, nodes>>

\* The key is evicted, expires or is deleted.
Evict(n) ==
    /\ cached[n]
    /\ cached' = [cached EXCEPT ![n] = FALSE]
    /\ UNCHANGED <<go, registered, flight, nodes>>

\* A new group takes the name, and the group that had it is closed and cleared.
NewGroup(n) ==
    LET fresh == {g \in Ids \ {registered[n]} : \A p \in Procs : go[p].n = n => go[p].g # g} IN
    /\ fresh # {} /\ (registered[n] = 0 \/ n \in Changing)
    /\ registered' = [registered EXCEPT ![n] = Min(fresh)]
    /\ cached' = [cached EXCEPT ![n] = FALSE]
    /\ UNCHANGED <<go, flight, nodes>>

DestroyGroup(n) ==
    /\ n \in Changing /\ registered[n] # 0
    /\ registered' = [registered EXCEPT ![n] = 0]
    /\ cached' = [cached EXCEPT ![n] = FALSE]
    /\ UNCHANGED <<go, flight, nodes>>

\* Server.Stop: nothing new is taken in, and GracefulStop waits for the handlers.
Stop(n) ==
    /\ n \in Stoppable /\ serving[n] = "up"
    /\ serving' = [serving EXCEPT ![n] = "stopping"]
    /\ UNCHANGED <<go, groups, flight, ring>>

Stopped(n) ==
    /\ serving[n] = "stopping"
    /\ \A h \in Handlers : go[h].n # n
    /\ serving' = [serving EXCEPT ![n] = "down"]
    /\ UNCHANGED <<go, groups, flight, ring>>

\* A rebalancing of the node blocks on the lock it holds, and keeps it.
Stick(n) ==
    /\ n \in Sticky
    /\ ring' = [ring EXCEPT ![n] = "stuck"]
    /\ UNCHANGED <<go, groups, flight, serving>>

\* The process ends with all it has, and starts again; its callers see an error.
Restart(n) ==
    LET lost(p) == p # None /\ go[p].n = n
        refused(p) == \E h \in Handlers : lost(h) /\ go[h].from = p
        kept(p) == IF refused(p) THEN Answered(go[p], FALSE) ELSE go[p] IN
    /\ n \in Changing
    /\ go' = [p \in Procs |->
                IF lost(p) THEN Idle
                ELSE IF lost(go[p].from) THEN [kept(p) EXCEPT !.from = None] ELSE kept(p)]
    /\ registered' = [registered EXCEPT ![n] = 0]
    /\ cached' = [cached EXCEPT ![n] = FALSE]
    /\ flight' = [flight EXCEPT ![n] = [g \in Ids |-> None]]
    /\ serving' = [serving EXCEPT ![n] = "up"]
    /\ ring' = [ring EXCEPT ![n] = "free"]

Work(p) ==
    \/ Enter(p) \/ Join(p) \/ Miss(p) \/ Store(p) \/ PickPeer(p) \/ GiveUp(p) \/ Load(p)
    \/ Done(p) \/ Delete(p) \/ Back(p)

Next ==
    \/ \E u \in Users : Begin(u)
    \/ \E h \in Handlers, p \in Procs : Arrive(h, p)
    \/ \E p \in Procs : Work(p)
    \/ \E n \in Nodes :
          \/ NewGroup(n) \/ DestroyGroup(n) \/ Stop(n) \/ Stopped(n)
          \/ Restart(n) \/ Evict(n) \/ Stick(n)

Spec == Init /\ [][Next]_vars

\* A goroutine inside Get runs on where no lock holds it, and its deadlines pass;
\* GracefulStop returns once it may.
FairSpec ==
    /\ Spec
    /\ \A p \in Procs : WF_vars(Work(p))
    /\ \A n \in Stoppable : WF_vars(Stopped(n))
-----------------------------------------------------------------------------
TypeOK ==
    /\ go \in [Procs -> [at : Stages, n : Nodes \cup {None}, g : 0 .. MaxGroups, ok : BOOLEAN,
                         on : Procs \cup {None}, from : Procs \cup {None}]]
    /\ registered \in [Nodes -> 0 .. MaxGroups]
    /\ cached \in [Nodes -> BOOLEAN]
    /\ flight \in [Nodes -> [Ids -> Procs \cup {None}]]
    /\ serving \in [Nodes -> {"up", "stopping", "down"}]
    /\ ring \in [Nodes -> {"free", "stuck"}]
    /\ \A n \in Nodes : cached[n] => registered[n] # 0

(* Whoever waits for a load waits for one that a goroutine of its node is on, also
   when the call was stored over or deleted by another leader; and a call that is
   registered has a leader that will delete it: failures, deadlines, restarts and
   groups that are replaced leave nothing behind that later Gets would wait for
   (group.go 316-318, 343-367; singleflight.go 65-88).                         *)
LoadsAreLed ==
    /\ \A p \in Procs : go[p].at = "join" =>
          /\ go[p].on # None
          /\ LET call == go[go[p].on] IN
             call.at \in Leading /\ call.n = go[p].n /\ call.g = go[p].g
    /\ \A n \in Nodes, g \in Ids : flight[n][g] # None =>
          LET call == go[flight[n][g]] IN
          call.at \in Leading \cup {"delete"} /\ call.n = n /\ call.g = g

(* Every Get returns unless the ring of its own node has blocked.  Nodes can wait
   for each other in a circle, and for a node whose ring has blocked; the deadline
   of Client.Get breaks both (client.go 188, group.go 349-361).                *)
EveryGetReturns == \A u \in Users : []<>(go[u] = Idle \/ ring[go[u].n] = "stuck")

(* Stop returns unless the ring of the node has blocked: no other handler it waits
   for waits for ever (server.go 235-246).                                     *)
EveryStopEnds == \A n \in Stoppable : []<>(serving[n] # "stopping" \/ ring[n] = "stuck")
=============================================================================
