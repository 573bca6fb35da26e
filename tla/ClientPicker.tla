---------------------------- MODULE ClientPicker ----------------------------
(* The picker of a node (peers.go) on its hash ring: it fetches the services
   etcd knows, watches them, and keeps a client and a place on the ring for each.
   The other nodes come and go in etcd (registry/register.go).  The address of
   this node is not in Nodes: fetch and watch skip it.

   p.mu is held for writing while batch > 0, and for reading by every PickPeer
   that is in the ring's Get; a step of the handler is one call on the ring with
   what goes along with it.  The ring's own lock is that of HashRing, whose
   balancer runs next to all this and may never give it back.                *)
EXTENDS HashRing, Sequences

Seqs == INSTANCE SequencesExt

CONSTANT MaxEvents       \* bound on the events on their way

VARIABLES registered,    \* the nodes with a key in etcd
          discovery,     \* how far service discovery is
          events,        \* puts and deletes the picker has still to apply
          batch,         \* how many of them are in the response in hand
          clients,       \* the nodes in p.clients
          conns,         \* open connections to each node
          unsure,        \* history: nodes whose last change the picker cannot know
          closing        \* how far the picker's Close is

rest == <<registered, discovery, unsure, closing>>
pickerVars == <<vars, rest, events, batch, clients, conns>>

Event == [op : {"put", "delete"}, n : Nodes]
Watching == discovery = "watching" /\ closing = "open"

(* Another node's change reaches the watch, or falls between fetch and watch.
   What comes before the fetch is in Init; after the watch it changes nothing. *)
Notify(op, n) ==
    \/ /\ Watching
       /\ Len(events) < MaxEvents
       /\ events' = Append(events, [op |-> op, n |-> n])
       /\ unsure' = unsure \ {n}
    \/ /\ discovery = "fetched" /\ closing = "open"
       /\ unsure' = unsure \cup {n}
       /\ UNCHANGED events

PickerInit ==
    /\ Init
    /\ registered \in SUBSET Nodes
    /\ discovery = "new"
    /\ events = <<>> /\ batch = 0
    /\ clients = {}
    /\ conns = [n \in Nodes |-> 0]
    /\ unsure = {}
    /\ closing = "open"

(* A node starts, or starts again while its old key is still there: Register
   puts its key under a new lease, also when the answer comes too late for it. *)
Register(n) ==
    /\ registered' = registered \cup {n}
    /\ Notify("put", n)
    /\ UNCHANGED <<vars, discovery, batch, clients, conns, closing>>

(* The key goes: the node stops and revokes its lease, or the lease ends because
   the node crashed or its keep-alive channel was closed; then it goes on
   serving and is not registered again.                                      *)
Unregister(n) ==
    /\ n \in registered
    /\ registered' = registered \ {n}
    /\ Notify("delete", n)
    /\ UNCHANGED <<vars, discovery, batch, clients, conns, closing>>

\* fetchAllServices gets the keys and sets their nodes, as if each had been put.
Fetch ==
    /\ discovery = "new"
    /\ discovery' = "fetched"
    /\ events' = Seqs!SetToSeq([op : {"put"}, n : registered])
    /\ batch' = Cardinality(registered)
    /\ UNCHANGED <<vars, registered, clients, conns, unsure, closing>>

\* etcd does not answer: NewClientPicker returns an error and no picker.
FetchFails ==
    /\ discovery = "new"
    /\ discovery' = "failed"
    /\ UNCHANGED <<vars, registered, events, batch, clients, conns, unsure, closing>>

\* watchServiceChanges starts: it sees the changes from now on.
Watch ==
    /\ discovery = "fetched" /\ batch = 0
    /\ closing = "open"
    /\ discovery' = "watching"
    /\ UNCHANGED <<vars, registered, events, batch, clients, conns, unsure, closing>>

\* The watch channel is closed, or the context is done: discovery is over.
EndWatch ==
    /\ batch = 0
    /\ discovery = "watching" \/ (discovery = "fetched" /\ closing # "open")
    /\ discovery' = "ended"
    /\ events' = <<>> /\ unsure' = {}
    /\ UNCHANGED <<vars, registered, batch, clients, conns, closing>>

\* Faulty variant: the events of a response after the first are lost.
ReceiveFirst ==
    /\ discovery = "watching" /\ batch = 0 /\ adding = 0 /\ events # <<>>
    /\ batch' = 1
    /\ events' = <<Head(events)>>
    /\ UNCHANGED <<vars, rest, clients, conns>>

\* A response with some of the events; handleWatchEvents takes the lock, which
\* waits for every PickPeer inside.
Receive ==
    /\ discovery = "watching" /\ batch = 0 /\ adding = 0
    /\ batch' \in 1 .. Len(events)
    /\ UNCHANGED <<vars, rest, events, clients, conns>>

InHand(op, n) == batch > 0 /\ Head(events) = [op |-> op, n |-> n]

\* The event in hand is done with; the lock goes after the last one.
Applied == events' = Tail(events) /\ batch' = batch - 1

\* Client.Close; closing a closed connection changes nothing.
Hangup(n) == conns' = [conns EXCEPT ![n] = IF @ > 0 THEN @ - 1 ELSE 0]

\* Faulty variants: the old client goes and its node stays on the ring; it is
\* dropped without being closed.
DropOldOffRing(n) ==
    /\ InHand("put", n) /\ n \in clients
    /\ Hangup(n)
    /\ clients' = clients \ {n}
    /\ UNCHANGED <<vars, rest, events, batch>>

DropOldOpen(n) ==
    /\ InHand("put", n) /\ n \in clients
    /\ Remove(n)
    /\ clients' = clients \ {n}
    /\ UNCHANGED <<rest, events, batch, conns>>

\* set meets a client of the node: it closes it and takes the node off the ring ...
DropOld(n) ==
    /\ InHand("put", n) /\ n \in clients
    /\ Hangup(n)
    /\ Remove(n)
    /\ clients' = clients \ {n}
    /\ UNCHANGED <<rest, events, batch>>

\* ... and then makes a client and puts the node on the ring,
Connect(n) ==
    /\ InHand("put", n) /\ n \notin clients
    /\ conns' = [conns EXCEPT ![n] = @ + 1]
    /\ Add(n)
    /\ clients' = clients \cup {n}
    /\ Applied
    /\ UNCHANGED rest

\* or fails to: NewClient returns an error and the node stays away.
ConnectFails(n) ==
    /\ InHand("put", n) /\ n \notin clients
    /\ unsure' = unsure \cup {n}
    /\ Applied
    /\ UNCHANGED <<vars, registered, discovery, clients, conns, closing>>

\* Faulty variants: the node stays on the ring; its connection stays open.
ForgetOffRing(n) ==
    /\ InHand("delete", n) /\ n \in clients
    /\ Hangup(n)
    /\ clients' = clients \ {n}
    /\ Applied
    /\ UNCHANGED <<vars, rest>>

ForgetOpen(n) ==
    /\ InHand("delete", n) /\ n \in clients
    /\ Remove(n)
    /\ clients' = clients \ {n}
    /\ Applied
    /\ UNCHANGED <<rest, conns>>

\* A delete of a node with a client, and of one without.
Forget(n) ==
    /\ InHand("delete", n) /\ n \in clients
    /\ Hangup(n)
    /\ Remove(n)
    /\ clients' = clients \ {n}
    /\ Applied
    /\ UNCHANGED rest

ForgetUnknown(n) ==
    /\ InHand("delete", n) /\ n \notin clients
    /\ Applied
    /\ UNCHANGED <<vars, rest, clients, conns>>

\* There is a picker: NewClientPicker has returned it.
Usable == discovery \notin {"new", "failed"} /\ (discovery = "fetched" => batch = 0)

\* PickPeer under the read lock: the ring names a node and counts the request ...
PickPeer(key) ==
    /\ batch = 0 /\ Usable
    /\ Get(key)
    /\ UNCHANGED <<rest, events, batch, clients, conns>>

\* ... by its second add as well; then PickPeer looks up the client and returns.
EndPick == GetTotal /\ UNCHANGED <<rest, events, batch, clients, conns>>

\* Close cancels discovery, with a response in hand or not, and then waits for
\* the lock.
Cancel ==
    /\ closing = "open" /\ Usable
    /\ closing' = "cancelled"
    /\ UNCHANGED <<vars, registered, discovery, events, batch, clients, conns, unsure>>

\* With the lock it stops the balancer and closes the clients, which stay in the map.
Shut ==
    /\ closing = "cancelled" /\ batch = 0 /\ adding = 0
    /\ closing' = "shut"
    /\ Close
    /\ conns' = [n \in Nodes |-> IF n \in clients /\ conns[n] > 0 THEN conns[n] - 1 ELSE conns[n]]
    /\ UNCHANGED <<registered, discovery, events, batch, clients, unsure>>

Rebalance == Balance /\ UNCHANGED <<rest, events, batch, clients, conns>>

PickerNext ==
    \/ Fetch \/ FetchFails \/ Watch \/ EndWatch \/ Receive \/ Cancel \/ Shut \/ EndPick
    \/ Rebalance
    \/ \E n \in Nodes :
          \/ Register(n) \/ Unregister(n)
          \/ DropOld(n) \/ Connect(n) \/ ConnectFails(n) \/ Forget(n) \/ ForgetUnknown(n)
    \/ \E key \in Keys : PickPeer(key)

PickerSpec == PickerInit /\ [][PickerNext]_pickerVars
-----------------------------------------------------------------------------
PickerTypeOK ==
    /\ registered \subseteq Nodes
    /\ discovery \in {"new", "fetched", "watching", "ended", "failed"}
    /\ Seqs!ToSet(events) \subseteq Event
    /\ batch \in 0 .. Len(events)
    /\ clients \subseteq Nodes
    /\ conns \in [Nodes -> {0, 1}]
    /\ unsure \subseteq Nodes
    /\ closing \in {"open", "cancelled", "shut"}

(* Whenever PickPeer can look, the nodes on the ring are those with a client, so
   that no key is routed to a node without one, however set and remove, failing
   clients and the balancer interleave (peers.go 239-261, 270-277).           *)
MembersHaveClients == batch = 0 => Members = clients

(* Until the picker is closed, a node in the map has its one open connection and
   no other node has any: nothing is leaked by a node that registers again or
   goes, and PickPeer never hands out a closed client (peers.go 240-253, 205-207). *)
ConnectionsAccounted ==
    closing # "shut" => \A n \in Nodes : conns[n] = IF n \in clients THEN 1 ELSE 0

(* While the watch runs, a node without an event on its way is known exactly if it
   is registered, unless its change fell between the fetch and the watch or its
   client could not be made (peers.go 152-158, 187-212, 224-233).             *)
Converges ==
    Watching => \A n \in Nodes \ unsure :
        (\A i \in DOMAIN events : events[i].n # n) => (n \in clients <=> n \in registered)
=============================================================================
