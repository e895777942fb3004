------------------------------ MODULE ClusterJoin ------------------------------
(***************************************************************************)
(* How a node of the C++ runtime joins a cluster: connect_to_cluster of    *)
(* the joining node against net_loop and handle_connection of the node     *)
(* that runs the Monad, over ENet (netcode.cpp).  A node has one queue of  *)
(* events, enet_host_service returns the oldest or gives up after five     *)
(* seconds, and each wait of a join takes whatever event comes next.       *)
(*                                                                         *)
(* The environment is ENet: connections are made in two directions, carry  *)
(* packets in order, and a node that is gone is noticed some time later.   *)
(***************************************************************************)
EXTENDS Naturals, Sequences, FiniteSets

CONSTANTS
  Seed,       \* the host that runs the Monad
  Joiners,    \* hosts that may join
  Nowhere,    \* where an address leads that no host has
  None,
  MaxCalls    \* bound: calls the nodes send each other

Packets == {"call", "host_info", "cluster_info"}
Kinds == Packets \cup {"connect", "disconnect"}

ASSUME HostsAssumption ==
  Seed \notin Joiners /\ Nowhere \notin Joiners \cup {Seed} /\ None \notin Kinds

Hosts == Joiners \cup {Seed}

VARIABLES
  pc,         \* pc[h]: where host h is; "loop" is net_loop
  events,     \* events[h]: what ENet has for h, oldest first
  dialing,    \* connections <<from, to>> on their way
  links,      \* connections there are
  newcomer,   \* whom the seed connects back to, and where
  routes,     \* node_host_map of the seed, without its own entry
  peers,      \* peers[h]: the addresses that h has connected to
  known,      \* node_ids of nodes: where the Monad may start programs
  nextId,     \* pleroma_nodes_n
  id,         \* id[h]: node_id, 0 until it is assigned
  calls,      \* calls sent
  late,       \* history: a wait has timed out
  misrouted   \* history: a node took a call for another one

seedVars == <<newcomer, routes, known, nextId>>
vars == <<pc, events, dialing, links, seedVars, peers, id, calls, late, misrouted>>

\* The number of an event is the node a call is for, the id in the cluster
\* info, or the port that comes with a connection: a node tells its own when it
\* connects, and hears of none (0) when it is the one that connected.
Event(kind, peer, n) == [kind |-> kind, peer |-> peer, n |-> n]

Up(h) == h \in Hosts /\ pc[h] # "down"
Joining == {"confirm_out", "confirm_in", "cluster_info"}
Serving == {"confirm_back", "host_info", "confirm_peer"}

Init ==
  /\ pc = [h \in Hosts |-> IF h = Seed THEN "loop" ELSE "off"]
  /\ events = [h \in Hosts |-> <<>>]
  /\ dialing = {} /\ links = {}
  /\ newcomer = None /\ routes = <<>> /\ known = {0} /\ nextId = 1
  /\ peers = [h \in Hosts |-> {}]
  /\ id = [h \in Hosts |-> 0]
  /\ calls = 0 /\ late = FALSE /\ misrouted = FALSE

-----------------------------------------------------------------------------
(* ENet *)

\* One more event for h.
Hear(es, h, e) == [es EXCEPT ![h] = Append(@, e)]

\* Both ends hear of a connection.
Connect(x, y) ==
  /\ <<x, y>> \in dialing /\ Up(x) /\ Up(y)
  /\ dialing' = dialing \ {<<x, y>>} /\ links' = links \cup {<<x, y>>}
  /\ events' = Hear(Hear(events, x, Event("connect", y, 0)), y, Event("connect", x, 1))
  /\ UNCHANGED <<pc, seedVars, peers, id, calls, late, misrouted>>

\* ENet gives up on a host that does not answer, or no longer does.
GiveUp(x, y) ==
  /\ <<x, y>> \in dialing \cup links /\ Up(x) # Up(y)
  /\ dialing' = dialing \ {<<x, y>>} /\ links' = links \ {<<x, y>>}
  /\ events' = [h \in Hosts |->
       IF h \in {x, y} /\ Up(h) THEN Append(events[h], Event("disconnect", None, 0))
       ELSE events[h]]
  /\ UNCHANGED <<pc, seedVars, peers, id, calls, late, misrouted>>

Network == \E x \in Hosts, y \in Hosts \cup {Nowhere} : Connect(x, y) \/ GiveUp(x, y)

\* What a packet over the connection from x to y adds to the events es.
Send(es, x, y, kind, n) ==
  IF <<x, y>> \in links /\ Up(y) THEN Hear(es, y, Event(kind, x, n)) ELSE es

\* enet_host_service of a host that waits: the oldest event, or None when five
\* seconds are over; and what remains.
Heard(h) == IF events[h] = <<>> THEN None ELSE Head(events[h]).kind
Rest(h) == IF events[h] = <<>> THEN events ELSE [events EXCEPT ![h] = Tail(@)]
\* In a variant it waits as long as it takes.
ClockWaits(h) == events[h] # <<>> /\ late' = late
Clock(h) == late' = (late \/ events[h] = <<>>)

Goes(h, from, to) == pc[h] = from /\ pc' = [pc EXCEPT ![h] = to]

-----------------------------------------------------------------------------
(* connect_to_cluster, run by a node that is given a remote host *)

Dial(j) ==
  /\ Goes(j, "off", "confirm_out")
  /\ dialing' = dialing \cup {<<j, Seed>>}
  /\ UNCHANGED <<events, links, seedVars, peers, id, calls, late, misrouted>>

\* connection_confirmed is true of any connection; if it is not the node ends.
ConfirmOut(j) ==
  /\ Goes(j, "confirm_out", IF Heard(j) = "connect" THEN "confirm_in" ELSE "down")
  /\ events' = Rest(j) /\ Clock(j)
  /\ UNCHANGED <<dialing, links, seedVars, peers, id, calls, misrouted>>

\* Then it sends its host info; in a variant it does not wait for the connection
\* back.
ConfirmInNotAwaited(j) ==
  /\ Goes(j, "confirm_in", "cluster_info")
  /\ events' = Send(events, j, Seed, "host_info", 0)
  /\ UNCHANGED <<dialing, links, seedVars, peers, id, calls, late, misrouted>>
ConfirmIn(j) ==
  /\ Goes(j, "confirm_in", IF Heard(j) = "connect" THEN "cluster_info" ELSE "down")
  /\ events' = IF Heard(j) = "connect" THEN Send(Rest(j), j, Seed, "host_info", 0) ELSE Rest(j)
  /\ Clock(j)
  /\ UNCHANGED <<dialing, links, seedVars, peers, id, calls, misrouted>>

\* Another packet fails an assert.  Without the reference to the Monad, which
\* comes with this one, start_program brings the node down.
ClusterInfo(j) ==
  LET told == Heard(j) = "cluster_info" IN
  /\ Goes(j, "cluster_info", IF told THEN "loop" ELSE "down")
  /\ id' = IF told THEN [id EXCEPT ![j] = Head(events[j]).n] ELSE id
  /\ peers' = [peers EXCEPT ![j] = @ \cup {Seed}]
  /\ events' = Rest(j) /\ Clock(j)
  /\ UNCHANGED <<dialing, links, seedVars, calls, misrouted>>

-----------------------------------------------------------------------------
(* net_loop, where enet_host_service does not wait *)

Takes(h, kind) == pc[h] = "loop" /\ Heard(h) = kind

\* handle_connection begins: connect_to_client takes the port of the event.
HandleConnection ==
  LET e == Head(events[Seed]) IN
  /\ Takes(Seed, "connect") /\ Goes(Seed, "loop", "confirm_back")
  /\ newcomer' = [peer |-> e.peer, at |-> IF e.n = 0 THEN Nowhere ELSE e.peer]
  /\ dialing' = dialing \cup {<<Seed, newcomer'.at>>}
  /\ events' = Rest(Seed)
  /\ UNCHANGED <<links, routes, known, nextId, peers, id, calls, late, misrouted>>

\* The connection back goes on whether it is confirmed or not.
ConfirmBack ==
  /\ Goes(Seed, "confirm_back", "host_info")
  /\ peers' = [peers EXCEPT ![Seed] = @ \cup {newcomer.at}]
  /\ routes' = [n \in {1} |-> newcomer.at]
  /\ events' = Rest(Seed) /\ Clock(Seed)
  /\ UNCHANGED <<dialing, links, newcomer, known, nextId, id, calls, misrouted>>

\* assign_cluster_info_msg: the number a node gets, and the next one.  In a variant
\* it is increased only for a node that is noted.
Number == nextId
NextNumberIfNoted == IF Heard(Seed) = "host_info" THEN nextId + 1 ELSE nextId
NextNumber == nextId + 1

\* The next packet has to be a host info.  If something else comes, or nothing,
\* the newcomer is not noted in nodes, but it gets its number.
HostInfo ==
  LET failed == Heard(Seed) \in Packets \ {"host_info"} IN
  /\ Goes(Seed, "host_info", IF failed THEN "down" ELSE "loop")
  /\ IF failed THEN events' = Rest(Seed) /\ UNCHANGED <<known, nextId>>
     ELSE /\ known' = IF Heard(Seed) = "host_info" THEN known \cup {nextId} ELSE known
          /\ nextId' = NextNumber
          /\ events' = Send(Rest(Seed), Seed, newcomer.peer, "cluster_info", Number)
  /\ newcomer' = None /\ Clock(Seed)
  /\ UNCHANGED <<dialing, links, routes, peers, id, calls, misrouted>>

\* A node takes a call as its own, whomever it is for.
TakeCall(h) ==
  /\ Takes(h, "call")
  /\ misrouted' = (misrouted \/ Head(events[h]).n # id[h])
  /\ events' = Rest(h)
  /\ UNCHANGED <<pc, dialing, links, seedVars, peers, id, calls, late>>

\* Every other packet counts as the announcement of a peer; these have no
\* address in them.  Such an address may have been connected to before.
TakeAnnouncement(h) ==
  /\ Takes(h, "host_info") \/ Takes(h, "cluster_info")
  /\ events' = Rest(h)
  /\ \/ Goes(h, "loop", "confirm_peer") /\ dialing' = dialing \cup {<<h, Nowhere>>}
     \/ Nowhere \in peers[h] /\ UNCHANGED <<pc, dialing>>
  /\ UNCHANGED <<links, seedVars, peers, id, calls, late, misrouted>>
ConfirmPeer(h) ==
  /\ Goes(h, "confirm_peer", "loop")
  /\ peers' = [peers EXCEPT ![h] = @ \cup {Nowhere}]
  /\ routes' = IF h = Seed THEN [n \in {1} |-> Nowhere] ELSE routes
  /\ events' = Rest(h) /\ Clock(h)
  /\ UNCHANGED <<dialing, links, newcomer, known, nextId, id, calls, misrouted>>

TakeDisconnect(h) ==
  /\ Takes(h, "disconnect")
  /\ events' = Rest(h)
  /\ UNCHANGED <<pc, dialing, links, seedVars, peers, id, calls, late, misrouted>>

\* send_node_msg: a node to the Monad, the Monad to a node it knows.  There is a
\* route to node 1 only: any other leads to a null peer.
CallMonad(j) ==
  /\ pc[j] = "loop" /\ calls < MaxCalls /\ calls' = calls + 1
  /\ events' = Send(events, j, Seed, "call", 0)
  /\ UNCHANGED <<pc, dialing, links, seedVars, peers, id, late, misrouted>>
CallNode(n) ==
  /\ pc[Seed] = "loop" /\ n \in known \ {0} /\ calls < MaxCalls /\ calls' = calls + 1
  /\ IF n \in DOMAIN routes
     THEN events' = Send(events, Seed, routes[n], "call", n) /\ UNCHANGED pc
     ELSE pc' = [pc EXCEPT ![Seed] = "down"] /\ UNCHANGED events
  /\ UNCHANGED <<dialing, links, seedVars, peers, id, late, misrouted>>

Join(j) == ConfirmOut(j) \/ ConfirmIn(j) \/ ClusterInfo(j)
NetLoop(h) ==
  \/ h = Seed /\ (HandleConnection \/ ConfirmBack \/ HostInfo)
  \/ TakeCall(h) \/ TakeAnnouncement(h) \/ ConfirmPeer(h) \/ TakeDisconnect(h)
Calls == (\E j \in Joiners : CallMonad(j)) \/ (\E n \in known : CallNode(n))

Next ==
  \/ Network \/ Calls
  \/ \E j \in Joiners : Dial(j) \/ Join(j)
  \/ \E h \in Hosts : NetLoop(h)

Spec == Init /\ [][Next]_vars

(* Fairness: a wait ends after five seconds, and the loop goes on.  Nobody has *)
(* to join, and nothing is asked of the network.                               *)
FairSpec ==
  /\ Spec
  /\ \A j \in Joiners : WF_vars(Join(j))
  /\ \A h \in Hosts : WF_vars(NetLoop(h))

-----------------------------------------------------------------------------
(* Properties *)

Dialed == {j \in Joiners : pc[j] # "off"}

\* The ids of the nodes that have joined are their own, whatever was lost, late
\* or mixed up on the way (netcode.cpp:88-91, 378).
IdsAreDistinct ==
  \A j \in Joiners : id[j] # 0 => \A h \in Hosts \ {j} : id[h] # id[j]

\* As long as one node joins and nothing is late, the two waits for each other
\* in the right order: nobody fails, a node that has joined is known and mail
\* gets to it (netcode.cpp:310-416).
OneJoinIsSafe ==
  Cardinality(Dialed) <= 1 /\ ~ late =>
    /\ Up(Seed) /\ ~ misrouted
    /\ \A j \in Dialed :
         /\ Up(j)
         /\ pc[j] = "loop" => known = {0, id[j]} /\ routes[id[j]] = j /\ <<Seed, j>> \in links

\* assert(message.has_host_info()) (netcode.cpp:400): the packet that comes while
\* the seed waits for the host info of a newcomer is one, whoever else sends.
HostInfoComes == pc[Seed] = "host_info" => Heard(Seed) \notin Packets \ {"host_info"}

\* A node never waits for ever: its join ends, well or badly, and the loop of
\* the seed, from which everyone's mail is sent, comes round again, or the seed
\* is down (netcode.cpp:302-308).
WaitsEnd ==
  /\ \A j \in Joiners : pc[j] \in Joining ~> pc[j] \in {"loop", "down"}
  /\ \A h \in Hosts : pc[h] \in Serving ~> pc[h] \in {"loop", "down"}
=============================================================================
