-------------------------- MODULE ClusterJoinProofs --------------------------
(***************************************************************************)
(* The ids of the nodes of a cluster are distinct, however many join and   *)
(* whatever the network does; and one node that joins alone, with nothing  *)
(* late, gets in.                                                          *)
(***************************************************************************)
EXTENDS ClusterJoin, SequenceTheorems, FiniteSetTheorems, TLAPS

Events == [kind : Kinds, peer : Hosts \cup {Nowhere, None}, n : Nat]

\* What is on its way in the queues es: every number that is told is told
\* once, is below next, and is nobody's in ids.
Info(es, h, i) == h \in Hosts /\ i \in DOMAIN es[h] /\ es[h][i].kind = "cluster_info"
InfoRight(es, ids, next) ==
  /\ \A h, i : Info(es, h, i) =>
       /\ es[h][i].n \in 1 .. next - 1
       /\ \A j \in Joiners : ids[j] # es[h][i].n
  /\ \A h, i, k, l :
       Info(es, h, i) /\ Info(es, k, l) /\ es[h][i].n = es[k][l].n => h = k /\ i = l

\* The inductive invariant.  A node takes its id from a queue, so the numbers
\* there are part of it.
IdInv ==
  /\ nextId \in Nat \ {0} /\ known \subseteq Nat
  /\ events \in [Hosts -> Seq(Events)]
  /\ id \in [Hosts -> Nat] /\ id[Seed] = 0
  /\ \A h \in Hosts : id[h] < nextId
  /\ IdsAreDistinct
  /\ InfoRight(events, id, nextId)

-----------------------------------------------------------------------------
(* Queues *)

\* One more event that tells no number changes nothing.
LEMMA OtherEvent ==
  ASSUME NEW es \in [Hosts -> Seq(Events)], NEW ids, NEW next, NEW h \in Hosts,
         NEW e \in Events, e.kind # "cluster_info", InfoRight(es, ids, next)
  PROVE  LET fs == [es EXCEPT ![h] = Append(@, e)] IN
         fs \in [Hosts -> Seq(Events)] /\ InfoRight(fs, ids, next)
<1> DEFINE fs == [es EXCEPT ![h] = Append(@, e)]
<1>0. es[h] \in Seq(Events) /\ Append(es[h], e) \in Seq(Events)
  OBVIOUS
<1>1. fs \in [Hosts -> Seq(Events)]
  BY <1>0
<1>2. ASSUME NEW k, NEW i, Info(fs, k, i)
      PROVE  Info(es, k, i) /\ fs[k][i] = es[k][i]
  <2>1. CASE k = h
    BY <1>0, <1>2, <2>1 DEF Info
  <2>2. CASE k # h
    BY <1>0, <1>2, <2>2 DEF Info
  <2> QED BY <2>1, <2>2
<1> HIDE DEF fs
<1>3. InfoRight(fs, ids, next)
  BY <1>2 DEF InfoRight, Info
<1> QED BY <1>1, <1>3 DEF fs

\* Neither does the first event, when it is taken.
LEMMA TakenEvent ==
  ASSUME NEW es \in [Hosts -> Seq(Events)], NEW ids, NEW next, NEW h \in Hosts,
         es[h] # <<>>, InfoRight(es, ids, next)
  PROVE  LET fs == [es EXCEPT ![h] = Tail(@)] IN
         /\ fs \in [Hosts -> Seq(Events)] /\ InfoRight(fs, ids, next)
         /\ Info(es, h, 1) => \A k, i : Info(fs, k, i) => fs[k][i].n # es[h][1].n
<1> DEFINE fs == [es EXCEPT ![h] = Tail(@)]
           at(k, i) == IF k = h THEN i + 1 ELSE i
<1>1. fs \in [Hosts -> Seq(Events)]
  OBVIOUS
<1>2. ASSUME NEW k, NEW i, Info(fs, k, i)
      PROVE  Info(es, k, at(k, i)) /\ fs[k][i] = es[k][at(k, i)] /\ i \in Nat /\ i >= 1
  BY <1>2 DEF Info
<1> HIDE DEF fs
<1>3. ASSUME NEW k, NEW i, Info(fs, k, i)
      PROVE  /\ fs[k][i].n \in 1 .. next - 1
             /\ \A j \in Joiners : ids[j] # fs[k][i].n
  BY <1>2, <1>3 DEF InfoRight
<1>4. ASSUME NEW k, NEW i, NEW l, NEW j, Info(fs, k, i), Info(fs, l, j), fs[k][i].n = fs[l][j].n
      PROVE  k = l /\ i = j
  <2>1. k = l /\ at(k, i) = at(l, j)
    BY <1>2, <1>4 DEF InfoRight, Info
  <2> QED BY <1>2, <1>4, <2>1
<1>5. ASSUME NEW k, NEW i, Info(fs, k, i), Info(es, h, 1) PROVE fs[k][i].n # es[h][1].n
  <2>1. ~ (k = h /\ at(k, i) = 1)
    BY <1>2, <1>5
  <2> QED BY <1>2, <1>5, <2>1 DEF InfoRight
<1> QED BY <1>1, <1>3, <1>4, <1>5 DEF fs, InfoRight

LEMMA RestRight ==
  ASSUME NEW h \in Hosts, IdInv
  PROVE  Rest(h) \in [Hosts -> Seq(Events)] /\ InfoRight(Rest(h), id, nextId)
<1>1. CASE events[h] = <<>>
  BY <1>1 DEF Rest, IdInv
<1>2. CASE events[h] # <<>>
  BY <1>2, TakenEvent DEF Rest, IdInv
<1> QED BY <1>1, <1>2

LEMMA SendRight ==
  ASSUME NEW es \in [Hosts -> Seq(Events)], NEW ids, NEW next, NEW x \in Hosts, NEW y,
         NEW kind \in Kinds, kind # "cluster_info", NEW n \in Nat, InfoRight(es, ids, next)
  PROVE  LET fs == Send(es, x, y, kind, n) IN
         fs \in [Hosts -> Seq(Events)] /\ InfoRight(fs, ids, next)
<1>1. CASE <<x, y>> \in links /\ Up(y)
  <2> DEFINE e == Event(kind, x, n)
  <2>1. y \in Hosts /\ e \in Events /\ e.kind # "cluster_info"
    BY <1>1 DEF Up, Event, Events, Kinds, Packets
  <2>2. Send(es, x, y, kind, n) = [es EXCEPT ![y] = Append(@, e)]
    BY <1>1 DEF Send, Hear
  <2> HIDE DEF e
  <2>3. LET fs == [es EXCEPT ![y] = Append(@, e)] IN
        fs \in [Hosts -> Seq(Events)] /\ InfoRight(fs, ids, next)
    BY <2>1, OtherEvent
  <2> QED BY <2>2, <2>3
<1>2. CASE ~ (<<x, y>> \in links /\ Up(y))
  BY <1>2 DEF Send, Hear
<1> QED BY <1>1, <1>2

\* The number that the seed tells is a new one.
LEMMA TellRight ==
  ASSUME NEW es \in [Hosts -> Seq(Events)], NEW y, IdInv, InfoRight(es, id, nextId)
  PROVE  LET fs == Send(es, Seed, y, "cluster_info", nextId) IN
         fs \in [Hosts -> Seq(Events)] /\ InfoRight(fs, id, nextId + 1)
<1> DEFINE e == Event("cluster_info", Seed, nextId)
           fs == [es EXCEPT ![y] = Append(@, e)]
<1>0. nextId \in Nat \ {0}
  BY DEF IdInv
<1>1. CASE <<Seed, y>> \in links /\ Up(y)
  <2>1. y \in Hosts /\ e \in Events /\ e.n = nextId
    <3>1. y \in Hosts /\ Seed \in Hosts
      BY <1>1 DEF Up, Hosts
    <3> QED BY <1>0, <3>1 DEF Event, Events, Kinds, Packets
  <2>2. fs \in [Hosts -> Seq(Events)]
    BY <2>1
  <2>3. ASSUME NEW k, NEW i, Info(fs, k, i)
        PROVE  \/ Info(es, k, i) /\ fs[k][i] = es[k][i]
               \/ k = y /\ i = Len(es[y]) + 1 /\ fs[k][i].n = nextId
    BY <2>1, <2>3 DEF Info
  <2>4. \A j \in Joiners : id[j] # nextId
    BY DEF IdInv, Hosts
  <2> HIDE DEF fs
  <2>5. ASSUME NEW k, NEW i, Info(fs, k, i)
        PROVE  fs[k][i].n \in 1 .. nextId /\ \A j \in Joiners : id[j] # fs[k][i].n
    <3>1. CASE Info(es, k, i) /\ fs[k][i] = es[k][i]
      BY <1>0, <3>1 DEF InfoRight
    <3> QED BY <1>0, <2>3, <2>4, <2>5, <3>1
  <2>6. ASSUME NEW k, NEW i, NEW l, NEW j, Info(fs, k, i), Info(fs, l, j), fs[k][i].n = fs[l][j].n
        PROVE  k = l /\ i = j
    <3>1. ASSUME NEW a, NEW b, Info(es, a, b) PROVE es[a][b].n \in 1 .. nextId - 1
      BY <3>1 DEF InfoRight
    <3>2. CASE Info(es, k, i) /\ fs[k][i] = es[k][i] /\ Info(es, l, j) /\ fs[l][j] = es[l][j]
      BY <2>6, <3>2 DEF InfoRight
    <3> QED BY <1>0, <2>3, <2>6, <3>1, <3>2
  <2>7. InfoRight(fs, id, nextId + 1)
    BY <1>0, <2>5, <2>6 DEF InfoRight
  <2> QED BY <1>1, <2>2, <2>7 DEF Send, Hear, fs
<1>2. CASE ~ (<<Seed, y>> \in links /\ Up(y))
  <2>1. Send(es, Seed, y, "cluster_info", nextId) = es
    BY <1>2 DEF Send, Hear
  <2>2. 1 .. nextId - 1 \subseteq 1 .. (nextId + 1) - 1
    BY <1>0
  <2>3. InfoRight(es, id, nextId + 1)
    BY <2>2 DEF InfoRight, Info
  <2> QED BY <2>1, <2>3
<1> QED BY <1>1, <1>2

-----------------------------------------------------------------------------
(* Steps *)

\* A step that gives no number and no id.
LEMMA Quiet ==
  ASSUME IdInv, events' \in [Hosts -> Seq(Events)], InfoRight(events', id, nextId),
         known' \subseteq Nat, UNCHANGED <<id, nextId>>
  PROVE  IdInv'
BY DEF IdInv, IdsAreDistinct, InfoRight, Info

LEMMA NetworkKeepsIds ==
  ASSUME IdInv, Network
  PROVE  IdInv'
<1>1. PICK x \in Hosts, y \in Hosts \cup {Nowhere} : Connect(x, y) \/ GiveUp(x, y)
  BY DEF Network
<1> USE DEF seedVars
<1>2. CASE Connect(x, y)
  <2> DEFINE one == Event("connect", y, 0)
             two == Event("connect", x, 1)
             es == [events EXCEPT ![x] = Append(@, one)]
  <2>1. x \in Hosts /\ y \in Hosts
    BY <1>2 DEF Connect, Up
  <2>2. one \in Events /\ two \in Events /\ one.kind # "cluster_info" /\ two.kind # "cluster_info"
    BY <2>1 DEF Event, Events, Kinds, Packets
  <2> HIDE DEF one, two
  <2>3. es \in [Hosts -> Seq(Events)] /\ InfoRight(es, id, nextId)
    BY <2>1, <2>2, OtherEvent DEF IdInv
  <2>4. events' = [es EXCEPT ![y] = Append(@, two)]
    BY <1>2 DEF Connect, Hear, one, two
  <2> HIDE DEF es
  <2>5. events' \in [Hosts -> Seq(Events)] /\ InfoRight(events', id, nextId)
    BY <2>1, <2>2, <2>3, <2>4, OtherEvent
  <2> QED BY <1>2, <2>5, Quiet DEF Connect, IdInv
<1>3. CASE GiveUp(x, y)
  <2> DEFINE e == Event("disconnect", None, 0)
             on(h) == h \in {x, y} /\ Up(h)
  <2>1. e \in Events /\ e.kind # "cluster_info"
    BY DEF Event, Events, Kinds, Packets
  <2> HIDE DEF e
  <2>2. events' = [h \in Hosts |-> IF on(h) THEN Append(events[h], e) ELSE events[h]]
    BY <1>3 DEF GiveUp, e
  <2>3. events' \in [Hosts -> Seq(Events)]
    BY <2>1, <2>2 DEF IdInv
  <2>4. ASSUME NEW k, NEW i, Info(events', k, i)
        PROVE  Info(events, k, i) /\ events'[k][i] = events[k][i]
    BY <2>1, <2>2, <2>4 DEF Info, IdInv
  <2>5. InfoRight(events', id, nextId)
    <3>1. InfoRight(events, id, nextId)
      BY DEF IdInv
    <3> QED BY <2>4, <3>1 DEF InfoRight
  <2> QED BY <1>3, <2>3, <2>5, Quiet DEF GiveUp, IdInv
<1> QED BY <1>1, <1>2, <1>3

LEMMA JoinKeepsIds ==
  ASSUME IdInv, NEW j \in Joiners, Dial(j) \/ Join(j)
  PROVE  IdInv'
<1> USE DEF seedVars
<1>0. j \in Hosts
  BY DEF Hosts
<1>1. CASE Dial(j)
  BY <1>1, Quiet DEF Dial, IdInv
<1>2. CASE ConfirmOut(j)
  BY <1>0, <1>2, RestRight, Quiet DEF ConfirmOut, IdInv
<1>3. CASE ConfirmIn(j)
  <2> DEFINE rest == Rest(j)
  <2>1. rest \in [Hosts -> Seq(Events)] /\ InfoRight(rest, id, nextId)
    BY <1>0, RestRight
  <2>2. "host_info" \in Kinds /\ Seed \in Hosts
    BY DEF Kinds, Packets, Hosts
  <2>3. events' = rest \/ events' = Send(rest, j, Seed, "host_info", 0)
    BY <1>3 DEF ConfirmIn
  <2> HIDE DEF rest
  <2>4. LET sent == Send(rest, j, Seed, "host_info", 0) IN
        sent \in [Hosts -> Seq(Events)] /\ InfoRight(sent, id, nextId)
    BY <1>0, <2>1, <2>2, SendRight
  <2>5. events' \in [Hosts -> Seq(Events)] /\ InfoRight(events', id, nextId)
    BY <2>1, <2>3, <2>4
  <2> QED BY <1>3, <2>5, Quiet DEF ConfirmIn, IdInv
<1>4. CASE ClusterInfo(j)
  <2>1. events' = Rest(j) /\ UNCHANGED <<nextId, known>>
    BY <1>4 DEF ClusterInfo
  <2>2. CASE Heard(j) # "cluster_info"
    BY <1>0, <1>4, <2>1, <2>2, RestRight, Quiet DEF ClusterInfo, IdInv
  <2>3. CASE Heard(j) = "cluster_info"
    <3> DEFINE n == events[j][1].n
    <3>1. events[j] # <<>> /\ events[j] \in Seq(Events) /\ 1 \in DOMAIN events[j]
      BY <1>0, <2>3, HostsAssumption DEF Heard, IdInv, Kinds, Packets
    <3>2. Info(events, j, 1) /\ Head(events[j]) = events[j][1]
      BY <1>0, <2>3, <3>1 DEF Heard, Info
    <3>3. n \in 1 .. nextId - 1 /\ \A k \in Joiners : id[k] # n
      BY <3>2 DEF InfoRight, IdInv
    <3>4. id' = [id EXCEPT ![j] = n]
      BY <1>4, <2>3, <3>2 DEF ClusterInfo
    <3>5. /\ events' \in [Hosts -> Seq(Events)] /\ InfoRight(events', id, nextId)
          /\ \A k, i : Info(events', k, i) => events'[k][i].n # n
      <4>1. events' = [events EXCEPT ![j] = Tail(@)]
        BY <2>1, <3>1 DEF Rest
      <4>2. events \in [Hosts -> Seq(Events)] /\ InfoRight(events, id, nextId)
        BY DEF IdInv
      <4>3. LET fs == [events EXCEPT ![j] = Tail(@)] IN
            /\ fs \in [Hosts -> Seq(Events)] /\ InfoRight(fs, id, nextId)
            /\ \A k, i : Info(fs, k, i) => fs[k][i].n # n
        BY <1>0, <3>1, <3>2, <4>2, TakenEvent
      <4> QED BY <4>1, <4>3
    <3> HIDE DEF n
    <3>6. Seed \in Hosts /\ nextId \in Nat \ {0} /\ n \in Nat \ {0} /\ n < nextId
      BY <3>3 DEF IdInv, Hosts
    <3>7. id' \in [Hosts -> Nat] /\ \A h \in Hosts : id'[h] < nextId
      BY <1>0, <3>4, <3>6 DEF IdInv
    <3>8. IdsAreDistinct'
      <4> SUFFICES ASSUME NEW k \in Joiners, id'[k] # 0, NEW h \in Hosts \ {k}, id'[h] = id'[k]
                   PROVE  FALSE
        BY DEF IdsAreDistinct
      <4>1. k \in Hosts /\ (h \in Joiners \/ id[h] = 0)
        BY DEF Hosts, IdInv
      <4>2. \A g \in Hosts : id'[g] = IF g = j THEN n ELSE id[g]
        BY <1>0, <3>4 DEF IdInv
      <4>3. \A g \in Hosts : id[g] # n
        BY HostsAssumption, <3>3, <3>6 DEF Hosts, IdInv
      <4>4. h # j /\ k # j
        BY <4>1, <4>2, <4>3
      <4> QED BY <4>1, <4>2, <4>4 DEF IdInv, IdsAreDistinct
    <3>9. InfoRight(events', id', nextId)
      BY <1>0, <3>4, <3>5 DEF InfoRight, IdInv, Hosts
    <3>10. id'[Seed] = 0
      BY HostsAssumption, <3>4, <3>6 DEF IdInv
    <3> QED BY <2>1, <3>5, <3>6, <3>7, <3>8, <3>9, <3>10 DEF IdInv
  <2> QED BY <2>2, <2>3
<1> QED BY <1>1, <1>2, <1>3, <1>4 DEF Join

\* Only assign_cluster_info_msg gives a number, and it increases the next one.
LEMMA NetLoopKeepsIds ==
  ASSUME IdInv, NEW h \in Hosts, NetLoop(h)
  PROVE  IdInv'
<1> USE DEF seedVars
<1>1. events' = Rest(h) => events' \in [Hosts -> Seq(Events)] /\ InfoRight(events', id, nextId)
  BY RestRight
<1>2. CASE h = Seed /\ HandleConnection
  BY <1>1, <1>2, Quiet DEF HandleConnection, IdInv
<1>3. CASE h = Seed /\ ConfirmBack
  BY <1>1, <1>3, Quiet DEF ConfirmBack, IdInv
<1>4. CASE h = Seed /\ HostInfo
  <2>1. CASE UNCHANGED <<known, nextId>> /\ events' = Rest(Seed)
    BY <1>1, <1>4, <2>1, Quiet DEF HostInfo, IdInv
  <2>2. CASE ~ (UNCHANGED <<known, nextId>> /\ events' = Rest(Seed))
    <3> DEFINE rest == Rest(Seed)
    <3>1. rest \in [Hosts -> Seq(Events)] /\ InfoRight(rest, id, nextId)
      BY <1>4, RestRight
    <3>2. /\ nextId' = nextId + 1 /\ known' \subseteq known \cup {nextId} /\ id' = id
          /\ events' = Send(rest, Seed, newcomer.peer, "cluster_info", nextId)
      BY <1>4, <2>2 DEF HostInfo, NextNumber, Number
    <3> HIDE DEF rest
    <3>3. events' \in [Hosts -> Seq(Events)] /\ InfoRight(events', id, nextId + 1)
      BY <3>1, <3>2, TellRight
    <3>4. nextId' \in Nat \ {0} /\ known' \subseteq Nat /\ \A k \in Hosts : id'[k] < nextId'
      BY <3>2 DEF IdInv
    <3>5. InfoRight(events', id', nextId')
      BY <3>2, <3>3
    <3> QED BY <3>2, <3>3, <3>4, <3>5 DEF IdInv, IdsAreDistinct
  <2> QED BY <2>1, <2>2
<1>5. CASE TakeCall(h) \/ TakeAnnouncement(h) \/ ConfirmPeer(h) \/ TakeDisconnect(h)
  <2>1. events' = Rest(h) /\ UNCHANGED <<id, nextId, known>>
    BY <1>5 DEF TakeCall, TakeAnnouncement, ConfirmPeer, TakeDisconnect
  <2> QED BY <1>1, <2>1, Quiet DEF IdInv
<1> QED BY <1>2, <1>3, <1>4, <1>5 DEF NetLoop

LEMMA CallsKeepIds ==
  ASSUME IdInv, Calls
  PROVE  IdInv'
<1> USE DEF seedVars
<1>1. events \in [Hosts -> Seq(Events)] /\ InfoRight(events, id, nextId) /\ known \subseteq Nat
  BY DEF IdInv
<1>2. \A x \in Hosts, n \in Nat : \A y : LET es == Send(events, x, y, "call", n) IN
        es \in [Hosts -> Seq(Events)] /\ InfoRight(es, id, nextId)
  BY <1>1, SendRight DEF Kinds, Packets
<1>3. ASSUME NEW j \in Joiners, CallMonad(j) PROVE IdInv'
  <2>1. j \in Hosts /\ events' = Send(events, j, Seed, "call", 0)
    BY <1>3 DEF CallMonad, Hosts
  <2>2. events' \in [Hosts -> Seq(Events)] /\ InfoRight(events', id, nextId)
    BY <1>2, <2>1
  <2>3. UNCHANGED <<id, nextId, known>>
    BY <1>3 DEF CallMonad
  <2> QED BY <1>1, <2>2, <2>3, Quiet
<1>4. ASSUME NEW n \in known, CallNode(n) PROVE IdInv'
  <2>1. Seed \in Hosts /\ n \in Nat
    BY <1>1 DEF Hosts
  <2>2. events' = events \/ events' = Send(events, Seed, routes[n], "call", n)
    BY <1>4 DEF CallNode
  <2>3. events' \in [Hosts -> Seq(Events)] /\ InfoRight(events', id, nextId)
    BY <1>1, <1>2, <2>1, <2>2
  <2>4. UNCHANGED <<id, nextId, known>>
    BY <1>4 DEF CallNode
  <2> QED BY <1>1, <2>3, <2>4, Quiet
<1> QED BY <1>3, <1>4 DEF Calls

-----------------------------------------------------------------------------
(* Distinct ids *)

LEMMA InitIds == Init => IdInv
<1> SUFFICES ASSUME Init PROVE IdInv
  OBVIOUS
<1>1. events = [h \in Hosts |-> <<>>] /\ <<>> \in Seq(Events) /\ DOMAIN <<>> = {}
  BY DEF Init
<1>2. InfoRight(events, id, nextId)
  <2>1. \A h, i : ~ Info(events, h, i)
    BY <1>1 DEF Info
  <2> QED BY <2>1 DEF InfoRight
<1> QED BY <1>1, <1>2 DEF Init, IdInv, IdsAreDistinct, Hosts

LEMMA IdStep ==
  ASSUME IdInv, [Next]_vars
  PROVE  IdInv'
<1>1. CASE Network
  BY <1>1, NetworkKeepsIds
<1>2. CASE Calls
  BY <1>2, CallsKeepIds
<1>3. CASE \E j \in Joiners : Dial(j) \/ Join(j)
  BY <1>3, JoinKeepsIds
<1>4. CASE \E h \in Hosts : NetLoop(h)
  BY <1>4, NetLoopKeepsIds
<1>5. CASE UNCHANGED vars
  BY <1>5, Quiet DEF vars, seedVars, IdInv
<1> QED BY <1>1, <1>2, <1>3, <1>4, <1>5 DEF Next

\* A node of the cluster keeps an id of its own, whatever ENet delays or loses,
\* however many nodes join at once and whichever of them fails
\* (netcode.cpp:74-94, 363-416).
THEOREM IdsDistinct == Spec => []IdsAreDistinct
<1>1. IdInv /\ [Next]_vars => IdInv'
  BY IdStep
<1>2. IdInv => IdsAreDistinct
  BY DEF IdInv
<1> QED BY <1>1, <1>2, InitIds, PTL DEF Spec

-----------------------------------------------------------------------------
(* One join: the phases *)

States == {"off", "loop", "down", "confirm_peer"} \cup Joining \cup Serving

\* What the node j that joins hears of: its connection, and that of the seed;
Out == Event("connect", Seed, 0)
Back == Event("connect", Seed, 1)
\* and what the seed does.
Came(j) == Event("connect", j, 1)
Went(j) == Event("connect", j, 0)
Named(j) == Event("host_info", j, 0)
Cluster == Event("cluster_info", Seed, 1)

OnlyCalls(q, n) == \A i \in DOMAIN q : q[i].kind = "call" /\ q[i].n = n

\* Nobody has joined so far.
Unknown == known = {0} /\ nextId = 1
Nobody ==
  /\ pc[Seed] = "loop" /\ events = [h \in Hosts |-> <<>>]
  /\ dialing = {} /\ links = {}

Asking(j) ==
  /\ pc[j] = "confirm_out" /\ events[j] = <<>>
  /\ pc[Seed] = "loop" /\ events[Seed] = <<>>
  /\ dialing = {<<j, Seed>>} /\ links = {}

\* There is a connection: j confirms it, and the seed connects back.
Asked(j) ==
  /\ links = {<<j, Seed>>}
  /\ \/ pc[j] = "confirm_out" /\ events[j] = <<Out>>
     \/ pc[j] = "confirm_in" /\ events[j] = <<>>
  /\ \/ pc[Seed] = "loop" /\ events[Seed] = <<Came(j)>> /\ dialing = {}
     \/ /\ pc[Seed] = "confirm_back" /\ events[Seed] = <<>> /\ dialing = {<<Seed, j>>}
        /\ newcomer = [peer |-> j, at |-> j]

\* There are two: j tells the seed who it is.
Meeting(j) ==
  /\ links = {<<j, Seed>>, <<Seed, j>>} /\ dialing = {}
  /\ newcomer = [peer |-> j, at |-> j]
  /\ \/ pc[j] = "confirm_out" /\ events[j] = <<Out, Back>>
     \/ pc[j] = "confirm_in" /\ events[j] = <<Back>>
     \/ pc[j] = "cluster_info" /\ events[j] = <<>>
  /\ \/ /\ pc[Seed] = "confirm_back"
        /\ events[Seed] = IF pc[j] = "cluster_info" THEN <<Went(j), Named(j)>> ELSE <<Went(j)>>
     \/ /\ pc[Seed] = "host_info" /\ routes = [n \in {1} |-> j]
        /\ events[Seed] = IF pc[j] = "cluster_info" THEN <<Named(j)>> ELSE <<>>

\* The seed knows j, and j will, or does, know its id.
Joined(j) ==
  /\ links = {<<j, Seed>>, <<Seed, j>>} /\ dialing = {}
  /\ known = {0, 1} /\ routes = [n \in {1} |-> j]
  /\ pc[Seed] = "loop" /\ OnlyCalls(events[Seed], 0)
  /\ \/ /\ pc[j] = "cluster_info" /\ events[j] # <<>>
        /\ Head(events[j]) = Cluster /\ OnlyCalls(Tail(events[j]), 1)
     \/ pc[j] = "loop" /\ id[j] = 1 /\ OnlyCalls(events[j], 1)

Phase(j) == (Unknown /\ (Asking(j) \/ Asked(j) \/ Meeting(j))) \/ Joined(j)

JoinInv ==
  /\ pc \in [Hosts -> States] /\ IsFiniteSet(Dialed)
  /\ ~ late =>
       /\ Dialed = {} => ~ misrouted /\ Unknown /\ Nobody
       /\ \A j \in Joiners : Dialed = {j} => ~ misrouted /\ Phase(j)

-----------------------------------------------------------------------------
(* One join: what can happen *)

LEMMA ShortQueues ==
  ASSUME NEW a, NEW b
  PROVE  /\ <<a>> # <<>> /\ Head(<<a>>) = a /\ Tail(<<a>>) = <<>>
         /\ <<a, b>> # <<>> /\ Head(<<a, b>>) = a /\ Tail(<<a, b>>) = <<b>>
         /\ Append(<<>>, a) = <<a>> /\ Append(<<a>>, b) = <<a, b>>
<1>1. <<a>> # <<>> /\ Head(<<a>>) = a /\ Tail(<<a>>) = <<>>
  OBVIOUS
<1>2. <<a, b>> # <<>> /\ Head(<<a, b>>) = a
  OBVIOUS
<1>3. Tail(<<a, b>>) = <<b>>
  <2> DEFINE t == Tail(<<a, b>>)
  <2>1. t \in Seq({a, b}) /\ Len(t) = 1 /\ t[1] = b
    OBVIOUS
  <2> HIDE DEF t
  <2>2. t = <<b>>
    BY <2>1
  <2> QED BY <2>2 DEF t
<1>4. Append(<<>>, a) = <<a>>
  OBVIOUS
<1>5. Append(<<a>>, b) = <<a, b>>
  <2> DEFINE p == <<a>>
             t == Append(p, b)
  <2>1. p \in Seq({a, b}) /\ Len(p) = 1 /\ p[1] = a
    OBVIOUS
  <2> HIDE DEF p
  <2>2. t \in Seq({a, b}) /\ Len(t) = 2 /\ t[1] = a /\ t[2] = b
    <3>1. b \in {a, b}
      OBVIOUS
    <3> DEFINE S == {a, b}
    <3> HIDE DEF S
    <3>2. p \in Seq(S) /\ b \in S
      BY <2>1, <3>1 DEF S
    <3>3. t \in Seq(S) /\ Len(t) = Len(p) + 1 /\ t[Len(p) + 1] = b /\ \A i \in 1 .. Len(p) : t[i] = p[i]
      BY <3>2, AppendProperties
    <3> HIDE DEF t
    <3> QED BY <2>1, <3>3 DEF S
  <2> HIDE DEF t
  <2>3. t = <<a, b>>
    BY <2>2
  <2> QED BY <2>3 DEF p, t
<1> QED BY <1>1, <1>2, <1>3, <1>4, <1>5

LEMMA EventsAre ==
  ASSUME NEW j
  PROVE  /\ Out.kind = "connect" /\ Back.kind = "connect"
         /\ Came(j).kind = "connect" /\ Came(j).peer = j /\ Came(j).n = 1
         /\ Went(j).kind = "connect" /\ Named(j).kind = "host_info"
         /\ Cluster.kind = "cluster_info" /\ Cluster.n = 1
BY DEF Event, Out, Back, Came, Went, Named, Cluster

LEMMA HostsAre ==
  ASSUME NEW j \in Joiners
  PROVE  /\ Seed \in Hosts /\ j \in Hosts /\ j # Seed
         /\ None \notin {"connect", "disconnect", "call", "host_info", "cluster_info"}
BY HostsAssumption DEF Hosts, Kinds, Packets

\* What a host with the queue q hears and keeps.
LEMMA Waits ==
  ASSUME events \in [Hosts -> Seq(Events)], NEW h \in Hosts
  PROVE  /\ events[h] = <<>> => Heard(h) = None /\ Rest(h) = events
         /\ events[h] # <<>> =>
              /\ Heard(h) = Head(events[h]).kind
              /\ Rest(h)[h] = Tail(events[h])
              /\ \A g \in Hosts \ {h} : Rest(h)[g] = events[g]
BY DEF Heard, Rest

LEMMA TwoWait ==
  ASSUME events \in [Hosts -> Seq(Events)], NEW j \in Joiners
  PROVE  /\ events[j] # <<>> => /\ Heard(j) = Head(events[j]).kind
                                /\ Rest(j)[j] = Tail(events[j]) /\ Rest(j)[Seed] = events[Seed]
         /\ events[Seed] # <<>> => /\ Heard(Seed) = Head(events[Seed]).kind
                                   /\ Rest(Seed)[Seed] = Tail(events[Seed]) /\ Rest(Seed)[j] = events[j]
         /\ events[j] = <<>> => Heard(j) = None
         /\ events[Seed] = <<>> => Heard(Seed) = None
BY Waits, HostsAre

\* A wait that finds nothing makes the join late.
LEMMA InTime ==
  ASSUME NEW h, ~ late', Clock(h)
  PROVE  events[h] # <<>>
BY DEF Clock

LEMMA Goings ==
  ASSUME pc \in [Hosts -> States], NEW h \in Hosts, NEW from, NEW to, Goes(h, from, to)
  PROVE  pc[h] = from /\ pc'[h] = to /\ \A g \in Hosts \ {h} : pc'[g] = pc[g]
BY DEF Goes

LEMMA OneMoves ==
  ASSUME pc \in [Hosts -> States], NEW j \in Joiners, Dialed = {j}, Dialed' = {j}, Next,
         pc[Seed] # "down", pc[j] # "down",
         dialing \cup links \subseteq {<<j, Seed>>, <<Seed, j>>}
  PROVE  \/ Connect(j, Seed) \/ Connect(Seed, j)
         \/ ConfirmOut(j) \/ ConfirmIn(j) \/ ClusterInfo(j)
         \/ HandleConnection \/ ConfirmBack \/ HostInfo
         \/ \E h \in {j, Seed} :
              TakeCall(h) \/ TakeAnnouncement(h) \/ ConfirmPeer(h) \/ TakeDisconnect(h)
         \/ CallMonad(j) \/ \E n \in known : CallNode(n)
<1>0. Seed \in Hosts /\ j \in Hosts /\ \A k \in Joiners : k \in Hosts
  BY DEF Hosts
<1>1. \A k \in Joiners : k # j => pc[k] = "off" /\ pc'[k] = "off"
  BY DEF Dialed
<1>2. pc[j] # "off"
  BY DEF Dialed
<1>3. CASE Network
  <2>1. PICK x \in Hosts, y \in Hosts \cup {Nowhere} : Connect(x, y) \/ GiveUp(x, y)
    BY <1>3 DEF Network
  <2>2. Up(Seed) /\ Up(j)
    BY <1>0 DEF Up
  <2>3. ~ GiveUp(x, y)
    <3>1. CASE <<x, y>> \in dialing \cup links
      <4>1. <<x, y>> = <<j, Seed>> \/ <<x, y>> = <<Seed, j>>
        BY <3>1
      <4>2. x \in {j, Seed} /\ y \in {j, Seed}
        BY <4>1
      <4>3. Up(x) /\ Up(y)
        BY <2>2, <4>2
      <4>4. ~ (Up(x) # Up(y))
        BY <4>3 DEF Up
      <4> QED BY <4>4 DEF GiveUp
    <3>2. CASE <<x, y>> \notin dialing \cup links
      BY <3>2 DEF GiveUp
    <3> QED BY <3>1, <3>2
  <2>4. <<x, y>> \in dialing
    BY <2>1, <2>3 DEF Connect
  <2> QED BY <2>1, <2>3, <2>4
<1>4. CASE Calls
  BY <1>1, <1>4 DEF Calls, CallMonad
<1>5. ASSUME NEW k \in Joiners, Dial(k) \/ Join(k)
      PROVE  k = j /\ Join(j)
  <2>1. CASE Dial(k)
    <3>1. pc[k] = "off" /\ pc'[k] = "confirm_out"
      BY <1>0, <2>1, Goings DEF Dial
    <3> QED BY <1>1, <1>2, <3>1
  <2>2. CASE Join(k)
    BY <1>1, <2>2 DEF Join, ConfirmOut, ConfirmIn, ClusterInfo, Goes
  <2> QED BY <1>5, <2>1, <2>2
<1>6. ASSUME NEW h \in Hosts, NetLoop(h), h # Seed
      PROVE  h = j
  <2>1. pc[h] # "off"
    BY <1>6 DEF NetLoop, TakeCall, TakeAnnouncement, ConfirmPeer, TakeDisconnect, Takes, Goes
  <2> QED BY <1>1, <1>6, <2>1 DEF Hosts
<1> QED BY <1>3, <1>4, <1>5, <1>6 DEF Next, Join, NetLoop

\* As long as the joining node has no id there are no calls.
LEMMA EarlyMoves ==
  ASSUME pc \in [Hosts -> States], NEW j \in Joiners, Dialed = {j}, Dialed' = {j}, Next,
         dialing \cup links \subseteq {<<j, Seed>>, <<Seed, j>>},
         pc[j] \in Joining, pc[Seed] \in {"loop", "confirm_back", "host_info"}, known = {0},
         pc[Seed] = "loop" => Heard(Seed) \in {None, "connect"}
  PROVE  /\ \/ Connect(j, Seed) \/ Connect(Seed, j)
            \/ ConfirmOut(j) \/ ConfirmIn(j) \/ ClusterInfo(j)
            \/ HandleConnection \/ ConfirmBack \/ HostInfo
         /\ misrouted' = misrouted
<1>1. pc[j] # "down" /\ pc[j] # "loop" /\ pc[j] # "confirm_peer"
  BY DEF Joining
<1>2. None \notin {"connect", "disconnect", "call", "host_info", "cluster_info"}
  BY HostsAre
<1>3. ASSUME NEW h \in {j, Seed}
      PROVE  ~ (TakeCall(h) \/ TakeAnnouncement(h) \/ ConfirmPeer(h) \/ TakeDisconnect(h))
  BY <1>1, <1>2 DEF TakeCall, TakeAnnouncement, ConfirmPeer, TakeDisconnect, Takes, Goes
<1>4. ~ CallMonad(j) /\ \A n \in known : ~ CallNode(n)
  BY <1>1 DEF CallMonad, CallNode
<1>5. \/ Connect(j, Seed) \/ Connect(Seed, j)
      \/ ConfirmOut(j) \/ ConfirmIn(j) \/ ClusterInfo(j)
      \/ HandleConnection \/ ConfirmBack \/ HostInfo
  BY <1>1, <1>3, <1>4, OneMoves
<1>6. misrouted' = misrouted
  BY <1>5 DEF Connect, ConfirmOut, ConfirmIn, ClusterInfo, HandleConnection, ConfirmBack, HostInfo
<1> QED BY <1>5, <1>6

LEMMA AskingGoesOn ==
  ASSUME IdInv, pc \in [Hosts -> States], NEW j \in Joiners, Dialed = {j}, Dialed' = {j}, Next,
         ~ late', Unknown, Asking(j)
  PROVE  misrouted' = misrouted /\ Unknown' /\ Asked(j)'
<1>0. /\ Seed \in Hosts /\ j \in Hosts /\ j # Seed
      /\ None \notin {"connect", "disconnect", "call", "host_info", "cluster_info"}
  BY HostsAre
<1>1. events \in [Hosts -> Seq(Events)]
  BY DEF IdInv
<1>2. events[j] = <<>> /\ events[Seed] = <<>> /\ Heard(Seed) = None
  BY <1>0, <1>1, Waits DEF Asking
<1>3. /\ pc[j] = "confirm_out" /\ pc[Seed] = "loop"
      /\ dialing = {<<j, Seed>>} /\ links = {} /\ known = {0} /\ nextId = 1
  BY DEF Asking, Unknown
<1>4. /\ misrouted' = misrouted
      /\ \/ Connect(j, Seed) \/ Connect(Seed, j)
         \/ ConfirmOut(j) \/ ConfirmIn(j) \/ ClusterInfo(j)
         \/ HandleConnection \/ ConfirmBack \/ HostInfo
  BY <1>2, <1>3, EarlyMoves DEF Joining
<1>5. ~ ConfirmOut(j)
  BY <1>2, InTime DEF ConfirmOut
<1>6. ~ (Connect(Seed, j) \/ ConfirmIn(j) \/ ClusterInfo(j) \/ HandleConnection \/ ConfirmBack \/ HostInfo)
  BY <1>0, <1>2, <1>3 DEF Connect, ConfirmIn, ClusterInfo, HandleConnection, ConfirmBack, HostInfo, Goes, Takes
<1>7. Connect(j, Seed)
  BY <1>4, <1>5, <1>6
<1>8. /\ dialing' = {} /\ links' = {<<j, Seed>>} /\ pc' = pc /\ known' = known /\ nextId' = nextId
      /\ events' = Hear(Hear(events, j, Out), Seed, Came(j))
  BY <1>3, <1>7 DEF Connect, seedVars, Out, Came
<1>9. events'[j] = <<Out>> /\ events'[Seed] = <<Came(j)>>
  <2>1. events'[j] = Append(<<>>, Out) /\ events'[Seed] = Append(<<>>, Came(j))
    BY <1>0, <1>1, <1>2, <1>8 DEF Hear
  <2> QED BY <2>1, ShortQueues
<1> QED BY <1>3, <1>4, <1>8, <1>9 DEF Asked, Unknown

LEMMA AskedGoesOn ==
  ASSUME IdInv, pc \in [Hosts -> States], NEW j \in Joiners, Dialed = {j}, Dialed' = {j}, Next,
         ~ late', Unknown, Asked(j)
  PROVE  misrouted' = misrouted /\ Unknown' /\ (Asked(j)' \/ Meeting(j)')
<1>0. /\ Seed \in Hosts /\ j \in Hosts /\ j # Seed
      /\ None \notin {"connect", "disconnect", "call", "host_info", "cluster_info"}
  BY HostsAre
<1>1. events \in [Hosts -> Seq(Events)]
  BY DEF IdInv
<1>2. /\ pc[j] \in {"confirm_out", "confirm_in"} /\ pc[Seed] \in {"loop", "confirm_back"}
      /\ dialing \cup links \subseteq {<<j, Seed>>, <<Seed, j>>} /\ known = {0} /\ nextId = 1
      /\ <<j, Seed>> \notin dialing /\ links = {<<j, Seed>>}
  BY <1>0 DEF Asked, Unknown
<1>3. /\ pc[j] = "confirm_out" => events[j] = <<Out>> /\ events[j] # <<>> /\ Head(events[j]) = Out
                                  /\ Tail(events[j]) = <<>>
      /\ pc[j] = "confirm_in" => events[j] = <<>>
  BY ShortQueues DEF Asked
<1>4. /\ pc[Seed] = "loop" => /\ events[Seed] = <<Came(j)>> /\ events[Seed] # <<>>
                              /\ Head(events[Seed]) = Came(j) /\ Tail(events[Seed]) = <<>>
                              /\ dialing = {}
      /\ pc[Seed] = "confirm_back" => /\ events[Seed] = <<>> /\ dialing = {<<Seed, j>>}
                                      /\ newcomer = [peer |-> j, at |-> j]
  BY ShortQueues DEF Asked
<1>5. /\ misrouted' = misrouted
      /\ \/ Connect(j, Seed) \/ Connect(Seed, j)
         \/ ConfirmOut(j) \/ ConfirmIn(j) \/ ClusterInfo(j)
         \/ HandleConnection \/ ConfirmBack \/ HostInfo
  <2>1. pc[Seed] = "loop" => Heard(Seed) = "connect"
    BY <1>0, <1>1, <1>4, Waits, EventsAre
  <2> QED BY <1>2, <2>1, EarlyMoves DEF Joining
<1>6. ~ (Connect(j, Seed) \/ ConfirmIn(j) \/ ClusterInfo(j) \/ ConfirmBack \/ HostInfo)
  <2>1. ~ ConfirmIn(j)
    BY <1>3, InTime DEF ConfirmIn, Goes
  <2>2. ~ ConfirmBack
    BY <1>4, InTime DEF ConfirmBack, Goes
  <2> QED BY <1>2, <2>1, <2>2 DEF Connect, ClusterInfo, HostInfo, Goes
<1>7. CASE ConfirmOut(j)
  <2>1. /\ pc[j] = "confirm_out" /\ UNCHANGED <<dialing, links, newcomer, known, nextId>>
        /\ events' = Rest(j) /\ Goes(j, "confirm_out", IF Heard(j) = "connect" THEN "confirm_in" ELSE "down")
    BY <1>7 DEF ConfirmOut, seedVars, Goes
  <2>2. Heard(j) = "connect" /\ events'[j] = <<>> /\ events'[Seed] = events[Seed]
    <3>1. events[j] # <<>> /\ Head(events[j]) = Out /\ Tail(events[j]) = <<>>
      BY <1>3, <2>1
    <3>2. Heard(j) = "connect"
      BY <1>1, <3>1, TwoWait, EventsAre
    <3>3. events'[j] = Tail(events[j]) /\ events'[Seed] = events[Seed]
      BY <1>1, <2>1, <3>1, TwoWait
    <3> QED BY <3>1, <3>2, <3>3
  <2>3. pc'[j] = "confirm_in" /\ pc'[Seed] = pc[Seed]
    BY <1>0, <2>1, <2>2, Goings
  <2> QED BY <1>2, <1>4, <1>5, <2>1, <2>2, <2>3 DEF Asked, Unknown
<1>8. CASE HandleConnection
  <2>1. /\ pc[Seed] = "loop" /\ Goes(Seed, "loop", "confirm_back") /\ events' = Rest(Seed)
        /\ newcomer' = [peer |-> Came(j).peer, at |-> IF Came(j).n = 0 THEN Nowhere ELSE Came(j).peer]
        /\ dialing' = dialing \cup {<<Seed, newcomer'.at>>}
        /\ UNCHANGED <<links, known, nextId>>
    BY <1>4, <1>8 DEF HandleConnection, Goes
  <2>2. newcomer' = [peer |-> j, at |-> j]
    BY <2>1, EventsAre
  <2>3. dialing' = {<<Seed, j>>}
    BY <1>4, <2>1, <2>2
  <2>4. events'[Seed] = <<>> /\ events'[j] = events[j]
    BY <1>0, <1>1, <1>4, <2>1, Waits
  <2>5. pc'[Seed] = "confirm_back" /\ pc'[j] = pc[j]
    BY <1>0, <2>1, Goings
  <2> QED BY <1>2, <1>3, <1>5, <2>1, <2>2, <2>3, <2>4, <2>5 DEF Asked, Unknown
<1>9. CASE Connect(Seed, j)
  <2>1. pc[Seed] = "confirm_back"
    BY <1>2, <1>4, <1>9 DEF Connect
  <2>2. /\ dialing' = {} /\ links' = {<<j, Seed>>, <<Seed, j>>}
        /\ pc' = pc /\ known' = known /\ nextId' = nextId /\ newcomer' = newcomer
        /\ events' = Hear(Hear(events, Seed, Went(j)), j, Back)
    BY <1>2, <1>4, <1>9, <2>1 DEF Connect, seedVars, Back, Went
  <2>3. events'[Seed] = <<Went(j)>> /\ events'[j] = Append(events[j], Back)
    <3>1. events'[Seed] = Append(<<>>, Went(j)) /\ events'[j] = Append(events[j], Back)
      BY <1>0, <1>1, <1>4, <2>1, <2>2 DEF Hear
    <3> QED BY <3>1, ShortQueues
  <2>4. events'[j] = IF pc[j] = "confirm_out" THEN <<Out, Back>> ELSE <<Back>>
    BY <1>2, <1>3, <2>3, ShortQueues
  <2>5. Meeting(j)'
    BY <1>2, <1>4, <2>1, <2>2, <2>3, <2>4 DEF Meeting
  <2> QED BY <1>2, <1>5, <2>2, <2>5 DEF Unknown
<1> QED BY <1>5, <1>6, <1>7, <1>8, <1>9

LEMMA MeetingGoesOn ==
  ASSUME IdInv, pc \in [Hosts -> States], NEW j \in Joiners, Dialed = {j}, Dialed' = {j}, Next,
         ~ late', Unknown, Meeting(j)
  PROVE  misrouted' = misrouted /\ ((Unknown' /\ Meeting(j)') \/ Joined(j)')
<1>0. /\ Seed \in Hosts /\ j \in Hosts /\ j # Seed
      /\ None \notin {"connect", "disconnect", "call", "host_info", "cluster_info"}
  BY HostsAre
<1>1. events \in [Hosts -> Seq(Events)]
  BY DEF IdInv
<1>2. /\ pc[j] \in {"confirm_out", "confirm_in", "cluster_info"}
      /\ pc[Seed] \in {"confirm_back", "host_info"}
      /\ dialing = {} /\ links = {<<j, Seed>>, <<Seed, j>>} /\ known = {0} /\ nextId = 1
      /\ newcomer = [peer |-> j, at |-> j]
      /\ pc[Seed] = "host_info" => routes = [n \in {1} |-> j]
  BY DEF Meeting, Unknown
<1>3. /\ pc[j] = "confirm_out" => events[j] = <<Out, Back>> /\ events[j] # <<>>
                                  /\ Head(events[j]) = Out /\ Tail(events[j]) = <<Back>>
      /\ pc[j] = "confirm_in" => events[j] = <<Back>> /\ events[j] # <<>>
                                 /\ Head(events[j]) = Back /\ Tail(events[j]) = <<>>
      /\ pc[j] = "cluster_info" => events[j] = <<>>
  <2>1. CASE pc[j] = "confirm_out"
    <3>1. events[j] = <<Out, Back>>
      BY <2>1 DEF Meeting
    <3> QED BY <2>1, <3>1, ShortQueues
  <2>2. CASE pc[j] = "confirm_in"
    <3>1. events[j] = <<Back>>
      BY <2>2 DEF Meeting
    <3> QED BY <2>2, <3>1, ShortQueues
  <2> QED BY <2>1, <2>2 DEF Meeting
<1>4. /\ pc[Seed] = "confirm_back" =>
           /\ events[Seed] = IF pc[j] = "cluster_info" THEN <<Went(j), Named(j)>> ELSE <<Went(j)>>
           /\ events[Seed] # <<>>
           /\ Tail(events[Seed]) = IF pc[j] = "cluster_info" THEN <<Named(j)>> ELSE <<>>
      /\ pc[Seed] = "host_info" =>
           /\ events[Seed] = IF pc[j] = "cluster_info" THEN <<Named(j)>> ELSE <<>>
           /\ pc[j] = "cluster_info" => /\ events[Seed] # <<>> /\ Head(events[Seed]) = Named(j)
                                        /\ Tail(events[Seed]) = <<>>
  <2>1. CASE pc[Seed] = "confirm_back"
    <3>1. events[Seed] = IF pc[j] = "cluster_info" THEN <<Went(j), Named(j)>> ELSE <<Went(j)>>
      BY <2>1 DEF Meeting
    <3>2. CASE pc[j] = "cluster_info"
      <4>1. events[Seed] = <<Went(j), Named(j)>>
        BY <3>1, <3>2
      <4>2. events[Seed] # <<>> /\ Tail(events[Seed]) = <<Named(j)>>
        BY <4>1, ShortQueues
      <4> QED BY <2>1, <3>1, <3>2, <4>2
    <3>3. CASE pc[j] # "cluster_info"
      <4>1. events[Seed] = <<Went(j)>>
        BY <3>1, <3>3
      <4>2. events[Seed] # <<>> /\ Tail(events[Seed]) = <<>>
        BY <4>1, ShortQueues
      <4> QED BY <2>1, <3>1, <3>3, <4>2
    <3> QED BY <3>2, <3>3
  <2>2. CASE pc[Seed] = "host_info"
    <3>1. events[Seed] = IF pc[j] = "cluster_info" THEN <<Named(j)>> ELSE <<>>
      BY <2>2 DEF Meeting
    <3>2. CASE pc[j] = "cluster_info"
      <4>1. events[Seed] = <<Named(j)>>
        BY <3>1, <3>2
      <4>2. events[Seed] # <<>> /\ Head(events[Seed]) = Named(j) /\ Tail(events[Seed]) = <<>>
        BY <4>1, ShortQueues
      <4> QED BY <2>2, <3>1, <3>2, <4>2
    <3> QED BY <2>2, <3>1, <3>2
  <2> QED BY <1>2, <2>1, <2>2
<1>5. /\ misrouted' = misrouted
      /\ \/ Connect(j, Seed) \/ Connect(Seed, j)
         \/ ConfirmOut(j) \/ ConfirmIn(j) \/ ClusterInfo(j)
         \/ HandleConnection \/ ConfirmBack \/ HostInfo
  BY <1>2, EarlyMoves DEF Joining
<1>6. ~ (Connect(j, Seed) \/ Connect(Seed, j) \/ ClusterInfo(j) \/ HandleConnection)
  <2>1. ~ ClusterInfo(j)
    BY <1>3, InTime DEF ClusterInfo, Goes
  <2> QED BY <1>2, <2>1 DEF Connect, HandleConnection, Goes
<1>7. CASE ConfirmOut(j)
  <2>1. /\ pc[j] = "confirm_out" /\ UNCHANGED <<dialing, links, newcomer, known, nextId, routes>>
        /\ events' = Rest(j) /\ Goes(j, "confirm_out", IF Heard(j) = "connect" THEN "confirm_in" ELSE "down")
    BY <1>7 DEF ConfirmOut, seedVars, Goes
  <2>2. Heard(j) = "connect" /\ events'[j] = <<Back>> /\ events'[Seed] = events[Seed]
    <3>1. events[j] # <<>> /\ Head(events[j]) = Out /\ Tail(events[j]) = <<Back>>
      BY <1>3, <2>1
    <3>2. Heard(j) = "connect"
      BY <1>1, <3>1, TwoWait, EventsAre
    <3>3. events'[j] = Tail(events[j]) /\ events'[Seed] = events[Seed]
      BY <1>1, <2>1, <3>1, TwoWait
    <3> QED BY <3>1, <3>2, <3>3
  <2>3. pc'[j] = "confirm_in" /\ pc'[Seed] = pc[Seed]
    BY <1>0, <2>1, <2>2, Goings
  <2> QED BY <1>2, <1>4, <1>5, <2>1, <2>2, <2>3 DEF Meeting, Unknown
<1>8. CASE ConfirmIn(j)
  <2>1. /\ pc[j] = "confirm_in" /\ UNCHANGED <<dialing, links, newcomer, known, nextId, routes>>
        /\ Goes(j, "confirm_in", IF Heard(j) = "connect" THEN "cluster_info" ELSE "down")
        /\ Heard(j) = "connect" => events' = Send(Rest(j), j, Seed, "host_info", 0)
    BY <1>8 DEF ConfirmIn, seedVars, Goes
  <2>2. Heard(j) = "connect" /\ Rest(j)[j] = <<>> /\ Rest(j)[Seed] = events[Seed]
    <3>1. events[j] # <<>> /\ Head(events[j]) = Back /\ Tail(events[j]) = <<>>
      BY <1>3, <2>1
    <3>2. Heard(j) = "connect"
      BY <1>1, <3>1, TwoWait, EventsAre
    <3>3. Rest(j)[j] = Tail(events[j]) /\ Rest(j)[Seed] = events[Seed]
      BY <1>1, <2>1, <3>1, TwoWait
    <3> QED BY <3>1, <3>2, <3>3
  <2>3. events' = [Rest(j) EXCEPT ![Seed] = Append(@, Named(j))]
    BY <1>0, <1>2, <2>1, <2>2 DEF Send, Up, Hear, Named
  <2>4. events'[j] = <<>> /\ events'[Seed] = Append(events[Seed], Named(j))
    <3>1. Rest(j) \in [Hosts -> Seq(Events)]
      BY <1>0, RestRight
    <3> QED BY <1>0, <2>2, <2>3, <3>1
  <2>5. pc'[j] = "cluster_info" /\ pc'[Seed] = pc[Seed]
    BY <1>0, <2>1, <2>2, Goings
  <2>6. /\ pc[Seed] = "confirm_back" => events'[Seed] = <<Went(j), Named(j)>>
        /\ pc[Seed] = "host_info" => events'[Seed] = <<Named(j)>>
    BY <1>4, <2>1, <2>4, ShortQueues
  <2> QED BY <1>2, <1>5, <2>1, <2>4, <2>5, <2>6 DEF Meeting, Unknown
<1>9. CASE ConfirmBack
  <2>1. /\ pc[Seed] = "confirm_back" /\ Goes(Seed, "confirm_back", "host_info") /\ events' = Rest(Seed)
        /\ routes' = [n \in {1} |-> newcomer.at]
        /\ UNCHANGED <<dialing, links, newcomer, known, nextId>>
    BY <1>9 DEF ConfirmBack, Goes
  <2>2. /\ events'[Seed] = IF pc[j] = "cluster_info" THEN <<Named(j)>> ELSE <<>>
        /\ events'[j] = events[j]
    BY <1>0, <1>1, <1>4, <2>1, Waits
  <2>3. pc'[Seed] = "host_info" /\ pc'[j] = pc[j]
    BY <1>0, <2>1, Goings
  <2>4. routes' = [n \in {1} |-> j]
    BY <1>2, <2>1
  <2> QED BY <1>2, <1>3, <1>5, <2>1, <2>2, <2>3, <2>4 DEF Meeting, Unknown
<1>10. CASE HostInfo
  <2>1. pc[Seed] = "host_info" /\ events[Seed] # <<>>
    BY <1>10, InTime DEF HostInfo, Goes
  <2>2. pc[j] = "cluster_info" /\ Heard(Seed) = "host_info"
        /\ Rest(Seed)[Seed] = <<>> /\ Rest(Seed)[j] = <<>>
    <3>1. pc[j] = "cluster_info" /\ Head(events[Seed]) = Named(j) /\ Tail(events[Seed]) = <<>>
      BY <1>4, <2>1
    <3>2. events[j] = <<>>
      BY <1>3, <3>1
    <3>3. Heard(Seed) = "host_info"
      BY <1>1, <2>1, <3>1, TwoWait, EventsAre
    <3>4. Rest(Seed)[Seed] = <<>> /\ Rest(Seed)[j] = <<>>
      BY <1>1, <2>1, <3>1, <3>2, TwoWait
    <3> QED BY <3>1, <3>3, <3>4
  <2>3. /\ Goes(Seed, "host_info", "loop") /\ known' = known \cup {nextId}
        /\ events' = Send(Rest(Seed), Seed, newcomer.peer, "cluster_info", nextId)
        /\ UNCHANGED <<dialing, links, routes>>
    BY <1>10, <2>2 DEF HostInfo, Number
  <2>4. events' = [Rest(Seed) EXCEPT ![j] = Append(@, Cluster)]
    BY <1>0, <1>2, <2>2, <2>3 DEF Send, Up, Hear, Cluster
  <2>5. events'[j] = <<Cluster>> /\ events'[Seed] = <<>>
    <3>1. Rest(Seed) \in [Hosts -> Seq(Events)]
      BY <1>0, RestRight
    <3>2. events'[j] = Append(<<>>, Cluster) /\ events'[Seed] = <<>>
      BY <1>0, <2>2, <2>4, <3>1
    <3> QED BY <3>2, ShortQueues
  <2>6. pc'[Seed] = "loop" /\ pc'[j] = "cluster_info"
    BY <1>0, <2>2, <2>3, Goings
  <2>7. OnlyCalls(<<>>, 0) /\ OnlyCalls(<<>>, 1)
    BY DEF OnlyCalls
  <2>8. events'[j] # <<>> /\ Head(events'[j]) = Cluster /\ Tail(events'[j]) = <<>>
    BY <2>5, ShortQueues
  <2>9. Joined(j)'
    BY <1>2, <2>1, <2>3, <2>5, <2>6, <2>7, <2>8 DEF Joined
  <2> QED BY <1>5, <2>9
<1> QED BY <1>5, <1>6, <1>7, <1>8, <1>9, <1>10

LEMMA CallAdded ==
  ASSUME NEW q \in Seq(Events), NEW e \in Events, NEW n, OnlyCalls(q, n),
         e.kind = "call", e.n = n
  PROVE  OnlyCalls(Append(q, e), n)
<1>1. /\ DOMAIN q = 1 .. Len(q) /\ DOMAIN Append(q, e) = 1 .. Len(q) + 1 /\ Len(q) \in Nat
      /\ Append(q, e)[Len(q) + 1] = e /\ \A i \in DOMAIN q : Append(q, e)[i] = q[i]
  OBVIOUS
<1> QED BY <1>1 DEF OnlyCalls

LEMMA CallTaken ==
  ASSUME NEW q \in Seq(Events), q # <<>>, NEW n, OnlyCalls(q, n)
  PROVE  OnlyCalls(Tail(q), n) /\ Head(q).kind = "call" /\ Head(q).n = n
<1>1. /\ Head(q) = q[1] /\ 1 \in DOMAIN q
      /\ \A i \in DOMAIN Tail(q) : i + 1 \in DOMAIN q /\ Tail(q)[i] = q[i + 1]
  OBVIOUS
<1> QED BY <1>1 DEF OnlyCalls

\* What is not first in a queue.
LEMMA AddedBehind ==
  ASSUME NEW q \in Seq(Events), q # <<>>, NEW e \in Events
  PROVE  /\ Append(q, e) # <<>> /\ Head(Append(q, e)) = Head(q)
         /\ Tail(Append(q, e)) = Append(Tail(q), e) /\ Tail(q) \in Seq(Events)
BY HeadTailAppend

LEMMA JoinedGoesOn ==
  ASSUME IdInv, pc \in [Hosts -> States], NEW j \in Joiners, Dialed = {j}, Dialed' = {j}, Next,
         ~ late', Joined(j)
  PROVE  (misrouted' <=> misrouted) /\ Joined(j)'
<1>0. /\ Seed \in Hosts /\ j \in Hosts /\ j # Seed
      /\ None \notin {"connect", "disconnect", "call", "host_info", "cluster_info"}
  BY HostsAre
<1>1. events \in [Hosts -> Seq(Events)] /\ id[Seed] = 0 /\ id \in [Hosts -> Nat]
  BY DEF IdInv
<1>2. /\ pc[j] \in {"cluster_info", "loop"} /\ pc[Seed] = "loop"
      /\ dialing = {} /\ links = {<<j, Seed>>, <<Seed, j>>} /\ known = {0, 1}
      /\ routes = [n \in {1} |-> j] /\ OnlyCalls(events[Seed], 0)
  BY DEF Joined
<1>3. /\ pc[j] = "loop" => id[j] = 1 /\ OnlyCalls(events[j], 1)
      /\ pc[j] = "cluster_info" => events[j] # <<>> /\ Head(events[j]) = Cluster
                                   /\ OnlyCalls(Tail(events[j]), 1)
  BY DEF Joined
<1>4. /\ Heard(Seed) \in {None, "call"} /\ (pc[j] = "loop" => Heard(j) \in {None, "call"})
      /\ pc[j] = "cluster_info" => Heard(j) = "cluster_info"
  <2>1. events[Seed] \in Seq(Events) /\ events[j] \in Seq(Events)
    BY <1>0, <1>1
  <2>2. events[Seed] # <<>> => Head(events[Seed]).kind = "call"
    BY <1>2, <2>1, CallTaken
  <2>3. pc[j] = "loop" /\ events[j] # <<>> => Head(events[j]).kind = "call"
    BY <1>3, <2>1, CallTaken
  <2>4. pc[j] = "cluster_info" => Head(events[j]).kind = "cluster_info"
    BY <1>3, EventsAre
  <2> QED BY <1>1, <1>3, <2>2, <2>3, <2>4, TwoWait
<1>5. \/ ClusterInfo(j) \/ TakeCall(j) \/ TakeCall(Seed) \/ CallMonad(j) \/ CallNode(1)
  <2>1. \/ Connect(j, Seed) \/ Connect(Seed, j)
        \/ ConfirmOut(j) \/ ConfirmIn(j) \/ ClusterInfo(j)
        \/ HandleConnection \/ ConfirmBack \/ HostInfo
        \/ \E h \in {j, Seed} :
             TakeCall(h) \/ TakeAnnouncement(h) \/ ConfirmPeer(h) \/ TakeDisconnect(h)
        \/ CallMonad(j) \/ \E n \in known : CallNode(n)
    BY <1>2, OneMoves
  <2>2. ~ (\/ Connect(j, Seed) \/ Connect(Seed, j) \/ ConfirmOut(j) \/ ConfirmIn(j)
           \/ HandleConnection \/ ConfirmBack \/ HostInfo)
    BY <1>0, <1>2, <1>4 DEF Connect, ConfirmOut, ConfirmIn, HandleConnection, ConfirmBack, HostInfo,
                            Goes, Takes
  <2>3. ASSUME NEW h \in {j, Seed}
        PROVE  ~ (TakeAnnouncement(h) \/ ConfirmPeer(h) \/ TakeDisconnect(h))
    BY <1>0, <1>2, <1>4 DEF TakeAnnouncement, ConfirmPeer, TakeDisconnect, Goes, Takes
  <2>4. \A n \in known : CallNode(n) => n = 1
    BY <1>2 DEF CallNode
  <2> QED BY <2>1, <2>2, <2>3, <2>4
<1>6. CASE ClusterInfo(j)
  <2>1. /\ pc[j] = "cluster_info" /\ Goes(j, "cluster_info", "loop")
        /\ id' = [id EXCEPT ![j] = Head(events[j]).n] /\ events' = Rest(j)
        /\ UNCHANGED <<dialing, links, routes, known, misrouted>>
    BY <1>4, <1>6 DEF ClusterInfo, seedVars, Goes
  <2>2. pc'[j] = "loop" /\ pc'[Seed] = "loop"
    BY <1>0, <1>2, <2>1, Goings
  <2>3. id'[j] = 1
    BY <1>0, <1>1, <1>3, <2>1, EventsAre
  <2>4. OnlyCalls(events'[j], 1) /\ events'[Seed] = events[Seed]
    BY <1>0, <1>1, <1>3, <2>1, Waits
  <2> QED BY <1>2, <2>1, <2>2, <2>3, <2>4 DEF Joined
<1>7. ASSUME NEW h \in {j, Seed}, TakeCall(h)
      PROVE  (misrouted' <=> misrouted) /\ Joined(j)'
  <2>1. /\ pc[h] = "loop" /\ Heard(h) = "call" /\ events' = Rest(h)
        /\ misrouted' = (misrouted \/ Head(events[h]).n # id[h])
        /\ UNCHANGED <<pc, dialing, links, routes, known, id>>
    BY <1>7 DEF TakeCall, Takes, seedVars
  <2>2. h \in Hosts /\ events[h] # <<>> /\ events[h] \in Seq(Events)
    BY <1>0, <1>1, <2>1, Waits
  <2>3. OnlyCalls(events[h], id[h])
    BY <1>1, <1>2, <1>3, <2>1
  <2>4. Head(events[h]).n = id[h] /\ OnlyCalls(events'[h], id[h])
        /\ \A g \in Hosts \ {h} : events'[g] = events[g]
    <3>1. Head(events[h]).n = id[h] /\ OnlyCalls(Tail(events[h]), id[h])
      BY <2>2, <2>3, CallTaken
    <3>2. events'[h] = Tail(events[h]) /\ \A g \in Hosts \ {h} : events'[g] = events[g]
      BY <1>1, <2>1, <2>2, Waits
    <3> QED BY <3>1, <3>2
  <2>5. OnlyCalls(events'[Seed], 0)
    BY <1>0, <1>1, <1>2, <2>4
  <2>6. /\ pc[j] = "loop" => OnlyCalls(events'[j], 1)
        /\ pc[j] = "cluster_info" => events'[j] = events[j]
    BY <1>0, <1>3, <2>1, <2>4
  <2> QED BY <1>2, <1>3, <2>1, <2>4, <2>5, <2>6 DEF Joined
<1>8. CASE CallMonad(j)
  <2>1. /\ pc[j] = "loop" /\ events' = Send(events, j, Seed, "call", 0)
        /\ UNCHANGED <<pc, dialing, links, routes, known, id, misrouted>>
    BY <1>8 DEF CallMonad, seedVars
  <2> DEFINE e == Event("call", j, 0)
  <2>2. e \in Events /\ e.kind = "call" /\ e.n = 0
    BY <1>0 DEF Event, Events, Kinds, Packets
  <2>3. events' = [events EXCEPT ![Seed] = Append(@, e)]
    BY <1>0, <1>2, <2>1 DEF Send, Up, Hear
  <2> HIDE DEF e
  <2>4. events'[Seed] = Append(events[Seed], e) /\ events'[j] = events[j] /\ events[Seed] \in Seq(Events)
    BY <1>0, <1>1, <2>3
  <2>5. OnlyCalls(events'[Seed], 0)
    BY <1>2, <2>2, <2>4, CallAdded
  <2> QED BY <1>2, <1>3, <2>1, <2>4, <2>5 DEF Joined
<1>9. CASE CallNode(1)
  <2>1. /\ events' = Send(events, Seed, j, "call", 1)
        /\ UNCHANGED <<pc, dialing, links, routes, known, id, misrouted>>
    BY <1>2, <1>9 DEF CallNode, seedVars
  <2> DEFINE e == Event("call", Seed, 1)
  <2>2. e \in Events /\ e.kind = "call" /\ e.n = 1
    BY <1>0 DEF Event, Events, Kinds, Packets
  <2>3. events' = [events EXCEPT ![j] = Append(@, e)]
    BY <1>0, <1>2, <2>1 DEF Send, Up, Hear
  <2> HIDE DEF e
  <2>4. events'[j] = Append(events[j], e) /\ events'[Seed] = events[Seed] /\ events[j] \in Seq(Events)
    BY <1>0, <1>1, <2>3
  <2>5. pc[j] = "loop" => OnlyCalls(events'[j], 1)
    BY <1>3, <2>2, <2>4, CallAdded
  <2>6. pc[j] = "cluster_info" =>
          events'[j] # <<>> /\ Head(events'[j]) = Cluster /\ OnlyCalls(Tail(events'[j]), 1)
    <3>1. CASE pc[j] = "cluster_info"
      <4>1. /\ events'[j] # <<>> /\ Head(events'[j]) = Cluster
            /\ Tail(events'[j]) = Append(Tail(events[j]), e) /\ Tail(events[j]) \in Seq(Events)
        BY <1>3, <2>2, <2>4, <3>1, AddedBehind
      <4> QED BY <1>3, <2>2, <3>1, <4>1, CallAdded
    <3> QED BY <3>1
  <2> QED BY <1>2, <1>3, <2>1, <2>4, <2>5, <2>6 DEF Joined
<1> QED BY <1>5, <1>6, <1>7, <1>8, <1>9

\* While nobody has dialed, all that can happen is that somebody does.
LEMMA FirstDials ==
  ASSUME events \in [Hosts -> Seq(Events)], Dialed = {}, Unknown, Nobody, Next
  PROVE  \E j \in Joiners :
           Dial(j) /\ UNCHANGED <<events, known, nextId, links, misrouted>>
           /\ dialing' = {<<j, Seed>>} /\ pc' = [pc EXCEPT ![j] = "confirm_out"]
<1>1. /\ \A k \in Joiners : pc[k] = "off"
      /\ pc[Seed] = "loop" /\ dialing = {} /\ links = {} /\ known = {0}
  BY DEF Dialed, Nobody, Unknown
<1>2. None \notin {"connect", "disconnect", "call", "host_info", "cluster_info"}
  BY HostsAssumption DEF Kinds, Packets
<1>3. Heard(Seed) = None
  BY DEF Heard, Nobody, Hosts
<1>4. ~ Network
  BY <1>1 DEF Network, Connect, GiveUp
<1>5. ~ Calls
  BY <1>1 DEF Calls, CallMonad, CallNode
<1>6. ASSUME NEW j \in Joiners, Join(j) PROVE FALSE
  BY <1>1, <1>6 DEF Join, ConfirmOut, ConfirmIn, ClusterInfo, Goes
<1>7. ASSUME NEW h \in Hosts, NetLoop(h) PROVE FALSE
  <2>1. CASE h = Seed
    BY <1>1, <1>2, <1>3, <1>7, <2>1 DEF NetLoop, HandleConnection, ConfirmBack, HostInfo, TakeCall,
       TakeAnnouncement, ConfirmPeer, TakeDisconnect, Takes, Goes
  <2>2. CASE h # Seed
    <3>1. pc[h] = "off"
      BY <1>1, <2>2 DEF Hosts
    <3> QED BY <1>7, <2>2, <3>1 DEF NetLoop, TakeCall, TakeAnnouncement, ConfirmPeer, TakeDisconnect,
            Takes, Goes
  <2> QED BY <2>1, <2>2
<1>8. PICK j \in Joiners : Dial(j)
  BY <1>4, <1>5, <1>6, <1>7 DEF Next
<1> QED BY <1>1, <1>8 DEF Dial, Goes, seedVars

\* Nobody comes back to where it was before it dialed.
LEMMA DialedGrows ==
  ASSUME pc \in [Hosts -> States], Next
  PROVE  /\ pc' \in [Hosts -> States]
         /\ \E D : Dialed' = Dialed \cup D /\ (D = {} \/ \E k \in Joiners : D = {k})
<1>1. ASSUME NEW h \in Hosts, NEW from, NEW to \in States \ {"off"}, Goes(h, from, to)
      PROVE  /\ pc' \in [Hosts -> States]
             /\ \E D : Dialed' = Dialed \cup D /\ (D = {} \/ \E k \in Joiners : D = {k})
  <2>1. pc' \in [Hosts -> States]
    BY <1>1 DEF Goes
  <2>2. \A k \in Joiners : pc'[k] = IF k = h THEN to ELSE pc[k]
    BY <1>1 DEF Goes, Hosts
  <2>3. Dialed' = Dialed \cup (IF h \in Joiners THEN {h} ELSE {})
    BY <1>1, <2>2 DEF Dialed
  <2> QED BY <2>1, <2>3
<1>2. ASSUME pc' = pc
      PROVE  /\ pc' \in [Hosts -> States]
             /\ \E D : Dialed' = Dialed \cup D /\ (D = {} \/ \E k \in Joiners : D = {k})
  <2>1. Dialed' = Dialed \cup {}
    BY <1>2 DEF Dialed
  <2> QED BY <1>2, <2>1
<1>3. /\ "loop" \in States \ {"off"} /\ "down" \in States \ {"off"} /\ "confirm_peer" \in States \ {"off"}
      /\ Joining \subseteq States \ {"off"} /\ Serving \subseteq States \ {"off"}
  BY DEF States, Joining, Serving
<1>4. Seed \in Hosts /\ \A j \in Joiners : j \in Hosts
  BY DEF Hosts
<1>5. CASE Network
  BY <1>2, <1>5 DEF Network, Connect, GiveUp
<1>6. CASE Calls
  <2>1. ASSUME NEW n \in known, CallNode(n), pc' # pc
        PROVE  Goes(Seed, "loop", "down")
    BY <2>1 DEF CallNode, Goes
  <2>2. \A j \in Joiners : CallMonad(j) => pc' = pc
    BY DEF CallMonad
  <2> QED BY <1>1, <1>2, <1>3, <1>4, <1>6, <2>1, <2>2 DEF Calls
<1>7. ASSUME NEW j \in Joiners, Dial(j) \/ Join(j)
      PROVE  \E from : \E to \in States \ {"off"} : Goes(j, from, to)
  <2>1. CASE Dial(j)
    BY <1>3, <2>1 DEF Dial, Joining
  <2>2. CASE ConfirmOut(j)
    BY <1>3, <2>2 DEF ConfirmOut, Joining
  <2>3. CASE ConfirmIn(j)
    BY <1>3, <2>3 DEF ConfirmIn, Joining
  <2>4. CASE ClusterInfo(j)
    BY <1>3, <2>4 DEF ClusterInfo
  <2> QED BY <1>7, <2>1, <2>2, <2>3, <2>4 DEF Join
<1>8. ASSUME NEW h \in Hosts, NetLoop(h)
      PROVE  pc' = pc \/ \E g \in Hosts : \E from : \E to \in States \ {"off"} : Goes(g, from, to)
  <2>1. CASE HandleConnection
    BY <1>3, <1>4, <2>1 DEF HandleConnection, Serving
  <2>2. CASE ConfirmBack
    BY <1>3, <1>4, <2>2 DEF ConfirmBack, Serving
  <2>3. CASE HostInfo
    BY <1>3, <1>4, <2>3 DEF HostInfo
  <2>4. CASE TakeCall(h) \/ TakeDisconnect(h)
    BY <2>4 DEF TakeCall, TakeDisconnect
  <2>5. CASE TakeAnnouncement(h)
    BY <1>3, <2>5 DEF TakeAnnouncement
  <2>6. CASE ConfirmPeer(h)
    BY <1>3, <2>6 DEF ConfirmPeer
  <2> QED BY <1>8, <2>1, <2>2, <2>3, <2>4, <2>5, <2>6 DEF NetLoop
<1>9. CASE \E j \in Joiners : Dial(j) \/ Join(j)
  BY <1>1, <1>4, <1>7, <1>9
<1>10. CASE \E h \in Hosts : NetLoop(h)
  BY <1>1, <1>2, <1>8, <1>10
<1> QED BY <1>5, <1>6, <1>9, <1>10 DEF Next

LEMMA LateStays ==
  ASSUME Next, late
  PROVE  late'
BY DEF Next, Network, Connect, GiveUp, Calls, CallMonad, CallNode, Dial, Join, ConfirmOut, ConfirmIn,
       ClusterInfo, NetLoop, HandleConnection, ConfirmBack, HostInfo, TakeCall, TakeAnnouncement,
       ConfirmPeer, TakeDisconnect, Clock

LEMMA JoinStep ==
  ASSUME IdInv, JoinInv, [Next]_vars
  PROVE  JoinInv'
<1>1. CASE UNCHANGED vars
  <2>1. UNCHANGED <<pc, events, dialing, links, newcomer, routes, known, nextId, id, late, misrouted>>
    BY <1>1 DEF vars, seedVars
  <2>2. Dialed' = Dialed
    BY <2>1 DEF Dialed
  <2>3. /\ (Unknown /\ Nobody) => (Unknown /\ Nobody)'
        /\ \A j : Phase(j) => Phase(j)'
    BY <2>1 DEF Unknown, Nobody, Phase, Asking, Asked, Meeting, Joined
  <2> QED BY <2>1, <2>2, <2>3 DEF JoinInv
<1>2. CASE Next
  <2>0. pc \in [Hosts -> States] /\ events \in [Hosts -> Seq(Events)]
    BY DEF JoinInv, IdInv
  <2>1. /\ pc' \in [Hosts -> States]
        /\ \E D : Dialed' = Dialed \cup D /\ (D = {} \/ \E k \in Joiners : D = {k})
    BY <1>2, DialedGrows DEF JoinInv
  <2>2. IsFiniteSet(Dialed')
    <3>1. PICK D : Dialed' = Dialed \cup D /\ (D = {} \/ \E k \in Joiners : D = {k})
      BY <2>1
    <3>2. IsFiniteSet(D)
      BY <3>1, FS_EmptySet, FS_Singleton
    <3> QED BY <3>1, <3>2, FS_Union DEF JoinInv
  <2>3. SUFFICES ASSUME ~ late'
                 PROVE  /\ Dialed' = {} => ~ misrouted' /\ Unknown' /\ Nobody'
                        /\ \A j \in Joiners : Dialed' = {j} => ~ misrouted' /\ Phase(j)'
    BY <2>1, <2>2 DEF JoinInv
  <2>4. ~ late
    BY <1>2, <2>3, LateStays
  <2>5. CASE Dialed = {}
    <3>1. ~ misrouted /\ Unknown /\ Nobody
      BY <2>4, <2>5 DEF JoinInv
    <3>2. PICK k \in Joiners :
            Dial(k) /\ UNCHANGED <<events, known, nextId, links, misrouted>>
            /\ dialing' = {<<k, Seed>>} /\ pc' = [pc EXCEPT ![k] = "confirm_out"]
      BY <1>2, <2>0, <2>5, <3>1, FirstDials
    <3>3. k \in Hosts /\ k # Seed /\ pc'[k] = "confirm_out" /\ pc'[Seed] = "loop"
      BY <2>0, <3>1, <3>2, HostsAssumption DEF Nobody, Hosts
    <3>4. k \in Dialed'
      BY <3>3 DEF Dialed
    <3>5. Asking(k)' /\ Unknown'
      BY <3>1, <3>2, <3>3 DEF Nobody, Asking, Unknown, Hosts
    <3> QED BY <3>1, <3>2, <3>4, <3>5 DEF Phase
  <2>6. CASE Dialed # {}
    <3>1. Dialed' # {}
      BY <2>1, <2>6
    <3>2. ASSUME NEW j \in Joiners, Dialed' = {j} PROVE ~ misrouted' /\ Phase(j)'
      <4>1. Dialed = {j}
        BY <2>1, <2>6, <3>2
      <4>2. ~ misrouted /\ Phase(j)
        BY <2>4, <4>1 DEF JoinInv
      <4>3. CASE Unknown /\ Asking(j)
        BY <1>2, <2>0, <2>3, <3>2, <4>1, <4>2, <4>3, AskingGoesOn DEF Phase
      <4>4. CASE Unknown /\ Asked(j)
        BY <1>2, <2>0, <2>3, <3>2, <4>1, <4>2, <4>4, AskedGoesOn DEF Phase
      <4>5. CASE Unknown /\ Meeting(j)
        BY <1>2, <2>0, <2>3, <3>2, <4>1, <4>2, <4>5, MeetingGoesOn DEF Phase
      <4>6. CASE Joined(j)
        BY <1>2, <2>0, <2>3, <3>2, <4>1, <4>2, <4>6, JoinedGoesOn DEF Phase
      <4> QED BY <4>2, <4>3, <4>4, <4>5, <4>6 DEF Phase
    <3> QED BY <3>1, <3>2
  <2> QED BY <2>5, <2>6
<1> QED BY <1>1, <1>2

LEMMA InitJoin == Init => JoinInv
<1> SUFFICES ASSUME Init PROVE JoinInv
  OBVIOUS
<1>1. pc \in [Hosts -> States] /\ pc[Seed] = "loop" /\ \A j \in Joiners : pc[j] = "off"
  BY HostsAssumption DEF Init, States, Hosts
<1>2. Dialed = {}
  BY <1>1 DEF Dialed
<1>3. ~ misrouted /\ Unknown /\ Nobody
  BY <1>1 DEF Init, Unknown, Nobody
<1> QED BY <1>1, <1>2, <1>3, FS_EmptySet DEF JoinInv

\* With any number of nodes that could join: as long as one does and nothing is
\* late, the seed and the node live, the node becomes number 1, the Monad knows
\* it and the route to it, and no call goes astray (netcode.cpp:310-416).
THEOREM OneJoin == Spec => []OneJoinIsSafe
<1>1. Init => IdInv /\ JoinInv
  BY InitIds, InitJoin
<1>2. (IdInv /\ JoinInv) /\ [Next]_vars => (IdInv /\ JoinInv)'
  BY IdStep, JoinStep
<1>3. IdInv /\ JoinInv => OneJoinIsSafe
  <2> SUFFICES ASSUME IdInv, JoinInv, Cardinality(Dialed) <= 1, ~ late
               PROVE  /\ Up(Seed) /\ ~ misrouted
                      /\ \A j \in Dialed :
                           /\ Up(j)
                           /\ pc[j] = "loop" => /\ known = {0, id[j]} /\ routes[id[j]] = j
                                                /\ <<Seed, j>> \in links
    BY DEF OneJoinIsSafe
  <2>1. CASE Dialed = {}
    BY <2>1 DEF JoinInv, Nobody, Up, Hosts
  <2>2. CASE Dialed # {}
    <3>1. PICK j \in Joiners : j \in Dialed
      BY <2>2 DEF Dialed
    <3>2. Dialed = {j}
      <4> DEFINE D == Dialed
                 S == D \ {j}
      <4>1. IsFiniteSet(D) /\ j \in D /\ Cardinality(D) <= 1
        BY <3>1 DEF JoinInv
      <4> HIDE DEF D
      <4>2. IsFiniteSet(S) /\ Cardinality(S) = Cardinality(D) - 1 /\ Cardinality(D) \in Nat
            /\ Cardinality(S) \in Nat
        BY <4>1, FS_RemoveElement, FS_CardinalityType
      <4>3. Cardinality(S) = 0
        BY <4>1, <4>2
      <4>4. S = {}
        BY <4>2, <4>3, FS_EmptySet
      <4>5. D = {j}
        BY <4>1, <4>4
      <4> QED BY <4>5 DEF D
    <3>3. ~ misrouted /\ Phase(j)
      BY <3>2 DEF JoinInv
    <3>4. Up(Seed) /\ Up(j)
      BY <3>3 DEF Phase, Asking, Asked, Meeting, Joined, Up, Hosts
    <3>5. pc[j] = "loop" => Joined(j)
      BY <3>3 DEF Phase, Asking, Asked, Meeting
    <3>6. pc[j] = "loop" => known = {0, id[j]} /\ routes[id[j]] = j /\ <<Seed, j>> \in links
      BY <3>5 DEF Joined
    <3> QED BY <3>2, <3>3, <3>4, <3>6
  <2> QED BY <2>1, <2>2
<1> QED BY <1>1, <1>2, <1>3, PTL DEF Spec
=============================================================================
