------------------------------ MODULE BurnerNode ------------------------------
(***************************************************************************)
(* The nodes of the C++ runtime in src/archive: on each node one burner    *)
(* thread (process_vq in pleroma.cpp; processor_count is 1) that runs the  *)
(* handlers of vats, and the main thread in net_loop (netcode.cpp), which  *)
(* routes their mail.  A vat goes round for ever, with mail or without:    *)
(*                                                                         *)
(*     queue --burner--> net_vats --net_loop--> queue                      *)
(*                                                                         *)
(* and only while it passes net_loop is its mail put into its mailbox.     *)
(* ENet's packets are reliable and ordered; a node that panics is gone.    *)
(*                                                                         *)
(* What a handler computes is left out: it takes one message and leaves    *)
(* any messages in out_messages, or makes a vat, or panics.  The keyboard  *)
(* thread would be one more producer of net_out_queue; KernelBoot has it.  *)
(***************************************************************************)
EXTENDS Integers, Sequences, FiniteSets, SequencesExt, FiniteSetsExt

CONSTANTS
  Nodes, FirstNode,   \* FirstNode holds the Monad
  Vats, Monad,        \* all vats, by identity: node_id and id at once
  NewVats,            \* those that handlers make
  Home,               \* the node of a vat
  Faulty,             \* the nodes that may panic
  MaxBatch,           \* bound: messages a handler sends
  MaxSent,            \* bound: messages each vat sends in its life
  NetBatch,           \* 100 in net_loop: messages sent per round, but for one
  NoVat

BootVats == Vats \ NewVats
Main(n) == <<n, "main">>
Outsiders == {Main(n) : n \in Nodes}
Senders == Vats \cup Outsiders

NodeOf == [s \in Senders |-> IF s \in Vats THEN Home[s] ELSE s[1]]
VatsOf(n) == {v \in Vats : Home[v] = n}

\* The sender's address is -1, -1, -1 in messages of outsiders: replies to
\* them go to the void.
Void == "void"
Msg == [src : Senders, dst : Vats \cup {Void}, no : Nat]

ASSUME HomeAssumption ==
  /\ Home \in [Vats -> Nodes] /\ Nodes \cap Vats = {}
  /\ IsFiniteSet(Vats) /\ NewVats \subseteq Vats
  /\ Monad \in BootVats /\ Home[Monad] = FirstNode
  /\ NoVat \notin Vats /\ Void \notin Vats /\ Outsiders \cap Vats = {}
ASSUME BoundAssumption == NetBatch \in Nat /\ MaxBatch \in Nat

VARIABLES
  queue,          \* vats ready to run, a stream for each thread that enqueues
  holding,        \* the vat the burner has dequeued, or NoVat
  burner,         \* "idle", "handle" messages, or "flush" out_messages
  net_vats,       \* vats that have run, of the one thread that enqueues there
  messages,       \* mailbox of each vat
  out_messages,   \* what the handlers of a vat have sent in this run
  net_out_queue,  \* messages for the router, a stream for each thread
  net,            \* net_loop: "events", "out" or "vats"
  n_received,     \* in net_loop: messages sent in this round
  wire,           \* wire[n][p]: packets from n to p
  net_in_queue,   \* messages that have arrived at a node
  sort_queue,     \* mail by vat id
  made,           \* the vats that exist
  sent,           \* history: how many messages s has sent to v
  handled,        \* history: the number of the last one that v handled
  down            \* the nodes that have panicked

burnerVars == <<holding, burner, messages, out_messages>>
netVars == <<net, n_received, net_in_queue, sort_queue>>
vars == <<queue, net_vats, net_out_queue, wire, burnerVars, netVars, made, sent, handled, down>>

Threads == {"burner", "main"}

\* Where boot leaves a node: its vats queued by the main thread, hello in the
\* mailbox of the Monad, start-program on its way to it.
Hello == [src |-> Main(FirstNode), dst |-> Monad, no |-> 1]
StartProgram(n) ==
  [src |-> Main(n), dst |-> Monad, no |-> IF n = FirstNode THEN 2 ELSE 1]
BootSent ==
  [s \in Senders |-> [v \in Vats |->
     IF v # Monad \/ s \in Vats THEN 0 ELSE IF s = Main(FirstNode) THEN 2 ELSE 1]]

Init ==
  /\ queue = [n \in Nodes |->
                [t \in Threads |-> IF t = "main" THEN SetToSeq(VatsOf(n) \cap BootVats) ELSE <<>>]]
  /\ holding = [n \in Nodes |-> NoVat] /\ burner = [n \in Nodes |-> "idle"]
  /\ net_vats = [n \in Nodes |-> <<>>]
  /\ messages = [v \in Vats |-> IF v = Monad THEN <<Hello>> ELSE <<>>]
  /\ out_messages = [v \in Vats |-> <<>>]
  /\ net_out_queue = [n \in Nodes |->
                        [t \in Threads |-> IF t = "main" THEN <<StartProgram(n)>> ELSE <<>>]]
  /\ net = [n \in Nodes |-> "events"] /\ n_received = [n \in Nodes |-> 0]
  /\ wire = [n \in Nodes |-> [p \in Nodes |-> <<>>]]
  /\ net_in_queue = [n \in Nodes |-> <<>>]
  /\ sort_queue = [v \in Vats |-> <<>>]
  /\ made = BootVats
  /\ sent = BootSent
  /\ handled = [s \in Senders |-> [v \in Vats |-> 0]]
  /\ down = {}

Up(n) == n \notin down

-----------------------------------------------------------------------------
(* The burner: process_vq *)

\* The dequeue looks at the streams one by one: any that is not empty.
TakeVat(n) ==
  /\ Up(n) /\ burner[n] = "idle"
  /\ \E t \in Threads :
       /\ queue[n][t] # <<>>
       /\ holding' = [holding EXCEPT ![n] = Head(queue[n][t])]
       /\ queue' = [queue EXCEPT ![n][t] = Tail(@)]
  /\ burner' = [burner EXCEPT ![n] = "handle"]
  /\ UNCHANGED <<net_vats, net_out_queue, wire, messages, out_messages, netVars, made, sent, handled, down>>

Handling(n) == Up(n) /\ burner[n] = "handle" /\ messages[holding[n]] # <<>>

\* The messages one handler of v sends.
HowOften(v, ts, i) == Cardinality({j \in 1 .. i : ts[j] = v})
SentMore(v, ts) == [d \in Vats |-> sent[v][d] + HowOften(d, ts, Len(ts))]
Batch(v, ts) ==
  [i \in DOMAIN ts |->
     [src |-> v, dst |-> ts[i], no |-> sent[v][ts[i]] + HowOften(ts[i], ts, i)]]
SentInAll(v) == MapThenSumSet(LAMBDA d : sent[v][d], Vats)
Targets(v) ==
  {ts \in BoundedSeq(made, MaxBatch) : SentInAll(v) + Len(ts) <= MaxSent[v]}

\* The reply to an outsider is a message like any other, to node -1; what
\* start-program returns is the promise of main, which nobody answers.
Replies(v, m) ==
  IF m = Hello THEN <<[src |-> v, dst |-> Void, no |-> 0]>> ELSE <<>>

Took(v) ==
  LET m == Head(messages[v]) IN handled' = [handled EXCEPT ![m.src][v] = m.no]

\* One pass of the inner loop: evaluating touches only the vat.
HandleMessage(n) ==
  LET v == holding[n] IN
  /\ Handling(n)
  /\ \E ts \in Targets(v) :
       /\ out_messages' = [out_messages EXCEPT ![v] =
            @ \o Batch(v, ts) \o Replies(v, Head(messages[v]))]
       /\ sent' = [sent EXCEPT ![v] = SentMore(v, ts)]
  /\ Took(v)
  /\ messages' = [messages EXCEPT ![v] = Tail(@)]
  /\ UNCHANGED <<queue, net_vats, net_out_queue, wire, holding, burner, netVars, made, down>>

\* create_entity with new_vat: the entity's capabilities are asked for in the
\* new vat, which is then queued by the burner.
HandleCreateVat(n) ==
  LET v == holding[n] IN
  /\ Handling(n)
  /\ \E w \in NewVats \ made :
       /\ Home[w] = n
       /\ \E ts \in Targets(w) :
            /\ out_messages' =
                 [out_messages EXCEPT ![w] = Batch(w, ts), ![v] = @ \o Replies(v, Head(messages[v]))]
            /\ sent' = [sent EXCEPT ![w] = SentMore(w, ts)]
       /\ made' = made \cup {w}
       /\ queue' = [queue EXCEPT ![n]["burner"] = Append(@, w)]
  /\ Took(v)
  /\ messages' = [messages EXCEPT ![v] = Tail(@)]
  /\ UNCHANGED <<net_vats, net_out_queue, wire, holding, burner, netVars, down>>

\* The mailbox is empty, or was when the flush began.
Flushing(n) ==
  Up(n) /\ (burner[n] = "flush" \/ (burner[n] = "handle" /\ messages[holding[n]] = <<>>))

\* A message of a vat to itself goes back into its mailbox, for its next run.
FlushMessage(n) ==
  LET v == holding[n]
      m == Head(out_messages[v]) IN
  /\ Flushing(n) /\ out_messages[v] # <<>>
  /\ burner' = [burner EXCEPT ![n] = "flush"]
  /\ out_messages' = [out_messages EXCEPT ![v] = Tail(@)]
  /\ IF m.dst = v
     THEN /\ messages' = [messages EXCEPT ![v] = Append(@, m)]
          /\ UNCHANGED net_out_queue
     ELSE /\ net_out_queue' = [net_out_queue EXCEPT ![n]["burner"] = Append(@, m)]
          /\ UNCHANGED messages
  /\ UNCHANGED <<queue, net_vats, wire, holding, netVars, made, sent, handled, down>>

ReturnVat(n) ==
  /\ Flushing(n) /\ out_messages[holding[n]] = <<>>
  /\ net_vats' = [net_vats EXCEPT ![n] = Append(@, holding[n])]
  /\ holding' = [holding EXCEPT ![n] = NoVat]
  /\ burner' = [burner EXCEPT ![n] = "idle"]
  /\ UNCHANGED <<queue, net_out_queue, wire, messages, out_messages, netVars, made, sent, handled, down>>

Burner(n) ==
  \/ TakeVat(n) \/ HandleMessage(n) \/ HandleCreateVat(n)
  \/ FlushMessage(n) \/ ReturnVat(n)

\* A panic, a failed assert or an uncaught exception ends the process.
Panic(n) ==
  /\ n \in Faulty /\ Handling(n)
  /\ down' = down \cup {n}
  /\ UNCHANGED <<queue, net_vats, net_out_queue, wire, burnerVars, netVars, made, sent, handled>>

-----------------------------------------------------------------------------
(* The main thread: net_loop *)

\* enet_host_service returned a packet: on_receive_packet.
NetReceive(n, p) ==
  /\ Up(n) /\ net[n] = "events" /\ wire[p][n] # <<>>
  /\ net_in_queue' = [net_in_queue EXCEPT ![n] = Append(@, Head(wire[p][n]))]
  /\ wire' = [wire EXCEPT ![p][n] = Tail(@)]
  /\ UNCHANGED <<queue, net_vats, net_out_queue, burnerVars, net, n_received, sort_queue, made, sent, handled, down>>

\* It waited for a millisecond and nothing came, or it is sending already.
Sending(n) == Up(n) /\ net[n] \in {"events", "out"}

\* Variants with one bug each.  The loop that sends ends one message late;
TooManyLate(count) == count > NetBatch + 1

\* the loop over net_in_queue leaves the last message where it is;
MoreMailButLast(n) == Len(net_in_queue[n]) > 1

\* the mail of a vat is put into its mailbox and not cleared;
NetPassAgain(n) ==
  LET v == Head(net_vats[n]) IN
  /\ Up(n) /\ net[n] = "vats" /\ net_in_queue[n] = <<>> /\ net_vats[n] # <<>>
  /\ net_vats' = [net_vats EXCEPT ![n] = Tail(@)]
  /\ messages' = [messages EXCEPT ![v] = @ \o sort_queue[v]]
  /\ queue' = [queue EXCEPT ![n]["main"] = Append(@, v)]
  /\ UNCHANGED <<net_out_queue, wire, holding, burner, out_messages, netVars, made, sent, handled, down>>

\* vat_node is used once more, after the dequeue that failed.
NetDoneAgain(n) ==
  /\ Up(n) /\ net[n] = "vats" /\ net_in_queue[n] = <<>> /\ net_vats[n] = <<>>
  /\ net' = [net EXCEPT ![n] = "events"]
  /\ queue' = [queue EXCEPT ![n]["main"] = IF @ = <<>> THEN @ ELSE Append(@, Last(@))]
  /\ UNCHANGED <<net_vats, net_out_queue, wire, burnerVars, n_received, net_in_queue, sort_queue, made, sent, handled, down>>

TooMany(count) == count > NetBatch

\* The end of the round of sending.
StopSending(n) ==
  /\ net' = [net EXCEPT ![n] = "vats"]
  /\ n_received' = [n_received EXCEPT ![n] = 0]

\* The void is not counted; one message more than NetBatch ends the loop.
NetSend(n, t) ==
  LET m == Head(net_out_queue[n][t])
      local == m.dst # Void /\ Home[m.dst] = n
      count == n_received[n] + (IF m.dst = Void THEN 0 ELSE 1) IN
  /\ Sending(n) /\ net_out_queue[n][t] # <<>>
  /\ net_out_queue' = [net_out_queue EXCEPT ![n][t] = Tail(@)]
  /\ net_in_queue' = IF local THEN [net_in_queue EXCEPT ![n] = Append(@, m)] ELSE net_in_queue
  /\ wire' = IF m.dst = Void \/ local THEN wire
             ELSE [wire EXCEPT ![n][Home[m.dst]] = Append(@, m)]
  /\ IF TooMany(count) THEN StopSending(n)
     ELSE /\ n_received' = [n_received EXCEPT ![n] = count]
          /\ net' = [net EXCEPT ![n] = "out"]
  /\ UNCHANGED <<queue, net_vats, burnerVars, sort_queue, made, sent, handled, down>>

NetSent(n) ==
  /\ Sending(n) /\ \A t \in Threads : net_out_queue[n][t] = <<>>
  /\ StopSending(n)
  /\ UNCHANGED <<queue, net_vats, net_out_queue, wire, burnerVars, net_in_queue, sort_queue, made, sent, handled, down>>

\* The mail that has arrived goes into sort_queue, message by message.
MoreMail(n) == net_in_queue[n] # <<>>

NetSort(n) ==
  LET m == Head(net_in_queue[n]) IN
  /\ Up(n) /\ net[n] = "vats" /\ MoreMail(n)
  /\ sort_queue' = [sort_queue EXCEPT ![m.dst] = Append(@, m)]
  /\ net_in_queue' = [net_in_queue EXCEPT ![n] = Tail(@)]
  /\ UNCHANGED <<queue, net_vats, net_out_queue, wire, burnerVars, net, n_received, made, sent, handled, down>>

\* A vat that comes past gets its mail and is queued again.
NetPass(n) ==
  LET v == Head(net_vats[n]) IN
  /\ Up(n) /\ net[n] = "vats" /\ ~MoreMail(n) /\ net_vats[n] # <<>>
  /\ net_vats' = [net_vats EXCEPT ![n] = Tail(@)]
  /\ messages' = [messages EXCEPT ![v] = @ \o sort_queue[v]]
  /\ sort_queue' = [sort_queue EXCEPT ![v] = <<>>]
  /\ queue' = [queue EXCEPT ![n]["main"] = Append(@, v)]
  /\ UNCHANGED <<net_out_queue, wire, holding, burner, out_messages, net, n_received, net_in_queue, made, sent, handled, down>>

NetDone(n) ==
  /\ Up(n) /\ net[n] = "vats" /\ ~MoreMail(n) /\ net_vats[n] = <<>>
  /\ net' = [net EXCEPT ![n] = "events"]
  /\ UNCHANGED <<queue, net_vats, net_out_queue, wire, burnerVars, n_received, net_in_queue, sort_queue, made, sent, handled, down>>

NetLoop(n) ==
  \/ NetSent(n) \/ NetSort(n) \/ NetPass(n) \/ NetDone(n)
  \/ \E t \in Threads : NetSend(n, t)

Next ==
  \/ \E n \in Nodes : Burner(n) \/ NetLoop(n) \/ Panic(n)
  \/ \E n, p \in Nodes : NetReceive(n, p)

Spec == Init /\ [][Next]_vars

(* The threads run, and a packet that has arrived is returned by one of the *)
(* next calls of enet_host_service.                                         *)
FairSpec ==
  /\ Spec
  /\ \A n \in Nodes : WF_vars(Burner(n)) /\ WF_vars(NetLoop(n))
  /\ \A n \in Nodes : \A p \in Nodes \ {n} : SF_vars(NetReceive(n, p))

-----------------------------------------------------------------------------
(* Properties *)

TypeOK ==
  /\ queue \in [Nodes -> [Threads -> Seq(Vats)]]
  /\ net_vats \in [Nodes -> Seq(Vats)]
  /\ burner \in [Nodes -> {"idle", "handle", "flush"}]
  /\ holding \in [Nodes -> Vats \cup {NoVat}]
  /\ \A n \in Nodes : holding[n] = NoVat <=> burner[n] = "idle"
  /\ messages \in [Vats -> Seq(Msg)] /\ sort_queue \in [Vats -> Seq(Msg)]
  /\ out_messages \in [Vats -> Seq(Msg)]
  /\ net_out_queue \in [Nodes -> [Threads -> Seq(Msg)]]
  /\ wire \in [Nodes -> [Nodes -> Seq(Msg)]]
  /\ net_in_queue \in [Nodes -> Seq(Msg)]
  /\ net \in [Nodes -> {"events", "out", "vats"}]
  /\ n_received \in [Nodes -> 0 .. NetBatch]
  /\ sent \in [Senders -> [Vats -> Nat]] /\ handled \in [Senders -> [Vats -> Nat]]
  /\ made \subseteq Vats /\ down \subseteq Nodes

\* How often v occurs in s.
Occurs(s, v) == Cardinality({i \in DOMAIN s : s[i] = v})

\* The queues hand vats from thread to thread without locks: each vat there
\* is, is in exactly one of them, or with the burner, on its own node
\* (pleroma.cpp:166, netcode.cpp:148-155).
VatsInOnePlace ==
  \A v \in Vats, n \in Nodes :
    Occurs(queue[n]["main"], v) + Occurs(queue[n]["burner"], v)
      + Occurs(net_vats[n], v) + (IF holding[n] = v THEN 1 ELSE 0)
    = IF v \in made /\ Home[v] = n THEN 1 ELSE 0

Channels == INSTANCE VatChannels

\* Between any two vats, on one node or two, mail is neither lost nor
\* duplicated nor reordered on its way through up to six queues, and a node
\* that goes down stops only its own vats (pleroma.cpp:79-159,
\* netcode.cpp:118-155).
ImplementsChannels == Channels!Spec

\* Every message for a vat is handled, unless a node it passes goes down:
\* if net_loop comes round again and again, which its last loop does not
\* promise with a burner that is as fast (netcode.cpp:147), and the larger
\* stream of the run queue does not for ever hide the vats that handlers
\* make (concurrentqueue.h:1141).
NetLoopReturns == \A n \in Nodes : []<>(net[n] = "events" \/ ~Up(n))
MadeVatsTaken == \A n \in Nodes : []<>(queue[n]["burner"] = <<>> \/ ~Up(n))
InTransit(s, v) == handled[s][v] < sent[s][v]
MailIsHandled ==
  NetLoopReturns /\ MadeVatsTaken =>
    \A s \in Senders, v \in Vats :
      []<>(~InTransit(s, v) \/ ~Up(Home[v]) \/ ~Up(NodeOf[s]))
=============================================================================
