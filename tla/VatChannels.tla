----------------------------- MODULE VatChannels -----------------------------
(***************************************************************************)
(* What the nodes of the archive's runtime promise to the vats they run:   *)
(* between any two vats, on one node or on two, there is a channel that    *)
(* loses nothing, duplicates nothing and keeps the order; a vat handles    *)
(* one message at a time, to its end, and what it sends meanwhile is on    *)
(* its way when the handler returns.  A node that goes down takes its own  *)
(* vats with it and no others.  Run queues, the network loop and the wires *)
(* do not appear here: BurnerNode implements this specification.           *)
(***************************************************************************)
EXTENDS Integers

CONSTANTS
  Vats,       \* vats, those of boot and those made later
  Senders,    \* vats and the threads that send without being one
  Nodes,
  NodeOf,     \* the node of a sender
  BootVats,   \* the vats there are at first
  BootSent    \* the messages there are at first

VARIABLES
  sent,      \* sent[s][v]: how many messages s has sent to v
  handled,   \* handled[s][v]: how many of them v has handled, oldest first
  made,      \* the vats there are
  down       \* the nodes that are gone

vars == <<sent, handled, made, down>>

Init ==
  /\ sent = BootSent
  /\ handled = [s \in Senders |-> [v \in Vats |-> 0]]
  /\ made = BootVats
  /\ down = {}

\* Only s sends.
SentBy(s) ==
  /\ \A v \in Vats : sent'[s][v] >= sent[s][v]
  /\ \A r \in Senders \ {s} : sent'[r] = sent[r]

\* The oldest message of a channel is taken by a vat that is there.
Taken(v, s) ==
  /\ handled' = [handled EXCEPT ![s][v] = @ + 1]
  /\ handled[s][v] < sent[s][v]
  /\ v \in made /\ NodeOf[v] \notin down

\* A handler runs and may send.
Handle(v, s) == Taken(v, s) /\ SentBy(v) /\ UNCHANGED <<made, down>>

\* A handler makes a vat on its own node, whose constructor may send.
Create(v, s, w) ==
  /\ Taken(v, s)
  /\ w \notin made /\ NodeOf[w] = NodeOf[v]
  /\ made' = made \cup {w}
  /\ SentBy(w) /\ UNCHANGED down

Crash(n) == down' = down \cup {n} /\ UNCHANGED <<sent, handled, made>>

Next ==
  \/ \E v \in Vats, s \in Senders : Handle(v, s)
  \/ \E v, w \in Vats, s \in Senders : Create(v, s, w)
  \/ \E n \in Nodes : Crash(n)

Spec == Init /\ [][Next]_vars
=============================================================================
