------------------------------- MODULE VatMail -------------------------------
(***************************************************************************)
(* What the hosted runtime promises to a Pleroma program: a vat is a       *)
(* single-threaded actor with a mailbox.  A message that was sent waits    *)
(* until its own vat handles it, once; a vat handles one message at a      *)
(* time; a vat whose handler panics stops, alone; and if the whole node    *)
(* goes down nothing more is handled.  Queues, hotplates and the main      *)
(* loop do not appear here: HostedRuntime implements this specification.   *)
(***************************************************************************)
EXTENDS Integers

CONSTANTS
  Vats,        \* vat ids
  Msgs,        \* message identities; one is reused after it was handled
  Dst,         \* the vat a message is addressed to
  Seminal,     \* the message the node boots with
  NoMsg        \* "this vat is not running"

VARIABLES
  pending,     \* messages sent and not yet being handled
  active,      \* the message each vat is handling, or NoMsg
  dead         \* vats that will never handle anything again

vars == <<pending, active, dead>>

Init ==
  /\ pending = {Seminal}
  /\ active = [v \in Vats |-> NoMsg]
  /\ dead = {}

InUse(m) == m \in pending \/ \E v \in Vats : active[v] = m

\* A vat starts on one of its waiting messages; which one is not promised.
Begin(v, m) ==
  /\ v \notin dead /\ active[v] = NoMsg
  /\ m \in pending /\ Dst[m] = v
  /\ pending' = pending \ {m}
  /\ active' = [active EXCEPT ![v] = m]
  /\ UNCHANGED dead

\* The handler of a running vat sends a message.
Send(v, m) ==
  /\ v \notin dead /\ active[v] # NoMsg
  /\ ~InUse(m)
  /\ pending' = pending \cup {m}
  /\ UNCHANGED <<active, dead>>

\* The handler returns, with or without a reply.
End(v) ==
  /\ v \notin dead /\ active[v] # NoMsg
  /\ active' = [active EXCEPT ![v] = NoMsg]
  /\ \/ UNCHANGED pending
     \/ \E m \in Msgs : ~InUse(m) /\ pending' = pending \cup {m}
  /\ UNCHANGED dead

\* The handler panics: its vat, and no other, is gone.
Crash(v) ==
  /\ v \notin dead /\ active[v] # NoMsg
  /\ dead' = dead \cup {v}
  /\ UNCHANGED <<pending, active>>

\* The node goes down, possibly dropping messages on its way.
Halt ==
  /\ dead' = Vats
  /\ pending' \in SUBSET pending
  /\ UNCHANGED active

Next ==
  \/ \E v \in Vats, m \in Msgs : Begin(v, m) \/ Send(v, m)
  \/ \E v \in Vats : End(v) \/ Crash(v)
  \/ Halt

Spec == Init /\ [][Next]_vars
=============================================================================
