---------------------------- MODULE HostedRuntime ----------------------------
(***************************************************************************)
(* The hosted (thread based) runtime of src/src/hosted.rs: one main loop   *)
(* and a set of hotplate threads that pass vats and messages around over   *)
(* unbounded channels.                                                     *)
(*                                                                         *)
(*   hotplate --(mlq: vats)--> main loop --(hpq: vats)--> hotplate         *)
(*   hotplate --(msgq: messages)--> main loop                              *)
(*   hotplate --(ncq: new vats)--> main loop                               *)
(*                                                                         *)
(* A vat is owned by whoever holds it: a channel, the main loop's box of   *)
(* sleeping vats or a hotplate.  The main loop keeps one mailbox per vat   *)
(* id (vat_inboxes); what a hotplate works on is the vat's own inbox.      *)
(* What a handler computes is left out: a handler may send any message     *)
(* that is not in use, may create a vat if it is nodeman's, may reply, may *)
(* panic if its message is one of Faulty.                                  *)
(***************************************************************************)
EXTENDS Integers, SequencesExt

CONSTANTS
  Hotplates,   \* the worker threads (boot starts n_hotplates = 1 of them)
  Msgs,        \* identities of messages; one is reused after it was handled
  Dst,         \* the vat id each message is addressed to
  Seminal,     \* the request boot() puts into the message channel
  Faulty,      \* messages whose handler panics (run_msg has many unwraps)
  MaxVats,     \* bound: how many vats nodeman creates in one run
  MaxSends,    \* bound: messages one handler sends before it returns
  NoVat, NoMsg

\* Ids of the vats that boot() makes, and of the one that can make more.
NodemanVat == 0
MonadVat == 1
BootVats == {NodemanVat, MonadVat}
FirstFreeVat == 101          \* "Leave the first 100 for system vats"
CreatedVats == FirstFreeVat .. (FirstFreeVat + MaxVats - 1)
Vats == BootVats \cup CreatedVats
\* The key main_loop gives to the mailbox of every vat created at run time.
CreatedInboxKey == 2

ASSUME BoundsAssumption == MaxVats \in Nat /\ MaxSends \in Nat
ASSUME MessageAssumption ==
  /\ Dst \in [Msgs -> Vats]
  /\ Seminal \in Msgs /\ Dst[Seminal] = NodemanVat
  /\ Faulty \subseteq Msgs
ASSUME NullAssumption ==
  /\ NoVat \notin Vats \cup {CreatedInboxKey}
  /\ NoMsg \notin Msgs

VARIABLES
  mlq,         \* vats on their way to the main loop (ml_vat channel)
  hpq,         \* vats on their way to a hotplate (hp_vat channel)
  msgq,        \* messages on their way to the main loop (ml_box channel)
  ncq,         \* vats inside a CreateVat message (node_control channel)
  sleeping,    \* sleeping_vats
  inboxes,     \* vat_inboxes: a HashMap from vat id to the mail waiting there
  mlpc,        \* where the main loop is
  waited,      \* waited_vat: the vat that select! returned
  inbox,       \* Vat::inbox of every vat
  outbox,      \* Vat::outbox of every vat
  hpc,         \* where each hotplate is
  holding,     \* the vat each hotplate holds
  running,     \* the message each hotplate is handling
  sent,        \* messages sent so far by that handler (counts to MaxSends)
  lastVatId    \* Nodeman::last_vat_id

channels == <<mlq, hpq, msgq, ncq>>
mainVars == <<sleeping, inboxes, mlpc, waited>>
vatVars == <<inbox, outbox>>
hotVars == <<hpc, holding, running, sent>>
vars == <<channels, mainVars, vatVars, hotVars, lastVatId>>

Live == mlpc # "panicked"

\* Every message that somebody still holds: a channel, a mailbox, a vat.
Waiting ==
  ToSet(msgq) \cup (UNION {ToSet(inboxes[k]) : k \in DOMAIN inboxes})
  \cup (UNION {ToSet(inbox[v]) \cup ToSet(outbox[v]) : v \in Vats})
InFlight == Waiting \cup {running[h] : h \in Hotplates}

-----------------------------------------------------------------------------
(* boot() *)

Init ==
  /\ mlq = <<NodemanVat, MonadVat>>
  /\ hpq = <<>> /\ ncq = <<>>
  /\ msgq = <<Seminal>>
  /\ sleeping = {}
  /\ inboxes = [v \in BootVats |-> <<>>]
  /\ mlpc = "select" /\ waited = NoVat
  /\ inbox = [v \in Vats |-> <<>>]
  /\ outbox = [v \in Vats |-> <<>>]
  /\ hpc = [h \in Hotplates |-> "idle"]
  /\ holding = [h \in Hotplates |-> NoVat]
  /\ running = [h \in Hotplates |-> NoMsg]
  /\ sent = [h \in Hotplates |-> 0]
  /\ lastVatId = FirstFreeVat - 1

-----------------------------------------------------------------------------
(* Broken variants of the actions below, one step wrong in each: putting   *)
(* one in the place of its action shows which property notices.            *)

\* triage_msg that leaves a sleeping addressee asleep.
TriageNoWake(m) ==
  /\ UNCHANGED <<sleeping, hpq>>
  /\ IF Dst[m] \in DOMAIN inboxes
       THEN /\ inboxes' = [inboxes EXCEPT ![Dst[m]] = Append(@, m)]
            /\ mlpc' = "triage"
       ELSE mlpc' = "panicked" /\ UNCHANGED inboxes

\* triage_msg that wakes a vat and forgets to take it out of the box.
TriageKeepsAsleep(m) ==
  LET d == Dst[m] IN
  /\ UNCHANGED sleeping
  /\ hpq' = IF d \in sleeping THEN Append(hpq, d) ELSE hpq
  /\ IF d \in DOMAIN inboxes
       THEN /\ inboxes' = [inboxes EXCEPT ![d] = Append(@, m)]
            /\ mlpc' = "triage"
       ELSE mlpc' = "panicked" /\ UNCHANGED inboxes

\* deliver_mail that lets a vat without mail go out of scope.
DeliverDropsIdle(v, next) ==
  /\ mlpc' = next
  /\ UNCHANGED sleeping
  /\ IF inboxes[v] = <<>>
     THEN UNCHANGED <<hpq, inboxes, vatVars>>
     ELSE /\ inboxes' = [inboxes EXCEPT ![v] = <<>>]
          /\ inbox' = [inbox EXCEPT ![v] = @ \o inboxes[v]]
          /\ hpq' = Append(hpq, v)
          /\ UNCHANGED outbox

\* deliver_mail that copies the mailbox and does not empty it.
DeliverKeepsMailbox(v, next) ==
  /\ mlpc' = next
  /\ IF inboxes[v] = <<>>
     THEN /\ sleeping' = sleeping \cup {v}
          /\ UNCHANGED <<hpq, inboxes, vatVars>>
     ELSE /\ inbox' = [inbox EXCEPT ![v] = @ \o inboxes[v]]
          /\ hpq' = Append(hpq, v)
          /\ UNCHANGED <<sleeping, inboxes, outbox>>

\* CreateVat that makes the mailbox and drops the vat.
SelectCreateVatDrops ==
  /\ mlpc = "select" /\ ncq # <<>>
  /\ ncq' = Tail(ncq)
  /\ inboxes' = [k \in DOMAIN inboxes \cup {CreatedInboxKey} |->
                   IF k = CreatedInboxKey THEN <<>> ELSE inboxes[k]]
  /\ mlpc' = "triage"
  /\ UNCHANGED <<mlq, hpq, msgq, sleeping, waited, vatVars, hotVars, lastVatId>>

\* A blocking recv where the inner loop has try_recv.
MsgsDrainedBlocks ==
  /\ mlpc = "triage" /\ msgq = <<>> /\ ~ Live
  /\ mlpc' = "deliver"
  /\ UNCHANGED <<channels, sleeping, inboxes, waited, vatVars, hotVars, lastVatId>>

\* The new vat gets the last id and not the next one.
HandlerNmupOffByOne(h, m) ==
  /\ Live /\ hpc[h] = "run" /\ sent[h] < MaxSends
  /\ holding[h] = NodemanVat
  /\ m \notin InFlight /\ Dst[m] = MonadVat
  /\ lastVatId + 1 \in CreatedVats
  /\ lastVatId' = lastVatId + 1
  /\ ncq' = Append(ncq, lastVatId)
  /\ outbox' = [outbox EXCEPT ![NodemanVat] = Append(@, m)]
  /\ sent' = [sent EXCEPT ![h] = @ + 1]
  /\ UNCHANGED <<mlq, hpq, msgq, mainVars, inbox, hpc, holding, running>>

\* The vat goes back before its outbox is sent.
HotplateReturnUnflushed(h) ==
  LET v == holding[h] IN
  /\ Live /\ hpc[h] = "hold" /\ inbox[v] = <<>>
  /\ mlq' = Append(mlq, v)
  /\ holding' = [holding EXCEPT ![h] = NoVat]
  /\ hpc' = [hpc EXCEPT ![h] = "idle"]
  /\ UNCHANGED <<hpq, msgq, ncq, mainVars, vatVars, running, sent, lastVatId>>

\* The vat goes back with messages of its batch not handled.
HotplateReturnUnread(h) ==
  LET v == holding[h] IN
  /\ Live /\ hpc[h] = "hold" /\ outbox[v] = <<>>
  /\ mlq' = Append(mlq, v)
  /\ holding' = [holding EXCEPT ![h] = NoVat]
  /\ hpc' = [hpc EXCEPT ![h] = "idle"]
  /\ UNCHANGED <<hpq, msgq, ncq, mainVars, vatVars, running, sent, lastVatId>>

-----------------------------------------------------------------------------
(* The main loop *)

\* triage_msg: a sleeping addressee goes to the hotplates first, then its
\* mail is put into its mailbox; without a mailbox the unwrap panics and
\* takes the process with it.
Triage(m) ==
  LET d == Dst[m] IN
  /\ sleeping' = sleeping \ {d}
  /\ hpq' = IF d \in sleeping THEN Append(hpq, d) ELSE hpq
  /\ IF d \in DOMAIN inboxes
       THEN /\ inboxes' = [inboxes EXCEPT ![d] = Append(@, m)]
            /\ mlpc' = "triage"
       ELSE /\ mlpc' = "panicked"
            /\ UNCHANGED inboxes

\* deliver_mail: a vat without mail goes to sleep; otherwise it takes all of
\* it, its mailbox is left with what its outbox held, and it moves on.
Deliver(v, next) ==
  IF v \notin DOMAIN inboxes
  THEN /\ mlpc' = "panicked"
       /\ UNCHANGED <<hpq, sleeping, inboxes, vatVars>>
  ELSE /\ mlpc' = next
       /\ IF inboxes[v] = <<>>
          THEN /\ sleeping' = sleeping \cup {v}
               /\ UNCHANGED <<hpq, inboxes, vatVars>>
          ELSE /\ inboxes' = [inboxes EXCEPT ![v] = outbox[v]]
               /\ outbox' = [outbox EXCEPT ![v] = <<>>]
               /\ inbox' = [inbox EXCEPT ![v] = @ \o inboxes[v]]
               /\ hpq' = Append(hpq, v)
               /\ UNCHANGED sleeping

\* select! takes one item from one channel that has one, any of them.
SelectVat ==
  /\ mlpc = "select" /\ mlq # <<>>
  /\ waited' = Head(mlq)
  /\ mlq' = Tail(mlq)
  /\ mlpc' = "triage"
  /\ UNCHANGED <<hpq, msgq, ncq, sleeping, inboxes, vatVars, hotVars, lastVatId>>

SelectMsg ==
  /\ mlpc = "select" /\ msgq # <<>>
  /\ msgq' = Tail(msgq)
  /\ Triage(Head(msgq))
  /\ UNCHANGED <<mlq, ncq, waited, vatVars, hotVars, lastVatId>>

\* CreateVat: HashMap::insert replaces what the key held before.
SelectCreateVat ==
  /\ mlpc = "select" /\ ncq # <<>>
  /\ ncq' = Tail(ncq)
  /\ inboxes' = [k \in DOMAIN inboxes \cup {CreatedInboxKey} |->
                   IF k = CreatedInboxKey THEN <<>> ELSE inboxes[k]]
  /\ sleeping' = sleeping \cup {Head(ncq)}
  /\ mlpc' = "triage"
  /\ UNCHANGED <<mlq, hpq, msgq, waited, vatVars, hotVars, lastVatId>>

\* The first inner loop: try_recv on the message channel until it is empty.
DrainMsg ==
  /\ mlpc = "triage" /\ msgq # <<>>
  /\ msgq' = Tail(msgq)
  /\ Triage(Head(msgq))
  /\ UNCHANGED <<mlq, ncq, waited, vatVars, hotVars, lastVatId>>

MsgsDrained ==
  /\ mlpc = "triage" /\ msgq = <<>>
  /\ mlpc' = "deliver"
  /\ UNCHANGED <<channels, sleeping, inboxes, waited, vatVars, hotVars, lastVatId>>

\* The vat that select! returned, if it returned one, gets its mail now;
\* messages sent since the inner loop ended are not in it.
DeliverWaited ==
  /\ mlpc = "deliver"
  /\ IF waited = NoVat
     THEN /\ mlpc' = "drain"
          /\ UNCHANGED <<hpq, sleeping, inboxes, vatVars>>
     ELSE Deliver(waited, "drain")
  /\ waited' = NoVat
  /\ UNCHANGED <<mlq, msgq, ncq, hotVars, lastVatId>>

\* The second inner loop: try_recv on the vat channel until it is empty.
DrainVat ==
  /\ mlpc = "drain" /\ mlq # <<>>
  /\ mlq' = Tail(mlq)
  /\ Deliver(Head(mlq), "drain")
  /\ UNCHANGED <<msgq, ncq, waited, hotVars, lastVatId>>

VatsDrained ==
  /\ mlpc = "drain" /\ mlq = <<>>
  /\ mlpc' = "select"
  /\ UNCHANGED <<channels, sleeping, inboxes, waited, vatVars, hotVars, lastVatId>>

MainLoop ==
  \/ SelectVat \/ SelectMsg \/ SelectCreateVat
  \/ DrainMsg \/ MsgsDrained \/ DeliverWaited \/ DrainVat \/ VatsDrained

-----------------------------------------------------------------------------
(* A hotplate *)

HotplateTake(h) ==
  /\ Live /\ hpc[h] = "idle" /\ hpq # <<>>
  /\ holding' = [holding EXCEPT ![h] = Head(hpq)]
  /\ hpq' = Tail(hpq)
  /\ hpc' = [hpc EXCEPT ![h] = "hold"]
  /\ UNCHANGED <<mlq, msgq, ncq, mainVars, vatVars, running, sent, lastVatId>>

\* vat.inbox.pop() takes the newest message of the batch.
HotplateRun(h) ==
  LET v == holding[h] IN
  /\ Live /\ hpc[h] = "hold" /\ inbox[v] # <<>>
  /\ running' = [running EXCEPT ![h] = Last(inbox[v])]
  /\ inbox' = [inbox EXCEPT ![v] = Front(@)]
  /\ hpc' = [hpc EXCEPT ![h] = "run"]
  /\ sent' = [sent EXCEPT ![h] = 0]
  /\ UNCHANGED <<channels, mainVars, outbox, holding, lastVatId>>

\* The handler executes a message expression: tx_msg.send at once.
HandlerSend(h, m) ==
  /\ Live /\ hpc[h] = "run" /\ sent[h] < MaxSends
  /\ m \notin InFlight
  /\ msgq' = Append(msgq, m)
  /\ sent' = [sent EXCEPT ![h] = @ + 1]
  /\ UNCHANGED <<mlq, hpq, ncq, mainVars, vatVars, hpc, holding, running, lastVatId>>

\* The handler calls nodeman's foreign function nmup: a new vat goes to the
\* node control channel, a request to the monad into nodeman's own outbox.
HandlerNmup(h, m) ==
  /\ Live /\ hpc[h] = "run" /\ sent[h] < MaxSends
  /\ holding[h] = NodemanVat
  /\ m \notin InFlight /\ Dst[m] = MonadVat
  /\ lastVatId + 1 \in CreatedVats
  /\ lastVatId' = lastVatId + 1
  /\ ncq' = Append(ncq, lastVatId + 1)
  /\ outbox' = [outbox EXCEPT ![NodemanVat] = Append(@, m)]
  /\ sent' = [sent EXCEPT ![h] = @ + 1]
  /\ UNCHANGED <<mlq, hpq, msgq, mainVars, inbox, hpc, holding, running>>

\* run_msg returned: with a response, which is sent, or with None.
HandlerEnd(h) ==
  /\ Live /\ hpc[h] = "run"
  /\ \/ UNCHANGED msgq
     \/ \E m \in Msgs \ InFlight : msgq' = Append(msgq, m)
  /\ running' = [running EXCEPT ![h] = NoMsg]
  /\ hpc' = [hpc EXCEPT ![h] = "hold"]
  /\ UNCHANGED <<mlq, hpq, ncq, mainVars, vatVars, holding, sent, lastVatId>>

\* run_msg panicked: the thread ends, and drops the vat it owned.
HandlerPanic(h) ==
  /\ Live /\ hpc[h] = "run" /\ running[h] \in Faulty
  /\ hpc' = [hpc EXCEPT ![h] = "dead"]
  /\ UNCHANGED <<channels, mainVars, vatVars, holding, running, sent, lastVatId>>

\* One step of the loop over the outbox (cleared at the loop's end; nobody
\* else sees the vat before that).
HotplateFlush(h) ==
  LET v == holding[h] IN
  /\ Live /\ hpc[h] = "hold" /\ inbox[v] = <<>> /\ outbox[v] # <<>>
  /\ msgq' = Append(msgq, Head(outbox[v]))
  /\ outbox' = [outbox EXCEPT ![v] = Tail(@)]
  /\ UNCHANGED <<mlq, hpq, ncq, mainVars, inbox, hotVars, lastVatId>>

\* Back on to the sushi belt.
HotplateReturn(h) ==
  LET v == holding[h] IN
  /\ Live /\ hpc[h] = "hold" /\ inbox[v] = <<>> /\ outbox[v] = <<>>
  /\ mlq' = Append(mlq, v)
  /\ holding' = [holding EXCEPT ![h] = NoVat]
  /\ hpc' = [hpc EXCEPT ![h] = "idle"]
  /\ UNCHANGED <<hpq, msgq, ncq, mainVars, vatVars, running, sent, lastVatId>>

Hotplate(h) ==
  \/ HotplateTake(h) \/ HotplateRun(h) \/ HotplateFlush(h) \/ HotplateReturn(h)
  \/ HandlerEnd(h) \/ HandlerPanic(h)
  \/ \E m \in Msgs : HandlerSend(h, m) \/ HandlerNmup(h, m)

Next == MainLoop \/ \E h \in Hotplates : Hotplate(h)

Spec == Init /\ [][Next]_vars

(* Fairness: every thread that can run does (the OS schedules threads, and *)
(* a handler is finite); select! picks a ready channel at random, so one   *)
(* that is ready again and again is picked.                                *)
FairSpec ==
  /\ Spec
  /\ WF_vars(MainLoop)
  /\ SF_vars(SelectCreateVat)
  /\ \A h \in Hotplates : WF_vars(Hotplate(h))

-----------------------------------------------------------------------------
(* Properties *)

TypeOK ==
  /\ mlq \in Seq(Vats) /\ hpq \in Seq(Vats) /\ ncq \in Seq(Vats)
  /\ msgq \in Seq(Msgs)
  /\ sleeping \subseteq Vats
  /\ BootVats \subseteq DOMAIN inboxes
  /\ DOMAIN inboxes \subseteq BootVats \cup {CreatedInboxKey}
  /\ inboxes \in [DOMAIN inboxes -> Seq(Msgs)]
  /\ mlpc \in {"select", "triage", "deliver", "drain", "panicked"}
  /\ waited \in Vats \cup {NoVat}
  /\ inbox \in [Vats -> Seq(Msgs)] /\ outbox \in [Vats -> Seq(Msgs)]
  /\ hpc \in [Hotplates -> {"idle", "hold", "run", "dead"}]
  /\ holding \in [Hotplates -> Vats \cup {NoVat}]
  /\ running \in [Hotplates -> Msgs \cup {NoMsg}]
  /\ sent \in [Hotplates -> 0 .. MaxSends]
  /\ lastVatId \in FirstFreeVat - 1 .. FirstFreeVat + MaxVats - 1
  /\ \A h \in Hotplates :
       /\ (hpc[h] = "idle") <=> (holding[h] = NoVat)
       /\ (hpc[h] \in {"run", "dead"}) <=> (running[h] # NoMsg)

Existing == BootVats \cup FirstFreeVat .. lastVatId
Held == {holding[h] : h \in Hotplates} \ {NoVat}
Lost == {holding[h] : h \in {g \in Hotplates : hpc[g] = "dead"}}

\* Where a vat can be: two channels between the loops, the control channel,
\* asleep, in the main loop's hand, on a hotplate.
Places == <<ToSet(mlq), ToSet(hpq), ToSet(ncq), sleeping, {waited} \ {NoVat}, Held>>

\* A vat is never in two places, nor twice in one: so no two hotplates ever
\* run the same vat.  (Every hand-over of hosted.rs: 19, 37, 52, 71, 77, 111,
\* 127, 162.)
VatsOwnedOnce ==
  /\ IsInjective(mlq) /\ IsInjective(hpq) /\ IsInjective(ncq)
  /\ \A g, h \in Hotplates :
       g # h /\ holding[g] # NoVat => holding[g] # holding[h]
  /\ \A i, j \in DOMAIN Places : i # j => Places[i] \cap Places[j] = {}

\* No vat drops off the belt: while the process is up every vat that was ever
\* made is somewhere (on a dead hotplate, if that took it along).
VatsKept == Live => UNION {Places[i] : i \in DOMAIN Places} = Existing

\* No lost wakeup: mail waits only for a vat that is on the belt and so will
\* come by deliver_mail again, whichever way triage_msg and deliver_mail
\* interleave with the hotplates.
NoLostWakeup ==
  \A v \in DOMAIN inboxes :
    inboxes[v] # <<>> => v \in ToSet(mlq) \cup ToSet(hpq) \cup Held \cup {waited}

\* Only a vat on its way to a hotplate carries a batch, and only a vat on a
\* hotplate an outbox.  So deliver_mail never adds a batch to an unfinished
\* one, and its "vi.append(&mut cv.outbox)", which would hand a vat its own
\* outgoing mail, finds that outbox empty.
MailFlushed ==
  \A v \in Vats :
    /\ inbox[v] # <<>> => v \in ToSet(hpq) \cup Held
    /\ outbox[v] # <<>> => v \in Held

\* Every thread is blocked in a receive.
Blocked ==
  /\ mlpc = "select" /\ mlq = <<>> /\ msgq = <<>> /\ ncq = <<>>
  /\ \A h \in Hotplates : hpc[h] = "dead" \/ (hpc[h] = "idle" /\ hpq = <<>>)

\* Mail that a panicked handler took along, or that is for its vat.
OutOfReach(m) ==
  \/ Dst[m] \in Lost
  \/ \E v \in Lost : m \in ToSet(outbox[v])
  \/ \A h \in Hotplates : hpc[h] = "dead"

\* The runtime comes to rest only when there is nothing left to do: if all
\* threads wait for each other, no message waits for one of them.
RestsOnlyWhenDone == Blocked => \A m \in Waiting : OutOfReach(m)

\* Every message is handled in the end, however much other mail there is,
\* unless its vat, all hotplates or the main loop panic before.
MailIsHandled ==
  \A m \in Msgs :
    m \in Waiting ~> (\E h \in Hotplates : running[h] = m) \/ OutOfReach(m) \/ ~Live

\* The two inner loops of main_loop end, even though the hotplates feed the
\* channels they drain: the main loop gets back to select! again and again,
\* unless it panics.
MainLoopReturns == []<>(mlpc = "select" \/ ~Live)

\* A CreateVat message is not starved by the vats and messages that keep the
\* other two channels of the select! busy.
CreatedVatArrives ==
  \A v \in CreatedVats : v \in ToSet(ncq) ~> v \in sleeping \/ ~Live

\* The runtime implements mailboxes: whatever the belt does, a message is
\* handled at most once, by its own vat, one at a time.
Mail == INSTANCE VatMail WITH
  pending <- Waiting,
  active <- [v \in Vats |->
               IF \E h \in Hotplates : holding[h] = v
               THEN running[CHOOSE h \in Hotplates : holding[h] = v]
               ELSE NoMsg],
  dead <- IF Live THEN Lost ELSE Vats
ImplementsMail == Mail!Spec
=============================================================================
