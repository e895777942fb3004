------------------------ MODULE HostedRuntimeProofs ------------------------
(***************************************************************************)
(* Safety of HostedRuntime for every number of hotplates, every set of     *)
(* messages and every bound.                                               *)
(***************************************************************************)
EXTENDS HostedRuntime, SequenceTheorems, TLAPS

-----------------------------------------------------------------------------
(* Facts about channels (sequences) *)

LEMMA LastFront ==
  ASSUME NEW S, NEW s \in Seq(S), s # <<>>
  PROVE  Last(s) \in S /\ Front(s) \in Seq(S)
  BY DEF Last, Front

\* What a send adds to a channel.
LEMMA AppendElements ==
  ASSUME NEW S, NEW s \in Seq(S), NEW e \in S
  PROVE  /\ ToSet(Append(s, e)) = ToSet(s) \cup {e}
         /\ IsInjective(s) /\ e \notin ToSet(s) => IsInjective(Append(s, e))
<1> DEFINE t == Append(s, e)
<1>1. /\ t \in Seq(S) /\ Len(t) = Len(s) + 1
      /\ \A i \in 1 .. Len(s) : t[i] = s[i]
      /\ t[Len(s) + 1] = e
  BY AppendProperties
<1>2. DOMAIN t = 1 .. Len(s) + 1 /\ DOMAIN s = 1 .. Len(s) /\ Len(s) \in Nat
  BY <1>1, LenProperties
<1> HIDE DEF t
<1>3. ToSet(t) = ToSet(s) \cup {e}
  <2>1. ToSet(t) \subseteq ToSet(s) \cup {e}
    BY <1>1, <1>2 DEF ToSet
  <2>2. ToSet(s) \subseteq ToSet(t)
    BY <1>1, <1>2 DEF ToSet
  <2>3. e \in ToSet(t)
    BY <1>1, <1>2 DEF ToSet
  <2> QED BY <2>1, <2>2, <2>3
<1>4. ASSUME IsInjective(s), e \notin ToSet(s) PROVE IsInjective(t)
  BY <1>1, <1>2, <1>4 DEF ToSet, IsInjective
<1> QED BY <1>3, <1>4 DEF t

\* What a receive takes from it.
LEMMA TailElements ==
  ASSUME NEW S, NEW s \in Seq(S), s # <<>>
  PROVE  /\ ToSet(s) = ToSet(Tail(s)) \cup {Head(s)}
         /\ IsInjective(s) => IsInjective(Tail(s)) /\ Head(s) \notin ToSet(Tail(s))
<1> DEFINE t == Tail(s)
<1>1. /\ t \in Seq(S) /\ Len(t) = Len(s) - 1
      /\ \A i \in 1 .. Len(t) : t[i] = s[i + 1]
  BY HeadTailProperties
<1>2. /\ DOMAIN t = 1 .. Len(t) /\ DOMAIN s = 1 .. Len(s)
      /\ Len(s) \in Nat /\ Len(s) > 0 /\ Len(t) \in Nat
  BY <1>1, LenProperties, EmptySeq
<1>3. Head(s) = s[1]
  OBVIOUS
<1> HIDE DEF t
<1>4. ToSet(s) = ToSet(t) \cup {Head(s)}
  <2>1. ASSUME NEW i \in DOMAIN s PROVE s[i] \in ToSet(t) \cup {Head(s)}
    <3>1. CASE i = 1 BY <3>1, <1>3
    <3>2. CASE i # 1
      <4>1. i - 1 \in DOMAIN t BY <1>1, <1>2, <3>2
      <4>2. t[i - 1] = s[i] BY <1>1, <1>2, <4>1
      <4> QED BY <4>1, <4>2 DEF ToSet
    <3> QED BY <3>1, <3>2
  <2>2. ToSet(t) \cup {Head(s)} \subseteq ToSet(s)
    BY <1>1, <1>2, <1>3 DEF ToSet
  <2> QED BY <2>1, <2>2 DEF ToSet
<1>5. ASSUME IsInjective(s) PROVE IsInjective(t) /\ Head(s) \notin ToSet(t)
  <2>1. ASSUME NEW i \in DOMAIN t, NEW j \in DOMAIN t, t[i] = t[j] PROVE i = j
    <3>1. s[i + 1] = s[j + 1] /\ i + 1 \in DOMAIN s /\ j + 1 \in DOMAIN s
      BY <1>1, <1>2, <2>1
    <3> QED BY <3>1, <1>2, <1>5 DEF IsInjective
  <2>2. ASSUME NEW i \in DOMAIN t, t[i] = Head(s) PROVE FALSE
    <3>1. s[i + 1] = s[1] /\ i + 1 \in DOMAIN s /\ 1 \in DOMAIN s /\ i \in Nat \ {0}
      BY <1>1, <1>2, <1>3, <2>2
    <3>2. i + 1 = 1 BY <3>1, <1>5 DEF IsInjective
    <3> QED BY <3>1, <3>2
  <2> QED BY <2>1, <2>2 DEF ToSet, IsInjective
<1> QED BY <1>4, <1>5 DEF t

-----------------------------------------------------------------------------
(* Type correctness *)

ChannelsOK ==
  /\ mlq \in Seq(Vats) /\ hpq \in Seq(Vats) /\ ncq \in Seq(Vats)
  /\ msgq \in Seq(Msgs)
MainLoopOK ==
  /\ sleeping \subseteq Vats
  /\ BootVats \subseteq DOMAIN inboxes
  /\ DOMAIN inboxes \subseteq BootVats \cup {CreatedInboxKey}
  /\ inboxes \in [DOMAIN inboxes -> Seq(Msgs)]
  /\ mlpc \in {"select", "triage", "deliver", "drain", "panicked"}
  /\ waited \in Vats \cup {NoVat}
VatStateOK ==
  /\ inbox \in [Vats -> Seq(Msgs)] /\ outbox \in [Vats -> Seq(Msgs)]
  /\ lastVatId \in FirstFreeVat - 1 .. FirstFreeVat + MaxVats - 1
HotplatesOK ==
  /\ hpc \in [Hotplates -> {"idle", "hold", "run", "dead"}]
  /\ holding \in [Hotplates -> Vats \cup {NoVat}]
  /\ running \in [Hotplates -> Msgs \cup {NoMsg}]
  /\ sent \in [Hotplates -> 0 .. MaxSends]
  /\ \A h \in Hotplates :
       /\ (hpc[h] = "idle") <=> (holding[h] = NoVat)
       /\ (hpc[h] \in {"run", "dead"}) <=> (running[h] # NoMsg)

LEMMA TypeParts == TypeOK <=> ChannelsOK /\ MainLoopOK /\ VatStateOK /\ HotplatesOK
  BY DEF TypeOK, ChannelsOK, MainLoopOK, VatStateOK, HotplatesOK

LEMMA BootVatsAreVats ==
  /\ BootVats \subseteq Vats /\ NodemanVat \in Vats /\ MonadVat \in Vats
  /\ CreatedInboxKey \notin Vats
  BY DEF Vats, BootVats, CreatedVats, CreatedInboxKey, NodemanVat, MonadVat, FirstFreeVat

LEMMA InitType == Init => TypeOK
<1> SUFFICES ASSUME Init PROVE TypeOK OBVIOUS
<1> USE DEF Init
<1>1. ChannelsOK
  BY BootVatsAreVats, MessageAssumption DEF ChannelsOK
<1>2. MainLoopOK
  BY DEF MainLoopOK
<1>3. VatStateOK
  BY BoundsAssumption DEF VatStateOK, FirstFreeVat
<1>4. HotplatesOK
  BY BoundsAssumption DEF HotplatesOK
<1> QED BY <1>1, <1>2, <1>3, <1>4, TypeParts

\* The two helpers of the main loop.
LEMMA TriageType ==
  ASSUME TypeOK, NEW m \in Msgs, Triage(m), UNCHANGED waited
  PROVE  hpq' \in Seq(Vats) /\ MainLoopOK'
<1>1. ChannelsOK /\ MainLoopOK /\ Dst[m] \in Vats
  BY TypeParts, MessageAssumption
<1>2. hpq' \in Seq(Vats)
  BY <1>1, AppendProperties DEF Triage, ChannelsOK
<1>3. CASE Dst[m] \in DOMAIN inboxes
  <2>1. Append(inboxes[Dst[m]], m) \in Seq(Msgs)
    BY <1>1, <1>3, AppendProperties DEF MainLoopOK
  <2>2. DOMAIN inboxes' = DOMAIN inboxes /\ inboxes' \in [DOMAIN inboxes -> Seq(Msgs)]
    BY <1>1, <1>3, <2>1 DEF Triage, MainLoopOK
  <2> QED BY <1>1, <1>2, <1>3, <2>2 DEF Triage, MainLoopOK
<1>4. CASE Dst[m] \notin DOMAIN inboxes
  BY <1>1, <1>2, <1>4 DEF Triage, MainLoopOK
<1> QED BY <1>3, <1>4, <1>2

LEMMA DeliverType ==
  ASSUME TypeOK, NEW v \in Vats, Deliver(v, "drain"), waited' \in Vats \cup {NoVat},
         UNCHANGED lastVatId
  PROVE  hpq' \in Seq(Vats) /\ MainLoopOK' /\ VatStateOK'
<1>1. ChannelsOK /\ MainLoopOK /\ VatStateOK
  BY TypeParts
<1>2. CASE v \notin DOMAIN inboxes
  BY <1>1, <1>2 DEF Deliver, ChannelsOK, MainLoopOK, VatStateOK, vatVars
<1>3. CASE v \in DOMAIN inboxes /\ inboxes[v] = <<>>
  BY <1>1, <1>3 DEF Deliver, ChannelsOK, MainLoopOK, VatStateOK, vatVars
<1>4. CASE v \in DOMAIN inboxes /\ inboxes[v] # <<>>
  <2>1. /\ hpq' = Append(hpq, v) /\ mlpc' = "drain" /\ sleeping' = sleeping
        /\ inboxes' = [inboxes EXCEPT ![v] = outbox[v]]
        /\ outbox' = [outbox EXCEPT ![v] = <<>>]
        /\ inbox' = [inbox EXCEPT ![v] = @ \o inboxes[v]]
    BY <1>4 DEF Deliver
  <2>2. hpq' \in Seq(Vats)
    BY <1>1, <2>1, AppendProperties DEF ChannelsOK
  <2>3. DOMAIN inboxes' = DOMAIN inboxes /\ inboxes' \in [DOMAIN inboxes -> Seq(Msgs)]
    BY <1>1, <2>1 DEF MainLoopOK, VatStateOK
  <2>4. inbox[v] \o inboxes[v] \in Seq(Msgs) /\ <<>> \in Seq(Msgs)
    BY <1>1, <1>4, ConcatProperties DEF MainLoopOK, VatStateOK
  <2>5. inbox' \in [Vats -> Seq(Msgs)] /\ outbox' \in [Vats -> Seq(Msgs)]
    BY <1>1, <2>1, <2>4 DEF VatStateOK
  <2> QED BY <1>1, <2>1, <2>2, <2>3, <2>5 DEF MainLoopOK, VatStateOK
<1> QED BY <1>2, <1>3, <1>4

LEMMA NextType == TypeOK /\ [Next]_vars => TypeOK'
<1> SUFFICES ASSUME TypeOK, [Next]_vars PROVE TypeOK'
  OBVIOUS
<1>0. ChannelsOK /\ MainLoopOK /\ VatStateOK /\ HotplatesOK
  BY TypeParts
<1>a. (ChannelsOK /\ MainLoopOK /\ VatStateOK /\ HotplatesOK)' => TypeOK'
  BY DEF TypeOK, ChannelsOK, MainLoopOK, VatStateOK, HotplatesOK
<1> USE DEF channels, mainVars, vatVars, hotVars
<1>1. CASE SelectVat
  <2>1. Head(mlq) \in Vats /\ Tail(mlq) \in Seq(Vats)
    BY <1>0, <1>1, HeadTailProperties DEF SelectVat, ChannelsOK
  <2>2. ChannelsOK' /\ MainLoopOK' /\ VatStateOK' /\ HotplatesOK'
    BY <1>0, <1>1, <2>1 DEF SelectVat, ChannelsOK, MainLoopOK, VatStateOK, HotplatesOK
  <2> QED BY <2>2, <1>a
<1>2. CASE SelectMsg \/ DrainMsg
  <2>1. /\ msgq # <<>> /\ msgq' = Tail(msgq) /\ Triage(Head(msgq))
        /\ UNCHANGED <<mlq, ncq, waited, vatVars, hotVars, lastVatId>>
    BY <1>2 DEF SelectMsg, DrainMsg
  <2>2. Head(msgq) \in Msgs /\ Tail(msgq) \in Seq(Msgs)
    BY <1>0, <2>1, HeadTailProperties DEF ChannelsOK
  <2>3. hpq' \in Seq(Vats) /\ MainLoopOK'
    BY <2>1, <2>2, TriageType
  <2>4. ChannelsOK' /\ VatStateOK' /\ HotplatesOK'
    BY <1>0, <2>1, <2>2, <2>3 DEF ChannelsOK, VatStateOK, HotplatesOK
  <2> QED BY <2>3, <2>4, <1>a
<1>3. CASE SelectCreateVat
  <2>1. Head(ncq) \in Vats /\ Tail(ncq) \in Seq(Vats)
    BY <1>0, <1>3, HeadTailProperties DEF SelectCreateVat, ChannelsOK
  <2>2. ChannelsOK' /\ VatStateOK' /\ HotplatesOK'
    BY <1>0, <1>3, <2>1 DEF SelectCreateVat, ChannelsOK, VatStateOK, HotplatesOK
  <2>3. MainLoopOK'
    BY <1>0, <1>3, <2>1 DEF SelectCreateVat, MainLoopOK
  <2> QED BY <2>2, <2>3, <1>a
<1>4. CASE MsgsDrained \/ VatsDrained
  BY <1>0, <1>4, <1>a DEF MsgsDrained, VatsDrained, ChannelsOK, MainLoopOK,
     VatStateOK, HotplatesOK
<1>5. CASE DeliverWaited
  <2>1. CASE waited = NoVat
    BY <1>0, <1>5, <2>1, <1>a
    DEF DeliverWaited, ChannelsOK, MainLoopOK, VatStateOK, HotplatesOK
  <2>2. CASE waited # NoVat
    <3>1. waited \in Vats /\ Deliver(waited, "drain") /\ waited' = NoVat
      BY <1>0, <1>5, <2>2 DEF DeliverWaited, MainLoopOK
    <3>2. UNCHANGED <<mlq, msgq, ncq, hotVars, lastVatId>>
      BY <1>5 DEF DeliverWaited
    <3>3. hpq' \in Seq(Vats) /\ MainLoopOK' /\ VatStateOK'
      BY <3>1, <3>2, DeliverType
    <3> QED BY <1>0, <3>2, <3>3, <1>a DEF ChannelsOK, HotplatesOK
  <2> QED BY <2>1, <2>2
<1>6. CASE DrainVat
  <2>1. Head(mlq) \in Vats /\ Tail(mlq) \in Seq(Vats)
    BY <1>0, <1>6, HeadTailProperties DEF DrainVat, ChannelsOK
  <2>2. hpq' \in Seq(Vats) /\ MainLoopOK' /\ VatStateOK'
    <3>1. Deliver(Head(mlq), "drain") /\ UNCHANGED <<waited, lastVatId>>
      BY <1>6 DEF DrainVat
    <3>2. waited' \in Vats \cup {NoVat}
      BY <3>1, <1>0 DEF MainLoopOK
    <3> QED BY <2>1, <3>1, <3>2, DeliverType
  <2> QED BY <1>0, <1>6, <2>1, <2>2, <1>a DEF DrainVat, ChannelsOK, HotplatesOK
<1>7. ASSUME NEW h \in Hotplates, Hotplate(h) PROVE TypeOK'
  <2>1. CASE HotplateTake(h)
    <3>1. Head(hpq) \in Vats /\ Tail(hpq) \in Seq(Vats) /\ NoVat \notin Vats
      BY <1>0, <2>1, HeadTailProperties, NullAssumption DEF HotplateTake, ChannelsOK
    <3>2. ChannelsOK' /\ MainLoopOK' /\ VatStateOK'
      BY <1>0, <2>1, <3>1 DEF HotplateTake, ChannelsOK, MainLoopOK, VatStateOK
    <3>3. HotplatesOK'
      BY <1>0, <2>1, <3>1 DEF HotplateTake, HotplatesOK
    <3> QED BY <3>2, <3>3, <1>a
  <2>2. CASE HotplateRun(h)
    <3>1. holding[h] \in Vats /\ inbox[holding[h]] \in Seq(Msgs) /\ inbox[holding[h]] # <<>>
      BY <1>0, <2>2 DEF HotplateRun, HotplatesOK, VatStateOK
    <3>2. Last(inbox[holding[h]]) \in Msgs /\ Front(inbox[holding[h]]) \in Seq(Msgs)
      BY <3>1, LastFront
    <3>3. ChannelsOK' /\ MainLoopOK' /\ VatStateOK'
      BY <1>0, <2>2, <3>1, <3>2 DEF HotplateRun, ChannelsOK, MainLoopOK, VatStateOK
    <3>4. HotplatesOK'
      BY <1>0, <2>2, <3>2, BoundsAssumption, NullAssumption DEF HotplateRun, HotplatesOK
    <3> QED BY <3>3, <3>4, <1>a
  <2>3. CASE HotplateFlush(h)
    <3>1. /\ holding[h] \in Vats
          /\ outbox[holding[h]] \in Seq(Msgs) /\ outbox[holding[h]] # <<>>
      BY <1>0, <2>3 DEF HotplateFlush, HotplatesOK, VatStateOK
    <3>2. /\ Head(outbox[holding[h]]) \in Msgs /\ Tail(outbox[holding[h]]) \in Seq(Msgs)
          /\ Append(msgq, Head(outbox[holding[h]])) \in Seq(Msgs)
      BY <1>0, <3>1, HeadTailProperties, AppendProperties DEF ChannelsOK
    <3> QED BY <1>0, <2>3, <3>1, <3>2, <1>a
        DEF HotplateFlush, ChannelsOK, MainLoopOK, VatStateOK, HotplatesOK
  <2>4. CASE HotplateReturn(h)
    <3>1. holding[h] \in Vats /\ NoVat \notin Vats
      BY <1>0, <2>4, NullAssumption DEF HotplateReturn, HotplatesOK
    <3>2. ChannelsOK' /\ MainLoopOK' /\ VatStateOK'
      BY <1>0, <2>4, <3>1, AppendProperties
      DEF HotplateReturn, ChannelsOK, MainLoopOK, VatStateOK
    <3>3. HotplatesOK'
      BY <1>0, <2>4 DEF HotplateReturn, HotplatesOK
    <3> QED BY <3>2, <3>3, <1>a
  <2>5. CASE HandlerEnd(h)
    <3>1. msgq' \in Seq(Msgs)
      <4>1. msgq' = msgq \/ \E m \in Msgs : msgq' = Append(msgq, m)
        BY <2>5 DEF HandlerEnd
      <4>2. ASSUME NEW m \in Msgs PROVE Append(msgq, m) \in Seq(Msgs)
        BY <1>0, AppendProperties DEF ChannelsOK
      <4> QED BY <1>0, <4>1, <4>2 DEF ChannelsOK
    <3>2. ChannelsOK' /\ MainLoopOK' /\ VatStateOK'
      BY <1>0, <2>5, <3>1 DEF HandlerEnd, ChannelsOK, MainLoopOK, VatStateOK
    <3>3. HotplatesOK'
      BY <1>0, <2>5 DEF HandlerEnd, HotplatesOK
    <3> QED BY <3>2, <3>3, <1>a
  <2>6. CASE HandlerPanic(h)
    <3>1. HotplatesOK'
      BY <1>0, <2>6 DEF HandlerPanic, HotplatesOK
    <3> QED BY <1>0, <2>6, <3>1, <1>a
        DEF HandlerPanic, ChannelsOK, MainLoopOK, VatStateOK
  <2>7. ASSUME NEW m \in Msgs, HandlerSend(h, m) PROVE TypeOK'
    <3>1. ChannelsOK' /\ MainLoopOK' /\ VatStateOK'
      BY <1>0, <2>7, AppendProperties
      DEF HandlerSend, ChannelsOK, MainLoopOK, VatStateOK
    <3>2. HotplatesOK'
      BY <1>0, <2>7, BoundsAssumption DEF HandlerSend, HotplatesOK
    <3> QED BY <3>1, <3>2, <1>a
  <2>8. ASSUME NEW m \in Msgs, HandlerNmup(h, m) PROVE TypeOK'
    <3>1. /\ lastVatId + 1 \in Vats /\ Append(ncq, lastVatId + 1) \in Seq(Vats)
          /\ Append(outbox[NodemanVat], m) \in Seq(Msgs)
      BY <1>0, <2>8, BootVatsAreVats, AppendProperties
      DEF HandlerNmup, ChannelsOK, VatStateOK, Vats
    <3>2. lastVatId' \in FirstFreeVat - 1 .. FirstFreeVat + MaxVats - 1
      BY <2>8, BoundsAssumption DEF HandlerNmup, CreatedVats, FirstFreeVat
    <3>3. ChannelsOK' /\ MainLoopOK' /\ VatStateOK'
      BY <1>0, <2>8, <3>1, <3>2
      DEF HandlerNmup, ChannelsOK, MainLoopOK, VatStateOK
    <3>4. HotplatesOK'
      BY <1>0, <2>8, BoundsAssumption DEF HandlerNmup, HotplatesOK
    <3> QED BY <3>3, <3>4, <1>a
  <2> QED BY <1>7, <2>1, <2>2, <2>3, <2>4, <2>5, <2>6, <2>7, <2>8 DEF Hotplate
<1>8. CASE UNCHANGED vars
  BY <1>0, <1>8, <1>a DEF vars, ChannelsOK, MainLoopOK, VatStateOK, HotplatesOK
<1> QED BY <1>1, <1>2, <1>3, <1>4, <1>5, <1>6, <1>7, <1>8 DEF Next, MainLoop

\* The state of the hosted runtime stays in its types: TypeOK is inductive.
THEOREM TypeCorrect == Spec => []TypeOK
  BY InitType, NextType, PTL DEF Spec

-----------------------------------------------------------------------------
(* Every vat has exactly one owner *)

Disjoint(A, B, C, D, E, F) ==
  /\ A \cap B = {} /\ A \cap C = {} /\ A \cap D = {} /\ A \cap E = {} /\ A \cap F = {}
  /\ B \cap C = {} /\ B \cap D = {} /\ B \cap E = {} /\ B \cap F = {}
  /\ C \cap D = {} /\ C \cap E = {} /\ C \cap F = {}
  /\ D \cap E = {} /\ D \cap F = {} /\ E \cap F = {}

InHand == {waited} \ {NoVat}
Everywhere == ToSet(mlq) \cup ToSet(hpq) \cup ToSet(ncq) \cup sleeping \cup InHand \cup Held

HoldersDiffer ==
  \A g, h \in Hotplates : g # h /\ holding[g] # NoVat => holding[g] # holding[h]

\* The inductive invariant: VatsOwnedOnce and VatsKept, and what they need.  A
\* vat that nodeman is about to create has no owner yet, and the main loop has
\* nothing in its hand when it is about to take a vat there.
OwnInv ==
  /\ IsInjective(mlq) /\ IsInjective(hpq) /\ IsInjective(ncq)
  /\ HoldersDiffer
  /\ Disjoint(ToSet(mlq), ToSet(hpq), ToSet(ncq), sleeping, InHand, Held)
  /\ Everywhere \subseteq Existing
  /\ Live => Existing \subseteq Everywhere
  /\ mlpc \in {"select", "drain"} => waited = NoVat

LEMMA PlacesUnfolded ==
  /\ (\A i, j \in DOMAIN Places : i # j => Places[i] \cap Places[j] = {})
       <=> Disjoint(ToSet(mlq), ToSet(hpq), ToSet(ncq), sleeping, InHand, Held)
  /\ UNION {Places[i] : i \in DOMAIN Places} = Everywhere
<1>1. DOMAIN Places = 1 .. 6
  BY DEF Places
<1>2. /\ Places[1] = ToSet(mlq) /\ Places[2] = ToSet(hpq) /\ Places[3] = ToSet(ncq)
      /\ Places[4] = sleeping /\ Places[5] = InHand /\ Places[6] = Held
  BY DEF Places, InHand
<1>3. ASSUME NEW i \in 1 .. 6 PROVE i \in {1, 2, 3, 4, 5, 6}
  OBVIOUS
<1> HIDE DEF Places
<1>4. (\A i, j \in DOMAIN Places : i # j => Places[i] \cap Places[j] = {})
       <=> Disjoint(Places[1], Places[2], Places[3], Places[4], Places[5], Places[6])
  <2>1. ASSUME Disjoint(Places[1], Places[2], Places[3], Places[4], Places[5], Places[6]),
               NEW i \in 1 .. 6, NEW j \in 1 .. 6, i # j
        PROVE  Places[i] \cap Places[j] = {}
    <3> USE <2>1 DEF Disjoint
    <3>1. CASE i = 1 BY <3>1, <1>3
    <3>2. CASE i = 2 BY <3>2, <1>3
    <3>3. CASE i = 3 BY <3>3, <1>3
    <3>4. CASE i = 4 BY <3>4, <1>3
    <3>5. CASE i = 5 BY <3>5, <1>3
    <3>6. CASE i = 6 BY <3>6, <1>3
    <3> QED BY <3>1, <3>2, <3>3, <3>4, <3>5, <3>6, <1>3
  <2>2. ASSUME \A i, j \in 1 .. 6 : i # j => Places[i] \cap Places[j] = {}
        PROVE  Disjoint(Places[1], Places[2], Places[3], Places[4], Places[5], Places[6])
    BY <2>2 DEF Disjoint
  <2> QED BY <1>1, <2>1, <2>2
<1>5. UNION {Places[i] : i \in 1 .. 6} =
        Places[1] \cup Places[2] \cup Places[3] \cup Places[4] \cup Places[5] \cup Places[6]
  BY <1>3
<1> QED BY <1>1, <1>2, <1>4, <1>5 DEF Everywhere

LEMMA OwnInvSuffices == OwnInv => VatsOwnedOnce /\ VatsKept
  BY PlacesUnfolded DEF OwnInv, VatsOwnedOnce, VatsKept, HoldersDiffer

LEMMA InitOwn == Init => OwnInv
<1> SUFFICES ASSUME Init PROVE OwnInv OBVIOUS
<1>1. /\ mlq = <<NodemanVat, MonadVat>> /\ hpq = <<>> /\ ncq = <<>> /\ sleeping = {}
      /\ waited = NoVat /\ lastVatId = FirstFreeVat - 1 /\ mlpc = "select"
      /\ \A h \in Hotplates : holding[h] = NoVat
  BY DEF Init
<1>2. ToSet(mlq) = BootVats /\ ToSet(hpq) = {} /\ ToSet(ncq) = {}
  BY <1>1 DEF ToSet, BootVats
<1>3. Held = {} /\ InHand = {} /\ HoldersDiffer
  BY <1>1 DEF Held, InHand, HoldersDiffer
<1>4. Existing = BootVats
  BY <1>1 DEF Existing, FirstFreeVat
<1>5. IsInjective(mlq) /\ IsInjective(hpq) /\ IsInjective(ncq)
  BY <1>1 DEF IsInjective, NodemanVat, MonadVat
<1> QED BY <1>1, <1>2, <1>3, <1>4, <1>5 DEF OwnInv, Disjoint, Everywhere

LEMMA SameHolders ==
  ASSUME UNCHANGED holding
  PROVE  Held' = Held /\ (HoldersDiffer => HoldersDiffer')
  BY DEF Held, HoldersDiffer

LEMMA TriageOwn ==
  ASSUME TypeOK, OwnInv, mlpc \in {"select", "triage"}, NEW m \in Msgs, Triage(m),
         UNCHANGED <<mlq, ncq, waited, holding, lastVatId>>
  PROVE  OwnInv'
<1>1. hpq \in Seq(Vats) /\ Dst[m] \in Vats /\ sleeping \subseteq Vats
  BY MessageAssumption DEF TypeOK
<1>2. /\ ToSet(mlq)' = ToSet(mlq) /\ ToSet(ncq)' = ToSet(ncq)
      /\ InHand' = InHand /\ Held' = Held /\ Existing' = Existing
      /\ (IsInjective(mlq) /\ IsInjective(ncq) /\ HoldersDiffer)'
  BY SameHolders DEF OwnInv, InHand, Existing
<1>3. Live /\ mlpc' \notin {"select", "drain"}
  BY DEF Live, Triage
<1>4. CASE Dst[m] \in sleeping
  <2>1. hpq' = Append(hpq, Dst[m]) /\ sleeping' = sleeping \ {Dst[m]}
    BY <1>4 DEF Triage
  <2>2. Dst[m] \notin ToSet(hpq)
    BY <1>4 DEF OwnInv, Disjoint
  <2>3. ToSet(hpq)' = ToSet(hpq) \cup {Dst[m]} /\ IsInjective(hpq)'
    BY <1>1, <2>1, <2>2, AppendElements DEF OwnInv
  <2> QED
    BY <1>2, <1>3, <1>4, <2>1, <2>3 DEF OwnInv, Disjoint, Everywhere
<1>5. CASE Dst[m] \notin sleeping
  <2>1. hpq' = hpq /\ sleeping' = sleeping
    BY <1>5 DEF Triage
  <2>2. ToSet(hpq)' = ToSet(hpq) /\ IsInjective(hpq)'
    BY <2>1 DEF OwnInv
  <2> QED BY <1>2, <1>3, <2>1, <2>2 DEF OwnInv, Disjoint, Everywhere
<1> QED BY <1>4, <1>5

\* deliver_mail moves a vat that the main loop has in its hand, or took from
\* its channel, into the box of sleepers or to the hotplates.
LEMMA DeliverOwn ==
  ASSUME TypeOK, OwnInv, Live, NEW v \in Vats, Deliver(v, "drain"),
         UNCHANGED <<ncq, holding, lastVatId>>, waited' = NoVat,
         v \notin ToSet(hpq), v \notin ToSet(mlq'), IsInjective(mlq'),
         \/ ToSet(mlq) = ToSet(mlq') \cup {v} /\ InHand = {}
         \/ ToSet(mlq) = ToSet(mlq') /\ InHand = {v}
  PROVE  OwnInv'
<1>1. hpq \in Seq(Vats)
  BY DEF TypeOK
<1>2. /\ ToSet(ncq)' = ToSet(ncq) /\ InHand' = {}
      /\ Held' = Held /\ Existing' = Existing
      /\ (IsInjective(mlq) /\ IsInjective(ncq) /\ HoldersDiffer)'
  BY SameHolders DEF OwnInv, InHand, Existing
<1>3. ToSet(mlq') = ToSet(mlq)'
  OBVIOUS
<1>4. CASE v \notin DOMAIN inboxes
  <2>1. hpq' = hpq /\ sleeping' = sleeping /\ ~Live'
    BY <1>4 DEF Deliver, Live
  <2>2. ToSet(hpq)' = ToSet(hpq) /\ IsInjective(hpq)' /\ mlpc' = "panicked"
    BY <1>4, <2>1 DEF OwnInv, Deliver
  <2> QED BY <1>2, <1>3, <2>1, <2>2 DEF OwnInv, Disjoint, Everywhere
<1>5. CASE v \in DOMAIN inboxes /\ inboxes[v] = <<>>
  <2>1. hpq' = hpq /\ sleeping' = sleeping \cup {v} /\ mlpc' = "drain"
    BY <1>5 DEF Deliver
  <2>2. ToSet(hpq)' = ToSet(hpq) /\ IsInjective(hpq)'
    BY <2>1 DEF OwnInv
  <2> QED BY <1>2, <1>3, <2>1, <2>2 DEF OwnInv, Disjoint, Everywhere
<1>6. CASE v \in DOMAIN inboxes /\ inboxes[v] # <<>>
  <2>1. hpq' = Append(hpq, v) /\ sleeping' = sleeping /\ mlpc' = "drain"
    BY <1>6 DEF Deliver
  <2>2. ToSet(hpq)' = ToSet(hpq) \cup {v} /\ IsInjective(hpq)'
    BY <1>1, <2>1, AppendElements DEF OwnInv
  <2> QED BY <1>2, <1>3, <2>1, <2>2 DEF OwnInv, Disjoint, Everywhere
<1> QED BY <1>4, <1>5, <1>6

LEMMA NextOwn == TypeOK /\ OwnInv /\ [Next]_vars => OwnInv'
<1> SUFFICES ASSUME TypeOK, OwnInv, [Next]_vars PROVE OwnInv'
  OBVIOUS
<1> USE DEF channels, mainVars, vatVars, hotVars
<1>0. /\ mlq \in Seq(Vats) /\ hpq \in Seq(Vats) /\ ncq \in Seq(Vats) /\ msgq \in Seq(Msgs)
      /\ sleeping \subseteq Vats /\ waited \in Vats \cup {NoVat}
      /\ holding \in [Hotplates -> Vats \cup {NoVat}]
      /\ NoVat \notin Vats
  BY NullAssumption DEF TypeOK
<1>1. CASE SelectVat
  <2>1. /\ mlq' = Tail(mlq) /\ waited' = Head(mlq) /\ mlpc' = "triage" /\ Live /\ waited = NoVat
        /\ UNCHANGED <<hpq, ncq, sleeping, holding, lastVatId>>
    BY <1>1 DEF SelectVat, OwnInv, Live
  <2>2. /\ ToSet(mlq) = ToSet(mlq)' \cup {Head(mlq)} /\ IsInjective(mlq)'
        /\ Head(mlq) \notin ToSet(mlq)' /\ Head(mlq) \in Vats
    BY <1>0, <1>1, <2>1, TailElements, HeadTailProperties DEF SelectVat, OwnInv
  <2>3. /\ ToSet(hpq)' = ToSet(hpq) /\ ToSet(ncq)' = ToSet(ncq) /\ Held' = Held
        /\ Existing' = Existing /\ InHand' = {Head(mlq)} /\ InHand = {}
        /\ (IsInjective(hpq) /\ IsInjective(ncq) /\ HoldersDiffer)'
    BY <1>0, <2>1, <2>2, SameHolders DEF OwnInv, InHand, Existing
  <2> QED BY <2>1, <2>2, <2>3 DEF OwnInv, Disjoint, Everywhere
<1>2. CASE SelectMsg \/ DrainMsg
  <2>1. Head(msgq) \in Msgs
    BY <1>0, <1>2, HeadTailProperties DEF SelectMsg, DrainMsg
  <2> QED BY <1>2, <2>1, TriageOwn DEF SelectMsg, DrainMsg
<1>3. CASE SelectCreateVat
  <2>1. /\ ncq' = Tail(ncq) /\ sleeping' = sleeping \cup {Head(ncq)} /\ mlpc' = "triage" /\ Live
        /\ UNCHANGED <<mlq, hpq, waited, holding, lastVatId>>
    BY <1>3 DEF SelectCreateVat, Live
  <2>2. /\ ToSet(ncq) = ToSet(ncq)' \cup {Head(ncq)} /\ IsInjective(ncq)'
        /\ Head(ncq) \notin ToSet(ncq)'
    BY <1>0, <1>3, <2>1, TailElements DEF SelectCreateVat, OwnInv
  <2>3. /\ ToSet(hpq)' = ToSet(hpq) /\ ToSet(mlq)' = ToSet(mlq) /\ Held' = Held
        /\ Existing' = Existing /\ InHand' = InHand
        /\ (IsInjective(hpq) /\ IsInjective(mlq) /\ HoldersDiffer)'
    BY <2>1, SameHolders DEF OwnInv, InHand, Existing
  <2> QED BY <2>1, <2>2, <2>3 DEF OwnInv, Disjoint, Everywhere
<1>4. CASE MsgsDrained
  <2>1. UNCHANGED <<mlq, hpq, ncq, sleeping, waited, holding, lastVatId>> /\ mlpc' = "deliver" /\ Live
    BY <1>4 DEF MsgsDrained, Live
  <2> QED BY <2>1, SameHolders DEF OwnInv, InHand, Existing, Everywhere
<1>5. CASE VatsDrained
  <2>1. /\ UNCHANGED <<mlq, hpq, ncq, sleeping, waited, holding, lastVatId>>
        /\ mlpc' = "select" /\ Live /\ waited = NoVat
    BY <1>5 DEF VatsDrained, Live, OwnInv
  <2> QED BY <2>1, SameHolders DEF OwnInv, InHand, Existing, Everywhere
<1>6. CASE DeliverWaited
  <2>1. CASE waited = NoVat
    <3>1. /\ UNCHANGED <<mlq, hpq, ncq, sleeping, waited, holding, lastVatId>>
          /\ mlpc' = "drain" /\ Live
      BY <1>6, <2>1 DEF DeliverWaited, Live
    <3> QED BY <2>1, <3>1, SameHolders DEF OwnInv, InHand, Existing, Everywhere
  <2>2. CASE waited # NoVat
    <3>1. /\ waited \in Vats /\ Deliver(waited, "drain") /\ waited' = NoVat /\ Live
          /\ UNCHANGED <<mlq, ncq, holding, lastVatId>> /\ InHand = {waited}
      BY <1>0, <1>6, <2>2 DEF DeliverWaited, Live, InHand
    <3>2. waited \notin ToSet(hpq) /\ waited \notin ToSet(mlq)
      BY <3>1 DEF OwnInv, Disjoint
    <3>3. mlq' = mlq /\ IsInjective(mlq)
      BY <3>1 DEF OwnInv
    <3> QED BY <3>1, <3>2, <3>3, DeliverOwn
  <2> QED BY <2>1, <2>2
<1>7. CASE DrainVat
  <2>1. /\ mlq # <<>> /\ mlq' = Tail(mlq) /\ Deliver(Head(mlq), "drain") /\ Live
        /\ waited' = NoVat /\ InHand = {} /\ UNCHANGED <<ncq, holding, lastVatId>>
    BY <1>7 DEF DrainVat, OwnInv, Live, InHand
  <2>2. /\ ToSet(mlq) = ToSet(Tail(mlq)) \cup {Head(mlq)} /\ IsInjective(Tail(mlq))
        /\ Head(mlq) \notin ToSet(Tail(mlq)) /\ Head(mlq) \in Vats
    BY <1>0, <2>1, TailElements, HeadTailProperties DEF OwnInv
  <2>3. Head(mlq) \notin ToSet(hpq)
    BY <2>2 DEF OwnInv, Disjoint
  <2> QED BY <2>1, <2>2, <2>3, DeliverOwn
<1>8. ASSUME NEW h \in Hotplates, Hotplate(h) PROVE OwnInv'
  <2>1. CASE HotplateTake(h)
    <3>1. /\ hpq # <<>> /\ hpq' = Tail(hpq) /\ holding' = [holding EXCEPT ![h] = Head(hpq)]
          /\ UNCHANGED <<mlq, ncq, sleeping, mlpc, waited, lastVatId>>
          /\ holding[h] = NoVat
      BY <2>1 DEF HotplateTake, TypeOK
    <3>2. /\ ToSet(hpq) = ToSet(hpq)' \cup {Head(hpq)} /\ IsInjective(hpq)'
          /\ Head(hpq) \notin ToSet(hpq)' /\ Head(hpq) \in Vats
      BY <1>0, <3>1, TailElements, HeadTailProperties DEF OwnInv
    <3>3. Head(hpq) \notin Held
      BY <3>2 DEF OwnInv, Disjoint
    <3>4. Held' = Held \cup {Head(hpq)}
      <4>1. \A g \in Hotplates : holding'[g] = IF g = h THEN Head(hpq) ELSE holding[g]
        BY <1>0, <3>1
      <4>2. Head(hpq) # NoVat
        BY <1>0, <3>2
      <4> QED BY <4>1, <4>2, <3>1 DEF Held
    <3>5. HoldersDiffer'
      BY <1>0, <3>1, <3>3 DEF OwnInv, HoldersDiffer, Held
    <3>6. /\ ToSet(mlq)' = ToSet(mlq) /\ ToSet(ncq)' = ToSet(ncq) /\ InHand' = InHand
          /\ Existing' = Existing /\ (Live' <=> Live)
          /\ (IsInjective(mlq) /\ IsInjective(ncq))'
      BY <3>1 DEF OwnInv, InHand, Existing, Live
    <3> QED BY <3>1, <3>2, <3>4, <3>5, <3>6 DEF OwnInv, Disjoint, Everywhere
  <2>2. CASE HotplateReturn(h)
    <3>1. /\ mlq' = Append(mlq, holding[h]) /\ holding' = [holding EXCEPT ![h] = NoVat]
          /\ UNCHANGED <<hpq, ncq, sleeping, mlpc, waited, lastVatId>>
          /\ holding[h] \in Vats /\ holding[h] \in Held
      BY <1>0, <2>2 DEF HotplateReturn, TypeOK, Held
    <3>2. holding[h] \notin ToSet(mlq)
      BY <3>1 DEF OwnInv, Disjoint
    <3>3. ToSet(mlq)' = ToSet(mlq) \cup {holding[h]} /\ IsInjective(mlq)'
      BY <1>0, <3>1, <3>2, AppendElements DEF OwnInv
    <3>4. Held' = Held \ {holding[h]}
      <4>1. \A g \in Hotplates : holding'[g] = IF g = h THEN NoVat ELSE holding[g]
        BY <1>0, <3>1
      <4>2. \A g \in Hotplates : g # h => holding[g] # holding[h]
        BY <1>0, <3>1 DEF OwnInv, HoldersDiffer
      <4> QED BY <4>1, <4>2 DEF Held
    <3>5. HoldersDiffer'
      BY <1>0, <3>1 DEF OwnInv, HoldersDiffer
    <3>6. /\ ToSet(hpq)' = ToSet(hpq) /\ ToSet(ncq)' = ToSet(ncq) /\ InHand' = InHand
          /\ Existing' = Existing /\ (Live' <=> Live)
          /\ (IsInjective(hpq) /\ IsInjective(ncq))'
      BY <3>1 DEF OwnInv, InHand, Existing, Live
    <3> QED BY <3>1, <3>2, <3>3, <3>4, <3>5, <3>6 DEF OwnInv, Disjoint, Everywhere
  <2>3. ASSUME NEW m \in Msgs, HandlerNmup(h, m) PROVE OwnInv'
    <3>1. /\ ncq' = Append(ncq, lastVatId + 1) /\ lastVatId' = lastVatId + 1
          /\ lastVatId + 1 \in Vats
          /\ UNCHANGED <<mlq, hpq, sleeping, mlpc, waited, holding>>
      BY <2>3 DEF HandlerNmup, Vats
    <3>2. /\ lastVatId \in Int /\ lastVatId >= FirstFreeVat - 1
      BY BoundsAssumption DEF TypeOK, FirstFreeVat
    <3>3. Existing' = Existing \cup {lastVatId + 1} /\ lastVatId + 1 \notin Existing
      BY <3>1, <3>2 DEF Existing, FirstFreeVat, BootVats, NodemanVat, MonadVat
    <3>4. lastVatId + 1 \notin Everywhere
      BY <3>3 DEF OwnInv
    <3>5. ToSet(ncq)' = ToSet(ncq) \cup {lastVatId + 1} /\ IsInjective(ncq)'
      BY <1>0, <3>1, <3>4, AppendElements DEF OwnInv, Everywhere
    <3>6. /\ ToSet(hpq)' = ToSet(hpq) /\ ToSet(mlq)' = ToSet(mlq) /\ InHand' = InHand
          /\ Held' = Held /\ (Live' <=> Live)
          /\ (IsInjective(hpq) /\ IsInjective(mlq) /\ HoldersDiffer)'
      BY <3>1, SameHolders DEF OwnInv, InHand, Live
    <3> QED BY <3>1, <3>3, <3>4, <3>5, <3>6 DEF OwnInv, Disjoint, Everywhere
  <2>4. CASE \/ HotplateRun(h) \/ HotplateFlush(h) \/ HandlerEnd(h) \/ HandlerPanic(h)
             \/ \E m \in Msgs : HandlerSend(h, m)
    <3>1. UNCHANGED <<mlq, hpq, ncq, sleeping, mlpc, waited, holding, lastVatId>>
      BY <2>4 DEF HotplateRun, HotplateFlush, HandlerEnd, HandlerPanic, HandlerSend
    <3> QED BY <3>1, SameHolders DEF OwnInv, InHand, Existing, Everywhere, Live
  <2> QED BY <1>8, <2>1, <2>2, <2>3, <2>4 DEF Hotplate
<1>9. CASE UNCHANGED vars
  <2>1. UNCHANGED <<mlq, hpq, ncq, sleeping, mlpc, waited, holding, lastVatId>>
    BY <1>9 DEF vars
  <2> QED BY <2>1, SameHolders DEF OwnInv, InHand, Existing, Everywhere, Live
<1> QED BY <1>1, <1>2, <1>3, <1>4, <1>5, <1>6, <1>7, <1>8, <1>9 DEF Next, MainLoop

\* No vat is ever in two places, so no two hotplates run the same vat.
THEOREM OneOwner == Spec => []VatsOwnedOnce
<1>1. Init => TypeOK /\ OwnInv
  BY InitType, InitOwn
<1>2. TypeOK /\ OwnInv /\ [Next]_vars => (TypeOK /\ OwnInv)'
  BY NextType, NextOwn
<1>3. OwnInv => VatsOwnedOnce
  BY OwnInvSuffices
<1> QED BY <1>1, <1>2, <1>3, PTL DEF Spec

\* No vat that was made is ever lost while the process is up.
THEOREM NoVatLost == Spec => []VatsKept
<1>1. Init => TypeOK /\ OwnInv
  BY InitType, InitOwn
<1>2. TypeOK /\ OwnInv /\ [Next]_vars => (TypeOK /\ OwnInv)'
  BY NextType, NextOwn
<1>3. OwnInv => VatsKept
  BY OwnInvSuffices
<1> QED BY <1>1, <1>2, <1>3, PTL DEF Spec

-----------------------------------------------------------------------------
(* No lost wakeup *)

\* NoLostWakeup is inductive once it is known that a vat with a mailbox is
\* never inside a CreateVat message: then a vat that is neither asleep nor on
\* the belt does not exist.
OnBelt == ToSet(mlq) \cup ToSet(hpq) \cup Held \cup {waited}
MailInv ==
  /\ \A v \in DOMAIN inboxes : inboxes[v] # <<>> => v \in OnBelt
  /\ ToSet(ncq) \subseteq CreatedVats

LEMMA InitMail == Init => MailInv
  BY DEF Init, MailInv, ToSet

LEMMA TriageMail ==
  ASSUME TypeOK, OwnInv, MailInv, Live, NEW m \in Msgs, Triage(m),
         UNCHANGED <<mlq, ncq, waited, holding, lastVatId>>
  PROVE  MailInv'
<1>1. hpq \in Seq(Vats) /\ Dst[m] \in Vats
  BY MessageAssumption DEF TypeOK
<1>2. /\ ToSet(mlq)' = ToSet(mlq) /\ ToSet(ncq)' = ToSet(ncq) /\ Held' = Held
  BY SameHolders
<1>3. ToSet(hpq) \subseteq ToSet(hpq)' /\ (Dst[m] \in sleeping => Dst[m] \in ToSet(hpq)')
  BY <1>1, AppendElements DEF Triage
<1>4. OnBelt \subseteq OnBelt' /\ (Dst[m] \in sleeping => Dst[m] \in OnBelt')
  BY <1>2, <1>3 DEF OnBelt
<1>5. CASE Dst[m] \notin DOMAIN inboxes
  BY <1>2, <1>4, <1>5 DEF Triage, MailInv
<1>6. CASE Dst[m] \in DOMAIN inboxes
  <2>1. Dst[m] \in BootVats
    BY <1>1, <1>6, BootVatsAreVats DEF TypeOK
  <2>2. Dst[m] \notin ToSet(ncq)
    BY <2>1 DEF MailInv, BootVats, CreatedVats, NodemanVat, MonadVat, FirstFreeVat
  <2>3. Dst[m] \in Everywhere
    BY <2>1 DEF OwnInv, Existing
  <2>4. Dst[m] \in OnBelt'
    BY <1>4, <2>2, <2>3 DEF Everywhere, InHand, OnBelt
  <2>5. /\ DOMAIN inboxes' = DOMAIN inboxes
        /\ \A v \in DOMAIN inboxes : v # Dst[m] => inboxes'[v] = inboxes[v]
    BY <1>6 DEF Triage
  <2> QED BY <1>2, <1>4, <2>4, <2>5 DEF MailInv
<1> QED BY <1>5, <1>6

LEMMA DeliverMail ==
  ASSUME TypeOK, MailInv, NEW v \in Vats, Deliver(v, "drain"), UNCHANGED <<ncq, holding>>,
         OnBelt \subseteq ToSet(mlq)' \cup ToSet(hpq) \cup Held \cup {waited'} \cup {v}
  PROVE  MailInv'
<1>1. hpq \in Seq(Vats) /\ ToSet(ncq)' = ToSet(ncq) /\ Held' = Held
  BY SameHolders DEF TypeOK
<1>2. CASE v \notin DOMAIN inboxes
  <2>1. hpq' = hpq /\ inboxes' = inboxes
    BY <1>2 DEF Deliver
  <2> QED BY <1>1, <1>2, <2>1 DEF MailInv, OnBelt
<1>3. CASE v \in DOMAIN inboxes /\ inboxes[v] = <<>>
  <2>1. hpq' = hpq /\ inboxes' = inboxes
    BY <1>3 DEF Deliver
  <2> QED BY <1>1, <1>3, <2>1 DEF MailInv, OnBelt
<1>4. CASE v \in DOMAIN inboxes /\ inboxes[v] # <<>>
  <2>1. hpq' = Append(hpq, v) /\ inboxes' = [inboxes EXCEPT ![v] = outbox[v]]
    BY <1>4 DEF Deliver
  <2>2. ToSet(hpq)' = ToSet(hpq) \cup {v}
    BY <1>1, <2>1, AppendElements
  <2>3. /\ DOMAIN inboxes' = DOMAIN inboxes
        /\ \A w \in DOMAIN inboxes : w # v => inboxes'[w] = inboxes[w]
    BY <2>1
  <2> QED BY <1>1, <2>2, <2>3 DEF MailInv, OnBelt
<1> QED BY <1>2, <1>3, <1>4

LEMMA NextMail == TypeOK /\ OwnInv /\ MailInv /\ [Next]_vars => MailInv'
<1> SUFFICES ASSUME TypeOK, OwnInv, MailInv, [Next]_vars PROVE MailInv'
  OBVIOUS
<1> USE DEF channels, mainVars, vatVars, hotVars
<1>0. /\ mlq \in Seq(Vats) /\ hpq \in Seq(Vats) /\ ncq \in Seq(Vats) /\ msgq \in Seq(Msgs)
      /\ holding \in [Hotplates -> Vats \cup {NoVat}] /\ waited \in Vats \cup {NoVat}
  BY DEF TypeOK
<1>1. CASE SelectVat
  <2>1. /\ mlq # <<>> /\ mlq' = Tail(mlq) /\ waited' = Head(mlq) /\ waited = NoVat
        /\ UNCHANGED <<hpq, ncq, inboxes, holding>>
    BY <1>1 DEF SelectVat, OwnInv
  <2>2. ToSet(mlq) = ToSet(mlq)' \cup {Head(mlq)}
    BY <1>0, <2>1, TailElements
  <2>3. \A v \in DOMAIN inboxes : v # NoVat
    BY NullAssumption, BootVatsAreVats DEF TypeOK
  <2> QED BY <2>1, <2>2, <2>3, SameHolders DEF MailInv, OnBelt
<1>2. CASE SelectMsg \/ DrainMsg
  <2>1. Head(msgq) \in Msgs /\ Live
    BY <1>0, <1>2, HeadTailProperties DEF SelectMsg, DrainMsg, Live
  <2> QED BY <1>2, <2>1, TriageMail DEF SelectMsg, DrainMsg
<1>3. CASE SelectCreateVat
  <2>1. ToSet(ncq) = ToSet(ncq)' \cup {Head(ncq)}
    BY <1>0, <1>3, TailElements DEF SelectCreateVat
  <2>2. OnBelt' = OnBelt
    BY <1>3, SameHolders DEF SelectCreateVat, OnBelt
  <2> QED BY <1>3, <2>1, <2>2 DEF SelectCreateVat, MailInv
<1>4. CASE MsgsDrained \/ VatsDrained
  BY <1>4, SameHolders DEF MsgsDrained, VatsDrained, MailInv, OnBelt
<1>5. CASE DeliverWaited
  <2>1. CASE waited = NoVat
    BY <1>5, <2>1, SameHolders DEF DeliverWaited, MailInv, OnBelt
  <2>2. CASE waited # NoVat
    BY <1>0, <1>5, <2>2, DeliverMail DEF DeliverWaited, OnBelt
  <2> QED BY <2>1, <2>2
<1>6. CASE DrainVat
  <2>1. ToSet(mlq) = ToSet(Tail(mlq)) \cup {Head(mlq)} /\ Head(mlq) \in Vats
    BY <1>0, <1>6, TailElements, HeadTailProperties DEF DrainVat
  <2> QED BY <1>6, <2>1, DeliverMail DEF DrainVat, OnBelt
<1>7. ASSUME NEW h \in Hotplates, Hotplate(h) PROVE MailInv'
  <2>1. CASE HotplateTake(h)
    <3>1. /\ hpq # <<>> /\ hpq' = Tail(hpq) /\ holding' = [holding EXCEPT ![h] = Head(hpq)]
          /\ UNCHANGED <<mlq, ncq, waited, inboxes>> /\ holding[h] = NoVat
      BY <2>1 DEF HotplateTake, TypeOK
    <3>2. ToSet(hpq) = ToSet(hpq)' \cup {Head(hpq)} /\ Head(hpq) # NoVat
      BY <1>0, <3>1, TailElements, HeadTailProperties, NullAssumption
    <3>3. Held \cup {Head(hpq)} \subseteq Held'
      BY <1>0, <3>1, <3>2 DEF Held
    <3> QED BY <3>1, <3>2, <3>3 DEF MailInv, OnBelt
  <2>2. CASE HotplateReturn(h)
    <3>1. /\ mlq' = Append(mlq, holding[h]) /\ holding' = [holding EXCEPT ![h] = NoVat]
          /\ UNCHANGED <<hpq, ncq, waited, inboxes>> /\ holding[h] \in Vats
      BY <1>0, <2>2 DEF HotplateReturn, TypeOK
    <3>2. ToSet(mlq)' = ToSet(mlq) \cup {holding[h]}
      BY <1>0, <3>1, AppendElements
    <3>3. Held \ {holding[h]} \subseteq Held'
      BY <1>0, <3>1 DEF Held
    <3> QED BY <3>1, <3>2, <3>3 DEF MailInv, OnBelt
  <2>3. ASSUME NEW m \in Msgs, HandlerNmup(h, m) PROVE MailInv'
    <3>1. ToSet(ncq)' = ToSet(ncq) \cup {lastVatId + 1} /\ lastVatId + 1 \in CreatedVats
      BY <1>0, <2>3, AppendElements DEF HandlerNmup, Vats
    <3>2. OnBelt' = OnBelt /\ inboxes' = inboxes
      BY <2>3, SameHolders DEF HandlerNmup, OnBelt
    <3> QED BY <3>1, <3>2 DEF MailInv
  <2>4. CASE \/ HotplateRun(h) \/ HotplateFlush(h) \/ HandlerEnd(h) \/ HandlerPanic(h)
             \/ \E m \in Msgs : HandlerSend(h, m)
    <3>1. UNCHANGED <<mlq, hpq, ncq, waited, holding, inboxes>>
      BY <2>4 DEF HotplateRun, HotplateFlush, HandlerEnd, HandlerPanic, HandlerSend
    <3> QED BY <3>1, SameHolders DEF MailInv, OnBelt
  <2> QED BY <1>7, <2>1, <2>2, <2>3, <2>4 DEF Hotplate
<1>8. CASE UNCHANGED vars
  BY <1>8, SameHolders DEF vars, MailInv, OnBelt
<1> QED BY <1>1, <1>2, <1>3, <1>4, <1>5, <1>6, <1>7, <1>8 DEF Next, MainLoop

\* Mail never waits for a vat that nothing will bring back to the main loop.
THEOREM NoWakeupIsLost == Spec => []NoLostWakeup
<1>1. Init => TypeOK /\ OwnInv /\ MailInv
  BY InitType, InitOwn, InitMail
<1>2. TypeOK /\ OwnInv /\ MailInv /\ [Next]_vars => (TypeOK /\ OwnInv /\ MailInv)'
  BY NextType, NextOwn, NextMail
<1>3. MailInv => NoLostWakeup
  BY DEF MailInv, OnBelt, NoLostWakeup
<1> QED BY <1>1, <1>2, <1>3, PTL DEF Spec

-----------------------------------------------------------------------------
(* Where mail is *)

LEMMA InitFlushed == Init => MailFlushed
  BY DEF Init, MailFlushed

\* A step that takes no vat from the hotplates and touches none.
LEMMA Flushed ==
  ASSUME MailFlushed, UNCHANGED <<inbox, outbox>>,
         ToSet(hpq) \cup Held \subseteq ToSet(hpq)' \cup Held', Held \subseteq Held'
  PROVE  MailFlushed'
  BY DEF MailFlushed

LEMMA TriageFlushed ==
  ASSUME TypeOK, MailFlushed, NEW m \in Msgs, Triage(m), UNCHANGED <<inbox, outbox, holding>>
  PROVE  MailFlushed'
<1>1. hpq \in Seq(Vats) /\ Dst[m] \in Vats
  BY MessageAssumption DEF TypeOK
<1>2. ToSet(hpq) \subseteq ToSet(hpq)' /\ Held' = Held
  BY <1>1, AppendElements, SameHolders DEF Triage
<1> QED BY <1>2, Flushed

LEMMA DeliverFlushed ==
  ASSUME TypeOK, MailFlushed, NEW v \in Vats, Deliver(v, "drain"), UNCHANGED holding
  PROVE  MailFlushed'
<1>1. hpq \in Seq(Vats) /\ Held' = Held
  BY SameHolders DEF TypeOK
<1>2. CASE v \notin DOMAIN inboxes \/ inboxes[v] = <<>>
  BY <1>1, <1>2, Flushed DEF Deliver, vatVars
<1>3. CASE v \in DOMAIN inboxes /\ inboxes[v] # <<>>
  <2>1. /\ outbox' = [outbox EXCEPT ![v] = <<>>] /\ hpq' = Append(hpq, v)
        /\ inbox' = [inbox EXCEPT ![v] = @ \o inboxes[v]]
    BY <1>3 DEF Deliver
  <2>2. ToSet(hpq)' = ToSet(hpq) \cup {v}
    BY <1>1, <2>1, AppendElements
  <2>3. \A w \in Vats : w # v => inbox'[w] = inbox[w] /\ outbox'[w] = outbox[w]
    BY <2>1 DEF TypeOK
  <2>4. outbox'[v] = <<>>
    BY <2>1 DEF TypeOK
  <2> QED BY <1>1, <2>2, <2>3, <2>4 DEF MailFlushed
<1> QED BY <1>2, <1>3

LEMMA NextFlushed == TypeOK /\ OwnInv /\ MailFlushed /\ [Next]_vars => MailFlushed'
<1> SUFFICES ASSUME TypeOK, OwnInv, MailFlushed, [Next]_vars PROVE MailFlushed'
  OBVIOUS
<1> USE DEF channels, mainVars, vatVars, hotVars
<1>0. /\ mlq \in Seq(Vats) /\ hpq \in Seq(Vats) /\ msgq \in Seq(Msgs)
      /\ holding \in [Hotplates -> Vats \cup {NoVat}] /\ waited \in Vats \cup {NoVat}
      /\ inbox \in [Vats -> Seq(Msgs)] /\ outbox \in [Vats -> Seq(Msgs)]
  BY DEF TypeOK
<1>1. CASE SelectMsg \/ DrainMsg
  <2>1. Head(msgq) \in Msgs
    BY <1>0, <1>1, HeadTailProperties DEF SelectMsg, DrainMsg
  <2> QED BY <1>1, <2>1, TriageFlushed DEF SelectMsg, DrainMsg
<1>2. CASE SelectVat \/ SelectCreateVat \/ MsgsDrained \/ VatsDrained \/ UNCHANGED vars
  <2>1. UNCHANGED <<hpq, holding, inbox, outbox>>
    BY <1>2 DEF SelectVat, SelectCreateVat, MsgsDrained, VatsDrained, vars
  <2> QED BY <2>1, SameHolders, Flushed
<1>3. CASE DeliverWaited
  <2>1. CASE waited = NoVat
    BY <1>3, <2>1, SameHolders, Flushed DEF DeliverWaited
  <2>2. CASE waited # NoVat
    BY <1>0, <1>3, <2>2, DeliverFlushed DEF DeliverWaited
  <2> QED BY <2>1, <2>2
<1>4. CASE DrainVat
  <2>1. Head(mlq) \in Vats
    BY <1>0, <1>4, HeadTailProperties DEF DrainVat
  <2> QED BY <1>4, <2>1, DeliverFlushed DEF DrainVat
<1>5. ASSUME NEW h \in Hotplates, Hotplate(h) PROVE MailFlushed'
  <2>1. CASE HotplateTake(h)
    <3>1. /\ hpq # <<>> /\ hpq' = Tail(hpq) /\ holding' = [holding EXCEPT ![h] = Head(hpq)]
          /\ UNCHANGED <<inbox, outbox>> /\ holding[h] = NoVat
      BY <2>1 DEF HotplateTake, TypeOK
    <3>2. ToSet(hpq) = ToSet(hpq)' \cup {Head(hpq)} /\ Head(hpq) # NoVat
      BY <1>0, <3>1, TailElements, HeadTailProperties, NullAssumption
    <3>3. Held \cup {Head(hpq)} \subseteq Held'
      BY <1>0, <3>1, <3>2 DEF Held
    <3> QED BY <3>1, <3>2, <3>3, Flushed
  <2>2. CASE HotplateReturn(h)
    <3> DEFINE v == holding[h]
    <3>1. /\ holding' = [holding EXCEPT ![h] = NoVat] /\ inbox[v] = <<>> /\ outbox[v] = <<>>
          /\ UNCHANGED <<hpq, inbox, outbox>>
      BY <2>2 DEF HotplateReturn
    <3>2. Held \ {v} \subseteq Held'
      BY <1>0, <3>1 DEF Held
    <3> HIDE DEF v
    <3> QED BY <3>1, <3>2 DEF MailFlushed
  <2>3. CASE HotplateRun(h)
    <3> DEFINE v == holding[h]
    <3>1. /\ inbox' = [inbox EXCEPT ![v] = Front(@)] /\ UNCHANGED <<hpq, outbox, holding>>
          /\ hpc[h] = "hold"
      BY <2>3 DEF HotplateRun
    <3>2. v \in Held /\ Held' = Held
      BY <3>1, SameHolders DEF Held, TypeOK
    <3>3. \A w \in Vats : w # v => inbox'[w] = inbox[w]
      BY <1>0, <3>1
    <3> QED BY <3>1, <3>2, <3>3 DEF MailFlushed
  <2>4. CASE HotplateFlush(h)
    <3> DEFINE v == holding[h]
    <3>1. /\ outbox' = [outbox EXCEPT ![v] = Tail(@)] /\ UNCHANGED <<hpq, inbox, holding>>
          /\ outbox[v] # <<>> /\ hpc[h] = "hold"
      BY <2>4 DEF HotplateFlush
    <3>2. v \in Held /\ Held' = Held
      BY <3>1, SameHolders DEF Held, TypeOK
    <3>3. \A w \in Vats : w # v => outbox'[w] = outbox[w]
      BY <1>0, <3>1
    <3> QED BY <3>1, <3>2, <3>3 DEF MailFlushed
  <2>5. ASSUME NEW m \in Msgs, HandlerNmup(h, m) PROVE MailFlushed'
    <3>1. /\ outbox' = [outbox EXCEPT ![NodemanVat] = Append(@, m)]
          /\ UNCHANGED <<hpq, inbox, holding>> /\ holding[h] = NodemanVat
      BY <2>5 DEF HandlerNmup
    <3>2. NodemanVat \in Held /\ Held' = Held
      BY <3>1, SameHolders, BootVatsAreVats, NullAssumption DEF Held
    <3>3. \A w \in Vats : w # NodemanVat => outbox'[w] = outbox[w]
      BY <1>0, <3>1
    <3> QED BY <3>1, <3>2, <3>3 DEF MailFlushed
  <2>6. CASE HandlerEnd(h) \/ HandlerPanic(h) \/ \E m \in Msgs : HandlerSend(h, m)
    <3>1. UNCHANGED <<hpq, holding, inbox, outbox>>
      BY <2>6 DEF HandlerEnd, HandlerPanic, HandlerSend
    <3> QED BY <3>1, SameHolders, Flushed
  <2> QED BY <1>5, <2>1, <2>2, <2>3, <2>4, <2>5, <2>6 DEF Hotplate
<1> QED BY <1>1, <1>2, <1>3, <1>4, <1>5 DEF Next, MainLoop

\* Batches wait only on the way to a hotplate or there, and a vat leaves it with
\* its outbox sent: so deliver_mail, which would hand a vat its own outbox as
\* mail, always finds that empty (hosted.rs:30-37, 75).
THEOREM MailIsFlushed == Spec => []MailFlushed
<1>1. Init => TypeOK /\ OwnInv /\ MailFlushed
  BY InitType, InitOwn, InitFlushed
<1>2. TypeOK /\ OwnInv /\ MailFlushed /\ [Next]_vars => (TypeOK /\ OwnInv /\ MailFlushed)'
  BY NextType, NextOwn, NextFlushed
<1> QED BY <1>1, <1>2, PTL DEF Spec
-----------------------------------------------------------------------------
(* Whose mail it is *)

\* Mail waits with its addressee.  This is why mailboxes may not be given a
\* vat's outbox, and so it needs MailFlushed.
For(s, v) == \A i \in DOMAIN s : Dst[s[i]] = v
AddressInv ==
  /\ \A v \in DOMAIN inboxes : For(inboxes[v], v)
  /\ \A v \in Vats : For(inbox[v], v)

LEMMA ForSequences ==
  ASSUME NEW s \in Seq(Msgs), NEW t \in Seq(Msgs), NEW m \in Msgs, NEW v, For(s, v)
  PROVE  /\ Dst[m] = v => For(Append(s, m), v)
         /\ For(t, v) => For(s \o t, v)
         /\ s # <<>> => For(Front(s), v)
<1>1. ASSUME Dst[m] = v PROVE For(Append(s, m), v)
  <2>1. /\ DOMAIN Append(s, m) = 1 .. Len(s) + 1 /\ DOMAIN s = 1 .. Len(s) /\ Len(s) \in Nat
        /\ Append(s, m)[Len(s) + 1] = m /\ \A i \in 1 .. Len(s) : Append(s, m)[i] = s[i]
    OBVIOUS
  <2>2. \A i \in DOMAIN Append(s, m) : i \in DOMAIN s \/ i = Len(s) + 1
    BY <2>1
  <2> QED BY <1>1, <2>1, <2>2 DEF For
<1>2. ASSUME For(t, v) PROVE For(s \o t, v)
  <2> SUFFICES ASSUME NEW i \in DOMAIN (s \o t) PROVE Dst[(s \o t)[i]] = v
    BY DEF For
  <2>1. CASE i <= Len(s)
    <3>1. i \in DOMAIN s /\ (s \o t)[i] = s[i]
      BY <2>1
    <3> QED BY <3>1 DEF For
  <2>2. CASE ~ i <= Len(s)
    <3>1. i - Len(s) \in DOMAIN t /\ (s \o t)[i] = t[i - Len(s)]
      BY <2>2
    <3> QED BY <1>2, <3>1 DEF For
  <2> QED BY <2>1, <2>2
<1>3. ASSUME s # <<>> PROVE For(Front(s), v)
  <2>1. \A i \in DOMAIN Front(s) : i \in DOMAIN s /\ Front(s)[i] = s[i]
    BY <1>3 DEF Front
  <2> QED BY <2>1 DEF For
<1> QED BY <1>1, <1>2, <1>3

LEMMA InitAddress == Init => AddressInv
  BY DEF Init, AddressInv, For

LEMMA SameMail ==
  ASSUME AddressInv, UNCHANGED <<inboxes, inbox>>
  PROVE  AddressInv'
  BY DEF AddressInv, For

LEMMA TriageAddress ==
  ASSUME TypeOK, AddressInv, NEW m \in Msgs, Triage(m), UNCHANGED inbox
  PROVE  AddressInv'
<1>1. CASE Dst[m] \notin DOMAIN inboxes
  BY <1>1, SameMail DEF Triage
<1>2. CASE Dst[m] \in DOMAIN inboxes
  <2> DEFINE d == Dst[m]
  <2>1. inboxes' = [inboxes EXCEPT ![d] = Append(@, m)] /\ inbox' = inbox
    BY <1>2 DEF Triage
  <2>2. inboxes[d] \in Seq(Msgs) /\ For(inboxes[d], d)
    BY <1>2 DEF TypeOK, AddressInv
  <2>3. For(Append(inboxes[d], m), d)
    BY <2>2, ForSequences
  <2>4. /\ DOMAIN inboxes' = DOMAIN inboxes /\ inboxes'[d] = Append(inboxes[d], m)
        /\ \A w \in DOMAIN inboxes : w # d => inboxes'[w] = inboxes[w]
    BY <1>2, <2>1
  <2>5. \A w \in DOMAIN inboxes : For(inboxes'[w], w)
    BY <2>3, <2>4 DEF AddressInv
  <2> QED BY <2>1, <2>4, <2>5 DEF AddressInv
<1> QED BY <1>1, <1>2

LEMMA DeliverAddress ==
  ASSUME TypeOK, AddressInv, NEW v \in Vats, outbox[v] = <<>>, Deliver(v, "drain")
  PROVE  AddressInv'
<1>1. CASE v \notin DOMAIN inboxes \/ inboxes[v] = <<>>
  BY <1>1, SameMail DEF Deliver, vatVars
<1>2. CASE v \in DOMAIN inboxes /\ inboxes[v] # <<>>
  <2>1. /\ inboxes' = [inboxes EXCEPT ![v] = <<>>]
        /\ inbox' = [inbox EXCEPT ![v] = @ \o inboxes[v]]
    BY <1>2 DEF Deliver
  <2>2. /\ inbox[v] \in Seq(Msgs) /\ inboxes[v] \in Seq(Msgs)
        /\ For(inbox[v], v) /\ For(inboxes[v], v)
    BY <1>2 DEF TypeOK, AddressInv
  <2>3. For(inbox[v] \o inboxes[v], v)
    <3>1. Seminal \in Msgs
      BY MessageAssumption
    <3> QED BY <2>2, <3>1, ForSequences
  <2>4. For(<<>>, v)
    BY DEF For
  <2>5. \A w \in DOMAIN inboxes' : For(inboxes'[w], w)
    BY <1>2, <2>1, <2>4 DEF AddressInv
  <2>6. \A w \in Vats : For(inbox'[w], w)
    BY <2>1, <2>3 DEF AddressInv, TypeOK
  <2> QED BY <2>5, <2>6 DEF AddressInv
<1> QED BY <1>1, <1>2

LEMMA NextAddress ==
  TypeOK /\ OwnInv /\ MailFlushed /\ AddressInv /\ [Next]_vars => AddressInv'
<1> SUFFICES ASSUME TypeOK, OwnInv, MailFlushed, AddressInv, [Next]_vars PROVE AddressInv'
  OBVIOUS
<1> USE DEF channels, mainVars, vatVars, hotVars
<1>0. /\ mlq \in Seq(Vats) /\ msgq \in Seq(Msgs) /\ waited \in Vats \cup {NoVat}
      /\ holding \in [Hotplates -> Vats \cup {NoVat}] /\ inbox \in [Vats -> Seq(Msgs)]
  BY DEF TypeOK
<1>1. CASE SelectMsg \/ DrainMsg
  <2>1. Head(msgq) \in Msgs
    BY <1>0, <1>1, HeadTailProperties DEF SelectMsg, DrainMsg
  <2> QED BY <1>1, <2>1, TriageAddress DEF SelectMsg, DrainMsg
<1>2. CASE SelectVat \/ MsgsDrained \/ VatsDrained \/ UNCHANGED vars
  <2>1. UNCHANGED <<inboxes, inbox>>
    BY <1>2 DEF SelectVat, MsgsDrained, VatsDrained, vars
  <2> QED BY <2>1, SameMail
<1>3. CASE SelectCreateVat
  <2>1. /\ inbox' = inbox
        /\ inboxes' = [k \in DOMAIN inboxes \cup {CreatedInboxKey} |->
                         IF k = CreatedInboxKey THEN <<>> ELSE inboxes[k]]
    BY <1>3 DEF SelectCreateVat
  <2>2. \A k \in DOMAIN inboxes' : inboxes'[k] = <<>> \/ (k \in DOMAIN inboxes /\ inboxes'[k] = inboxes[k])
    BY <2>1
  <2>3. \A k : For(<<>>, k)
    BY DEF For
  <2>4. \A k \in DOMAIN inboxes' : For(inboxes'[k], k)
    BY <2>2, <2>3 DEF AddressInv
  <2> QED BY <2>1, <2>4 DEF AddressInv
<1>4. CASE DeliverWaited
  <2>1. CASE waited = NoVat
    BY <1>4, <2>1, SameMail DEF DeliverWaited
  <2>2. CASE waited # NoVat
    <3>1. waited \in Vats /\ waited \notin Held
      BY <1>0, <2>2 DEF OwnInv, Disjoint, InHand
    <3>2. outbox[waited] = <<>>
      BY <3>1 DEF MailFlushed
    <3> QED BY <1>4, <2>2, <3>1, <3>2, DeliverAddress DEF DeliverWaited
  <2> QED BY <2>1, <2>2
<1>5. CASE DrainVat
  <2>1. Head(mlq) \in Vats /\ Head(mlq) \in ToSet(mlq)
    BY <1>0, <1>5, HeadTailProperties, TailElements DEF DrainVat
  <2>2. outbox[Head(mlq)] = <<>>
    BY <2>1 DEF OwnInv, Disjoint, MailFlushed
  <2> QED BY <1>5, <2>1, <2>2, DeliverAddress DEF DrainVat
<1>6. ASSUME NEW h \in Hotplates, Hotplate(h) PROVE AddressInv'
  <2>1. CASE HotplateRun(h)
    <3> DEFINE v == holding[h]
    <3>1. inbox' = [inbox EXCEPT ![v] = Front(@)] /\ inboxes' = inboxes /\ inbox[v] # <<>>
          /\ hpc[h] = "hold"
      BY <2>1 DEF HotplateRun
    <3>2. v \in Vats
      BY <1>0, <3>1 DEF TypeOK
    <3>3. inbox[v] \in Seq(Msgs) /\ For(inbox[v], v) /\ Seminal \in Msgs
      BY <1>0, <3>2, MessageAssumption DEF AddressInv
    <3>4. For(Front(inbox[v]), v)
      BY <3>1, <3>3, ForSequences
    <3> HIDE DEF v
    <3> QED BY <1>0, <3>1, <3>2, <3>4 DEF AddressInv
  <2>2. CASE ~ HotplateRun(h)
    <3>1. UNCHANGED <<inboxes, inbox>>
      BY <1>6, <2>2 DEF Hotplate, HotplateTake, HotplateFlush, HotplateReturn, HandlerEnd,
           HandlerPanic, HandlerSend, HandlerNmup
    <3> QED BY <3>1, SameMail
  <2> QED BY <2>1, <2>2
<1> QED BY <1>1, <1>2, <1>3, <1>4, <1>5, <1>6 DEF Next, MainLoop

-----------------------------------------------------------------------------
(* At rest *)

LEMMA RestIsRight ==
  ASSUME TypeOK, OwnInv, MailInv, MailFlushed, AddressInv
  PROVE  RestsOnlyWhenDone
<1> SUFFICES ASSUME Blocked, NEW m \in Waiting PROVE OutOfReach(m)
  BY DEF RestsOnlyWhenDone
<1>1. CASE \A h \in Hotplates : hpc[h] = "dead"
  BY <1>1 DEF OutOfReach
<1>2. CASE ~ \A h \in Hotplates : hpc[h] = "dead"
  <2>1. ToSet(mlq) = {} /\ ToSet(msgq) = {} /\ ToSet(hpq) = {} /\ waited = NoVat
    BY <1>2 DEF Blocked, OwnInv, ToSet
  <2>2. ASSUME NEW v \in Held PROVE v \in Lost
    <3>1. PICK h \in Hotplates : holding[h] = v /\ v # NoVat
      BY DEF Held
    <3>2. hpc[h] = "dead"
      BY <3>1 DEF Blocked, TypeOK
    <3> QED BY <3>1, <3>2 DEF Lost
  <2>3. ASSUME NEW v \in DOMAIN inboxes, m \in ToSet(inboxes[v]) PROVE OutOfReach(m)
    <3>1. Dst[m] = v /\ inboxes[v] # <<>>
      BY <2>3 DEF AddressInv, For, ToSet
    <3>2. v \in Held \cup {NoVat}
      BY <2>1, <3>1 DEF MailInv, OnBelt
    <3>3. v # NoVat
      BY NullAssumption, BootVatsAreVats DEF TypeOK
    <3> QED BY <2>2, <3>1, <3>2, <3>3 DEF OutOfReach
  <2>4. ASSUME NEW v \in Vats, m \in ToSet(inbox[v]) PROVE OutOfReach(m)
    <3>1. Dst[m] = v /\ inbox[v] # <<>>
      BY <2>4 DEF AddressInv, For, ToSet
    <3> QED BY <2>1, <2>2, <3>1 DEF MailFlushed, OutOfReach
  <2>5. ASSUME NEW v \in Vats, m \in ToSet(outbox[v]) PROVE OutOfReach(m)
    <3>1. outbox[v] # <<>>
      BY <2>5 DEF ToSet
    <3> QED BY <2>2, <2>5, <3>1 DEF MailFlushed, OutOfReach
  <2>6. \/ m \in ToSet(msgq)
        \/ \E v \in DOMAIN inboxes : m \in ToSet(inboxes[v])
        \/ \E v \in Vats : m \in ToSet(inbox[v]) \/ m \in ToSet(outbox[v])
    <3> DEFINE mailboxes == UNION {ToSet(inboxes[k]) : k \in DOMAIN inboxes}
               batches == UNION {ToSet(inbox[v]) \cup ToSet(outbox[v]) : v \in Vats}
    <3>1. m \in ToSet(msgq) \cup mailboxes \cup batches
      BY DEF Waiting
    <3>2. m \in mailboxes => \E v \in DOMAIN inboxes : m \in ToSet(inboxes[v])
      OBVIOUS
    <3>3. m \in batches => \E v \in Vats : m \in ToSet(inbox[v]) \/ m \in ToSet(outbox[v])
      OBVIOUS
    <3> HIDE DEF mailboxes, batches
    <3> QED BY <3>1, <3>2, <3>3
  <2> QED BY <2>1, <2>3, <2>4, <2>5, <2>6
<1> QED BY <1>1, <1>2

\* When every thread of the runtime is blocked in a receive, no message waits,
\* but for those that a handler took along when it panicked: the threads never
\* wait for one another (hosted.rs:18, 104-131).
THEOREM RestsWhenDone == Spec => []RestsOnlyWhenDone
<1> DEFINE I == TypeOK /\ OwnInv /\ MailInv /\ MailFlushed /\ AddressInv
<1>1. Init => I
  BY InitType, InitOwn, InitMail, InitFlushed, InitAddress
<1>2. I /\ [Next]_vars => I'
  BY NextType, NextOwn, NextMail, NextFlushed, NextAddress
<1>3. I => RestsOnlyWhenDone
  BY RestIsRight
<1> QED BY <1>1, <1>2, <1>3, PTL DEF Spec
=============================================================================
