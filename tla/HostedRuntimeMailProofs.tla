----------------------- MODULE HostedRuntimeMailProofs -----------------------
(***************************************************************************)
(* The hosted runtime implements the mailboxes of VatMail, for every       *)
(* number of hotplates, every set of messages and every bound.  Beyond the *)
(* owners of vats and the addresses of mail this needs that a message is   *)
(* in one place only.                                                      *)
(***************************************************************************)
EXTENDS HostedRuntimeProofs

-----------------------------------------------------------------------------
(* More facts about channels *)

\* What one list of mail adds to another.
LEMMA ConcatElements ==
  ASSUME NEW S, NEW s \in Seq(S), NEW t \in Seq(S)
  PROVE  /\ ToSet(s \o t) = ToSet(s) \cup ToSet(t)
         /\ IsInjective(s) /\ IsInjective(t) /\ ToSet(s) \cap ToSet(t) = {}
              => IsInjective(s \o t)
<1> DEFINE c == s \o t
<1>1. /\ Len(s) \in Nat /\ Len(t) \in Nat /\ Len(c) = Len(s) + Len(t)
      /\ DOMAIN s = 1 .. Len(s) /\ DOMAIN t = 1 .. Len(t) /\ DOMAIN c = 1 .. Len(c)
      /\ \A i \in 1 .. Len(s) : c[i] = s[i]
      /\ \A i \in 1 .. Len(t) : c[Len(s) + i] = t[i]
  OBVIOUS
<1>2. \A i \in DOMAIN c : i \in DOMAIN s \/ (i - Len(s) \in DOMAIN t /\ c[i] = t[i - Len(s)])
  <2> SUFFICES ASSUME NEW i \in DOMAIN c, i \notin DOMAIN s
               PROVE  i - Len(s) \in DOMAIN t /\ c[i] = t[i - Len(s)]
    OBVIOUS
  <2>1. i - Len(s) \in DOMAIN t /\ Len(s) + (i - Len(s)) = i
    BY <1>1
  <2> QED BY <1>1, <2>1
<1>3. \A i \in DOMAIN t : Len(s) + i \in DOMAIN c /\ c[Len(s) + i] = t[i]
  BY <1>1
<1>4. \A i \in DOMAIN s : i \in DOMAIN c /\ c[i] = s[i]
  BY <1>1
<1> HIDE DEF c
<1>5. ToSet(c) = ToSet(s) \cup ToSet(t)
  BY <1>2, <1>3, <1>4 DEF ToSet
<1>6. ASSUME IsInjective(s), IsInjective(t), ToSet(s) \cap ToSet(t) = {},
             NEW i \in DOMAIN c, NEW j \in DOMAIN c, c[i] = c[j]
      PROVE  i = j
  <2>1. CASE i \in DOMAIN s /\ j \in DOMAIN s
    BY <1>4, <1>6, <2>1 DEF IsInjective
  <2>2. CASE i \notin DOMAIN s /\ j \notin DOMAIN s
    <3>1. i - Len(s) = j - Len(s)
      BY <1>2, <1>6, <2>2 DEF IsInjective
    <3> QED BY <1>1, <3>1
  <2>a. \A k \in DOMAIN c : c[k] \in IF k \in DOMAIN s THEN ToSet(s) ELSE ToSet(t)
    BY <1>2, <1>4 DEF ToSet
  <2>3. CASE i \in DOMAIN s /\ j \notin DOMAIN s
    BY <1>6, <2>a, <2>3
  <2>4. CASE i \notin DOMAIN s /\ j \in DOMAIN s
    BY <1>6, <2>a, <2>4
  <2> QED BY <2>1, <2>2, <2>3, <2>4
<1> QED BY <1>5, <1>6 DEF IsInjective, c

\* What Vec::pop takes from a batch.
LEMMA FrontElements ==
  ASSUME NEW S, NEW s \in Seq(S), s # <<>>
  PROVE  /\ ToSet(s) = ToSet(Front(s)) \cup {Last(s)}
         /\ IsInjective(s) => IsInjective(Front(s)) /\ Last(s) \notin ToSet(Front(s))
<1> DEFINE t == Front(s)
<1>1. /\ Len(s) \in Nat /\ Len(s) > 0 /\ DOMAIN s = 1 .. Len(s)
      /\ DOMAIN t = 1 .. Len(s) - 1 /\ \A i \in 1 .. Len(s) - 1 : t[i] = s[i]
      /\ Last(s) = s[Len(s)]
  BY DEF Front, Last
<1>2. \A i \in DOMAIN s : i = Len(s) \/ i \in DOMAIN t
  BY <1>1
<1>3. \A i \in DOMAIN t : i \in DOMAIN s /\ i # Len(s) /\ t[i] = s[i]
  BY <1>1
<1> HIDE DEF t
<1>4. ToSet(s) = ToSet(t) \cup {Last(s)}
  <2>1. ToSet(s) \subseteq ToSet(t) \cup {Last(s)}
    BY <1>1, <1>2, <1>3 DEF ToSet
  <2>2. ToSet(t) \cup {Last(s)} \subseteq ToSet(s)
    BY <1>1, <1>3 DEF ToSet
  <2> QED BY <2>1, <2>2
<1>5. ASSUME IsInjective(s) PROVE IsInjective(t) /\ Last(s) \notin ToSet(t)
  <2>1. IsInjective(t)
    BY <1>3, <1>5 DEF IsInjective
  <2>2. ASSUME NEW i \in DOMAIN t, t[i] = Last(s) PROVE FALSE
    <3>1. Len(s) \in DOMAIN s /\ s[i] = s[Len(s)]
      BY <1>1, <1>3, <2>2
    <3> QED BY <1>3, <1>5, <3>1 DEF IsInjective
  <2> QED BY <2>1, <2>2 DEF ToSet
<1> QED BY <1>4, <1>5 DEF t

-----------------------------------------------------------------------------
(* A message is in one place *)

InChannel == ToSet(msgq)
InMailbox == {m \in Msgs : Dst[m] \in DOMAIN inboxes /\ m \in ToSet(inboxes[Dst[m]])}
InBatch == {m \in Msgs : m \in ToSet(inbox[Dst[m]])}
InOutbox == ToSet(outbox[NodemanVat])
InHandler == {running[h] : h \in Hotplates} \ {NoMsg}

Apart(A, B, C, D, E) ==
  /\ A \cap B = {} /\ A \cap C = {} /\ A \cap D = {} /\ A \cap E = {}
  /\ B \cap C = {} /\ B \cap D = {} /\ B \cap E = {}
  /\ C \cap D = {} /\ C \cap E = {} /\ D \cap E = {}

NoneTwice ==
  /\ IsInjective(msgq)
  /\ \A k \in DOMAIN inboxes : IsInjective(inboxes[k])
  /\ \A v \in Vats : IsInjective(inbox[v])
  /\ IsInjective(outbox[NodemanVat])

\* Only nodeman puts something into an outbox, and a handler handles mail of
\* the vat it holds.
OnceInv ==
  /\ NoneTwice
  /\ Apart(InChannel, InMailbox, InBatch, InOutbox, InHandler)
  /\ \A v \in Vats : v # NodemanVat => outbox[v] = <<>>
  /\ \A h \in Hotplates : running[h] # NoMsg => Dst[running[h]] = holding[h]

\* The places of a message, all told.
LEMMA WaitingPlaces ==
  ASSUME TypeOK, AddressInv, OnceInv
  PROVE  /\ Waiting = InChannel \cup InMailbox \cup InBatch \cup InOutbox
         /\ InFlight \cup {NoMsg} = Waiting \cup InHandler \cup {NoMsg}
<1> DEFINE mailboxes == UNION {ToSet(inboxes[k]) : k \in DOMAIN inboxes}
           vats == UNION {ToSet(inbox[v]) \cup ToSet(outbox[v]) : v \in Vats}
<1>0. /\ \A k \in DOMAIN inboxes : inboxes[k] \in Seq(Msgs)
      /\ \A v \in Vats : inbox[v] \in Seq(Msgs) /\ outbox[v] \in Seq(Msgs)
  BY DEF TypeOK
<1>1. ASSUME NEW s \in Seq(Msgs) PROVE ToSet(s) \subseteq Msgs
  BY DEF ToSet
<1>2. mailboxes = InMailbox
  <2>1. ASSUME NEW k \in DOMAIN inboxes, NEW m \in ToSet(inboxes[k]) PROVE m \in InMailbox
    <3>1. Dst[m] = k
      BY DEF AddressInv, For, ToSet
    <3> QED BY <1>0, <1>1, <3>1 DEF InMailbox
  <2> QED BY <2>1 DEF InMailbox
<1>3. vats = InBatch \cup InOutbox
  <2>1. ASSUME NEW v \in Vats, NEW m \in ToSet(inbox[v]) PROVE m \in InBatch
    <3>1. Dst[m] = v
      BY DEF AddressInv, For, ToSet
    <3> QED BY <1>0, <1>1, <3>1 DEF InBatch
  <2>2. ASSUME NEW v \in Vats, NEW m \in ToSet(outbox[v]) PROVE m \in InOutbox
    BY DEF OnceInv, InOutbox, ToSet
  <2>3. \A m \in Msgs : Dst[m] \in Vats
    BY MessageAssumption
  <2>4. InBatch \subseteq vats
    BY <2>3 DEF InBatch
  <2>5. InOutbox \subseteq vats
    BY BootVatsAreVats DEF InOutbox
  <2> QED BY <2>1, <2>2, <2>4, <2>5
<1>4. Waiting = ToSet(msgq) \cup mailboxes \cup vats
  BY DEF Waiting
<1> HIDE DEF mailboxes, vats
<1> QED BY <1>2, <1>3, <1>4 DEF InChannel, InFlight, InHandler

LEMMA InitOnce == Init => OnceInv
<1> SUFFICES ASSUME Init PROVE OnceInv
  OBVIOUS
<1>1. /\ msgq = <<Seminal>> /\ inboxes = [v \in BootVats |-> <<>>]
      /\ inbox = [v \in Vats |-> <<>>] /\ outbox = [v \in Vats |-> <<>>]
      /\ running = [h \in Hotplates |-> NoMsg]
  BY DEF Init
<1>2. ToSet(<<>>) = {} /\ IsInjective(<<>>) /\ IsInjective(msgq)
  BY <1>1 DEF ToSet, IsInjective
<1>3. NoneTwice
  BY <1>1, <1>2, BootVatsAreVats DEF NoneTwice
<1>4. InMailbox = {} /\ InBatch = {} /\ InOutbox = {} /\ InHandler = {}
  BY <1>1, <1>2, BootVatsAreVats, MessageAssumption DEF InMailbox, InBatch, InOutbox, InHandler
<1> QED BY <1>1, <1>3, <1>4 DEF OnceInv, Apart

\* What each step of a thread does to the places, first for the main loop.
LEMMA TriagePlaces ==
  ASSUME TypeOK, OnceInv, msgq # <<>>, msgq' = Tail(msgq), Triage(Head(msgq)),
         UNCHANGED <<inbox, outbox, holding, running>>
  PROVE  /\ NoneTwice'
         /\ Head(msgq) \in InChannel /\ InChannel' = InChannel \ {Head(msgq)}
         /\ InMailbox' = IF mlpc' = "panicked" THEN InMailbox ELSE InMailbox \cup {Head(msgq)}
         /\ UNCHANGED <<InBatch, InOutbox, InHandler>>
<1> DEFINE m == Head(msgq)
           d == Dst[m]
<1>1. m \in Msgs /\ d \in Vats
  BY HeadTailProperties, MessageAssumption DEF TypeOK
<1>2. /\ ToSet(msgq) = ToSet(msgq)' \cup {m} /\ IsInjective(msgq)' /\ m \notin ToSet(msgq)'
  BY TailElements DEF TypeOK, OnceInv, NoneTwice
<1>3. m \in InChannel /\ InChannel' = InChannel \ {m} /\ m \notin InMailbox
  BY <1>2 DEF InChannel, OnceInv, Apart
<1>4. UNCHANGED <<InBatch, InOutbox, InHandler>>
  BY DEF InBatch, InOutbox, InHandler
<1>5. CASE d \notin DOMAIN inboxes
  <2>1. inboxes' = inboxes /\ mlpc' = "panicked"
    BY <1>5 DEF Triage
  <2>2. InMailbox' = InMailbox
    BY <2>1 DEF InMailbox
  <2> QED BY <1>2, <1>3, <1>4, <2>1, <2>2 DEF OnceInv, NoneTwice
<1>6. CASE d \in DOMAIN inboxes
  <2>1. inboxes' = [inboxes EXCEPT ![d] = Append(@, m)] /\ mlpc' = "triage"
    BY <1>6 DEF Triage
  <2>2. /\ inboxes[d] \in Seq(Msgs) /\ m \notin ToSet(inboxes[d]) /\ IsInjective(inboxes[d])
    BY <1>1, <1>3, <1>6 DEF TypeOK, OnceInv, NoneTwice, InMailbox
  <2>3. /\ ToSet(Append(inboxes[d], m)) = ToSet(inboxes[d]) \cup {m}
        /\ IsInjective(Append(inboxes[d], m))
    BY <1>1, <2>2, AppendElements
  <2>4. /\ DOMAIN inboxes' = DOMAIN inboxes /\ inboxes'[d] = Append(inboxes[d], m)
        /\ \A k \in DOMAIN inboxes : k # d => inboxes'[k] = inboxes[k]
    BY <1>6, <2>1
  <2> HIDE DEF d, m
  <2>5. NoneTwice'
    BY <1>2, <2>3, <2>4 DEF OnceInv, NoneTwice
  <2>6. \A n \in Msgs : n \in InMailbox' <=> n \in InMailbox \/ n = m
    <3> SUFFICES ASSUME NEW n \in Msgs PROVE n \in InMailbox' <=> n \in InMailbox \/ n = m
      OBVIOUS
    <3>1. CASE Dst[n] = d
      BY <1>6, <2>3, <2>4, <3>1 DEF InMailbox, d
    <3>2. CASE Dst[n] # d
      BY <2>4, <3>2 DEF InMailbox, d
    <3> QED BY <3>1, <3>2
  <2>7. InMailbox' = InMailbox \cup {m}
    BY <1>1, <2>6 DEF InMailbox
  <2> QED BY <1>3, <1>4, <2>1, <2>5, <2>7 DEF m
<1> QED BY <1>5, <1>6

LEMMA DeliverPlaces ==
  ASSUME TypeOK, AddressInv, OnceInv, NEW v \in Vats, outbox[v] = <<>>, Deliver(v, "drain"),
         UNCHANGED <<msgq, holding, running>>
  PROVE  /\ NoneTwice' /\ UNCHANGED <<outbox, InChannel, InOutbox, InHandler>>
         /\ \E moved \in SUBSET InMailbox :
              InMailbox' = InMailbox \ moved /\ InBatch' = InBatch \cup moved
<1>0. UNCHANGED <<InChannel, InHandler>>
  BY DEF InChannel, InHandler
<1>1. CASE v \notin DOMAIN inboxes \/ inboxes[v] = <<>>
  <2>1. UNCHANGED <<inboxes, inbox, outbox>>
    BY <1>1 DEF Deliver, vatVars
  <2>2. UNCHANGED <<InMailbox, InBatch, InOutbox>> /\ {} \in SUBSET InMailbox
    BY <2>1 DEF InMailbox, InBatch, InOutbox
  <2> QED BY <1>0, <2>1, <2>2 DEF OnceInv, NoneTwice
<1>2. CASE v \in DOMAIN inboxes /\ inboxes[v] # <<>>
  <2> DEFINE moved == ToSet(inboxes[v])
  <2>1. /\ inboxes' = [inboxes EXCEPT ![v] = <<>>] /\ inbox' = [inbox EXCEPT ![v] = @ \o inboxes[v]]
        /\ outbox' = [outbox EXCEPT ![v] = <<>>]
    BY <1>2 DEF Deliver
  <2>2. outbox' = outbox /\ InOutbox' = InOutbox
    BY <2>1 DEF TypeOK, InOutbox
  <2>3. /\ inbox[v] \in Seq(Msgs) /\ inboxes[v] \in Seq(Msgs)
        /\ IsInjective(inbox[v]) /\ IsInjective(inboxes[v])
    BY <1>2 DEF TypeOK, OnceInv, NoneTwice
  <2>4. moved \subseteq Msgs /\ ToSet(inbox[v]) \subseteq Msgs
    BY <2>3 DEF ToSet
  <2>5. \A n \in moved \cup ToSet(inbox[v]) : Dst[n] = v
    BY <1>2 DEF AddressInv, For, ToSet
  <2>6. moved \subseteq InMailbox /\ ToSet(inbox[v]) \subseteq InBatch
    BY <1>2, <2>4, <2>5 DEF InMailbox, InBatch
  <2>7. /\ ToSet(inbox[v] \o inboxes[v]) = ToSet(inbox[v]) \cup moved
        /\ IsInjective(inbox[v] \o inboxes[v])
    BY <2>3, <2>6, ConcatElements DEF OnceInv, Apart
  <2>8. /\ DOMAIN inboxes' = DOMAIN inboxes /\ inboxes'[v] = <<>>
        /\ \A k \in DOMAIN inboxes : k # v => inboxes'[k] = inboxes[k]
        /\ inbox'[v] = inbox[v] \o inboxes[v] /\ \A w \in Vats : w # v => inbox'[w] = inbox[w]
    BY <1>2, <2>1 DEF TypeOK
  <2>9. ToSet(<<>>) = {} /\ IsInjective(<<>>)
    BY DEF ToSet, IsInjective
  <2> HIDE DEF moved
  <2>10. NoneTwice'
    BY <2>2, <2>7, <2>8, <2>9 DEF OnceInv, NoneTwice
  <2>11. \A n \in Msgs : /\ n \in InMailbox' <=> n \in InMailbox /\ n \notin moved
                         /\ n \in InBatch' <=> n \in InBatch \/ n \in moved
    <3> SUFFICES ASSUME NEW n \in Msgs
                 PROVE  /\ n \in InMailbox' <=> n \in InMailbox /\ n \notin moved
                        /\ n \in InBatch' <=> n \in InBatch \/ n \in moved
      OBVIOUS
    <3>1. Dst[n] \in Vats
      BY MessageAssumption
    <3>2. CASE Dst[n] = v
      BY <1>2, <2>7, <2>8, <2>9, <3>2 DEF InMailbox, InBatch, moved
    <3>3. CASE Dst[n] # v
      BY <2>5, <2>8, <3>1, <3>3 DEF InMailbox, InBatch
    <3> QED BY <3>2, <3>3
  <2>12. InMailbox' = InMailbox \ moved /\ InBatch' = InBatch \cup moved
    BY <2>4, <2>11 DEF InMailbox, InBatch
  <2> QED BY <1>0, <2>2, <2>6, <2>10, <2>12
<1> QED BY <1>1, <1>2

LEMMA CreateVatPlaces ==
  ASSUME SelectCreateVat, OnceInv
  PROVE  /\ NoneTwice'
         /\ UNCHANGED <<InChannel, InMailbox, InBatch, InOutbox, InHandler>>
<1>1. /\ UNCHANGED <<msgq, inbox, outbox, running>>
      /\ inboxes' = [k \in DOMAIN inboxes \cup {CreatedInboxKey} |->
                       IF k = CreatedInboxKey THEN <<>> ELSE inboxes[k]]
  BY DEF SelectCreateVat, vatVars, hotVars
<1>2. IsInjective(<<>>)
  BY DEF IsInjective
<1>3. NoneTwice'
  BY <1>1, <1>2 DEF OnceInv, NoneTwice
<1>4. InMailbox' = InMailbox
  <2>1. \A m \in Msgs : Dst[m] \in Vats /\ Dst[m] # CreatedInboxKey
    BY MessageAssumption, BootVatsAreVats
  <2> QED BY <1>1, <2>1 DEF InMailbox
<1> QED BY <1>1, <1>3, <1>4 DEF InChannel, InBatch, InOutbox, InHandler

\* Then for a hotplate.
LEMMA RunPlaces ==
  ASSUME TypeOK, AddressInv, OnceInv, NEW h \in Hotplates, HotplateRun(h)
  PROVE  /\ NoneTwice'
         /\ running'[h] \in InBatch /\ InBatch' = InBatch \ {running'[h]}
         /\ InHandler' = InHandler \cup {running'[h]}
         /\ UNCHANGED <<InChannel, InMailbox, InOutbox>>
         /\ Dst[running'[h]] = holding[h]
<1> DEFINE v == holding[h]
           m == Last(inbox[v])
<1>1. /\ hpc[h] = "hold" /\ inbox[v] # <<>>
      /\ running' = [running EXCEPT ![h] = m] /\ inbox' = [inbox EXCEPT ![v] = Front(@)]
      /\ UNCHANGED <<msgq, inboxes, outbox, holding>>
  BY DEF HotplateRun, channels, mainVars
<1>2. /\ v \in Vats /\ inbox[v] \in Seq(Msgs) /\ running[h] = NoMsg
      /\ \A w \in Vats : w # v => inbox'[w] = inbox[w]
      /\ inbox'[v] = Front(inbox[v])
      /\ running'[h] = m /\ \A g \in Hotplates : g # h => running'[g] = running[g]
  BY <1>1 DEF TypeOK
<1>3. /\ ToSet(inbox[v]) = ToSet(inbox'[v]) \cup {m} /\ m \notin ToSet(inbox'[v])
      /\ IsInjective(inbox'[v])
  BY <1>1, <1>2, FrontElements DEF OnceInv, NoneTwice
<1>4. m \in Msgs /\ Dst[m] = v
  <2>1. \A n \in ToSet(inbox[v]) : n \in Msgs /\ Dst[n] = v
    BY <1>2 DEF AddressInv, For, ToSet
  <2> QED BY <1>3, <2>1
<1> HIDE DEF v, m
<1>5. NoneTwice'
  BY <1>1, <1>2, <1>3 DEF OnceInv, NoneTwice
<1>6. \A n \in Msgs : n \in InBatch' <=> n \in InBatch /\ n # m
  <2> SUFFICES ASSUME NEW n \in Msgs PROVE n \in InBatch' <=> n \in InBatch /\ n # m
    OBVIOUS
  <2>1. Dst[n] \in Vats
    BY MessageAssumption
  <2>2. CASE Dst[n] = v
    BY <1>3, <2>2 DEF InBatch
  <2>3. CASE Dst[n] # v
    BY <1>2, <1>4, <2>1, <2>3 DEF InBatch
  <2> QED BY <2>2, <2>3
<1>7. m \in InBatch /\ InBatch' = InBatch \ {m}
  BY <1>3, <1>4, <1>6 DEF InBatch
<1>8. InHandler' = InHandler \cup {m}
  BY <1>2, <1>4, NullAssumption DEF InHandler
<1>9. UNCHANGED <<InChannel, InMailbox, InOutbox>>
  BY <1>1 DEF InChannel, InMailbox, InOutbox
<1> QED BY <1>2, <1>4, <1>5, <1>7, <1>8, <1>9 DEF v

LEMMA FlushPlaces ==
  ASSUME TypeOK, OnceInv, NEW h \in Hotplates, HotplateFlush(h)
  PROVE  /\ NoneTwice' /\ \A v \in Vats : v # NodemanVat => outbox'[v] = <<>>
         /\ UNCHANGED <<InMailbox, InBatch, InHandler>>
         /\ \E m \in InOutbox : InOutbox' = InOutbox \ {m} /\ InChannel' = InChannel \cup {m}
<1>1. /\ hpc[h] = "hold" /\ outbox[holding[h]] # <<>>
      /\ msgq' = Append(msgq, Head(outbox[holding[h]]))
      /\ outbox' = [outbox EXCEPT ![holding[h]] = Tail(@)]
      /\ UNCHANGED <<inboxes, inbox, running>>
  BY DEF HotplateFlush, mainVars, hotVars
<1>2. holding[h] = NodemanVat
  BY <1>1 DEF TypeOK, OnceInv
<1> DEFINE m == Head(outbox[NodemanVat])
<1>3. /\ outbox[NodemanVat] \in Seq(Msgs) /\ outbox[NodemanVat] # <<>> /\ m \in Msgs
      /\ outbox'[NodemanVat] = Tail(outbox[NodemanVat]) /\ msgq \in Seq(Msgs)
      /\ \A v \in Vats : v # NodemanVat => outbox'[v] = outbox[v]
  BY <1>1, <1>2, BootVatsAreVats, HeadTailProperties DEF TypeOK
<1>4. /\ InOutbox = InOutbox' \cup {m} /\ m \notin InOutbox' /\ IsInjective(outbox'[NodemanVat])
  BY <1>3, TailElements DEF OnceInv, NoneTwice, InOutbox
<1>5. m \notin InChannel
  BY <1>4 DEF OnceInv, Apart
<1>6. InChannel' = InChannel \cup {m} /\ IsInjective(msgq)'
  BY <1>1, <1>2, <1>3, <1>5, AppendElements DEF OnceInv, NoneTwice, InChannel
<1> HIDE DEF m
<1>7. NoneTwice'
  BY <1>1, <1>4, <1>6 DEF OnceInv, NoneTwice
<1>8. UNCHANGED <<InMailbox, InBatch, InHandler>>
  BY <1>1 DEF InMailbox, InBatch, InHandler
<1>9. \A v \in Vats : v # NodemanVat => outbox'[v] = <<>>
  BY <1>3 DEF OnceInv
<1> QED BY <1>4, <1>6, <1>7, <1>8, <1>9

\* A message is sent under an identity that nothing holds.
LEMMA SendPlaces ==
  ASSUME TypeOK, AddressInv, OnceInv, NEW m \in Msgs, m \notin InFlight,
         msgq' = Append(msgq, m), UNCHANGED <<inboxes, inbox, outbox>>
  PROVE  /\ NoneTwice' /\ InChannel' = InChannel \cup {m}
         /\ m \notin InChannel \cup InMailbox \cup InBatch \cup InOutbox \cup InHandler
         /\ UNCHANGED <<InMailbox, InBatch, InOutbox>>
<1>1. m \notin InChannel \cup InMailbox \cup InBatch \cup InOutbox \cup InHandler
  BY WaitingPlaces, NullAssumption
<1>2. InChannel' = InChannel \cup {m} /\ IsInjective(msgq)'
  BY <1>1, AppendElements DEF TypeOK, OnceInv, NoneTwice, InChannel
<1> QED BY <1>1, <1>2 DEF OnceInv, NoneTwice, InMailbox, InBatch, InOutbox

LEMMA NmupPlaces ==
  ASSUME TypeOK, AddressInv, OnceInv, NEW h \in Hotplates, NEW m \in Msgs, HandlerNmup(h, m)
  PROVE  /\ NoneTwice' /\ \A v \in Vats : v # NodemanVat => outbox'[v] = <<>>
         /\ InOutbox' = InOutbox \cup {m}
         /\ m \notin InChannel \cup InMailbox \cup InBatch \cup InOutbox \cup InHandler
         /\ UNCHANGED <<InChannel, InMailbox, InBatch, InHandler>>
<1>1. /\ outbox' = [outbox EXCEPT ![NodemanVat] = Append(@, m)] /\ m \notin InFlight
      /\ UNCHANGED <<msgq, inboxes, inbox, running>>
  BY DEF HandlerNmup, mainVars
<1>2. m \notin InChannel \cup InMailbox \cup InBatch \cup InOutbox \cup InHandler
  BY <1>1, WaitingPlaces, NullAssumption
<1>3. /\ outbox[NodemanVat] \in Seq(Msgs) /\ outbox'[NodemanVat] = Append(outbox[NodemanVat], m)
      /\ \A v \in Vats : v # NodemanVat => outbox'[v] = outbox[v]
  BY <1>1, BootVatsAreVats DEF TypeOK
<1>4. InOutbox' = InOutbox \cup {m} /\ IsInjective(outbox'[NodemanVat])
  BY <1>2, <1>3, AppendElements DEF OnceInv, NoneTwice, InOutbox
<1> QED BY <1>1, <1>2, <1>3, <1>4 DEF OnceInv, NoneTwice, InChannel, InMailbox, InBatch, InHandler

LEMMA NextOnce ==
  TypeOK /\ OwnInv /\ MailFlushed /\ AddressInv /\ OnceInv /\ [Next]_vars => OnceInv'
<1> SUFFICES ASSUME TypeOK, OwnInv, MailFlushed, AddressInv, OnceInv, [Next]_vars
             PROVE  OnceInv'
  OBVIOUS
<1> USE DEF channels, mainVars, vatVars, hotVars
<1>0. /\ mlq \in Seq(Vats) /\ waited \in Vats \cup {NoVat}
      /\ running \in [Hotplates -> Msgs \cup {NoMsg}]
      /\ holding \in [Hotplates -> Vats \cup {NoVat}]
  BY DEF TypeOK
<1>1. CASE SelectMsg \/ DrainMsg
  <2>1. /\ msgq # <<>> /\ msgq' = Tail(msgq) /\ Triage(Head(msgq))
        /\ UNCHANGED <<inbox, outbox, holding, running>>
    BY <1>1 DEF SelectMsg, DrainMsg
  <2>2. /\ NoneTwice' /\ Head(msgq) \in InChannel /\ InChannel' = InChannel \ {Head(msgq)}
        /\ InMailbox' \subseteq InMailbox \cup {Head(msgq)}
        /\ UNCHANGED <<InBatch, InOutbox, InHandler>>
    BY <2>1, TriagePlaces
  <2> QED BY <2>1, <2>2 DEF OnceInv, Apart
<1>2. CASE SelectVat \/ MsgsDrained \/ VatsDrained \/ UNCHANGED vars
  <2>1. UNCHANGED <<msgq, inboxes, inbox, outbox, holding, running>>
    BY <1>2 DEF SelectVat, MsgsDrained, VatsDrained, vars
  <2> QED BY <2>1 DEF OnceInv, NoneTwice, InChannel, InMailbox, InBatch, InOutbox, InHandler
<1>3. CASE SelectCreateVat
  <2>1. UNCHANGED <<outbox, holding, running>>
    BY <1>3 DEF SelectCreateVat
  <2> QED BY <1>3, <2>1, CreateVatPlaces DEF OnceInv
<1>4. ASSUME NEW v \in Vats, v \notin Held, Deliver(v, "drain"),
             UNCHANGED <<msgq, holding, running>>
      PROVE  OnceInv'
  <2>1. outbox[v] = <<>>
    BY <1>4 DEF MailFlushed
  <2>2. /\ NoneTwice' /\ UNCHANGED <<outbox, InChannel, InOutbox, InHandler>>
        /\ \E moved \in SUBSET InMailbox :
             InMailbox' = InMailbox \ moved /\ InBatch' = InBatch \cup moved
    BY <1>4, <2>1, DeliverPlaces
  <2> QED BY <1>4, <2>2 DEF OnceInv, Apart
<1>5. CASE DeliverWaited
  <2>1. CASE waited = NoVat
    <3>1. UNCHANGED <<msgq, inboxes, inbox, outbox, holding, running>>
      BY <1>5, <2>1 DEF DeliverWaited
    <3> QED BY <3>1 DEF OnceInv, NoneTwice, InChannel, InMailbox, InBatch, InOutbox, InHandler
  <2>2. CASE waited # NoVat
    <3>1. waited \in Vats /\ waited \notin Held
      BY <1>0, <2>2 DEF OwnInv, Disjoint, InHand
    <3> QED BY <1>4, <1>5, <2>2, <3>1 DEF DeliverWaited
  <2> QED BY <2>1, <2>2
<1>6. CASE DrainVat
  <2>1. Head(mlq) \in Vats /\ Head(mlq) \in ToSet(mlq)
    BY <1>0, <1>6, HeadTailProperties, TailElements DEF DrainVat
  <2>2. Head(mlq) \notin Held
    BY <2>1 DEF OwnInv, Disjoint
  <2> QED BY <1>4, <1>6, <2>1, <2>2 DEF DrainVat
<1>7. ASSUME NEW h \in Hotplates, Hotplate(h) PROVE OnceInv'
  <2>1. CASE HotplateTake(h) \/ HotplateReturn(h)
    <3>1. /\ UNCHANGED <<msgq, inboxes, inbox, outbox, running>> /\ running[h] = NoMsg
          /\ \A g \in Hotplates : g # h => holding'[g] = holding[g]
      BY <1>0, <2>1 DEF HotplateTake, HotplateReturn, TypeOK
    <3> QED BY <3>1 DEF OnceInv, NoneTwice, InChannel, InMailbox, InBatch, InOutbox, InHandler
  <2>2. CASE HotplateRun(h)
    <3>1. UNCHANGED <<outbox, holding>> /\ \A g \in Hotplates : g # h => running'[g] = running[g]
      BY <1>0, <2>2 DEF HotplateRun
    <3> QED BY <2>2, <3>1, RunPlaces DEF OnceInv, Apart
  <2>3. CASE HotplateFlush(h)
    <3>1. UNCHANGED <<holding, running>>
      BY <2>3 DEF HotplateFlush
    <3> QED BY <2>3, <3>1, FlushPlaces DEF OnceInv, Apart
  <2>4. ASSUME NEW m \in Msgs, HandlerNmup(h, m) PROVE OnceInv'
    <3>1. UNCHANGED <<holding, running>>
      BY <2>4 DEF HandlerNmup
    <3> QED BY <2>4, <3>1, NmupPlaces DEF OnceInv, Apart
  <2>5. ASSUME NEW m \in Msgs, HandlerSend(h, m) PROVE OnceInv'
    <3>1. /\ m \notin InFlight /\ msgq' = Append(msgq, m)
          /\ UNCHANGED <<inboxes, inbox, outbox, holding, running>>
      BY <2>5 DEF HandlerSend
    <3>2. InHandler' = InHandler
      BY <3>1 DEF InHandler
    <3> QED BY <3>1, <3>2, SendPlaces DEF OnceInv, Apart
  <2>6. CASE HandlerEnd(h)
    <3>1. /\ UNCHANGED <<inboxes, inbox, outbox, holding>>
          /\ running' = [running EXCEPT ![h] = NoMsg]
          /\ msgq' = msgq \/ \E m \in Msgs : m \notin InFlight /\ msgq' = Append(msgq, m)
      BY <2>6 DEF HandlerEnd
    <3>2. InHandler' \subseteq InHandler
      BY <1>0, <3>1 DEF InHandler
    <3>3. \A g \in Hotplates : running'[g] # NoMsg => running'[g] = running[g]
      BY <1>0, <3>1
    <3>4. CASE msgq' = msgq
      <4>1. UNCHANGED <<InChannel, InMailbox, InBatch, InOutbox>> /\ NoneTwice'
        BY <3>1, <3>4 DEF InChannel, InMailbox, InBatch, InOutbox, OnceInv, NoneTwice
      <4> QED BY <3>1, <3>2, <3>3, <4>1 DEF OnceInv, Apart
    <3>5. ASSUME NEW m \in Msgs, m \notin InFlight, msgq' = Append(msgq, m) PROVE OnceInv'
      BY <3>1, <3>2, <3>3, <3>5, SendPlaces DEF OnceInv, Apart
    <3> QED BY <3>1, <3>4, <3>5
  <2>7. CASE HandlerPanic(h)
    <3>1. UNCHANGED <<msgq, inboxes, inbox, outbox, holding, running>>
      BY <2>7 DEF HandlerPanic
    <3> QED BY <3>1 DEF OnceInv, NoneTwice, InChannel, InMailbox, InBatch, InOutbox, InHandler
  <2> QED BY <1>7, <2>1, <2>2, <2>3, <2>4, <2>5, <2>6, <2>7 DEF Hotplate
<1> QED BY <1>1, <1>2, <1>3, <1>5, <1>6, <1>7 DEF Next, MainLoop

-----------------------------------------------------------------------------
(* The refinement *)

\* The refinement mapping of HostedRuntime's instance Mail, by name.
ActiveIn(held, run) ==
  [v \in Vats |->
     IF \E h \in Hotplates : held[h] = v
     THEN run[CHOOSE h \in Hotplates : held[h] = v]
     ELSE NoMsg]
Active == ActiveIn(holding, running)
Dead == IF Live THEN Lost ELSE Vats

Differ(held) == \A g, h \in Hotplates : g # h /\ held[g] # NoVat => held[g] # held[h]

\* A vat is as active as the hotplate that holds it.
LEMMA ActiveOf ==
  ASSUME NEW held, NEW run, Differ(held), NEW v \in Vats
  PROVE  /\ \A h \in Hotplates : held[h] = v => ActiveIn(held, run)[v] = run[h]
         /\ (\A h \in Hotplates : held[h] # v) => ActiveIn(held, run)[v] = NoMsg
<1>1. ASSUME NEW h \in Hotplates, held[h] = v PROVE ActiveIn(held, run)[v] = run[h]
  <2> DEFINE g == CHOOSE g \in Hotplates : held[g] = v
  <2>1. g \in Hotplates /\ held[g] = v
    BY <1>1
  <2>2. v # NoVat
    BY NullAssumption
  <2>3. g = h
    BY <1>1, <2>1, <2>2 DEF Differ
  <2> HIDE DEF g
  <2>4. ActiveIn(held, run)[v] = run[g]
    BY <1>1 DEF ActiveIn, g
  <2> QED BY <2>3, <2>4
<1>2. ASSUME \A h \in Hotplates : held[h] # v PROVE ActiveIn(held, run)[v] = NoMsg
  BY <1>2 DEF ActiveIn
<1> QED BY <1>1, <1>2

LEMMA ActiveFunction ==
  ASSUME NEW held, NEW run
  PROVE  ActiveIn(held, run) = [v \in Vats |-> ActiveIn(held, run)[v]]
  BY DEF ActiveIn

LEMMA DifferHolders == OwnInv => Differ(holding)
  BY DEF OwnInv, HoldersDiffer, Differ

\* A hotplate that gets or gives up a vat, with no message in its hands.
LEMMA ActiveUnchanged ==
  ASSUME TypeOK, OwnInv, OwnInv', NEW h \in Hotplates, running[h] = NoMsg, running' = running,
         \A g \in Hotplates : g # h => holding'[g] = holding[g]
  PROVE  Active' = Active
<1>1. Differ(holding) /\ Differ(holding')
  BY DifferHolders DEF OwnInv, HoldersDiffer, Differ
<1>2. ASSUME NEW v \in Vats PROVE ActiveIn(holding', running)[v] = ActiveIn(holding, running)[v]
  <2>1. CASE \E g \in Hotplates : g # h /\ holding[g] = v
    <3>1. PICK g \in Hotplates : g # h /\ holding[g] = v
      BY <2>1
    <3>2. holding'[g] = v
      BY <3>1
    <3> QED BY <1>1, <3>1, <3>2, ActiveOf
  <2>2. CASE ~ \E g \in Hotplates : g # h /\ holding[g] = v
    <3>1. ActiveIn(holding, running)[v] = NoMsg
      <4>1. CASE holding[h] = v
        BY <1>1, <4>1, ActiveOf
      <4>2. CASE holding[h] # v
        BY <1>1, <2>2, <4>2, ActiveOf
      <4> QED BY <4>1, <4>2
    <3>2. ActiveIn(holding', running)[v] = NoMsg
      <4>1. CASE holding'[h] = v
        BY <1>1, <4>1, ActiveOf
      <4>2. CASE holding'[h] # v
        BY <1>1, <2>2, <4>2, ActiveOf
      <4> QED BY <4>1, <4>2
    <3> QED BY <3>1, <3>2
  <2> QED BY <2>1, <2>2
<1>3. ActiveIn(holding', running) = ActiveIn(holding, running)
  BY <1>2 DEF ActiveIn
<1> QED BY <1>3 DEF Active

\* A hotplate that starts or ends a message.
LEMMA ActiveChange ==
  ASSUME NEW held, NEW run, NEW after, Differ(held), NEW h \in Hotplates, held[h] \in Vats,
         \A g \in Hotplates : g # h => after[g] = run[g]
  PROVE  ActiveIn(held, after) = [ActiveIn(held, run) EXCEPT ![held[h]] = after[h]]
<1>1. ASSUME NEW v \in Vats
      PROVE  ActiveIn(held, after)[v] = IF v = held[h] THEN after[h] ELSE ActiveIn(held, run)[v]
  <2>1. CASE v = held[h]
    BY <2>1, ActiveOf
  <2>2. CASE \E g \in Hotplates : g # h /\ held[g] = v
    <3>1. PICK g \in Hotplates : g # h /\ held[g] = v
      BY <2>2
    <3>2. v # held[h]
      BY <3>1, NullAssumption DEF Differ
    <3>3. ActiveIn(held, after)[v] = after[g] /\ ActiveIn(held, run)[v] = run[g]
      BY <3>1, ActiveOf
    <3> QED BY <3>1, <3>2, <3>3
  <2>3. CASE v # held[h] /\ ~ \E g \in Hotplates : g # h /\ held[g] = v
    BY <2>3, ActiveOf
  <2> QED BY <2>1, <2>2, <2>3
<1> QED BY <1>1 DEF ActiveIn

LEMMA ActiveChanged ==
  ASSUME OwnInv, NEW h \in Hotplates, holding[h] \in Vats,
         \A g \in Hotplates : g # h => running'[g] = running[g], holding' = holding
  PROVE  Active' = [Active EXCEPT ![holding[h]] = running'[h]]
<1>1. Differ(holding)
  BY DifferHolders
<1>2. ActiveIn(holding, running') = [ActiveIn(holding, running) EXCEPT ![holding[h]] = running'[h]]
  BY <1>1, ActiveChange
<1> QED BY <1>2 DEF Active

LEMMA MailVars ==
  /\ Mail!vars = <<Waiting, Active, Dead>>
  /\ Mail!vars' = <<Waiting', Active', Dead'>>
  BY DEF Mail!vars, Active, ActiveIn, Dead

LEMMA InitMailSpec == Init => Mail!Init
<1> SUFFICES ASSUME Init PROVE Mail!Init
  OBVIOUS
<1>1. TypeOK /\ OwnInv /\ AddressInv /\ OnceInv
  BY InitType, InitOwn, InitAddress, InitOnce
<1>2. /\ msgq = <<Seminal>> /\ inboxes = [v \in BootVats |-> <<>>]
      /\ inbox = [v \in Vats |-> <<>>] /\ outbox = [v \in Vats |-> <<>>]
      /\ running = [h \in Hotplates |-> NoMsg] /\ holding = [h \in Hotplates |-> NoVat]
      /\ hpc = [h \in Hotplates |-> "idle"] /\ Live
  BY DEF Init, Live
<1>3. Waiting = {Seminal}
  <2>1. InMailbox = {} /\ InBatch = {} /\ InOutbox = {} /\ InChannel = {Seminal}
    BY <1>2, BootVatsAreVats, MessageAssumption DEF InMailbox, InBatch, InOutbox, InChannel, ToSet
  <2> QED BY <1>1, <2>1, WaitingPlaces
<1>4. Active = [v \in Vats |-> NoMsg]
  BY <1>2, NullAssumption DEF Active, ActiveIn
<1>5. Dead = {}
  BY <1>2 DEF Dead, Lost
<1> QED BY <1>3, <1>4, <1>5 DEF Mail!Init, Active, ActiveIn, Dead

\* The places of a message after a step.
LEMMA WaitingPlacesNext ==
  (TypeOK /\ AddressInv /\ OnceInv => Waiting = InChannel \cup InMailbox \cup InBatch \cup InOutbox)'
<1>1. TypeOK /\ AddressInv /\ OnceInv => Waiting = InChannel \cup InMailbox \cup InBatch \cup InOutbox
  BY WaitingPlaces
<1> QED BY <1>1, PTL

\* The steps of VatMail under the refinement mapping.
Free(m) == m \notin Waiting /\ \A v \in Vats : Active[v] # m

LEMMA FreeIsNotInUse ==
  ASSUME NEW m, Free(m)
  PROVE  ~ Mail!InUse(m)
  BY DEF Mail!InUse, Free, Active, ActiveIn

LEMMA BeginStep ==
  ASSUME NEW v \in Vats, NEW m \in Msgs, v \notin Dead, Active[v] = NoMsg, m \in Waiting,
         Dst[m] = v, Waiting' = Waiting \ {m}, Active' = [Active EXCEPT ![v] = m], Dead' = Dead
  PROVE  Mail!Next
<1>1. Mail!Begin(v, m)
  BY DEF Mail!Begin, Active, ActiveIn, Dead
<1> QED BY <1>1 DEF Mail!Next

LEMMA SendStep ==
  ASSUME NEW v \in Vats, NEW m \in Msgs, v \notin Dead, Active[v] # NoMsg, Free(m),
         Waiting' = Waiting \cup {m}, Active' = Active, Dead' = Dead
  PROVE  Mail!Next
<1>1. ~ Mail!InUse(m)
  BY FreeIsNotInUse
<1>2. Mail!Send(v, m)
  BY <1>1 DEF Mail!Send, Active, ActiveIn, Dead
<1> QED BY <1>2 DEF Mail!Next

LEMMA EndStep ==
  ASSUME NEW v \in Vats, v \notin Dead, Active[v] # NoMsg,
         Active' = [Active EXCEPT ![v] = NoMsg], Dead' = Dead,
         \/ Waiting' = Waiting
         \/ \E m \in Msgs : Free(m) /\ Waiting' = Waiting \cup {m}
  PROVE  Mail!Next
<1>1. \A m \in Msgs : Free(m) => ~ Mail!InUse(m)
  BY FreeIsNotInUse
<1>2. Mail!End(v)
  BY <1>1 DEF Mail!End, Active, ActiveIn, Dead
<1> QED BY <1>2 DEF Mail!Next

LEMMA CrashStep ==
  ASSUME NEW v \in Vats, v \notin Dead, Active[v] # NoMsg, Dead' = Dead \cup {v},
         Waiting' = Waiting, Active' = Active
  PROVE  Mail!Next
<1>1. Mail!Crash(v)
  BY DEF Mail!Crash, Active, ActiveIn, Dead
<1> QED BY <1>1 DEF Mail!Next

LEMMA HaltStep ==
  ASSUME Waiting' \subseteq Waiting, Active' = Active, Dead' = Vats
  PROVE  Mail!Next
<1>1. Mail!Halt
  BY DEF Mail!Halt, Active, ActiveIn, Dead
<1> QED BY <1>1 DEF Mail!Next

\* A handler that runs is one of a vat that lives, and what it may send is free.
LEMMA HandlerIsAlive ==
  ASSUME TypeOK, OwnInv, AddressInv, OnceInv, Live, NEW h \in Hotplates, hpc[h] \in {"hold", "run"}
  PROVE  /\ holding[h] \in Vats /\ holding[h] \notin Dead
         /\ Active[holding[h]] = running[h] /\ (hpc[h] = "run" <=> running[h] # NoMsg)
         /\ \A m \in Msgs : m \notin InFlight => Free(m)
<1>1. holding[h] \in Vats /\ (hpc[h] = "run" <=> running[h] # NoMsg)
  BY DEF TypeOK
<1>2. holding[h] \notin Dead
  <2>1. ASSUME NEW g \in Hotplates, hpc[g] = "dead", holding[g] = holding[h] PROVE FALSE
    BY <1>1, <2>1, NullAssumption DEF OwnInv, HoldersDiffer
  <2> QED BY <2>1 DEF Dead, Lost
<1>3. Active[holding[h]] = running[h]
  BY <1>1, DifferHolders, ActiveOf DEF Active
<1>4. ASSUME NEW m \in Msgs, m \notin InFlight PROVE Free(m)
  <2>1. m \notin Waiting /\ \A g \in Hotplates : running[g] # m
    BY <1>4 DEF InFlight
  <2>2. ASSUME NEW w \in Vats PROVE Active[w] # m
    <3>1. CASE \E g \in Hotplates : holding[g] = w
      <4>1. PICK g \in Hotplates : holding[g] = w
        BY <3>1
      <4>2. Active[w] = running[g]
        BY <4>1, DifferHolders, ActiveOf DEF Active
      <4> QED BY <2>1, <4>2
    <3>2. CASE ~ \E g \in Hotplates : holding[g] = w
      BY <3>2, DifferHolders, ActiveOf, NullAssumption DEF Active
    <3> QED BY <3>1, <3>2
  <2> QED BY <2>1, <2>2 DEF Free
<1> QED BY <1>1, <1>2, <1>3, <1>4

LEMMA SameActive ==
  ASSUME UNCHANGED <<holding, running>>
  PROVE  Active' = Active
  BY DEF Active

LEMMA NextImplements ==
  ASSUME TypeOK, OwnInv, MailFlushed, AddressInv, OnceInv,
         TypeOK', OwnInv', AddressInv', OnceInv', [Next]_vars
  PROVE  [Mail!Next]_(Mail!vars)
<1> USE DEF channels, mainVars, vatVars, hotVars
<1>0. /\ mlq \in Seq(Vats) /\ waited \in Vats \cup {NoVat}
      /\ running \in [Hotplates -> Msgs \cup {NoMsg}]
      /\ holding \in [Hotplates -> Vats \cup {NoVat}]
  BY DEF TypeOK
<1>a. /\ Waiting = InChannel \cup InMailbox \cup InBatch \cup InOutbox
      /\ Waiting' = InChannel' \cup InMailbox' \cup InBatch' \cup InOutbox'
  BY WaitingPlaces, WaitingPlacesNext
<1>b. ASSUME Waiting' = Waiting, Active' = Active, Dead' = Dead PROVE [Mail!Next]_(Mail!vars)
  BY <1>b, MailVars
<1>1. CASE SelectMsg \/ DrainMsg
  <2>1. /\ msgq # <<>> /\ msgq' = Tail(msgq) /\ Triage(Head(msgq)) /\ Live
        /\ UNCHANGED <<inbox, outbox, holding, running, hpc>>
    BY <1>1 DEF SelectMsg, DrainMsg, Live
  <2>2. /\ Head(msgq) \in InChannel /\ InChannel' = InChannel \ {Head(msgq)}
        /\ InMailbox' = IF mlpc' = "panicked" THEN InMailbox ELSE InMailbox \cup {Head(msgq)}
        /\ UNCHANGED <<InBatch, InOutbox, InHandler>>
    BY <2>1, TriagePlaces
  <2>3. Active' = Active /\ Lost' = Lost
    BY <2>1, SameActive DEF Lost
  <2>4. CASE mlpc' = "panicked"
    BY <1>a, <2>2, <2>3, <2>4, HaltStep DEF Dead, Live
  <2>5. CASE mlpc' # "panicked"
    BY <1>a, <1>b, <2>1, <2>2, <2>3, <2>5 DEF Dead, Live
  <2> QED BY <2>4, <2>5
<1>2. CASE SelectVat \/ MsgsDrained \/ VatsDrained \/ UNCHANGED vars
  <2>1. UNCHANGED <<msgq, inboxes, inbox, outbox, holding, running, hpc>> /\ Live' = Live
    BY <1>2 DEF SelectVat, MsgsDrained, VatsDrained, vars, Live
  <2> QED BY <1>b, <2>1, SameActive DEF Waiting, Dead, Lost
<1>3. CASE SelectCreateVat
  <2>1. UNCHANGED <<holding, running, hpc>> /\ Live /\ Live'
    BY <1>3 DEF SelectCreateVat, Live
  <2> QED BY <1>3, <1>a, <1>b, <2>1, SameActive, CreateVatPlaces DEF Dead, Lost
<1>4. ASSUME NEW v \in Vats, v \notin Held, Deliver(v, "drain"), Live,
             UNCHANGED <<msgq, holding, running, hpc>>
      PROVE  [Mail!Next]_(Mail!vars)
  <2>1. outbox[v] = <<>>
    BY <1>4 DEF MailFlushed
  <2>2. /\ UNCHANGED <<InChannel, InOutbox>>
        /\ \E moved \in SUBSET InMailbox :
             InMailbox' = InMailbox \ moved /\ InBatch' = InBatch \cup moved
    BY <1>4, <2>1, DeliverPlaces
  <2>3. Waiting' = Waiting /\ Active' = Active /\ Lost' = Lost
    BY <1>4, <1>a, <2>2, SameActive DEF Lost
  <2>4. CASE Live'
    BY <1>4, <1>b, <2>3, <2>4 DEF Dead
  <2>5. CASE ~ Live'
    BY <2>3, <2>5, HaltStep DEF Dead
  <2> QED BY <2>4, <2>5
<1>5. CASE DeliverWaited
  <2>1. CASE waited = NoVat
    <3>1. UNCHANGED <<msgq, inboxes, inbox, outbox, holding, running, hpc>> /\ Live /\ Live'
      BY <1>5, <2>1 DEF DeliverWaited, Live
    <3> QED BY <1>b, <3>1, SameActive DEF Waiting, Dead, Lost
  <2>2. CASE waited # NoVat
    <3>1. waited \in Vats /\ waited \notin Held /\ Live
      BY <1>0, <1>5, <2>2 DEF OwnInv, Disjoint, InHand, DeliverWaited, Live
    <3> QED BY <1>4, <1>5, <2>2, <3>1 DEF DeliverWaited
  <2> QED BY <2>1, <2>2
<1>6. CASE DrainVat
  <2>1. Head(mlq) \in Vats /\ Head(mlq) \in ToSet(mlq) /\ Live
    BY <1>0, <1>6, HeadTailProperties, TailElements DEF DrainVat, Live
  <2>2. Head(mlq) \notin Held
    BY <2>1 DEF OwnInv, Disjoint
  <2> QED BY <1>4, <1>6, <2>1, <2>2 DEF DrainVat
<1>7. ASSUME NEW h \in Hotplates, Hotplate(h) PROVE [Mail!Next]_(Mail!vars)
  <2> DEFINE v == holding[h]
  <2>0. Live /\ (Live' <=> Live)
    BY <1>7 DEF Hotplate, HotplateTake, HotplateRun, HotplateFlush, HotplateReturn,
         HandlerEnd, HandlerPanic, HandlerSend, HandlerNmup, Live
  <2>a. ASSUME hpc[h] \in {"hold", "run"}
        PROVE  /\ v \in Vats /\ v \notin Dead
               /\ Active[v] = running[h] /\ (hpc[h] = "run" <=> running[h] # NoMsg)
               /\ \A m \in Msgs : m \notin InFlight => Free(m)
    BY <2>0, <2>a, HandlerIsAlive
  <2>1. CASE HotplateTake(h) \/ HotplateReturn(h)
    <3>1. /\ UNCHANGED <<msgq, inboxes, inbox, outbox, running>> /\ running[h] = NoMsg
          /\ \A g \in Hotplates : g # h => holding'[g] = holding[g] /\ hpc'[g] = hpc[g]
          /\ hpc[h] # "dead" /\ hpc'[h] # "dead"
      BY <1>0, <2>1 DEF HotplateTake, HotplateReturn, TypeOK
    <3>2. Active' = Active
      BY <3>1, ActiveUnchanged
    <3>3. Lost' = Lost
      BY <3>1 DEF Lost
    <3>4. Waiting' = Waiting
      BY <3>1 DEF Waiting
    <3> QED BY <1>b, <2>0, <3>2, <3>3, <3>4 DEF Dead
  <2>2. CASE HotplateRun(h)
    <3> DEFINE m == running'[h]
    <3>1. /\ hpc[h] = "hold" /\ UNCHANGED holding
          /\ \A g \in Hotplates : g # h => running'[g] = running[g] /\ hpc'[g] = hpc[g]
          /\ hpc'[h] = "run" /\ m \in Msgs \cup {NoMsg}
      BY <1>0, <2>2 DEF HotplateRun, TypeOK
    <3>2. /\ m \in InBatch /\ InBatch' = InBatch \ {m}
          /\ UNCHANGED <<InChannel, InMailbox, InOutbox>> /\ Dst[m] = v
      BY <2>2, RunPlaces
    <3>3. m \in Msgs /\ m \in Waiting /\ Waiting' = Waiting \ {m}
      BY <1>a, <3>2 DEF InBatch, OnceInv, Apart
    <3>4. Active' = [Active EXCEPT ![v] = m]
      BY <2>a, <3>1, ActiveChanged
    <3>5. Dead' = Dead
      BY <2>0, <3>1 DEF Dead, Lost
    <3> HIDE DEF m, v
    <3>6. v \in Vats /\ v \notin Dead /\ Active[v] = NoMsg
      BY <2>a, <3>1
    <3> QED BY <3>2, <3>3, <3>4, <3>5, <3>6, BeginStep
  <2>3. CASE HotplateFlush(h)
    <3>1. UNCHANGED <<holding, running, hpc>>
      BY <2>3 DEF HotplateFlush
    <3>2. Waiting' = Waiting
      BY <1>a, <2>3, FlushPlaces
    <3> QED BY <1>b, <2>0, <3>1, <3>2, SameActive DEF Dead, Lost
  <2>4. ASSUME NEW m \in Msgs, HandlerNmup(h, m) \/ HandlerSend(h, m)
        PROVE  [Mail!Next]_(Mail!vars)
    <3>1. hpc[h] = "run" /\ m \notin InFlight /\ UNCHANGED <<holding, running, hpc>>
      BY <2>4 DEF HandlerNmup, HandlerSend
    <3>4. Waiting' = Waiting \cup {m}
      <4>1. CASE HandlerNmup(h, m)
        BY <1>a, <4>1, NmupPlaces
      <4>2. CASE HandlerSend(h, m)
        BY <1>a, <3>1, <4>2, SendPlaces DEF HandlerSend
      <4> QED BY <2>4, <4>1, <4>2
    <3>5. Active' = Active /\ Dead' = Dead
      BY <2>0, <3>1, SameActive DEF Dead, Lost
    <3> HIDE DEF v
    <3>6. v \in Vats /\ v \notin Dead /\ Active[v] # NoMsg /\ Free(m)
      BY <2>a, <3>1
    <3> QED BY <3>4, <3>5, <3>6, SendStep
  <2>5. CASE HandlerEnd(h)
    <3>1. /\ hpc[h] = "run" /\ UNCHANGED <<inboxes, inbox, outbox, holding>>
          /\ running'[h] = NoMsg /\ hpc'[h] = "hold"
          /\ \A g \in Hotplates : g # h => running'[g] = running[g] /\ hpc'[g] = hpc[g]
          /\ msgq' = msgq \/ \E m \in Msgs : m \notin InFlight /\ msgq' = Append(msgq, m)
      BY <1>0, <2>5 DEF HandlerEnd, TypeOK
    <3>2. Active' = [Active EXCEPT ![v] = NoMsg]
      BY <2>a, <3>1, ActiveChanged
    <3>3. Dead' = Dead
      BY <2>0, <3>1 DEF Dead, Lost
    <3>4. Waiting' = Waiting \/ \E m \in Msgs : m \notin InFlight /\ Waiting' = Waiting \cup {m}
      <4>1. CASE msgq' = msgq
        BY <3>1, <4>1 DEF Waiting
      <4>2. ASSUME NEW m \in Msgs, m \notin InFlight, msgq' = Append(msgq, m)
            PROVE  Waiting' = Waiting \cup {m}
        BY <1>a, <3>1, <4>2, SendPlaces
      <4> QED BY <3>1, <4>1, <4>2
    <3> HIDE DEF v
    <3>5. v \in Vats /\ v \notin Dead /\ Active[v] # NoMsg /\ \A m \in Msgs : m \notin InFlight => Free(m)
      BY <2>a, <3>1
    <3> QED BY <3>2, <3>3, <3>4, <3>5, EndStep
  <2>6. CASE HandlerPanic(h)
    <3>1. /\ hpc[h] = "run" /\ UNCHANGED <<msgq, inboxes, inbox, outbox, holding, running>>
          /\ hpc'[h] = "dead" /\ \A g \in Hotplates : g # h => hpc'[g] = hpc[g]
      BY <2>6 DEF HandlerPanic, TypeOK
    <3>2. Lost' = Lost \cup {v}
      BY <3>1 DEF Lost
    <3>3. Waiting' = Waiting /\ Active' = Active /\ Dead' = Dead \cup {v}
      BY <2>0, <3>1, <3>2, SameActive DEF Waiting, Dead
    <3> HIDE DEF v
    <3>4. v \in Vats /\ v \notin Dead /\ Active[v] # NoMsg
      BY <2>a, <3>1
    <3> QED BY <3>3, <3>4, CrashStep
  <2> QED BY <1>7, <2>1, <2>2, <2>3, <2>4, <2>5, <2>6 DEF Hotplate
<1> QED BY <1>1, <1>2, <1>3, <1>5, <1>6, <1>7 DEF Next, MainLoop

\* Whatever the belt, the main loop and the hotplates do, a vat is a mailbox with
\* one handler: a message that was sent waits until its own vat starts on it, and
\* leaves with that; a panic stops one vat, and nothing is handled after the
\* process is gone (hosted.rs:14-101, 103-166).
THEOREM BeltImplementsMail == Spec => ImplementsMail
<1> DEFINE I == TypeOK /\ OwnInv /\ MailFlushed /\ AddressInv /\ OnceInv
<1>1. Init => I
  BY InitType, InitOwn, InitFlushed, InitAddress, InitOnce
<1>2. I /\ [Next]_vars => I'
  BY NextType, NextOwn, NextFlushed, NextAddress, NextOnce
<1>3. I /\ I' /\ [Next]_vars => [Mail!Next]_(Mail!vars)
  BY NextImplements
<1> QED BY <1>1, <1>2, <1>3, InitMailSpec, PTL DEF Spec, ImplementsMail, Mail!Spec
=============================================================================
