--------------------------- MODULE BurnerNodeProofs ---------------------------
(***************************************************************************)
(* The queues of any number of nodes neither lose a vat nor double it, and *)
(* the mail of any number of vats on them is neither lost nor doubled nor  *)
(* reordered, whatever queues it goes through.                             *)
(***************************************************************************)
EXTENDS BurnerNode, SequenceTheorems, FiniteSetTheorems, TLAPS

\* The inductive invariant: the queues hold vats, and a burner that is not idle
\* holds one.
PlaceInv ==
  /\ queue \in [Nodes -> [Threads -> Seq(Vats)]]
  /\ net_vats \in [Nodes -> Seq(Vats)]
  /\ burner \in [Nodes -> {"idle", "handle", "flush"}]
  /\ holding \in [Nodes -> Vats \cup {NoVat}]
  /\ \A n \in Nodes : holding[n] = NoVat <=> burner[n] = "idle"
  /\ made \subseteq Vats
  /\ VatsInOnePlace

-----------------------------------------------------------------------------
(* How often a vat is in a queue *)

LEMMA OccursNat ==
  ASSUME NEW s \in Seq(Vats), NEW v
  PROVE  Occurs(s, v) \in Nat
<1>1. {i \in DOMAIN s : s[i] = v} \subseteq 1 .. Len(s) /\ Len(s) \in Nat
  OBVIOUS
<1>2. IsFiniteSet(1 .. Len(s))
  BY <1>1, FS_Interval
<1>3. IsFiniteSet({i \in DOMAIN s : s[i] = v})
  BY <1>1, <1>2, FS_Subset
<1> QED BY <1>3, FS_CardinalityType DEF Occurs

LEMMA OccursAppend ==
  ASSUME NEW s \in Seq(Vats), NEW x \in Vats, NEW v
  PROVE  Occurs(Append(s, x), v) = Occurs(s, v) + (IF x = v THEN 1 ELSE 0)
<1> DEFINE I == {i \in DOMAIN s : s[i] = v}
           J == {i \in DOMAIN Append(s, x) : Append(s, x)[i] = v}
           k == Len(s) + 1
<1>1. IsFiniteSet(I) /\ k \notin I
  <2>1. I \subseteq 1 .. Len(s) /\ Len(s) \in Nat /\ k \notin 1 .. Len(s)
    OBVIOUS
  <2>2. IsFiniteSet(1 .. Len(s))
    BY <2>1, FS_Interval
  <2> QED BY <2>1, <2>2, FS_Subset
<1>2. J = IF x = v THEN I \cup {k} ELSE I
  <2>1. /\ DOMAIN s = 1 .. Len(s) /\ DOMAIN Append(s, x) = 1 .. k /\ Len(s) \in Nat
        /\ Append(s, x)[k] = x /\ \A i \in 1 .. Len(s) : Append(s, x)[i] = s[i]
    OBVIOUS
  <2>2. 1 .. k = 1 .. Len(s) \cup {k}
    BY <2>1
  <2> QED BY <2>1, <2>2
<1>3. Cardinality(I) \in Nat
  BY <1>1, FS_CardinalityType
<1> HIDE DEF I, J, k
<1>4. Cardinality(J) = Cardinality(I) + (IF x = v THEN 1 ELSE 0)
  <2>1. Cardinality(I \cup {k}) = Cardinality(I) + 1
    BY <1>1, FS_AddElement
  <2> QED BY <1>2, <1>3, <2>1
<1> QED BY <1>4 DEF I, J, Occurs

LEMMA OccursTail ==
  ASSUME NEW s \in Seq(Vats), s # <<>>, NEW v
  PROVE  Occurs(s, v) = Occurs(Tail(s), v) + (IF Head(s) = v THEN 1 ELSE 0)
<1> DEFINE I == {i \in DOMAIN Tail(s) : Tail(s)[i] = v}
           J == {i \in DOMAIN s : s[i] = v}
           K == {i \in DOMAIN s : i # 1 /\ s[i] = v}
           f == [i \in I |-> i + 1]
<1>0. Len(s) \in Nat \ {0} /\ DOMAIN s = 1 .. Len(s) /\ Tail(s) \in Seq(Vats) /\ Head(s) = s[1]
      /\ DOMAIN Tail(s) = 1 .. Len(s) - 1 /\ \A i \in 1 .. Len(s) - 1 : Tail(s)[i] = s[i + 1]
  OBVIOUS
<1>1. f \in Bijection(I, K)
  <2>1. f \in [I -> K]
    BY <1>0
  <2>2. \A a, b \in I : f[a] = f[b] => a = b
    BY <1>0
  <2>3. \A k \in K : k - 1 \in I /\ f[k - 1] = k
    BY <1>0
  <2> HIDE DEF f
  <2> QED BY <2>1, <2>2, <2>3 DEF Bijection, Injection, Surjection, IsInjective
<1>2. IsFiniteSet(I) /\ IsFiniteSet(1 .. Len(s))
  <2>1. I \subseteq 1 .. Len(s) /\ IsFiniteSet(1 .. Len(s))
    BY <1>0, FS_Interval
  <2> QED BY <2>1, FS_Subset
<1>3. IsFiniteSet(K) /\ Cardinality(K) = Cardinality(I)
  <2> HIDE DEF I, K, f
  <2>1. ExistsBijection(I, K)
    BY <1>1 DEF ExistsBijection
  <2> QED BY <1>2, <2>1, FS_Bijection
<1>4. J = IF Head(s) = v THEN K \cup {1} ELSE K
  BY <1>0
<1>5. 1 \notin K
  OBVIOUS
<1>6. Cardinality(K) \in Nat
  BY <1>3, FS_CardinalityType
<1> HIDE DEF I, J, K, f
<1>7. Cardinality(J) = Cardinality(K) + (IF Head(s) = v THEN 1 ELSE 0)
  BY <1>3, <1>4, <1>5, <1>6, FS_AddElement
<1> QED BY <1>3, <1>7 DEF I, J, Occurs

-----------------------------------------------------------------------------
(* Steps *)

\* How often v is in the queues of n, as VatsInOnePlace counts.
Places(n, v) ==
  Occurs(queue[n]["main"], v) + Occurs(queue[n]["burner"], v)
    + Occurs(net_vats[n], v) + (IF holding[n] = v THEN 1 ELSE 0)

LEMMA PlacesAre ==
  /\ VatsInOnePlace <=>
       \A v \in Vats, n \in Nodes : Places(n, v) = IF v \in made /\ Home[v] = n THEN 1 ELSE 0
  /\ VatsInOnePlace' <=>
       \A v \in Vats, n \in Nodes : Places(n, v)' = IF v \in made' /\ Home[v] = n THEN 1 ELSE 0
BY DEF VatsInOnePlace, Places

\* A step that moves no vat.
LEMMA Still ==
  ASSUME PlaceInv, UNCHANGED <<queue, net_vats, holding, made>>,
         burner' \in [Nodes -> {"idle", "handle", "flush"}],
         \A n \in Nodes : burner'[n] = "idle" <=> burner[n] = "idle"
  PROVE  PlaceInv'
<1>1. \A v \in Vats, n \in Nodes : Places(n, v)' = Places(n, v)
  BY DEF Places
<1> QED BY <1>1, PlacesAre DEF PlaceInv

\* A vat goes from the queue to the burner of its node,
LEMMA TakeVatKeeps ==
  ASSUME PlaceInv, NEW n \in Nodes, TakeVat(n)
  PROVE  PlaceInv'
<1>1. PICK t \in Threads :
        /\ queue[n][t] # <<>>
        /\ holding' = [holding EXCEPT ![n] = Head(queue[n][t])]
        /\ queue' = [queue EXCEPT ![n][t] = Tail(@)]
  BY DEF TakeVat
<1>2. /\ burner' = [burner EXCEPT ![n] = "handle"] /\ UNCHANGED <<net_vats, made>>
      /\ burner[n] = "idle"
  BY DEF TakeVat
<1> DEFINE v == Head(queue[n][t])
<1>3. v \in Vats /\ v # NoVat /\ holding[n] = NoVat /\ NoVat \notin Vats
  BY <1>1, <1>2, HomeAssumption DEF PlaceInv
<1>4. /\ queue' \in [Nodes -> [Threads -> Seq(Vats)]] /\ holding' \in [Nodes -> Vats \cup {NoVat}]
      /\ burner' \in [Nodes -> {"idle", "handle", "flush"}]
      /\ \A m \in Nodes : holding'[m] = NoVat <=> burner'[m] = "idle"
  BY <1>1, <1>2, <1>3 DEF PlaceInv
<1>5. ASSUME NEW u \in Vats, NEW m \in Nodes PROVE Places(m, u)' = Places(m, u)
  <2>1. CASE m # n
    BY <1>1, <1>2, <2>1 DEF Places, PlaceInv
  <2>2. CASE m = n
    <3>1. /\ \A r \in Threads : queue'[n][r] = IF r = t THEN Tail(queue[n][t]) ELSE queue[n][r]
          /\ holding'[n] = v /\ net_vats' = net_vats
      BY <1>1, <1>2 DEF PlaceInv
    <3>2. Occurs(queue[n][t], u) = Occurs(Tail(queue[n][t]), u) + (IF v = u THEN 1 ELSE 0)
      BY <1>1, OccursTail DEF PlaceInv
    <3>3. /\ Occurs(queue[n]["main"], u) \in Nat /\ Occurs(queue[n]["burner"], u) \in Nat
          /\ Occurs(net_vats[n], u) \in Nat /\ Occurs(Tail(queue[n][t]), u) \in Nat
      <4>1. /\ queue[n]["main"] \in Seq(Vats) /\ queue[n]["burner"] \in Seq(Vats)
            /\ net_vats[n] \in Seq(Vats) /\ Tail(queue[n][t]) \in Seq(Vats)
        BY <1>1 DEF PlaceInv, Threads
      <4> QED BY <4>1, OccursNat
    <3> HIDE DEF v
    <3> QED BY <1>3, <2>2, <3>1, <3>2, <3>3 DEF Places, Threads
  <2> QED BY <2>1, <2>2
<1> QED BY <1>2, <1>4, <1>5, PlacesAre DEF PlaceInv

\* from the burner to the vats that have run,
LEMMA ReturnVatKeeps ==
  ASSUME PlaceInv, NEW n \in Nodes, ReturnVat(n)
  PROVE  PlaceInv'
<1> DEFINE v == holding[n]
<1>1. /\ net_vats' = [net_vats EXCEPT ![n] = Append(@, v)]
      /\ holding' = [holding EXCEPT ![n] = NoVat]
      /\ burner' = [burner EXCEPT ![n] = "idle"]
      /\ UNCHANGED <<queue, made>> /\ burner[n] # "idle"
  BY DEF ReturnVat, Flushing
<1>2. v \in Vats /\ NoVat \notin Vats
  BY <1>1, HomeAssumption DEF PlaceInv
<1>3. /\ net_vats' \in [Nodes -> Seq(Vats)] /\ holding' \in [Nodes -> Vats \cup {NoVat}]
      /\ burner' \in [Nodes -> {"idle", "handle", "flush"}]
      /\ \A m \in Nodes : holding'[m] = NoVat <=> burner'[m] = "idle"
  BY <1>1, <1>2 DEF PlaceInv
<1>4. ASSUME NEW u \in Vats, NEW m \in Nodes PROVE Places(m, u)' = Places(m, u)
  <2>1. CASE m # n
    BY <1>1, <2>1 DEF Places, PlaceInv
  <2>2. CASE m = n
    <3>1. net_vats'[n] = Append(net_vats[n], v) /\ holding'[n] = NoVat /\ queue' = queue
      BY <1>1 DEF PlaceInv
    <3>2. Occurs(Append(net_vats[n], v), u) = Occurs(net_vats[n], u) + (IF v = u THEN 1 ELSE 0)
      BY <1>2, OccursAppend DEF PlaceInv
    <3>3. /\ Occurs(queue[n]["main"], u) \in Nat /\ Occurs(queue[n]["burner"], u) \in Nat
          /\ Occurs(net_vats[n], u) \in Nat
      BY OccursNat DEF PlaceInv, Threads
    <3> QED BY <1>2, <2>2, <3>1, <3>2, <3>3 DEF Places
  <2> QED BY <2>1, <2>2
<1> QED BY <1>1, <1>3, <1>4, PlacesAre DEF PlaceInv

\* and from there back to the queue.
LEMMA NetPassKeeps ==
  ASSUME PlaceInv, NEW n \in Nodes, NetPass(n)
  PROVE  PlaceInv'
<1> DEFINE v == Head(net_vats[n])
<1>1. /\ net_vats' = [net_vats EXCEPT ![n] = Tail(@)] /\ net_vats[n] # <<>>
      /\ queue' = [queue EXCEPT ![n]["main"] = Append(@, v)]
      /\ UNCHANGED <<holding, burner, made>>
  BY DEF NetPass
<1>2. v \in Vats
  BY <1>1 DEF PlaceInv
<1>3. queue' \in [Nodes -> [Threads -> Seq(Vats)]] /\ net_vats' \in [Nodes -> Seq(Vats)]
  <2>1. Tail(net_vats[n]) \in Seq(Vats) /\ Append(queue[n]["main"], v) \in Seq(Vats)
    BY <1>1, <1>2 DEF PlaceInv, Threads
  <2> QED BY <1>1, <2>1 DEF PlaceInv
<1>4. ASSUME NEW u \in Vats, NEW m \in Nodes PROVE Places(m, u)' = Places(m, u)
  <2>1. CASE m # n
    BY <1>1, <2>1 DEF Places, PlaceInv
  <2>2. CASE m = n
    <3>1. /\ queue'[n]["main"] = Append(queue[n]["main"], v)
          /\ queue'[n]["burner"] = queue[n]["burner"]
          /\ net_vats'[n] = Tail(net_vats[n]) /\ holding' = holding
      BY <1>1 DEF PlaceInv, Threads
    <3>2. Occurs(Append(queue[n]["main"], v), u)
            = Occurs(queue[n]["main"], u) + (IF v = u THEN 1 ELSE 0)
      BY <1>2, OccursAppend DEF PlaceInv, Threads
    <3>3. Occurs(net_vats[n], u) = Occurs(Tail(net_vats[n]), u) + (IF v = u THEN 1 ELSE 0)
      BY <1>1, OccursTail DEF PlaceInv
    <3>4. /\ Occurs(queue[n]["main"], u) \in Nat /\ Occurs(queue[n]["burner"], u) \in Nat
          /\ Occurs(Tail(net_vats[n]), u) \in Nat
      <4>1. /\ queue[n]["main"] \in Seq(Vats) /\ queue[n]["burner"] \in Seq(Vats)
            /\ Tail(net_vats[n]) \in Seq(Vats)
        BY <1>1 DEF PlaceInv, Threads
      <4> QED BY <4>1, OccursNat
    <3> HIDE DEF v
    <3> QED BY <2>2, <3>1, <3>2, <3>3, <3>4 DEF Places
  <2> QED BY <2>1, <2>2
<1> QED BY <1>1, <1>3, <1>4, PlacesAre DEF PlaceInv

\* A vat that a handler makes was nowhere before.
LEMMA CreateVatKeeps ==
  ASSUME PlaceInv, NEW n \in Nodes, HandleCreateVat(n)
  PROVE  PlaceInv'
<1>1. PICK w \in NewVats \ made :
        /\ Home[w] = n /\ made' = made \cup {w}
        /\ queue' = [queue EXCEPT ![n]["burner"] = Append(@, w)]
  BY DEF HandleCreateVat
<1>2. UNCHANGED <<net_vats, holding, burner>>
  BY DEF HandleCreateVat
<1>3. w \in Vats /\ w \notin made
  BY HomeAssumption
<1>4. queue' \in [Nodes -> [Threads -> Seq(Vats)]] /\ made' \subseteq Vats
  <2>1. Append(queue[n]["burner"], w) \in Seq(Vats)
    BY <1>3 DEF PlaceInv, Threads
  <2> QED BY <1>1, <1>3, <2>1 DEF PlaceInv
<1>5. ASSUME NEW u \in Vats, NEW m \in Nodes
      PROVE  Places(m, u)' = IF u \in made' /\ Home[u] = m THEN 1 ELSE 0
  <2>0. Places(m, u) = IF u \in made /\ Home[u] = m THEN 1 ELSE 0
    BY PlacesAre DEF PlaceInv
  <2>1. CASE m # n
    <3>1. Places(m, u)' = Places(m, u)
      BY <1>1, <1>2, <2>1 DEF Places, PlaceInv
    <3> QED BY <1>1, <2>0, <2>1, <3>1
  <2>2. CASE m = n
    <3>1. /\ queue'[n]["burner"] = Append(queue[n]["burner"], w)
          /\ queue'[n]["main"] = queue[n]["main"]
      BY <1>1 DEF PlaceInv, Threads
    <3>2. Occurs(Append(queue[n]["burner"], w), u)
            = Occurs(queue[n]["burner"], u) + (IF w = u THEN 1 ELSE 0)
      BY <1>3, OccursAppend DEF PlaceInv, Threads
    <3>3. /\ Occurs(queue[n]["main"], u) \in Nat /\ Occurs(queue[n]["burner"], u) \in Nat
          /\ Occurs(net_vats[n], u) \in Nat
      BY OccursNat DEF PlaceInv, Threads
    <3>4. Places(n, u)' = Places(n, u) + (IF w = u THEN 1 ELSE 0)
      BY <1>2, <3>1, <3>2, <3>3 DEF Places
    <3> QED BY <1>1, <1>3, <2>0, <2>2, <3>4
  <2> QED BY <2>1, <2>2
<1> QED BY <1>2, <1>4, <1>5, PlacesAre DEF PlaceInv

LEMMA OthersKeep ==
  ASSUME PlaceInv, NEW n \in Nodes,
         \/ HandleMessage(n) \/ FlushMessage(n) \/ Panic(n) \/ NetSent(n) \/ NetSort(n) \/ NetDone(n)
         \/ \E t \in Threads : NetSend(n, t)
         \/ \E p \in Nodes : NetReceive(p, n)
  PROVE  PlaceInv'
<1>1. CASE FlushMessage(n)
  <2>1. burner' = [burner EXCEPT ![n] = "flush"] /\ burner[n] # "idle"
    BY <1>1 DEF FlushMessage, Flushing
  <2>2. UNCHANGED <<queue, net_vats, holding, made>>
    BY <1>1 DEF FlushMessage
  <2>3. /\ burner' \in [Nodes -> {"idle", "handle", "flush"}]
        /\ \A m \in Nodes : burner'[m] = "idle" <=> burner[m] = "idle"
    BY <2>1 DEF PlaceInv
  <2> QED BY <2>2, <2>3, Still
<1>2. CASE ~ FlushMessage(n)
  <2>1. UNCHANGED <<queue, net_vats, holding, made, burner>>
    BY <1>2 DEF HandleMessage, Panic, NetSent, NetSort, NetDone, NetSend, NetReceive, burnerVars, netVars
  <2> QED BY <2>1, Still DEF PlaceInv
<1> QED BY <1>1, <1>2

-----------------------------------------------------------------------------
(* The initial state *)

\* A finite set made into a sequence has each of its elements once.
LEMMA SetToSeqOccurs ==
  ASSUME NEW S, S \subseteq Vats, NEW v
  PROVE  SetToSeq(S) \in Seq(Vats) /\ Occurs(SetToSeq(S), v) = IF v \in S THEN 1 ELSE 0
<1> DEFINE n == Cardinality(S)
           s == SetToSeq(S)
           I == {i \in DOMAIN s : s[i] = v}
<1>1. IsFiniteSet(S) /\ n \in Nat /\ ExistsBijection(1 .. n, S)
  BY HomeAssumption, FS_Subset, FS_CardinalityType
<1>2. \E f \in [1 .. n -> S] : IsInjective(f)
  BY <1>1 DEF ExistsBijection, Bijection, Injection
<1>3. s \in [1 .. n -> S] /\ IsInjective(s)
  BY <1>2 DEF SetToSeq
<1> HIDE DEF s
<1>4. s \in Injection(1 .. n, S)
  BY <1>3 DEF Injection
<1>5. IsFiniteSet(1 .. n) /\ Cardinality(1 .. n) = n
  BY <1>1, FS_Interval
<1>6. s \in Surjection(1 .. n, S)
  BY <1>1, <1>4, <1>5, FS_Injection
<1>7. s \in Seq(Vats)
  BY <1>1, <1>3
<1>8. CASE v \in S
  <2>1. PICK k \in 1 .. n : s[k] = v
    BY <1>6, <1>8 DEF Surjection
  <2>2. I = {k}
    BY <1>3, <2>1 DEF IsInjective
  <2> QED BY <1>7, <1>8, <2>2, FS_Singleton DEF Occurs, s
<1>9. CASE v \notin S
  <2>1. I = {}
    BY <1>3, <1>9
  <2> QED BY <1>7, <1>9, <2>1, FS_EmptySet DEF Occurs, s
<1> QED BY <1>8, <1>9

LEMMA InitPlaces == Init => PlaceInv
<1> SUFFICES ASSUME Init PROVE PlaceInv
  OBVIOUS
<1>1. \A n \in Nodes : VatsOf(n) \cap BootVats \subseteq Vats
  BY DEF VatsOf
<1>2. ASSUME NEW n \in Nodes
      PROVE  /\ queue[n] \in [Threads -> Seq(Vats)]
             /\ queue[n]["main"] = SetToSeq(VatsOf(n) \cap BootVats) /\ queue[n]["burner"] = <<>>
             /\ net_vats[n] = <<>> /\ holding[n] = NoVat /\ burner[n] = "idle"
  <2>1. SetToSeq(VatsOf(n) \cap BootVats) \in Seq(Vats) /\ <<>> \in Seq(Vats)
    BY <1>1, SetToSeqOccurs
  <2> QED BY <2>1 DEF Init, Threads
<1>3. ASSUME NEW v PROVE Occurs(<<>>, v) = 0
  <2>1. {i \in DOMAIN <<>> : <<>>[i] = v} = {}
    OBVIOUS
  <2> QED BY <2>1, FS_EmptySet DEF Occurs
<1>4. ASSUME NEW v \in Vats, NEW n \in Nodes
      PROVE  Places(n, v) = IF v \in made /\ Home[v] = n THEN 1 ELSE 0
  <2>1. Occurs(queue[n]["main"], v) = IF v \in VatsOf(n) \cap BootVats THEN 1 ELSE 0
    <3> DEFINE S == VatsOf(n) \cap BootVats
    <3>1. S \subseteq Vats /\ queue[n]["main"] = SetToSeq(S)
      BY <1>1, <1>2
    <3> HIDE DEF S
    <3>2. Occurs(queue[n]["main"], v) = IF v \in S THEN 1 ELSE 0
      BY <3>1, SetToSeqOccurs
    <3> QED BY <3>2 DEF S
  <2>2. v \in VatsOf(n) \cap BootVats <=> v \in made /\ Home[v] = n
    BY DEF VatsOf, Init
  <2>3. Occurs(queue[n]["burner"], v) = 0 /\ Occurs(net_vats[n], v) = 0
    BY <1>2, <1>3
  <2>4. holding[n] # v
    BY <1>2, HomeAssumption
  <2> QED BY <2>1, <2>2, <2>3, <2>4 DEF Places
<1>5. VatsInOnePlace
  BY <1>4, PlacesAre
<1>6. /\ queue \in [Nodes -> [Threads -> Seq(Vats)]] /\ net_vats \in [Nodes -> Seq(Vats)]
      /\ made \subseteq Vats
  <2>1. made \subseteq Vats /\ net_vats \in [Nodes -> Seq(Vats)]
    BY DEF Init, BootVats
  <2>2. DOMAIN queue = Nodes /\ queue = [n \in DOMAIN queue |-> queue[n]]
    BY DEF Init
  <2> QED BY <1>2, <2>1, <2>2
<1> QED BY <1>2, <1>5, <1>6 DEF PlaceInv, Init

-----------------------------------------------------------------------------
(* The theorem *)

LEMMA PlaceStep ==
  ASSUME PlaceInv, [Next]_vars
  PROVE  PlaceInv'
<1>1. ASSUME NEW n \in Nodes, Burner(n) PROVE PlaceInv'
  BY <1>1, TakeVatKeeps, ReturnVatKeeps, CreateVatKeeps, OthersKeep DEF Burner
<1>2. ASSUME NEW n \in Nodes, NetLoop(n) PROVE PlaceInv'
  BY <1>2, NetPassKeeps, OthersKeep DEF NetLoop
<1>3. ASSUME NEW n \in Nodes, Panic(n) PROVE PlaceInv'
  BY <1>3, OthersKeep
<1>4. ASSUME NEW n \in Nodes, NEW p \in Nodes, NetReceive(n, p) PROVE PlaceInv'
  BY <1>4, OthersKeep
<1>5. CASE UNCHANGED vars
  BY <1>5, Still DEF vars, burnerVars, PlaceInv
<1> QED BY <1>1, <1>2, <1>3, <1>4, <1>5 DEF Next

\* On any number of nodes, with any number of vats, every vat there is, is in
\* one queue of its node or with its burner, and nowhere else: no thread can run
\* a vat that another one runs or routes mail to (pleroma.cpp:66, 166,
\* netcode.cpp:147-155).
THEOREM OnePlace == Spec => []VatsInOnePlace
<1>1. PlaceInv /\ [Next]_vars => PlaceInv'
  BY PlaceStep
<1>2. PlaceInv => VatsInOnePlace
  BY DEF PlaceInv
<1> QED BY <1>1, <1>2, InitPlaces, PTL DEF Spec


-----------------------------------------------------------------------------
(* The mail of a channel in one queue *)

\* m is a message of s to v.
Of(m, s, v) == m.src = s /\ m.dst = v

\* q holds the messages of s to v after number a up to number b, each of them
\* once and in order.
Holds(q, s, v, a, b) ==
  /\ a <= b
  /\ \A i \in DOMAIN q : Of(q[i], s, v) => a < q[i].no /\ q[i].no <= b
  /\ \A i, j \in DOMAIN q : i < j /\ Of(q[i], s, v) /\ Of(q[j], s, v) => q[i].no < q[j].no
  /\ \A x \in Nat : a < x /\ x <= b => \E i \in DOMAIN q : Of(q[i], s, v) /\ q[i].no = x

\* What one queue holds of a channel, the other holds too.
Alike(p, q, s, v) == \A a, b \in Nat : Holds(p, s, v, a, b) => Holds(q, s, v, a, b)

LEMMA MsgSeq ==
  ASSUME NEW q \in Seq(Msg)
  PROVE  /\ Len(q) \in Nat /\ DOMAIN q = 1 .. Len(q)
         /\ \A i \in DOMAIN q : q[i] \in Msg /\ q[i].no \in Nat
<1>1. \A m \in Msg : m.no \in Nat
  BY DEF Msg
<1>2. Len(q) \in Nat /\ DOMAIN q = 1 .. Len(q) /\ \A i \in DOMAIN q : q[i] \in Msg
  OBVIOUS
<1> QED BY <1>1, <1>2

LEMMA HoldsNothing ==
  ASSUME NEW s, NEW v, NEW a \in Nat
  PROVE  Holds(<<>>, s, v, a, a)
BY DEF Holds

\* Where the last message of a channel leaves a queue, the next one goes.
LEMMA HoldsAppend ==
  ASSUME NEW q \in Seq(Msg), NEW m \in Msg, NEW s, NEW v, Of(m, s, v),
         NEW a \in Nat, NEW b \in Nat, Holds(q, s, v, a, b), m.no = b + 1
  PROVE  Holds(Append(q, m), s, v, a, b + 1)
<1> DEFINE r == Append(q, m)
           k == Len(q) + 1
<1>1. /\ Len(q) \in Nat /\ DOMAIN q = 1 .. Len(q) /\ DOMAIN r = 1 .. k
      /\ r[k] = m /\ \A i \in DOMAIN q : r[i] = q[i]
  BY MsgSeq
<1>2. \A i \in DOMAIN q : q[i].no \in Nat
  BY MsgSeq
<1> HIDE DEF r
<1>3. \A i \in DOMAIN r : i \in DOMAIN q \/ i = k
  BY <1>1
<1>4. k \in DOMAIN r /\ \A i \in DOMAIN q : i \in DOMAIN r
  BY <1>1
<1>5. \A i \in DOMAIN r : Of(r[i], s, v) => a < r[i].no /\ r[i].no <= b + 1
  BY <1>1, <1>2, <1>3 DEF Holds
<1>6. \A i, j \in DOMAIN r : i < j /\ Of(r[i], s, v) /\ Of(r[j], s, v) => r[i].no < r[j].no
  <2> SUFFICES ASSUME NEW i \in DOMAIN r, NEW j \in DOMAIN r, i < j, Of(r[i], s, v), Of(r[j], s, v)
               PROVE  r[i].no < r[j].no
    OBVIOUS
  <2>1. i \in DOMAIN q
    BY <1>1, <1>3
  <2>2. CASE j = k
    BY <1>1, <1>2, <2>1, <2>2 DEF Holds
  <2>3. CASE j \in DOMAIN q
    BY <1>1, <2>1, <2>3 DEF Holds
  <2> QED BY <1>3, <2>2, <2>3
<1>7. \A x \in Nat : a < x /\ x <= b + 1 => \E i \in DOMAIN r : Of(r[i], s, v) /\ r[i].no = x
  <2> SUFFICES ASSUME NEW x \in Nat, a < x, x <= b + 1
               PROVE  \E i \in DOMAIN r : Of(r[i], s, v) /\ r[i].no = x
    OBVIOUS
  <2>1. CASE x = b + 1
    BY <1>1, <1>4, <2>1
  <2>2. CASE x <= b
    BY <1>1, <1>4, <2>2 DEF Holds
  <2> QED BY <2>1, <2>2
<1> QED BY <1>5, <1>6, <1>7 DEF Holds, r

\* The first message of a queue has the first number of its channel.
LEMMA HoldsTail ==
  ASSUME NEW q \in Seq(Msg), q # <<>>, NEW s, NEW v, Of(Head(q), s, v),
         NEW a \in Nat, NEW b \in Nat, Holds(q, s, v, a, b)
  PROVE  /\ Head(q).no = a + 1 /\ a + 1 <= b
         /\ Holds(Tail(q), s, v, a + 1, b)
<1> DEFINE r == Tail(q)
<1>1. /\ Len(q) \in Nat \ {0} /\ DOMAIN q = 1 .. Len(q) /\ DOMAIN r = 1 .. Len(q) - 1
      /\ Head(q) = q[1] /\ \A i \in DOMAIN r : r[i] = q[i + 1]
  OBVIOUS
<1>2. \A i \in DOMAIN q : q[i].no \in Nat
  BY MsgSeq
<1> HIDE DEF r
<1>3. 1 \in DOMAIN q /\ \A i \in DOMAIN r : i + 1 \in DOMAIN q /\ 1 < i + 1
  BY <1>1
<1>4. \A i \in DOMAIN q : i = 1 \/ (i - 1 \in DOMAIN r /\ r[i - 1] = q[i] /\ 1 < i)
  BY <1>1
<1>5. a < q[1].no /\ q[1].no <= b /\ q[1].no \in Nat
  BY <1>1, <1>2, <1>3 DEF Holds
<1>6. q[1].no = a + 1
  <2>1. PICK i \in DOMAIN q : Of(q[i], s, v) /\ q[i].no = a + 1
    BY <1>5 DEF Holds
  <2>2. i = 1 \/ q[1].no < q[i].no
    BY <1>1, <1>3, <1>4, <2>1 DEF Holds
  <2> QED BY <1>5, <2>1, <2>2
<1>7. \A i \in DOMAIN r : Of(r[i], s, v) => a + 1 < r[i].no /\ r[i].no <= b
  BY <1>1, <1>3, <1>6 DEF Holds
<1>8. \A i, j \in DOMAIN r : i < j /\ Of(r[i], s, v) /\ Of(r[j], s, v) => r[i].no < r[j].no
  BY <1>1, <1>3 DEF Holds
<1>9. \A x \in Nat : a + 1 < x /\ x <= b => \E i \in DOMAIN r : Of(r[i], s, v) /\ r[i].no = x
  <2> SUFFICES ASSUME NEW x \in Nat, a + 1 < x, x <= b
               PROVE  \E i \in DOMAIN r : Of(r[i], s, v) /\ r[i].no = x
    OBVIOUS
  <2>1. PICK i \in DOMAIN q : Of(q[i], s, v) /\ q[i].no = x
    BY DEF Holds
  <2>2. i # 1
    BY <1>6, <2>1
  <2> QED BY <1>4, <2>1, <2>2
<1> QED BY <1>1, <1>5, <1>6, <1>7, <1>8, <1>9 DEF Holds, r

\* Messages of other channels do not count.
LEMMA AlikeAppend ==
  ASSUME NEW q \in Seq(Msg), NEW m \in Msg, NEW s, NEW v, ~Of(m, s, v)
  PROVE  Alike(q, Append(q, m), s, v)
<1> DEFINE r == Append(q, m)
           k == Len(q) + 1
<1>1. /\ Len(q) \in Nat /\ DOMAIN q = 1 .. Len(q) /\ DOMAIN r = 1 .. k
      /\ r[k] = m /\ \A i \in DOMAIN q : r[i] = q[i] /\ i \in DOMAIN r
  BY MsgSeq
<1> HIDE DEF r
<1>2. \A i \in DOMAIN r : Of(r[i], s, v) => i \in DOMAIN q /\ r[i] = q[i]
  BY <1>1
<1> QED BY <1>1, <1>2 DEF Alike, Holds, r

LEMMA AlikeTail ==
  ASSUME NEW q \in Seq(Msg), q # <<>>, NEW s, NEW v, ~Of(Head(q), s, v)
  PROVE  Alike(q, Tail(q), s, v)
<1> DEFINE r == Tail(q)
<1>1. /\ Len(q) \in Nat \ {0} /\ DOMAIN q = 1 .. Len(q) /\ DOMAIN r = 1 .. Len(q) - 1
      /\ Head(q) = q[1] /\ \A i \in DOMAIN r : r[i] = q[i + 1]
  OBVIOUS
<1> HIDE DEF r
<1>2. \A i \in DOMAIN r : i + 1 \in DOMAIN q /\ r[i] = q[i + 1] /\ i \in Int
  BY <1>1
<1>3. \A i \in DOMAIN q : Of(q[i], s, v) => i - 1 \in DOMAIN r /\ r[i - 1] = q[i]
  BY <1>1
<1> SUFFICES ASSUME NEW a \in Nat, NEW b \in Nat, Holds(q, s, v, a, b)
             PROVE  Holds(r, s, v, a, b)
  BY DEF Alike, r
<1>4. \A i \in DOMAIN r : Of(r[i], s, v) => a < r[i].no /\ r[i].no <= b
  BY <1>2 DEF Holds
<1>5. \A i, j \in DOMAIN r : i < j /\ Of(r[i], s, v) /\ Of(r[j], s, v) => r[i].no < r[j].no
  BY <1>2 DEF Holds
<1>6. \A x \in Nat : a < x /\ x <= b => \E i \in DOMAIN r : Of(r[i], s, v) /\ r[i].no = x
  BY <1>3 DEF Holds
<1> QED BY <1>4, <1>5, <1>6 DEF Holds

LEMMA HoldsConcat ==
  ASSUME NEW p \in Seq(Msg), NEW q \in Seq(Msg), NEW s, NEW v,
         NEW a \in Nat, NEW b \in Nat, NEW c \in Nat,
         Holds(p, s, v, a, b), Holds(q, s, v, b, c)
  PROVE  Holds(p \o q, s, v, a, c)
<1> DEFINE r == p \o q
           k == Len(p)
<1>1. /\ k \in Nat /\ DOMAIN p = 1 .. k /\ DOMAIN q = 1 .. Len(q) /\ Len(q) \in Nat
      /\ DOMAIN r = 1 .. k + Len(q)
      /\ \A i \in 1 .. k + Len(q) : r[i] = IF i <= k THEN p[i] ELSE q[i - k]
  BY ConcatProperties, MsgSeq
<1>2. /\ \A i \in DOMAIN p : p[i].no \in Nat
      /\ \A i \in DOMAIN q : q[i].no \in Nat
  BY MsgSeq
<1> HIDE DEF r, k
<1>3. \A i \in DOMAIN r : /\ i <= k => i \in DOMAIN p /\ r[i] = p[i]
                          /\ ~(i <= k) => i - k \in DOMAIN q /\ r[i] = q[i - k]
  BY <1>1
<1>4. /\ \A i \in DOMAIN p : i \in DOMAIN r /\ r[i] = p[i]
      /\ \A i \in DOMAIN q : i + k \in DOMAIN r /\ r[i + k] = q[i]
  <2>1. \A i \in DOMAIN q : i + k \in DOMAIN r /\ ~(i + k <= k) /\ i + k - k = i
    BY <1>1
  <2> QED BY <1>1, <2>1
<1>5. a <= b /\ b <= c
  BY DEF Holds
<1>6. \A i \in DOMAIN r : Of(r[i], s, v) => a < r[i].no /\ r[i].no <= c
  BY <1>2, <1>3, <1>5 DEF Holds
<1>7. \A i, j \in DOMAIN r : i < j /\ Of(r[i], s, v) /\ Of(r[j], s, v) => r[i].no < r[j].no
  <2> SUFFICES ASSUME NEW i \in DOMAIN r, NEW j \in DOMAIN r, i < j, Of(r[i], s, v), Of(r[j], s, v)
               PROVE  r[i].no < r[j].no
    OBVIOUS
  <2>0. i \in Int /\ j \in Int
    BY <1>1
  <2>1. CASE j <= k
    BY <1>1, <1>3, <2>0, <2>1 DEF Holds
  <2>2. CASE ~(i <= k)
    <3>1. ~(j <= k) /\ i - k < j - k
      BY <1>1, <2>0, <2>2
    <3>2. i - k \in DOMAIN q /\ r[i] = q[i - k] /\ j - k \in DOMAIN q /\ r[j] = q[j - k]
      BY <1>3, <2>2, <3>1
    <3> QED BY <3>1, <3>2 DEF Holds
  <2>3. CASE i <= k /\ ~(j <= k)
    <3>1. r[i].no <= b /\ r[i].no \in Nat
      BY <1>2, <1>3, <2>3 DEF Holds
    <3>2. b < r[j].no /\ r[j].no \in Nat
      BY <1>2, <1>3, <2>3 DEF Holds
    <3> QED BY <3>1, <3>2
  <2> QED BY <2>1, <2>2, <2>3
<1>8. \A x \in Nat : a < x /\ x <= c => \E i \in DOMAIN r : Of(r[i], s, v) /\ r[i].no = x
  <2> SUFFICES ASSUME NEW x \in Nat, a < x, x <= c
               PROVE  \E i \in DOMAIN r : Of(r[i], s, v) /\ r[i].no = x
    OBVIOUS
  <2>1. CASE x <= b
    BY <1>4, <2>1 DEF Holds
  <2>2. CASE b < x
    BY <1>4, <2>2 DEF Holds
  <2> QED BY <2>1, <2>2
<1>9. a <= c
  BY <1>5
<1>10. Holds(r, s, v, a, c)
  BY <1>6, <1>7, <1>8, <1>9, Zenon DEF Holds
<1> QED BY <1>10 DEF r

\* Two queues in which no message is of the channel.
LEMMA HoldsShift ==
  ASSUME NEW q \in Seq(Msg), NEW s, NEW v, NEW a \in Nat, NEW b \in Nat, Holds(q, s, v, a, b),
         \A i \in DOMAIN q : ~Of(q[i], s, v)
  PROVE  a = b /\ Holds(q, s, v, a + 1, b + 1)
<1>1. a = b
  <2>1. CASE a < b
    <3>1. PICK i \in DOMAIN q : Of(q[i], s, v) /\ q[i].no = b
      BY <2>1 DEF Holds
    <3> QED BY <3>1
  <2> QED BY <2>1 DEF Holds
<1> QED BY <1>1 DEF Holds

-----------------------------------------------------------------------------
(* The mail of a channel in the queues it goes through *)

\* The way w is six queues, the mailbox first; together they hold the messages
\* after a up to b, older ones nearer to the mailbox.
Carries(w, s, v, a, b) ==
  \E c \in [0 .. 6 -> Nat] :
    /\ c[0] = a /\ c[6] = b
    /\ \A k \in 1 .. 6 : Holds(w[k], s, v, c[k - 1], c[k])

\* Steps of a way: the first message of queue l goes to the end of queue k,
Moved(w, u, k, l) ==
  /\ w[l] # <<>> /\ u[k] = Append(w[k], Head(w[l])) /\ u[l] = Tail(w[l])
  /\ \A j \in 1 .. 6 : j # k /\ j # l => u[j] = w[j]

\* of the mailbox is taken,
TakenFrom(w, u) == w[1] # <<>> /\ u[1] = Tail(w[1]) /\ \A j \in 2 .. 6 : u[j] = w[j]

\* the messages q are sent,
Added(w, u, q) == u[6] = w[6] \o q /\ \A j \in 1 .. 5 : u[j] = w[j]

\* or what is sorted goes into the mailbox.
Delivered(w, u) == u[1] = w[1] \o w[2] /\ u[2] = <<>> /\ \A j \in 3 .. 6 : u[j] = w[j]

IsWay(w) == \A j \in 1 .. 6 : w[j] \in Seq(Msg)

\* The queues between k and l hold nothing of the channel.
NoneBetween(w, k, l, s, v) ==
  \A j \in 1 .. 6 : k < j /\ j < l => \A i \in DOMAIN w[j] : ~Of(w[j][i], s, v)

LEMMA CarriesAlike ==
  ASSUME NEW w, NEW u, NEW s, NEW v, NEW a \in Nat, NEW b \in Nat, Carries(w, s, v, a, b),
         \A k \in 1 .. 6 : Alike(w[k], u[k], s, v)
  PROVE  Carries(u, s, v, a, b)
<1>1. PICK c \in [0 .. 6 -> Nat] :
        c[0] = a /\ c[6] = b /\ \A k \in 1 .. 6 : Holds(w[k], s, v, c[k - 1], c[k])
  BY DEF Carries
<1>2. ASSUME NEW k \in 1 .. 6 PROVE Holds(u[k], s, v, c[k - 1], c[k])
  <2>1. c[k - 1] \in Nat /\ c[k] \in Nat
    OBVIOUS
  <2> QED BY <1>1, <2>1 DEF Alike
<1> QED BY <1>1, <1>2 DEF Carries

\* The first message of one queue of the way goes to the end of an earlier one;
\* the queues between hold nothing of its channel.
LEMMA CarriesMove ==
  ASSUME NEW w, NEW u, NEW s, NEW v, NEW a \in Nat, NEW b \in Nat, Carries(w, s, v, a, b),
         NEW k \in 1 .. 6, NEW l \in 1 .. 6, k < l,
         IsWay(w), Moved(w, u, k, l), Of(Head(w[l]), s, v), NoneBetween(w, k, l, s, v)
  PROVE  Carries(u, s, v, a, b)
<1>1. PICK c \in [0 .. 6 -> Nat] :
        c[0] = a /\ c[6] = b /\ \A j \in 1 .. 6 : Holds(w[j], s, v, c[j - 1], c[j])
  BY DEF Carries
<1>0. \A j \in 1 .. 6 : j - 1 \in 0 .. 6 /\ j \in 0 .. 6 /\ c[j - 1] \in Nat /\ c[j] \in Nat
  OBVIOUS
<1> DEFINE m == Head(w[l])
           d == [j \in 0 .. 6 |-> IF k <= j /\ j < l THEN c[j] + 1 ELSE c[j]]
<1>2. /\ m.no = c[l - 1] + 1 /\ m \in Msg
      /\ Holds(Tail(w[l]), s, v, c[l - 1] + 1, c[l])
  <2>1. Holds(w[l], s, v, c[l - 1], c[l]) /\ w[l] \in Seq(Msg) /\ w[l] # <<>>
    BY <1>1 DEF IsWay, Moved
  <2>2. Head(w[l]) \in Msg
    BY <2>1
  <2>3. c[l - 1] \in Nat /\ c[l] \in Nat
    BY <1>0
  <2>4. Head(w[l]).no = c[l - 1] + 1 /\ Holds(Tail(w[l]), s, v, c[l - 1] + 1, c[l])
    <3> DEFINE q == w[l]
               x == c[l - 1]
               y == c[l]
    <3>1. /\ q \in Seq(Msg) /\ q # <<>> /\ Of(Head(q), s, v) /\ x \in Nat /\ y \in Nat
          /\ Holds(q, s, v, x, y)
      BY <2>1, <2>3
    <3> HIDE DEF q, x, y
    <3>2. Head(q).no = x + 1 /\ Holds(Tail(q), s, v, x + 1, y)
      BY <3>1, HoldsTail
    <3> QED BY <3>2 DEF q, x, y
  <2> QED BY <2>2, <2>4
<1>3. \A j \in 1 .. 6 : k < j /\ j < l =>
        c[j - 1] = c[j] /\ Holds(w[j], s, v, c[j - 1] + 1, c[j] + 1)
  <2> SUFFICES ASSUME NEW j \in 1 .. 6, k < j, j < l
               PROVE  c[j - 1] = c[j] /\ Holds(w[j], s, v, c[j - 1] + 1, c[j] + 1)
    OBVIOUS
  <2>1. w[j] \in Seq(Msg) /\ \A i \in DOMAIN w[j] : ~Of(w[j][i], s, v)
    BY DEF IsWay, NoneBetween
  <2> QED BY <1>0, <1>1, <2>1, HoldsShift
<1>4. c[k] = c[l - 1]
  <2>1. k \in Int /\ l \in Int /\ k >= 1 /\ l <= 6
    OBVIOUS
  <2>2. /\ k < 2 /\ 2 < l => c[1] = c[2]
        /\ k < 3 /\ 3 < l => c[2] = c[3]
        /\ k < 4 /\ 4 < l => c[3] = c[4]
        /\ k < 5 /\ 5 < l => c[4] = c[5]
    <3>1. 2 \in 1 .. 6 /\ 3 \in 1 .. 6 /\ 4 \in 1 .. 6 /\ 5 \in 1 .. 6
          /\ 2 - 1 = 1 /\ 3 - 1 = 2 /\ 4 - 1 = 3 /\ 5 - 1 = 4
      OBVIOUS
    <3> QED BY <1>3, <3>1
  <2>3. l - 1 \in {1, 2, 3, 4, 5} /\ k \in {1, 2, 3, 4, 5} /\ k <= l - 1
    BY <2>1
  <2> QED BY <2>1, <2>2, <2>3
<1>5. Holds(u[k], s, v, c[k - 1], c[k] + 1)
  <2>1. Holds(w[k], s, v, c[k - 1], c[k]) /\ w[k] \in Seq(Msg) /\ u[k] = Append(w[k], m)
    BY <1>1 DEF IsWay, Moved
  <2>2. m.no = c[k] + 1 /\ c[k - 1] \in Nat /\ c[k] \in Nat /\ Of(m, s, v)
    BY <1>0, <1>2, <1>4
  <2> HIDE DEF m
  <2> QED BY <1>2, <2>1, <2>2, HoldsAppend
<1> HIDE DEF d
<1>6. /\ d \in [0 .. 6 -> Nat] /\ d[0] = a /\ d[6] = b
      /\ \A j \in 0 .. 6 : d[j] = IF k <= j /\ j < l THEN c[j] + 1 ELSE c[j]
  BY <1>1 DEF d
<1>7. ASSUME NEW j \in 1 .. 6 PROVE Holds(u[j], s, v, d[j - 1], d[j])
  <2>1. CASE j = k
    <3>1. d[j - 1] = c[k - 1] /\ d[j] = c[k] + 1
      BY <1>6, <2>1
    <3> QED BY <1>5, <2>1, <3>1
  <2>2. CASE j = l
    <3>1. d[j - 1] = c[l - 1] + 1 /\ d[j] = c[l]
      BY <1>6, <2>2
    <3> QED BY <1>2, <2>2, <3>1 DEF Moved
  <2>3. CASE k < j /\ j < l
    <3>1. d[j - 1] = c[j - 1] + 1 /\ d[j] = c[j] + 1
      BY <1>6, <2>3
    <3>2. j # k /\ j # l
      BY <2>3
    <3>3. u[j] = w[j]
      BY <3>2, Zenon DEF Moved
    <3> QED BY <1>3, <2>3, <3>1, <3>3
  <2>4. CASE j < k \/ l < j
    <3>1. d[j - 1] = c[j - 1] /\ d[j] = c[j]
      BY <1>6, <2>4
    <3>2. j # k /\ j # l
      BY <2>4
    <3>3. u[j] = w[j]
      BY <3>2, Zenon DEF Moved
    <3> QED BY <1>1, <3>1, <3>3
  <2> QED BY <2>1, <2>2, <2>3, <2>4
<1> QED BY <1>6, <1>7 DEF Carries

\* The first message of the mailbox is taken.
LEMMA CarriesTake ==
  ASSUME NEW w, NEW u, NEW s, NEW v, NEW a \in Nat, NEW b \in Nat, Carries(w, s, v, a, b),
         IsWay(w), TakenFrom(w, u), Of(Head(w[1]), s, v)
  PROVE  /\ Head(w[1]).no = a + 1 /\ a + 1 <= b
         /\ Carries(u, s, v, a + 1, b)
<1>1. PICK c \in [0 .. 6 -> Nat] :
        c[0] = a /\ c[6] = b /\ \A j \in 1 .. 6 : Holds(w[j], s, v, c[j - 1], c[j])
  BY DEF Carries
<1>2. \A j \in 1 .. 6 : c[j - 1] <= c[j]
  BY <1>1 DEF Holds
<1>3. c[1] <= b
  <2>1. c[2 - 1] <= c[2] /\ c[3 - 1] <= c[3] /\ c[4 - 1] <= c[4] /\ c[5 - 1] <= c[5]
        /\ c[6 - 1] <= c[6]
    BY <1>2
  <2>2. c[1] \in Nat /\ c[2] \in Nat /\ c[3] \in Nat /\ c[4] \in Nat /\ c[5] \in Nat
    OBVIOUS
  <2> QED BY <1>1, <2>1, <2>2
<1>4. /\ Head(w[1]).no = a + 1 /\ a + 1 <= c[1] /\ c[1] \in Nat
      /\ Holds(u[1], s, v, a + 1, c[1])
  <2>1. Holds(w[1], s, v, a, c[1]) /\ c[1] \in Nat
    <3>1. Holds(w[1], s, v, c[1 - 1], c[1])
      BY <1>1
    <3> QED BY <1>1, <3>1
  <2>2. w[1] \in Seq(Msg) /\ w[1] # <<>> /\ u[1] = Tail(w[1])
    BY DEF IsWay, TakenFrom
  <2> DEFINE q == w[1]
             e == c[1]
  <2>3. q \in Seq(Msg) /\ q # <<>> /\ Of(Head(q), s, v) /\ Holds(q, s, v, a, e) /\ e \in Nat
    BY <2>1, <2>2
  <2> HIDE DEF q, e
  <2>4. Head(q).no = a + 1 /\ a + 1 <= e /\ Holds(Tail(q), s, v, a + 1, e)
    BY <2>3, HoldsTail
  <2>5. u[1] = Tail(q)
    BY <2>2 DEF q
  <2> QED BY <2>3, <2>4, <2>5 DEF q, e
<1> DEFINE d == [c EXCEPT ![0] = a + 1]
<1>5. d \in [0 .. 6 -> Nat] /\ d[0] = a + 1 /\ d[6] = b /\ \A j \in 1 .. 6 : d[j] = c[j]
  BY <1>1
<1> HIDE DEF d
<1>6. ASSUME NEW j \in 1 .. 6 PROVE Holds(u[j], s, v, d[j - 1], d[j])
  <2>1. CASE j = 1
    BY <1>4, <1>5, <2>1
  <2>2. CASE j # 1
    <3>1. j \in 2 .. 6 /\ d[j - 1] = c[j - 1] /\ d[j] = c[j]
      BY <1>5, <2>2
    <3> QED BY <1>1, <3>1 DEF TakenFrom
  <2> QED BY <2>1, <2>2
<1>7. Carries(u, s, v, a + 1, b)
  BY <1>5, <1>6 DEF Carries
<1> QED BY <1>1, <1>3, <1>4, <1>7

\* The sender adds messages.
LEMMA CarriesSend ==
  ASSUME NEW w, NEW u, NEW s, NEW v, NEW a \in Nat, NEW b \in Nat, NEW e \in Nat,
         Carries(w, s, v, a, b),
         IsWay(w), NEW q \in Seq(Msg), Holds(q, s, v, b, e), Added(w, u, q)
  PROVE  Carries(u, s, v, a, e)
<1>1. PICK c \in [0 .. 6 -> Nat] :
        c[0] = a /\ c[6] = b /\ \A j \in 1 .. 6 : Holds(w[j], s, v, c[j - 1], c[j])
  BY DEF Carries
<1>2. Holds(u[6], s, v, c[5], e)
  <2>1. Holds(w[6], s, v, c[5], b) /\ c[5] \in Nat
    <3>1. Holds(w[6], s, v, c[6 - 1], c[6])
      BY <1>1
    <3> QED BY <1>1, <3>1
  <2>2. w[6] \in Seq(Msg) /\ u[6] = w[6] \o q
    BY DEF IsWay, Added
  <2> QED BY <2>1, <2>2, HoldsConcat
<1> DEFINE d == [c EXCEPT ![6] = e]
<1>3. d \in [0 .. 6 -> Nat] /\ d[0] = a /\ d[6] = e /\ \A j \in 0 .. 5 : d[j] = c[j]
  BY <1>1
<1> HIDE DEF d
<1>4. ASSUME NEW j \in 1 .. 6 PROVE Holds(u[j], s, v, d[j - 1], d[j])
  <2>1. CASE j = 6
    BY <1>2, <1>3, <2>1
  <2>2. CASE j # 6
    <3>1. j \in 1 .. 5 /\ d[j - 1] = c[j - 1] /\ d[j] = c[j]
      BY <1>3, <2>2
    <3> QED BY <1>1, <3>1 DEF Added
  <2> QED BY <2>1, <2>2
<1> QED BY <1>3, <1>4 DEF Carries

\* What is sorted for a vat goes into its mailbox.
LEMMA CarriesJoin ==
  ASSUME NEW w, NEW u, NEW s, NEW v, NEW a \in Nat, NEW b \in Nat, Carries(w, s, v, a, b),
         IsWay(w), Delivered(w, u)
  PROVE  Carries(u, s, v, a, b)
<1>1. PICK c \in [0 .. 6 -> Nat] :
        c[0] = a /\ c[6] = b /\ \A j \in 1 .. 6 : Holds(w[j], s, v, c[j - 1], c[j])
  BY DEF Carries
<1>2. Holds(u[1], s, v, a, c[2]) /\ c[2] \in Nat
  <2>1. Holds(w[1], s, v, a, c[1]) /\ c[1] \in Nat /\ c[2] \in Nat
    <3>1. Holds(w[1], s, v, c[1 - 1], c[1])
      BY <1>1
    <3> QED BY <1>1, <3>1
  <2>2. Holds(w[2], s, v, c[1], c[2])
    <3>1. Holds(w[2], s, v, c[2 - 1], c[2])
      BY <1>1
    <3> QED BY <1>1, <3>1
  <2>3. w[1] \in Seq(Msg) /\ w[2] \in Seq(Msg) /\ u[1] = w[1] \o w[2]
    BY DEF IsWay, Delivered
  <2> QED BY <2>1, <2>2, <2>3, HoldsConcat
<1> DEFINE d == [c EXCEPT ![1] = c[2]]
<1>3. d \in [0 .. 6 -> Nat] /\ d[0] = a /\ d[6] = b /\ d[1] = c[2] /\ d[2] = c[2]
      /\ \A j \in 2 .. 6 : d[j] = c[j]
  BY <1>1
<1> HIDE DEF d
<1>4. ASSUME NEW j \in 1 .. 6 PROVE Holds(u[j], s, v, d[j - 1], d[j])
  <2>1. CASE j = 1
    BY <1>2, <1>3, <2>1
  <2>2. CASE j = 2
    BY <1>2, <1>3, <2>2, HoldsNothing DEF Delivered
  <2>3. CASE j \in 3 .. 6
    <3>1. d[j - 1] = c[j - 1] /\ d[j] = c[j]
      BY <1>3, <2>3
    <3> QED BY <1>1, <2>3, <3>1 DEF Delivered
  <2> QED BY <2>1, <2>2, <2>3
<1> QED BY <1>3, <1>4 DEF Carries

-----------------------------------------------------------------------------
(* What a handler sends *)

LEMMA HowOftenIs ==
  ASSUME NEW ts, NEW d, NEW i \in Nat
  PROVE  /\ HowOften(d, ts, i) \in Nat /\ HowOften(d, ts, 0) = 0
         /\ HowOften(d, ts, i + 1) = HowOften(d, ts, i) + (IF ts[i + 1] = d THEN 1 ELSE 0)
         /\ \A k \in Nat : i <= k => HowOften(d, ts, i) <= HowOften(d, ts, k)
<1> DEFINE T(k) == {j \in 1 .. k : ts[j] = d}
<1>1. ASSUME NEW k \in Nat PROVE IsFiniteSet(T(k)) /\ Cardinality(T(k)) \in Nat
  <2>1. IsFiniteSet(1 .. k) /\ T(k) \in SUBSET (1 .. k)
    BY FS_Interval
  <2> HIDE DEF T
  <2> QED BY <2>1, FS_Subset, FS_CardinalityType
<1>2. T(0) = {} /\ Cardinality({}) = 0
  <2>1. 1 .. 0 = {}
    OBVIOUS
  <2> QED BY <2>1, FS_EmptySet
<1>3. ASSUME NEW k \in Nat, i <= k PROVE Cardinality(T(i)) <= Cardinality(T(k))
  <2>1. T(i) \in SUBSET T(k)
    BY <1>3
  <2> HIDE DEF T
  <2> QED BY <1>1, <2>1, FS_Subset
<1>4. Cardinality(T(i + 1)) = Cardinality(T(i)) + (IF ts[i + 1] = d THEN 1 ELSE 0)
  <2>1. 1 .. i + 1 = (1 .. i) \cup {i + 1} /\ i + 1 \notin 1 .. i
    OBVIOUS
  <2>2. CASE ts[i + 1] = d
    <3>1. T(i + 1) = T(i) \cup {i + 1} /\ i + 1 \notin T(i)
      BY <2>1, <2>2
    <3>2. Cardinality(T(i) \cup {i + 1}) = Cardinality(T(i)) + 1
      <4> HIDE DEF T
      <4> QED BY <1>1, <3>1, FS_AddElement
    <3> QED BY <2>2, <3>1, <3>2
  <2>3. CASE ts[i + 1] # d
    <3>1. T(i + 1) = T(i)
      BY <2>1, <2>3
    <3>2. Cardinality(T(i)) \in Nat
      BY <1>1
    <3> HIDE DEF T
    <3> QED BY <2>3, <3>1, <3>2
  <2> QED BY <2>2, <2>3
<1>5. \A k : HowOften(d, ts, k) = Cardinality(T(k))
  BY DEF HowOften
<1>6. i + 1 \in Nat /\ 0 \in Nat
  OBVIOUS
<1> HIDE DEF T
<1> QED BY <1>1, <1>2, <1>3, <1>4, <1>5, <1>6

LEMMA HowOftenHere ==
  ASSUME NEW ts, NEW d, NEW i \in Nat, 1 <= i, ts[i] = d
  PROVE  HowOften(d, ts, i) >= 1
<1> DEFINE p == i - 1
<1>1. p \in Nat /\ p + 1 = i
  OBVIOUS
<1> HIDE DEF p
<1>2. HowOften(d, ts, p) \in Nat
      /\ HowOften(d, ts, p + 1) = HowOften(d, ts, p) + (IF ts[p + 1] = d THEN 1 ELSE 0)
  BY <1>1, HowOftenIs
<1> QED BY <1>1, <1>2

\* Among numbers up to b, those that are many enough have a least one.
LEMMA LeastBelow ==
  ASSUME NEW b \in Nat, NEW T \in SUBSET (0 .. b), T # {}
  PROVE  \E m \in T : \A n \in T : m <= n
<1> DEFINE upto == {0 .. n : n \in T}
<1>1. IsWellFoundedOn(StrictSubsetOrdering(0 .. b), FiniteSubsetsOf(0 .. b))
  BY FS_StrictSubsetOrderingWellFounded
<1>2. upto \subseteq FiniteSubsetsOf(0 .. b) /\ upto # {}
  <2>1. ASSUME NEW n \in T PROVE 0 .. n \in FiniteSubsetsOf(0 .. b)
    BY FS_Interval DEF FiniteSubsetsOf
  <2> QED BY <2>1
<1>3. PICK u \in upto : \A v \in upto : <<v, u>> \notin StrictSubsetOrdering(0 .. b)
  BY <1>1, <1>2, WFMin
<1>4. PICK m \in T : u = 0 .. m
  OBVIOUS
<1>5. ASSUME NEW n \in T, n < m PROVE FALSE
  <2>1. 0 .. n \subseteq 0 .. m /\ m \in 0 .. m /\ m \notin 0 .. n /\ 0 .. m \subseteq 0 .. b
    BY <1>5
  <2>2. <<0 .. n, u>> \in StrictSubsetOrdering(0 .. b)
    BY <1>4, <2>1 DEF StrictSubsetOrdering
  <2> QED BY <1>3, <2>2
<1> QED BY <1>5

\* A message to every vat that is named x times at least is the x-th to it.
LEMMA HowOftenReaches ==
  ASSUME NEW ts, NEW d, NEW n \in Nat, NEW x \in Nat, 0 < x, x <= HowOften(d, ts, n)
  PROVE  \E i \in 1 .. n : ts[i] = d /\ HowOften(d, ts, i) = x
<1> DEFINE H(i) == HowOften(d, ts, i)
           T == {i \in 0 .. n : x <= H(i)}
<1>1. n \in T /\ T \in SUBSET (0 .. n)
  OBVIOUS
<1>2. PICK i \in T : \A j \in T : i <= j
  <2> HIDE DEF T
  <2> QED BY <1>1, LeastBelow
<1>3. H(0) = 0
  BY HowOftenIs
<1>4. i \in 1 .. n
  BY <1>3
<1> DEFINE p == i - 1
<1>5. p \in Nat /\ p + 1 = i /\ p \in 0 .. n /\ p \notin T
  <2>1. p \in Nat /\ p + 1 = i /\ p \in 0 .. n /\ ~(i <= p)
    BY <1>4
  <2> HIDE DEF p
  <2> QED BY <1>2, <2>1
<1> HIDE DEF p
<1>6. H(p) \in Nat /\ H(i) = H(p) + (IF ts[i] = d THEN 1 ELSE 0)
  <2>1. HowOften(d, ts, p) \in Nat
        /\ HowOften(d, ts, p + 1) = HowOften(d, ts, p) + (IF ts[p + 1] = d THEN 1 ELSE 0)
    BY <1>5, HowOftenIs
  <2> QED BY <1>5, <2>1
<1>7. x <= H(i) /\ ~(x <= H(p))
  BY <1>5
<1> HIDE DEF H, T
<1>8. ts[i] = d /\ H(i) = x
  <2>1. ts[i] = d
    BY <1>6, <1>7
  <2> QED BY <1>6, <1>7, <2>1
<1> QED BY <1>4, <1>8 DEF H

LEMMA BatchHolds ==
  ASSUME NEW v \in Vats, NEW ts \in Seq(Vats), NEW d \in Vats,
         sent \in [Senders -> [Vats -> Nat]]
  PROVE  /\ Batch(v, ts) \in Seq(Msg)
         /\ \A i \in DOMAIN Batch(v, ts) : Batch(v, ts)[i].src = v
         /\ SentMore(v, ts) \in [Vats -> Nat]
         /\ SentMore(v, ts)[d] >= sent[v][d]
         /\ Holds(Batch(v, ts), v, d, sent[v][d], SentMore(v, ts)[d])
<1> DEFINE n == Len(ts)
           b == Batch(v, ts)
<1>1. n \in Nat /\ DOMAIN ts = 1 .. n /\ \A i \in 1 .. n : ts[i] \in Vats
  OBVIOUS
<1>2. v \in Senders /\ \A e \in Vats : sent[v][e] \in Nat
  BY DEF Senders
<1>3. \A e : \A i \in Nat : HowOften(e, ts, i) \in Nat
  BY HowOftenIs
<1>4. /\ b = [i \in 1 .. n |-> [src |-> v, dst |-> ts[i], no |-> sent[v][ts[i]] + HowOften(ts[i], ts, i)]]
      /\ DOMAIN b = 1 .. n
  BY <1>1 DEF Batch
<1>5. ASSUME NEW i \in 1 .. n
      PROVE  b[i] \in Msg /\ b[i].src = v /\ b[i].dst = ts[i]
             /\ b[i].no = sent[v][ts[i]] + HowOften(ts[i], ts, i)
  <2>1. ts[i] \in Vats /\ sent[v][ts[i]] + HowOften(ts[i], ts, i) \in Nat
    <3>1. i \in Nat /\ ts[i] \in Vats
      BY <1>1
    <3>2. sent[v][ts[i]] \in Nat /\ HowOften(ts[i], ts, i) \in Nat
      BY <1>2, <1>3, <3>1
    <3> QED BY <3>1, <3>2
  <2>2. b[i] = [src |-> v, dst |-> ts[i], no |-> sent[v][ts[i]] + HowOften(ts[i], ts, i)]
    BY <1>4
  <2> QED BY <1>2, <2>1, <2>2 DEF Msg
<1>6. b \in Seq(Msg)
  <2>1. b \in [1 .. n -> Msg]
    BY <1>4, <1>5
  <2> HIDE DEF b
  <2> QED BY <1>1, <2>1
<1>7. SentMore(v, ts) = [e \in Vats |-> sent[v][e] + HowOften(e, ts, n)]
  BY DEF SentMore
<1>8. SentMore(v, ts) \in [Vats -> Nat] /\ SentMore(v, ts)[d] = sent[v][d] + HowOften(d, ts, n)
      /\ sent[v][d] \in Nat /\ HowOften(d, ts, n) \in Nat
  <2>1. \A e \in Vats : sent[v][e] + HowOften(e, ts, n) \in Nat
    BY <1>1, <1>2, <1>3
  <2> QED BY <1>1, <1>2, <1>3, <1>7, <2>1
<1> DEFINE a == sent[v][d]
           h == HowOften(d, ts, n)
<1> HIDE DEF b, n
<1>9. ASSUME NEW i \in DOMAIN b, Of(b[i], v, d)
      PROVE  /\ i \in Nat /\ i \in 1 .. n /\ ts[i] = d /\ b[i].no = a + HowOften(d, ts, i)
             /\ 1 <= HowOften(d, ts, i) /\ HowOften(d, ts, i) <= h
  <2>1. i \in 1 .. n /\ i \in Nat /\ ts[i] = d /\ b[i].no = a + HowOften(d, ts, i) /\ i <= n
    BY <1>1, <1>4, <1>5, <1>9 DEF Of
  <2>2. HowOften(d, ts, i) <= h
    BY <1>1, <2>1, HowOftenIs
  <2>3. HowOften(d, ts, i) >= 1
    BY <2>1, HowOftenHere
  <2> QED BY <2>1, <2>2, <2>3
<1>10. ASSUME NEW i \in DOMAIN b, NEW j \in DOMAIN b, i < j, Of(b[i], v, d), Of(b[j], v, d)
       PROVE  b[i].no < b[j].no
  <2> DEFINE p == j - 1
  <2>1. p \in Nat /\ p + 1 = j /\ i <= p /\ i \in Nat /\ ts[j] = d
    BY <1>1, <1>9, <1>10
  <2> HIDE DEF p
  <2>2. HowOften(d, ts, p) \in Nat /\ HowOften(d, ts, p + 1) = HowOften(d, ts, p) + (IF ts[p + 1] = d THEN 1 ELSE 0)
    BY <2>1, HowOftenIs
  <2>3. HowOften(d, ts, i) <= HowOften(d, ts, p) /\ HowOften(d, ts, i) \in Nat
    BY <2>1, HowOftenIs
  <2>4. b[i].no = a + HowOften(d, ts, i) /\ b[j].no = a + HowOften(d, ts, j)
    BY <1>9, <1>10
  <2> QED BY <1>8, <2>1, <2>2, <2>3, <2>4
<1>11. ASSUME NEW x \in Nat, a < x, x <= a + h
       PROVE  \E i \in DOMAIN b : Of(b[i], v, d) /\ b[i].no = x
  <2> DEFINE y == x - a
  <2>1. y \in Nat /\ 0 < y /\ y <= h /\ x = a + y
    BY <1>8, <1>11
  <2> HIDE DEF y
  <2>2. PICK i \in 1 .. n : ts[i] = d /\ HowOften(d, ts, i) = y
    BY <1>1, <2>1, HowOftenReaches
  <2> QED BY <1>4, <1>5, <2>1, <2>2 DEF Of
<1>12. Holds(b, v, d, a, a + h)
  <2>1. a <= a + h
    BY <1>8
  <2>2. \A i \in DOMAIN b : Of(b[i], v, d) => a < b[i].no /\ b[i].no <= a + h
    <3> SUFFICES ASSUME NEW i \in DOMAIN b, Of(b[i], v, d) PROVE a < b[i].no /\ b[i].no <= a + h
      OBVIOUS
    <3> DEFINE g == HowOften(d, ts, i)
    <3>1. b[i].no = a + g /\ 1 <= g /\ g <= h /\ g \in Nat
      BY <1>3, <1>9
    <3>2. a \in Nat /\ h \in Nat
      BY <1>8
    <3> HIDE DEF a, h, g
    <3> QED BY <3>1, <3>2
  <2> HIDE DEF a, h
  <2> QED BY <1>10, <1>11, <2>1, <2>2 DEF Holds
<1> QED BY <1>4, <1>5, <1>6, <1>8, <1>12 DEF b, n

-----------------------------------------------------------------------------
(* The invariant *)

\* The thread that puts the messages of s into net_out_queue.
Thread(s) == IF s \in Vats THEN "burner" ELSE "main"

\* The queues of the messages from s to v, the mailbox first.
Way(s, v) ==
  << messages[v], sort_queue[v], net_in_queue[Home[v]], wire[NodeOf[s]][Home[v]],
     net_out_queue[NodeOf[s]][Thread(s)], IF s \in Vats THEN out_messages[s] ELSE <<>> >>

\* What may be in a queue: messages of a vat to itself are never on a way.
For(v) == {m \in Msg : m.dst = v}
Sorted(v) == {m \in Msg : m.dst = v /\ m.src # v}
From(v) == {m \in Msg : m.src = v}
Outgoing(n, t) == {m \in Msg : NodeOf[m.src] = n /\ Thread(m.src) = t /\ m.src # m.dst}
Arrived(n) == {m \in Msg : m.dst \in Vats /\ Home[m.dst] = n /\ m.src # m.dst}
OnWire(n, p) ==
  {m \in Msg : NodeOf[m.src] = n /\ m.dst \in Vats /\ Home[m.dst] = p /\ n # p /\ m.src # m.dst}

MailType ==
  /\ messages \in [Vats -> Seq(Msg)] /\ sort_queue \in [Vats -> Seq(Msg)]
  /\ out_messages \in [Vats -> Seq(Msg)]
  /\ net_out_queue \in [Nodes -> [Threads -> Seq(Msg)]]
  /\ wire \in [Nodes -> [Nodes -> Seq(Msg)]]
  /\ net_in_queue \in [Nodes -> Seq(Msg)]
  /\ net \in [Nodes -> {"events", "out", "vats"}]
  /\ n_received \in [Nodes -> 0 .. NetBatch]
  /\ sent \in [Senders -> [Vats -> Nat]] /\ handled \in [Senders -> [Vats -> Nat]]
  /\ down \subseteq Nodes

MailInPlace ==
  /\ \A v \in Vats :
       /\ messages[v] \in Seq(For(v)) /\ sort_queue[v] \in Seq(Sorted(v))
       /\ out_messages[v] \in Seq(From(v)) /\ (v \notin made => out_messages[v] = <<>>)
  /\ \A n \in Nodes :
       /\ \A t \in Threads : net_out_queue[n][t] \in Seq(Outgoing(n, t))
       /\ net_in_queue[n] \in Seq(Arrived(n))
       /\ \A p \in Nodes : wire[n][p] \in Seq(OnWire(n, p))

\* The six queues between two vats hold what is sent and not yet handled.
MailCarried ==
  \A s \in Senders, v \in Vats : Carries(Way(s, v), s, v, handled[s][v], sent[s][v])

MailInv == MailType /\ MailInPlace /\ MailCarried

LEMMA NodeOfType ==
  ASSUME NEW s \in Senders
  PROVE  NodeOf[s] \in Nodes /\ Thread(s) \in Threads /\ (s \in Vats => NodeOf[s] = Home[s])
<1>1. CASE s \in Vats
  BY <1>1, HomeAssumption DEF NodeOf, Thread, Threads
<1>2. CASE s \notin Vats
  <2>1. PICK n \in Nodes : s = <<n, "main">>
    BY <1>2 DEF Senders, Outsiders, Main
  <2> QED BY <1>2, <2>1 DEF NodeOf, Thread, Threads
<1> QED BY <1>1, <1>2

LEMMA WayIs ==
  ASSUME NEW s, NEW v
  PROVE  /\ Way(s, v)[1] = messages[v] /\ Way(s, v)'[1] = messages'[v]
         /\ Way(s, v)[2] = sort_queue[v] /\ Way(s, v)'[2] = sort_queue'[v]
         /\ Way(s, v)[3] = net_in_queue[Home[v]] /\ Way(s, v)'[3] = net_in_queue'[Home[v]]
         /\ Way(s, v)[4] = wire[NodeOf[s]][Home[v]] /\ Way(s, v)'[4] = wire'[NodeOf[s]][Home[v]]
         /\ Way(s, v)[5] = net_out_queue[NodeOf[s]][Thread(s)]
         /\ Way(s, v)'[5] = net_out_queue'[NodeOf[s]][Thread(s)]
         /\ Way(s, v)[6] = (IF s \in Vats THEN out_messages[s] ELSE <<>>)
         /\ Way(s, v)'[6] = (IF s \in Vats THEN out_messages'[s] ELSE <<>>)
BY DEF Way

LEMMA SixQueues ==
  ASSUME NEW j \in 1 .. 6
  PROVE  j = 1 \/ j = 2 \/ j = 3 \/ j = 4 \/ j = 5 \/ j = 6
OBVIOUS

LEMMA WaysAre ==
  ASSUME MailType, NEW s \in Senders, NEW v \in Vats
  PROVE  IsWay(Way(s, v))
<1>1. NodeOf[s] \in Nodes /\ Thread(s) \in Threads /\ Home[v] \in Nodes
  BY NodeOfType, HomeAssumption
<1>2. /\ messages[v] \in Seq(Msg) /\ sort_queue[v] \in Seq(Msg)
      /\ net_in_queue[Home[v]] \in Seq(Msg) /\ wire[NodeOf[s]][Home[v]] \in Seq(Msg)
      /\ net_out_queue[NodeOf[s]][Thread(s)] \in Seq(Msg)
      /\ (IF s \in Vats THEN out_messages[s] ELSE <<>>) \in Seq(Msg)
  <2>1. /\ messages[v] \in Seq(Msg) /\ sort_queue[v] \in Seq(Msg)
        /\ net_in_queue[Home[v]] \in Seq(Msg)
        /\ (s \in Vats => out_messages[s] \in Seq(Msg))
    BY <1>1 DEF MailType
  <2>2. wire[NodeOf[s]][Home[v]] \in Seq(Msg)
    BY <1>1 DEF MailType
  <2>3. net_out_queue[NodeOf[s]][Thread(s)] \in Seq(Msg)
    BY <1>1 DEF MailType
  <2>4. <<>> \in Seq(Msg)
    OBVIOUS
  <2> QED BY <2>1, <2>2, <2>3, <2>4
<1> DEFINE q1 == messages[v]
           q2 == sort_queue[v]
           q3 == net_in_queue[Home[v]]
           q4 == wire[NodeOf[s]][Home[v]]
           q5 == net_out_queue[NodeOf[s]][Thread(s)]
           q6 == IF s \in Vats THEN out_messages[s] ELSE <<>>
           S == Seq(Msg)
<1>3. Way(s, v) = <<q1, q2, q3, q4, q5, q6>>
  BY DEF Way
<1>4. q1 \in S /\ q2 \in S /\ q3 \in S /\ q4 \in S /\ q5 \in S /\ q6 \in S
  BY <1>2
<1> HIDE DEF q1, q2, q3, q4, q5, q6, S
<1>5. \A j \in 1 .. 6 : Way(s, v)[j] \in S
  BY <1>3, <1>4
<1> QED BY <1>5 DEF IsWay, S

\* Unchanged queues are alike.
LEMMA AlikeSame == ASSUME NEW q, NEW s, NEW v PROVE Alike(q, q, s, v)
BY DEF Alike

\* What a step may do to a way when nothing is sent or handled.
Passes(w, u, s, v) ==
  \/ \A j \in 1 .. 6 : Alike(w[j], u[j], s, v)
  \/ \E k, l \in 1 .. 6 :
       k < l /\ Moved(w, u, k, l) /\ Of(Head(w[l]), s, v) /\ NoneBetween(w, k, l, s, v)
  \/ Delivered(w, u)

LEMMA CarriedOn ==
  ASSUME MailInv, UNCHANGED <<sent, handled>>,
         \A s \in Senders, v \in Vats : Passes(Way(s, v), Way(s, v)', s, v)
  PROVE  MailCarried'
<1> SUFFICES ASSUME NEW s \in Senders, NEW v \in Vats
             PROVE  Carries(Way(s, v)', s, v, handled[s][v], sent[s][v])
  BY DEF MailCarried
<1> DEFINE w == Way(s, v)
           u == Way(s, v)'
           a == handled[s][v]
           b == sent[s][v]
<1>1. Carries(w, s, v, a, b) /\ IsWay(w) /\ a \in Nat /\ b \in Nat /\ Passes(w, u, s, v)
  BY WaysAre DEF MailInv, MailCarried, MailType
<1> HIDE DEF w, u, a, b
<1>2. CASE \A j \in 1 .. 6 : Alike(w[j], u[j], s, v)
  BY <1>1, <1>2, CarriesAlike DEF a, b, u
<1>3. CASE \E k, l \in 1 .. 6 :
             k < l /\ Moved(w, u, k, l) /\ Of(Head(w[l]), s, v) /\ NoneBetween(w, k, l, s, v)
  BY <1>1, <1>3, CarriesMove DEF a, b, u
<1>4. CASE Delivered(w, u)
  BY <1>1, <1>4, CarriesJoin DEF a, b, u
<1> QED BY <1>1, <1>2, <1>3, <1>4 DEF Passes

-----------------------------------------------------------------------------
(* The steps of the router *)

\* The two ends of a queue as a set restricts them.
LEMMA SeqEnds ==
  ASSUME NEW T, T \subseteq Msg, NEW q \in Seq(T)
  PROVE  /\ q \in Seq(Msg)
         /\ q # <<>> => Head(q) \in T /\ Tail(q) \in Seq(T)
         /\ \A m \in T : Append(q, m) \in Seq(T)
         /\ \A i \in DOMAIN q : q[i] \in T
OBVIOUS

LEMMA SubsetsOfMsg ==
  /\ \A v : For(v) \subseteq Msg /\ Sorted(v) \subseteq Msg /\ From(v) \subseteq Msg
  /\ \A n : Arrived(n) \subseteq Msg
  /\ \A n, p : Outgoing(n, p) \subseteq Msg /\ OnWire(n, p) \subseteq Msg
BY DEF For, Sorted, From, Arrived, Outgoing, OnWire

\* A packet arrives.
LEMMA NetReceiveKeeps ==
  ASSUME MailInv, NEW n \in Nodes, NEW p \in Nodes, NetReceive(n, p)
  PROVE  MailInv'
<1> DEFINE q == wire[p][n]
           m == Head(q)
<1>1. /\ q # <<>>
      /\ net_in_queue' = [net_in_queue EXCEPT ![n] = Append(@, m)]
      /\ wire' = [wire EXCEPT ![p][n] = Tail(@)]
      /\ UNCHANGED <<messages, sort_queue, out_messages, net_out_queue, net, n_received,
                     made, sent, handled, down>>
  BY DEF NetReceive, burnerVars
<1>2. q \in Seq(OnWire(p, n)) /\ m \in OnWire(p, n) /\ Tail(q) \in Seq(OnWire(p, n)) /\ m \in Msg
      /\ m \in Arrived(n)
  <2>1. q \in Seq(OnWire(p, n))
    BY DEF MailInv, MailInPlace
  <2>2. m \in OnWire(p, n) /\ Tail(q) \in Seq(OnWire(p, n))
    BY <1>1, <2>1, SeqEnds, SubsetsOfMsg
  <2>3. m \in Msg /\ m \in Arrived(n)
    BY <2>2 DEF OnWire, Arrived
  <2> QED BY <2>1, <2>2, <2>3
<1>3. /\ net_in_queue[n] \in Seq(Arrived(n)) /\ net_in_queue[n] \in Seq(Msg) /\ q \in Seq(Msg)
      /\ Append(net_in_queue[n], m) \in Seq(Arrived(n)) /\ Append(net_in_queue[n], m) \in Seq(Msg)
      /\ Tail(q) \in Seq(Msg)
  <2>1. net_in_queue[n] \in Seq(Arrived(n))
    BY DEF MailInv, MailInPlace
  <2>2. Append(net_in_queue[n], m) \in Seq(Arrived(n))
    BY <1>2, <2>1, SeqEnds, SubsetsOfMsg
  <2> QED BY <1>2, <2>1, <2>2, SeqEnds, SubsetsOfMsg
<1>4. /\ \A k \in Nodes : net_in_queue'[k] = IF k = n THEN Append(net_in_queue[n], m) ELSE net_in_queue[k]
      /\ \A k, l \in Nodes : wire'[k][l] = IF k = p /\ l = n THEN Tail(q) ELSE wire[k][l]
  BY <1>1 DEF MailInv, MailType
<1> HIDE DEF q, m
<1>5. MailType'
  <2>1. net_in_queue' \in [Nodes -> Seq(Msg)]
    BY <1>1, <1>3 DEF MailInv, MailType
  <2>2. wire' \in [Nodes -> [Nodes -> Seq(Msg)]]
    BY <1>1, <1>3 DEF MailInv, MailType, q
  <2> QED BY <1>1, <2>1, <2>2 DEF MailInv, MailType
<1>6. MailInPlace'
  <2>1. \A k \in Nodes : net_in_queue'[k] \in Seq(Arrived(k))
    BY <1>3, <1>4 DEF MailInv, MailInPlace
  <2>2. \A k, l \in Nodes : wire'[k][l] \in Seq(OnWire(k, l))
    BY <1>2, <1>4 DEF MailInv, MailInPlace
  <2> QED BY <1>1, <2>1, <2>2 DEF MailInv, MailInPlace
<1>7. ASSUME NEW s \in Senders, NEW v \in Vats
      PROVE  Passes(Way(s, v), Way(s, v)', s, v)
  <2> DEFINE w == Way(s, v)
             u == Way(s, v)'
  <2>0. NodeOf[s] \in Nodes /\ Home[v] \in Nodes
    BY NodeOfType, HomeAssumption
  <2>1. /\ u[1] = w[1] /\ u[2] = w[2] /\ u[5] = w[5] /\ u[6] = w[6]
        /\ w[3] = net_in_queue[Home[v]] /\ w[4] = wire[NodeOf[s]][Home[v]]
        /\ u[3] = IF Home[v] = n THEN Append(w[3], m) ELSE w[3]
        /\ u[4] = IF NodeOf[s] = p /\ Home[v] = n THEN Tail(q) ELSE w[4]
    BY <1>1, <1>4, <2>0, WayIs
  <2>2. NodeOf[s] = p /\ Home[v] = n => w[4] = q
    BY <2>1 DEF q
  <2> HIDE DEF w, u
  <2>3. CASE Of(m, s, v)
    <3>1. NodeOf[s] = p /\ Home[v] = n
      BY <1>2, <2>3 DEF Of, OnWire
    <3>2. Moved(w, u, 3, 4)
      BY <1>1, <2>1, <2>2, <3>1, SixQueues DEF Moved, m
    <3>3. Of(Head(w[4]), s, v)
      BY <2>2, <2>3, <3>1 DEF m
    <3>4. NoneBetween(w, 3, 4, s, v)
      BY DEF NoneBetween
    <3> QED BY <3>2, <3>3, <3>4 DEF Passes, w, u
  <2>4. CASE ~Of(m, s, v)
    <3>1. Alike(w[3], u[3], s, v)
      BY <1>2, <1>3, <2>1, <2>4, AlikeAppend, AlikeSame
    <3>2. Alike(w[4], u[4], s, v)
      BY <1>1, <1>3, <2>1, <2>2, <2>4, AlikeTail, AlikeSame DEF m
    <3>3. \A j \in 1 .. 6 : Alike(w[j], u[j], s, v)
      BY <2>1, <3>1, <3>2, SixQueues, AlikeSame
    <3> QED BY <3>3 DEF Passes, w, u
  <2> QED BY <2>3, <2>4
<1>8. MailCarried'
  BY <1>1, <1>7, CarriedOn
<1> QED BY <1>5, <1>6, <1>8 DEF MailInv

\* A message that has arrived is sorted.
LEMMA NetSortKeeps ==
  ASSUME MailInv, NEW n \in Nodes, NetSort(n)
  PROVE  MailInv'
<1> DEFINE q == net_in_queue[n]
           m == Head(q)
           x == m.dst
<1>1. /\ q # <<>>
      /\ net_in_queue' = [net_in_queue EXCEPT ![n] = Tail(@)]
      /\ sort_queue' = [sort_queue EXCEPT ![x] = Append(@, m)]
      /\ UNCHANGED <<messages, wire, out_messages, net_out_queue, net, n_received,
                     made, sent, handled, down>>
  BY DEF NetSort, MoreMail, burnerVars
<1>2. /\ q \in Seq(Arrived(n)) /\ m \in Arrived(n) /\ Tail(q) \in Seq(Arrived(n)) /\ m \in Msg
      /\ x \in Vats /\ Home[x] = n /\ m \in Sorted(x)
  <2>1. q \in Seq(Arrived(n))
    BY DEF MailInv, MailInPlace
  <2>2. m \in Arrived(n) /\ Tail(q) \in Seq(Arrived(n))
    BY <1>1, <2>1, SeqEnds, SubsetsOfMsg
  <2>3. m \in Msg /\ x \in Vats /\ Home[x] = n /\ m \in Sorted(x)
    BY <2>2 DEF Sorted, Arrived
  <2> QED BY <2>1, <2>2, <2>3
<1> HIDE DEF x
<1>3. /\ sort_queue[x] \in Seq(Sorted(x)) /\ sort_queue[x] \in Seq(Msg) /\ q \in Seq(Msg)
      /\ Append(sort_queue[x], m) \in Seq(Sorted(x)) /\ Append(sort_queue[x], m) \in Seq(Msg)
      /\ Tail(q) \in Seq(Msg)
  <2>1. sort_queue[x] \in Seq(Sorted(x))
    BY <1>2 DEF MailInv, MailInPlace
  <2>2. Append(sort_queue[x], m) \in Seq(Sorted(x))
    BY <1>2, <2>1, SeqEnds, SubsetsOfMsg
  <2> QED BY <1>2, <2>1, <2>2, SeqEnds, SubsetsOfMsg
<1>4. /\ \A k \in Nodes : net_in_queue'[k] = IF k = n THEN Tail(q) ELSE net_in_queue[k]
      /\ \A v \in Vats : sort_queue'[v] = IF v = x THEN Append(sort_queue[x], m) ELSE sort_queue[v]
  BY <1>1, <1>2 DEF MailInv, MailType
<1> HIDE DEF q, m
<1>5. MailType'
  <2>1. net_in_queue' \in [Nodes -> Seq(Msg)] /\ sort_queue' \in [Vats -> Seq(Msg)]
    BY <1>1, <1>2, <1>3 DEF MailInv, MailType, q
  <2> QED BY <1>1, <2>1 DEF MailInv, MailType
<1>6. MailInPlace'
  <2>1. \A k \in Nodes : net_in_queue'[k] \in Seq(Arrived(k))
    BY <1>2, <1>4 DEF MailInv, MailInPlace
  <2>2. \A v \in Vats : sort_queue'[v] \in Seq(Sorted(v))
    BY <1>3, <1>4 DEF MailInv, MailInPlace
  <2> QED BY <1>1, <2>1, <2>2 DEF MailInv, MailInPlace
<1>7. ASSUME NEW s \in Senders, NEW v \in Vats
      PROVE  Passes(Way(s, v), Way(s, v)', s, v)
  <2> DEFINE w == Way(s, v)
             u == Way(s, v)'
  <2>0. Home[v] \in Nodes
    BY HomeAssumption
  <2>1. /\ u[1] = w[1] /\ u[4] = w[4] /\ u[5] = w[5] /\ u[6] = w[6]
        /\ w[3] = net_in_queue[Home[v]] /\ w[2] = sort_queue[v]
        /\ u[2] = IF v = x THEN Append(w[2], m) ELSE w[2]
        /\ u[3] = IF Home[v] = n THEN Tail(q) ELSE w[3]
    BY <1>1, <1>4, <2>0, WayIs
  <2>2. Home[v] = n => w[3] = q
    BY <2>1 DEF q
  <2> HIDE DEF w, u
  <2>3. CASE Of(m, s, v)
    <3>1. v = x /\ Home[v] = n
      BY <1>2, <2>3 DEF Of, x
    <3>2. Moved(w, u, 2, 3)
      BY <1>1, <2>1, <2>2, <3>1, SixQueues DEF Moved, m
    <3>3. Of(Head(w[3]), s, v)
      BY <2>2, <2>3, <3>1 DEF m
    <3>4. NoneBetween(w, 2, 3, s, v)
      BY DEF NoneBetween
    <3> QED BY <3>2, <3>3, <3>4 DEF Passes, w, u
  <2>4. CASE ~Of(m, s, v)
    <3>1. Alike(w[2], u[2], s, v)
      BY <1>2, <1>3, <2>1, <2>4, AlikeAppend, AlikeSame
    <3>2. Alike(w[3], u[3], s, v)
      BY <1>1, <1>3, <2>1, <2>2, <2>4, AlikeTail, AlikeSame DEF m
    <3>3. \A j \in 1 .. 6 : Alike(w[j], u[j], s, v)
      BY <2>1, <3>1, <3>2, SixQueues, AlikeSame
    <3> QED BY <3>3 DEF Passes, w, u
  <2> QED BY <2>3, <2>4
<1>8. MailCarried'
  BY <1>1, <1>7, CarriedOn
<1> QED BY <1>5, <1>6, <1>8 DEF MailInv

\* A vat that comes past gets all its mail.
LEMMA NetPassDelivers ==
  ASSUME MailInv, PlaceInv, NEW n \in Nodes, NetPass(n)
  PROVE  MailInv'
<1> DEFINE x == Head(net_vats[n])
           q == sort_queue[x]
<1>1. /\ net_vats[n] # <<>>
      /\ messages' = [messages EXCEPT ![x] = @ \o q]
      /\ sort_queue' = [sort_queue EXCEPT ![x] = <<>>]
      /\ UNCHANGED <<net_in_queue, wire, out_messages, net_out_queue, net, n_received,
                     made, sent, handled, down>>
  BY DEF NetPass
<1>2. x \in Vats
  BY <1>1 DEF PlaceInv
<1> HIDE DEF x
<1>3. /\ messages[x] \o q \in Seq(For(x)) /\ messages[x] \o q \in Seq(Msg)
      /\ <<>> \in Seq(Msg) /\ <<>> \in Seq(Sorted(x))
  <2>1. messages[x] \in Seq(For(x)) /\ q \in Seq(Sorted(x))
    BY <1>2 DEF MailInv, MailInPlace
  <2>2. Sorted(x) \subseteq For(x)
    BY DEF Sorted, For
  <2>3. q \in Seq(For(x))
    BY <2>1, <2>2, SeqMonotonic
  <2>4. messages[x] \o q \in Seq(For(x))
    BY <2>1, <2>3, ConcatProperties
  <2> QED BY <2>4, SeqEnds, SubsetsOfMsg
<1>4. /\ \A v \in Vats : messages'[v] = IF v = x THEN messages[x] \o q ELSE messages[v]
      /\ \A v \in Vats : sort_queue'[v] = IF v = x THEN <<>> ELSE sort_queue[v]
  BY <1>1, <1>2 DEF MailInv, MailType
<1>5. MailType'
  <2> DEFINE joined == messages[x] \o q
  <2>1. messages' = [messages EXCEPT ![x] = joined] /\ joined \in Seq(Msg)
    BY <1>1, <1>3
  <2> HIDE DEF joined, q
  <2>2. messages' \in [Vats -> Seq(Msg)]
    BY <2>1 DEF MailInv, MailType
  <2>3. sort_queue' \in [Vats -> Seq(Msg)]
    <3>1. sort_queue \in [Vats -> Seq(Msg)] /\ sort_queue' = [sort_queue EXCEPT ![x] = <<>>]
      BY <1>1 DEF MailInv, MailType
    <3>2. <<>> \in Seq(Msg)
      OBVIOUS
    <3> QED BY <3>1, <3>2
  <2> QED BY <1>1, <2>2, <2>3 DEF MailInv, MailType
<1>6. MailInPlace'
  <2>1. \A v \in Vats : messages'[v] \in Seq(For(v)) /\ sort_queue'[v] \in Seq(Sorted(v))
    BY <1>3, <1>4 DEF MailInv, MailInPlace
  <2> QED BY <1>1, <2>1 DEF MailInv, MailInPlace
<1>7. ASSUME NEW s \in Senders, NEW v \in Vats
      PROVE  Passes(Way(s, v), Way(s, v)', s, v)
  <2> DEFINE w == Way(s, v)
             u == Way(s, v)'
  <2>0. /\ u[3] = w[3] /\ u[4] = w[4] /\ u[5] = w[5] /\ u[6] = w[6]
        /\ u[1] = messages'[v] /\ u[2] = sort_queue'[v]
        /\ w[1] = messages[v] /\ w[2] = sort_queue[v]
    BY <1>1, WayIs
  <2> HIDE DEF w, u
  <2>1. /\ u[3] = w[3] /\ u[4] = w[4] /\ u[5] = w[5] /\ u[6] = w[6]
        /\ v = x => u[1] = w[1] \o w[2] /\ u[2] = <<>>
        /\ v # x => u[1] = w[1] /\ u[2] = w[2]
    BY <1>4, <2>0
  <2>2. CASE v = x
    <3>1. Delivered(w, u)
      <4>1. \A j \in 3 .. 6 : u[j] = w[j]
        <5>1. \A j \in 3 .. 6 : j = 3 \/ j = 4 \/ j = 5 \/ j = 6
          OBVIOUS
        <5> QED BY <2>1, <5>1
      <4> QED BY <2>1, <2>2, <4>1 DEF Delivered
    <3> QED BY <3>1 DEF Passes, w, u
  <2>3. CASE v # x
    <3>1. \A j \in 1 .. 6 : Alike(w[j], u[j], s, v)
      BY <2>1, <2>3, SixQueues, AlikeSame
    <3> QED BY <3>1 DEF Passes, w, u
  <2> QED BY <2>2, <2>3
<1>8. MailCarried'
  BY <1>1, <1>7, CarriedOn
<1> QED BY <1>5, <1>6, <1>8 DEF MailInv

\* A message is sent: into the void, to a vat of this node, or to another node.
LEMMA NetSendKeeps ==
  ASSUME MailInv, NEW n \in Nodes, NEW t \in Threads, NetSend(n, t)
  PROVE  MailInv'
<1> DEFINE q == net_out_queue[n][t]
           m == Head(q)
           local == m.dst # Void /\ Home[m.dst] = n
           away == ~(m.dst = Void \/ local)
           p == Home[m.dst]
           count == n_received[n] + (IF m.dst = Void THEN 0 ELSE 1)
<1>1. /\ q # <<>>
      /\ net_out_queue' = [net_out_queue EXCEPT ![n][t] = Tail(@)]
      /\ net_in_queue' = IF local THEN [net_in_queue EXCEPT ![n] = Append(@, m)] ELSE net_in_queue
      /\ wire' = IF away THEN [wire EXCEPT ![n][p] = Append(@, m)] ELSE wire
      /\ IF TooMany(count) THEN StopSending(n)
         ELSE /\ n_received' = [n_received EXCEPT ![n] = count]
              /\ net' = [net EXCEPT ![n] = "out"]
      /\ UNCHANGED <<messages, sort_queue, out_messages, made, sent, handled, down>>
  BY DEF NetSend, burnerVars
<1>2. /\ q \in Seq(Outgoing(n, t)) /\ m \in Outgoing(n, t) /\ Tail(q) \in Seq(Outgoing(n, t))
      /\ m \in Msg /\ Tail(q) \in Seq(Msg) /\ q \in Seq(Msg)
  <2>1. q \in Seq(Outgoing(n, t))
    BY DEF MailInv, MailInPlace
  <2>2. m \in Outgoing(n, t) /\ Tail(q) \in Seq(Outgoing(n, t))
    BY <1>1, <2>1, SeqEnds, SubsetsOfMsg
  <2> QED BY <2>1, <2>2, SeqEnds, SubsetsOfMsg DEF Outgoing
<1>3. /\ NodeOf[m.src] = n /\ Thread(m.src) = t /\ m.src # m.dst /\ m.dst \in Vats \cup {Void}
      /\ Void \notin Vats
  BY <1>2, HomeAssumption DEF Outgoing, Msg
<1>4. local => m \in Arrived(n) /\ m.dst \in Vats
  BY <1>2, <1>3 DEF Arrived
<1>5. away => m.dst \in Vats /\ p \in Nodes /\ n # p /\ m \in OnWire(n, p)
  <2> SUFFICES ASSUME away PROVE m.dst \in Vats /\ p \in Nodes /\ n # p /\ m \in OnWire(n, p)
    OBVIOUS
  <2>1. m.dst \in Vats /\ n # p
    BY <1>3
  <2>2. p \in Nodes
    BY <2>1, HomeAssumption
  <2> QED BY <1>2, <1>3, <2>1, <2>2 DEF OnWire
<1> HIDE DEF q, m, local, away, p, count
<1>6. /\ \A k \in Nodes : \A r \in Threads :
           net_out_queue'[k][r] = IF k = n /\ r = t THEN Tail(q) ELSE net_out_queue[k][r]
      /\ \A k \in Nodes :
           net_in_queue'[k] = IF local /\ k = n THEN Append(net_in_queue[k], m) ELSE net_in_queue[k]
      /\ \A k, l \in Nodes :
           wire'[k][l] = IF away /\ k = n /\ l = p THEN Append(wire[k][l], m) ELSE wire[k][l]
  <2>1. \A k \in Nodes : \A r \in Threads :
           net_out_queue'[k][r] = IF k = n /\ r = t THEN Tail(q) ELSE net_out_queue[k][r]
    BY <1>1 DEF MailInv, MailType, q
  <2>2. \A k \in Nodes :
           net_in_queue'[k] = IF local /\ k = n THEN Append(net_in_queue[k], m) ELSE net_in_queue[k]
    BY <1>1 DEF MailInv, MailType
  <2>3. \A k, l \in Nodes :
           wire'[k][l] = IF away /\ k = n /\ l = p THEN Append(wire[k][l], m) ELSE wire[k][l]
    BY <1>1, <1>5 DEF MailInv, MailType
  <2> QED BY <2>1, <2>2, <2>3
<1>7. /\ \A k \in Nodes : net_in_queue[k] \in Seq(Msg) /\ net_in_queue[k] \in Seq(Arrived(k))
      /\ \A k, l \in Nodes : wire[k][l] \in Seq(Msg) /\ wire[k][l] \in Seq(OnWire(k, l))
      /\ local => /\ Append(net_in_queue[n], m) \in Seq(Arrived(n))
                  /\ Append(net_in_queue[n], m) \in Seq(Msg)
      /\ away => /\ Append(wire[n][p], m) \in Seq(OnWire(n, p))
                 /\ Append(wire[n][p], m) \in Seq(Msg)
  <2>1. /\ \A k \in Nodes : net_in_queue[k] \in Seq(Msg) /\ net_in_queue[k] \in Seq(Arrived(k))
        /\ \A k, l \in Nodes : wire[k][l] \in Seq(Msg) /\ wire[k][l] \in Seq(OnWire(k, l))
    BY DEF MailInv, MailType, MailInPlace
  <2>2. local => /\ Append(net_in_queue[n], m) \in Seq(Arrived(n))
                 /\ Append(net_in_queue[n], m) \in Seq(Msg)
    BY <1>4, <2>1, SeqEnds, SubsetsOfMsg
  <2>3. away => /\ Append(wire[n][p], m) \in Seq(OnWire(n, p))
                /\ Append(wire[n][p], m) \in Seq(Msg)
    BY <1>5, <2>1, SeqEnds, SubsetsOfMsg
  <2> QED BY <2>1, <2>2, <2>3
<1>8. MailType'
  <2>1. net_out_queue' \in [Nodes -> [Threads -> Seq(Msg)]]
    BY <1>1, <1>2 DEF MailInv, MailType, q
  <2>2. net_in_queue' \in [Nodes -> Seq(Msg)]
    BY <1>1, <1>7 DEF MailInv, MailType
  <2>3. wire' \in [Nodes -> [Nodes -> Seq(Msg)]]
    BY <1>1, <1>5, <1>7 DEF MailInv, MailType
  <2>4. net' \in [Nodes -> {"events", "out", "vats"}] /\ n_received' \in [Nodes -> 0 .. NetBatch]
    <3>0. n_received[n] \in 0 .. NetBatch /\ NetBatch \in Nat
      BY BoundAssumption DEF MailInv, MailType
    <3>1. count \in Nat
      BY <3>0 DEF count
    <3>2. CASE TooMany(count)
      <4>1. net' = [net EXCEPT ![n] = "vats"] /\ n_received' = [n_received EXCEPT ![n] = 0]
        BY <1>1, <3>2 DEF StopSending
      <4> QED BY <3>0, <4>1 DEF MailInv, MailType
    <3>3. CASE ~TooMany(count)
      <4>1. count \in 0 .. NetBatch
        BY <3>0, <3>1, <3>3 DEF TooMany
      <4>2. net' = [net EXCEPT ![n] = "out"] /\ n_received' = [n_received EXCEPT ![n] = count]
        BY <1>1, <3>3
      <4> QED BY <4>1, <4>2 DEF MailInv, MailType
    <3> QED BY <3>2, <3>3
  <2> QED BY <1>1, <2>1, <2>2, <2>3, <2>4 DEF MailInv, MailType
<1>9. MailInPlace'
  <2>1. \A k \in Nodes : \A r \in Threads : net_out_queue'[k][r] \in Seq(Outgoing(k, r))
    BY <1>2, <1>6 DEF MailInv, MailInPlace
  <2>2. \A k \in Nodes : net_in_queue'[k] \in Seq(Arrived(k))
    BY <1>6, <1>7
  <2>3. \A k, l \in Nodes : wire'[k][l] \in Seq(OnWire(k, l))
    BY <1>6, <1>7
  <2> QED BY <1>1, <2>1, <2>2, <2>3 DEF MailInv, MailInPlace
<1>10. ASSUME NEW s \in Senders, NEW v \in Vats
       PROVE  Passes(Way(s, v), Way(s, v)', s, v)
  <2> DEFINE w == Way(s, v)
             u == Way(s, v)'
             a == NodeOf[s]
             b == Home[v]
  <2>0. a \in Nodes /\ b \in Nodes /\ Thread(s) \in Threads
    BY NodeOfType, HomeAssumption
  <2>1. /\ u[1] = w[1] /\ u[2] = w[2] /\ u[6] = w[6]
        /\ w[3] = net_in_queue[b] /\ u[3] = net_in_queue'[b]
        /\ w[4] = wire[a][b] /\ u[4] = wire'[a][b]
        /\ w[5] = net_out_queue[a][Thread(s)] /\ u[5] = net_out_queue'[a][Thread(s)]
    BY <1>1, WayIs
  <2> HIDE DEF w, u, a, b
  <2>2. /\ u[3] = IF local /\ b = n THEN Append(w[3], m) ELSE w[3]
        /\ u[4] = IF away /\ a = n /\ b = p THEN Append(w[4], m) ELSE w[4]
        /\ u[5] = IF a = n /\ Thread(s) = t THEN Tail(q) ELSE w[5]
        /\ a = n /\ Thread(s) = t => w[5] = q
    BY <1>6, <2>0, <2>1 DEF q
  <2>3. CASE Of(m, s, v)
    <3>1. a = n /\ Thread(s) = t /\ b = p /\ m.dst \in Vats
      BY <1>3, <2>3 DEF Of, a, b, p
    <3>2. Of(Head(w[5]), s, v) /\ w[5] # <<>> /\ Head(w[5]) = m
      BY <1>1, <2>2, <2>3, <3>1 DEF m
    <3>3. CASE local
      <4>1. b = n /\ ~away
        BY <3>1, <3>3 DEF local, away, p
      <4>2. Moved(w, u, 3, 5)
        BY <2>1, <2>2, <3>1, <3>2, <3>3, <4>1, SixQueues DEF Moved
      <4>3. NoneBetween(w, 3, 5, s, v)
        <5>1. \A i \in DOMAIN w[4] : w[4][i] \in OnWire(n, n)
          BY <1>7, <2>1, <3>1, <4>1, SeqEnds, SubsetsOfMsg
        <5>2. OnWire(n, n) = {}
          BY DEF OnWire
        <5>3. \A j \in 1 .. 6 : 3 < j /\ j < 5 => j = 4
          OBVIOUS
        <5> QED BY <5>1, <5>2, <5>3, Zenon DEF NoneBetween
      <4> QED BY <3>2, <4>2, <4>3 DEF Passes, w, u
    <3>4. CASE away
      <4>1. Moved(w, u, 4, 5)
        <5>1. ~local
          BY <3>4 DEF away
        <5> QED BY <2>1, <2>2, <3>1, <3>2, <3>4, <5>1, SixQueues DEF Moved
      <4>2. NoneBetween(w, 4, 5, s, v)
        BY DEF NoneBetween
      <4> QED BY <3>2, <4>1, <4>2 DEF Passes, w, u
    <3>5. local \/ away
      BY <1>3, <3>1 DEF local, away
    <3> QED BY <3>3, <3>4, <3>5
  <2>4. CASE ~Of(m, s, v)
    <3>1. w[3] \in Seq(Msg) /\ w[4] \in Seq(Msg)
      BY <1>7, <2>0, <2>1
    <3>2. Alike(w[3], u[3], s, v)
      BY <1>2, <2>2, <2>4, <3>1, AlikeAppend, AlikeSame
    <3>3. Alike(w[4], u[4], s, v)
      BY <1>2, <2>2, <2>4, <3>1, AlikeAppend, AlikeSame
    <3>4. Alike(w[5], u[5], s, v)
      BY <1>1, <1>2, <2>2, <2>4, AlikeTail, AlikeSame DEF m
    <3>5. \A j \in 1 .. 6 : Alike(w[j], u[j], s, v)
      BY <2>1, <3>2, <3>3, <3>4, SixQueues, AlikeSame
    <3> QED BY <3>5 DEF Passes, w, u
  <2> QED BY <2>3, <2>4
<1>11. MailCarried'
  BY <1>1, <1>10, CarriedOn
<1> QED BY <1>8, <1>9, <1>11 DEF MailInv

\* The other steps of the router and of the burner leave mail where it is.
LEMMA MailStill ==
  ASSUME MailInv,
         UNCHANGED <<messages, sort_queue, out_messages, net_out_queue, wire, net_in_queue,
                     made, sent, handled>>,
         net' \in [Nodes -> {"events", "out", "vats"}], n_received' \in [Nodes -> 0 .. NetBatch],
         down' \subseteq Nodes
  PROVE  MailInv'
<1>1. \A s, v : Way(s, v)' = Way(s, v)
  BY DEF Way
<1>2. MailCarried'
  BY <1>1 DEF MailInv, MailCarried
<1>3. MailInPlace' /\ MailType'
  BY DEF MailInv, MailType, MailInPlace
<1> QED BY <1>2, <1>3 DEF MailInv

LEMMA OthersStill ==
  ASSUME MailInv, NEW n \in Nodes,
         \/ TakeVat(n) \/ ReturnVat(n) \/ Panic(n) \/ NetSent(n) \/ NetDone(n)
  PROVE  MailInv'
<1>1. UNCHANGED <<messages, sort_queue, out_messages, net_out_queue, wire, net_in_queue,
                  made, sent, handled>>
  BY DEF TakeVat, ReturnVat, Panic, NetSent, NetDone, burnerVars, netVars
<1>2. CASE TakeVat(n) \/ ReturnVat(n)
  BY <1>1, <1>2, MailStill DEF TakeVat, ReturnVat, netVars, MailInv, MailType
<1>3. CASE Panic(n)
  BY <1>1, <1>3, MailStill DEF Panic, netVars, MailInv, MailType
<1>4. CASE NetSent(n)
  <2>1. /\ net' = [net EXCEPT ![n] = "vats"] /\ n_received' = [n_received EXCEPT ![n] = 0]
        /\ down' = down
    BY <1>4 DEF NetSent, StopSending
  <2>2. 0 \in 0 .. NetBatch
    BY BoundAssumption
  <2> QED BY <1>1, <2>1, <2>2, MailStill DEF MailInv, MailType
<1>5. CASE NetDone(n)
  BY <1>1, <1>5, MailStill DEF NetDone, MailInv, MailType
<1> QED BY <1>2, <1>3, <1>4, <1>5

-----------------------------------------------------------------------------
(* The steps of the burner *)

\* The vat a burner holds is made, and its node's.
LEMMA HeldIsMade ==
  ASSUME PlaceInv, NEW n \in Nodes, holding[n] # NoVat
  PROVE  holding[n] \in Vats /\ holding[n] \in made /\ Home[holding[n]] = n
<1> DEFINE v == holding[n]
<1>1. v \in Vats
  BY DEF PlaceInv
<1>2. Places(n, v) = IF v \in made /\ Home[v] = n THEN 1 ELSE 0
  BY <1>1, PlacesAre DEF PlaceInv
<1>3. /\ Occurs(queue[n]["main"], v) \in Nat /\ Occurs(queue[n]["burner"], v) \in Nat
      /\ Occurs(net_vats[n], v) \in Nat
  <2>1. queue[n]["main"] \in Seq(Vats) /\ queue[n]["burner"] \in Seq(Vats) /\ net_vats[n] \in Seq(Vats)
    BY DEF PlaceInv, Threads
  <2> QED BY <2>1, OccursNat
<1>4. Places(n, v) # 0
  BY <1>3 DEF Places
<1> QED BY <1>1, <1>2, <1>4

\* A message leaves a vat: for itself, into its mailbox at once.
LEMMA FlushMessageKeeps ==
  ASSUME MailInv, PlaceInv, NEW n \in Nodes, FlushMessage(n)
  PROVE  MailInv'
<1> DEFINE x == holding[n]
           q == out_messages[x]
           m == Head(q)
           self == m.dst = x
<1>1. /\ q # <<>> /\ x # NoVat
      /\ out_messages' = [out_messages EXCEPT ![x] = Tail(@)]
      /\ messages' = IF self THEN [messages EXCEPT ![x] = Append(@, m)] ELSE messages
      /\ net_out_queue' = IF self THEN net_out_queue
                          ELSE [net_out_queue EXCEPT ![n]["burner"] = Append(@, m)]
      /\ UNCHANGED <<sort_queue, wire, net_in_queue, net, n_received, made, sent, handled, down>>
  <2>1. x # NoVat
    BY DEF FlushMessage, Flushing, PlaceInv
  <2> QED BY <2>1 DEF FlushMessage, netVars
<1>2. x \in Vats /\ x \in made /\ Home[x] = n
  BY <1>1, HeldIsMade
<1> HIDE DEF x
<1>3. /\ q \in Seq(From(x)) /\ m \in From(x) /\ Tail(q) \in Seq(From(x))
      /\ m \in Msg /\ Tail(q) \in Seq(Msg) /\ q \in Seq(Msg) /\ m.src = x
  <2>1. q \in Seq(From(x))
    BY <1>2 DEF MailInv, MailInPlace
  <2>2. m \in From(x) /\ Tail(q) \in Seq(From(x))
    BY <1>1, <2>1, SeqEnds, SubsetsOfMsg
  <2> QED BY <2>1, <2>2, SeqEnds, SubsetsOfMsg DEF From
<1>4. self => m \in For(x)
  BY <1>3 DEF For
<1>5. /\ ~self => m \in Outgoing(n, "burner")
      /\ x \in Senders /\ NodeOf[x] = n /\ Thread(x) = "burner" /\ "burner" \in Threads
  <2>1. x \in Senders /\ NodeOf[x] = n /\ Thread(x) = "burner" /\ "burner" \in Threads
    BY <1>2 DEF Senders, NodeOf, Thread, Threads
  <2> QED BY <1>3, <2>1 DEF Outgoing
<1> HIDE DEF q, m, self
<1>6. /\ \A v \in Vats : out_messages'[v] = IF v = x THEN Tail(q) ELSE out_messages[v]
      /\ \A v \in Vats : messages'[v] = IF self /\ v = x THEN Append(messages[v], m) ELSE messages[v]
      /\ \A k \in Nodes : \A r \in Threads :
           net_out_queue'[k][r] = IF ~self /\ k = n /\ r = "burner" THEN Append(net_out_queue[k][r], m)
                                  ELSE net_out_queue[k][r]
  <2>1. \A v \in Vats : out_messages'[v] = IF v = x THEN Tail(q) ELSE out_messages[v]
    BY <1>1, <1>2 DEF MailInv, MailType, q
  <2>2. \A v \in Vats : messages'[v] = IF self /\ v = x THEN Append(messages[v], m) ELSE messages[v]
    BY <1>1, <1>2 DEF MailInv, MailType
  <2>3. \A k \in Nodes : \A r \in Threads :
           net_out_queue'[k][r] = IF ~self /\ k = n /\ r = "burner" THEN Append(net_out_queue[k][r], m)
                                  ELSE net_out_queue[k][r]
    BY <1>1 DEF MailInv, MailType, Threads
  <2> QED BY <2>1, <2>2, <2>3
<1>7. /\ \A v \in Vats : messages[v] \in Seq(Msg) /\ messages[v] \in Seq(For(v))
      /\ \A k \in Nodes : \A r \in Threads :
           net_out_queue[k][r] \in Seq(Msg) /\ net_out_queue[k][r] \in Seq(Outgoing(k, r))
      /\ self => /\ Append(messages[x], m) \in Seq(For(x))
                 /\ Append(messages[x], m) \in Seq(Msg)
      /\ ~self => /\ Append(net_out_queue[n]["burner"], m) \in Seq(Outgoing(n, "burner"))
                  /\ Append(net_out_queue[n]["burner"], m) \in Seq(Msg)
  <2>1. /\ \A v \in Vats : messages[v] \in Seq(Msg) /\ messages[v] \in Seq(For(v))
        /\ \A k \in Nodes : \A r \in Threads :
             net_out_queue[k][r] \in Seq(Msg) /\ net_out_queue[k][r] \in Seq(Outgoing(k, r))
    BY DEF MailInv, MailType, MailInPlace
  <2>2. self => /\ Append(messages[x], m) \in Seq(For(x))
                /\ Append(messages[x], m) \in Seq(Msg)
    BY <1>2, <1>4, <2>1, SeqEnds, SubsetsOfMsg
  <2>3. ~self => /\ Append(net_out_queue[n]["burner"], m) \in Seq(Outgoing(n, "burner"))
                 /\ Append(net_out_queue[n]["burner"], m) \in Seq(Msg)
    BY <1>5, <2>1, SeqEnds, SubsetsOfMsg
  <2> QED BY <2>1, <2>2, <2>3
<1>8. MailType'
  <2>1. out_messages' \in [Vats -> Seq(Msg)]
    BY <1>1, <1>2, <1>3 DEF MailInv, MailType, q
  <2>2. messages' \in [Vats -> Seq(Msg)]
    BY <1>1, <1>2, <1>7 DEF MailInv, MailType
  <2>3. net_out_queue' \in [Nodes -> [Threads -> Seq(Msg)]]
    BY <1>1, <1>5, <1>7 DEF MailInv, MailType
  <2> QED BY <1>1, <2>1, <2>2, <2>3 DEF MailInv, MailType
<1>9. MailInPlace'
  <2>1. \A k \in Nodes : \A r \in Threads : net_out_queue'[k][r] \in Seq(Outgoing(k, r))
    BY <1>6, <1>7
  <2>2. \A v \in Vats : messages'[v] \in Seq(For(v))
    BY <1>6, <1>7
  <2>3. \A v \in Vats : out_messages'[v] \in Seq(From(v)) /\ (v \notin made => out_messages'[v] = <<>>)
    BY <1>2, <1>3, <1>6 DEF MailInv, MailInPlace
  <2> QED BY <1>1, <2>1, <2>2, <2>3 DEF MailInv, MailInPlace
<1>10. ASSUME NEW s \in Senders, NEW v \in Vats
       PROVE  Passes(Way(s, v), Way(s, v)', s, v)
  <2> DEFINE w == Way(s, v)
             u == Way(s, v)'
             a == NodeOf[s]
             t == Thread(s)
  <2>0. a \in Nodes /\ t \in Threads /\ (s = x => a = n /\ t = "burner")
    BY <1>5, NodeOfType
  <2>1. /\ u[2] = w[2] /\ u[3] = w[3] /\ u[4] = w[4]
        /\ w[1] = messages[v] /\ u[1] = messages'[v]
        /\ w[5] = net_out_queue[a][t] /\ u[5] = net_out_queue'[a][t]
        /\ w[6] = (IF s \in Vats THEN out_messages[s] ELSE <<>>)
        /\ u[6] = (IF s \in Vats THEN out_messages'[s] ELSE <<>>)
        /\ w[2] = sort_queue[v] /\ w[3] = net_in_queue[Home[v]] /\ w[4] = wire[a][Home[v]]
    BY <1>1, WayIs
  <2> HIDE DEF w, u, a, t
  <2>2. /\ u[1] = IF self /\ v = x THEN Append(w[1], m) ELSE w[1]
        /\ u[5] = IF ~self /\ a = n /\ t = "burner" THEN Append(w[5], m) ELSE w[5]
        /\ u[6] = IF s = x THEN Tail(q) ELSE w[6]
        /\ s = x => w[6] = q
    BY <1>2, <1>6, <2>0, <2>1 DEF q
  <2>3. CASE Of(m, s, v)
    <3>1. s = x /\ (self <=> v = x) /\ a = n /\ t = "burner"
      BY <1>3, <2>0, <2>3 DEF Of, self
    <3>2. Of(Head(w[6]), s, v) /\ w[6] # <<>> /\ Head(w[6]) = m
      BY <1>1, <2>2, <2>3, <3>1 DEF m
    <3>3. CASE self
      <4>1. Moved(w, u, 1, 6)
        BY <2>1, <2>2, <3>1, <3>2, <3>3, SixQueues DEF Moved
      <4>2. NoneBetween(w, 1, 6, s, v)
        <5>0. Home[v] \in Nodes
          BY HomeAssumption
        <5>1. \A i \in DOMAIN w[2] : ~Of(w[2][i], s, v)
          <6>1. \A i \in DOMAIN w[2] : w[2][i] \in Sorted(v)
            BY <2>1, SeqEnds, SubsetsOfMsg DEF MailInv, MailInPlace
          <6> QED BY <3>1, <3>3, <6>1 DEF Sorted, Of
        <5>2. \A i \in DOMAIN w[3] : ~Of(w[3][i], s, v)
          <6>1. \A i \in DOMAIN w[3] : w[3][i] \in Arrived(Home[v])
            BY <2>1, <5>0, SeqEnds, SubsetsOfMsg DEF MailInv, MailInPlace
          <6> QED BY <3>1, <3>3, <6>1 DEF Arrived, Of
        <5>3. \A i \in DOMAIN w[4] : ~Of(w[4][i], s, v)
          <6>1. \A i \in DOMAIN w[4] : w[4][i] \in OnWire(a, Home[v])
            BY <2>0, <2>1, <5>0, SeqEnds, SubsetsOfMsg DEF MailInv, MailInPlace
          <6> QED BY <3>1, <3>3, <6>1 DEF OnWire, Of
        <5>4. \A i \in DOMAIN w[5] : ~Of(w[5][i], s, v)
          <6>1. \A i \in DOMAIN w[5] : w[5][i] \in Outgoing(a, t)
            BY <1>7, <2>0, <2>1, SeqEnds, SubsetsOfMsg
          <6> QED BY <3>1, <3>3, <6>1 DEF Outgoing, Of
        <5>5. \A j \in 1 .. 6 : 1 < j /\ j < 6 => j = 2 \/ j = 3 \/ j = 4 \/ j = 5
          OBVIOUS
        <5> QED BY <5>1, <5>2, <5>3, <5>4, <5>5, Zenon DEF NoneBetween
      <4> QED BY <3>2, <4>1, <4>2 DEF Passes, w, u
    <3>4. CASE ~self
      <4>1. Moved(w, u, 5, 6)
        BY <2>1, <2>2, <3>1, <3>2, <3>4, SixQueues DEF Moved
      <4>2. NoneBetween(w, 5, 6, s, v)
        BY DEF NoneBetween
      <4> QED BY <3>2, <4>1, <4>2 DEF Passes, w, u
    <3> QED BY <3>3, <3>4
  <2>4. CASE ~Of(m, s, v)
    <3>1. w[1] \in Seq(Msg) /\ w[5] \in Seq(Msg)
      BY <1>7, <2>0, <2>1
    <3>2. Alike(w[1], u[1], s, v)
      BY <1>3, <2>2, <2>4, <3>1, AlikeAppend, AlikeSame
    <3>3. Alike(w[5], u[5], s, v)
      BY <1>3, <2>2, <2>4, <3>1, AlikeAppend, AlikeSame
    <3>4. Alike(w[6], u[6], s, v)
      BY <1>1, <1>3, <2>2, <2>4, AlikeTail, AlikeSame DEF m
    <3>5. \A j \in 1 .. 6 : Alike(w[j], u[j], s, v)
      BY <2>1, <3>2, <3>3, <3>4, SixQueues, AlikeSame
    <3> QED BY <3>5 DEF Passes, w, u
  <2> QED BY <2>3, <2>4
<1>11. MailCarried'
  BY <1>1, <1>10, CarriedOn
<1> QED BY <1>8, <1>9, <1>11 DEF MailInv

\* The first message in a mailbox is the next of its channel.
LEMMA NextMail ==
  ASSUME MailInv, NEW v \in Vats, messages[v] # <<>>
  PROVE  LET m == Head(messages[v]) IN
         /\ m \in Msg /\ m.src \in Senders /\ m.dst = v
         /\ m.no = handled[m.src][v] + 1 /\ m.no <= sent[m.src][v]
<1> DEFINE m == Head(messages[v])
           s == m.src
           w == Way(s, v)
           u == [j \in 1 .. 6 |-> IF j = 1 THEN Tail(w[1]) ELSE w[j]]
<1>1. m \in For(v)
  <2>1. messages[v] \in Seq(For(v))
    BY DEF MailInv, MailInPlace
  <2> QED BY <2>1, SeqEnds, SubsetsOfMsg
<1>2. m \in Msg /\ s \in Senders /\ m.dst = v
  BY <1>1 DEF For, Msg
<1>3. w[1] = messages[v]
  BY WayIs
<1>4. Of(Head(w[1]), s, v)
  BY <1>2, <1>3 DEF Of
<1> HIDE DEF m, s, w
<1>5. TakenFrom(w, u)
  <2>1. u[1] = Tail(w[1]) /\ \A j \in 2 .. 6 : u[j] = w[j]
    OBVIOUS
  <2> HIDE DEF u
  <2> QED BY <1>3, <2>1 DEF TakenFrom
<1> HIDE DEF u
<1> DEFINE a == handled[s][v]
           b == sent[s][v]
<1>6. a \in Nat /\ b \in Nat /\ Carries(w, s, v, a, b) /\ IsWay(w)
  BY <1>2, WaysAre DEF MailInv, MailType, MailCarried, w
<1> HIDE DEF a, b
<1>7. Head(w[1]).no = a + 1 /\ a + 1 <= b
  BY <1>4, <1>5, <1>6, CarriesTake
<1>8. m.no = a + 1 /\ m.no <= b
  BY <1>3, <1>7 DEF m
<1> QED BY <1>2, <1>8 DEF a, b, m, s

\* A way whose mailbox is another one.
LEMMA OtherMailbox ==
  ASSUME NEW w, NEW u, IsWay(w), u[1] \in Seq(Msg), \A j \in 2 .. 6 : u[j] = w[j]
  PROVE  IsWay(u)
<1> SUFFICES ASSUME NEW j \in 1 .. 6 PROVE u[j] \in Seq(Msg)
  BY DEF IsWay
<1>1. CASE j = 1
  BY <1>1
<1>2. CASE j # 1
  <2>1. u[j] = w[j]
    BY <1>2
  <2> QED BY <2>1 DEF IsWay
<1> QED BY <1>1, <1>2

\* A vat takes its next message, and vats send.
LEMMA HandledCarried ==
  ASSUME MailInv, NEW v \in Vats, messages[v] # <<>>,
         messages' = [messages EXCEPT ![v] = Tail(@)], Took(v),
         UNCHANGED <<sort_queue, net_in_queue, wire, net_out_queue>>,
         sent' \in [Senders -> [Vats -> Nat]],
         \A s \in Senders \ Vats : sent'[s] = sent[s],
         \A s \in Vats : \E q \in Seq(Msg) :
           /\ out_messages'[s] = out_messages[s] \o q
           /\ \A d \in Vats : Holds(q, s, d, sent[s][d], sent'[s][d])
  PROVE  MailCarried'
<1> DEFINE m == Head(messages[v])
<1>1. /\ m \in Msg /\ m.src \in Senders /\ m.dst = v
      /\ m.no = handled[m.src][v] + 1 /\ m.no <= sent[m.src][v]
  BY NextMail
<1>2. handled' = [handled EXCEPT ![m.src][v] = m.no]
  BY DEF Took
<1>3. messages[v] \in Seq(Msg)
  BY DEF MailInv, MailType
<1>4. \A d \in Vats : messages'[d] = IF d = v THEN Tail(messages[v]) ELSE messages[d]
  BY DEF MailInv, MailType
<1> HIDE DEF m
<1>5. \A s \in Senders, d \in Vats :
        handled'[s][d] = IF s = m.src /\ d = v THEN m.no ELSE handled[s][d]
  BY <1>1, <1>2 DEF MailInv, MailType
<1> SUFFICES ASSUME NEW s \in Senders, NEW d \in Vats
             PROVE  Carries(Way(s, d)', s, d, handled'[s][d], sent'[s][d])
  BY DEF MailCarried
<1> DEFINE w == Way(s, d)
           u == Way(s, d)'
           mid == [j \in 1 .. 6 |-> IF j = 1 THEN u[1] ELSE w[j]]
           a == handled[s][d]
           b == sent[s][d]
           a2 == handled'[s][d]
           b2 == sent'[s][d]
<1>6. /\ u[2] = w[2] /\ u[3] = w[3] /\ u[4] = w[4] /\ u[5] = w[5]
      /\ w[1] = messages[d] /\ u[1] = messages'[d]
      /\ w[6] = (IF s \in Vats THEN out_messages[s] ELSE <<>>)
      /\ u[6] = (IF s \in Vats THEN out_messages'[s] ELSE <<>>)
  BY WayIs
<1>7. a \in Nat /\ b \in Nat /\ b2 \in Nat /\ Carries(w, s, d, a, b) /\ IsWay(w)
  BY WaysAre DEF MailInv, MailType, MailCarried
<1>8. a2 = IF s = m.src /\ d = v THEN m.no ELSE a
  BY <1>5
<1>9. a2 \in Nat
  BY <1>1, <1>7, <1>8 DEF Msg
<1> HIDE DEF w, u
<1>10. mid[1] = u[1] /\ \A j \in 2 .. 6 : mid[j] = w[j]
  OBVIOUS
<1> HIDE DEF mid, a, b, a2, b2
<1>11. Carries(mid, s, d, a2, b) /\ IsWay(mid)
  <2>1. CASE Of(m, s, d)
    <3>1. s = m.src /\ d = v /\ w[1] = messages[v]
      BY <1>1, <1>6, <2>1 DEF Of
    <3>2. TakenFrom(w, mid)
      BY <1>4, <1>6, <1>10, <3>1 DEF TakenFrom
    <3>3. Of(Head(w[1]), s, d)
      BY <2>1, <3>1 DEF m
    <3>4. Head(w[1]).no = a + 1 /\ Carries(mid, s, d, a + 1, b)
      BY <1>7, <3>2, <3>3, CarriesTake
    <3>5. a2 = a + 1
      BY <1>8, <3>1, <3>4 DEF m
    <3>6. IsWay(mid)
      <4>1. mid[1] \in Seq(Msg)
        BY <1>3, <1>4, <1>6, <1>10, <3>1
      <4> QED BY <1>7, <1>10, <4>1, OtherMailbox
    <3> QED BY <3>4, <3>5, <3>6
  <2>2. CASE ~Of(m, s, d)
    <3>1. a2 = a
      BY <1>1, <1>8, <2>2 DEF Of
    <3>2. Alike(w[1], mid[1], s, d) /\ mid[1] \in Seq(Msg)
      <4>1. CASE d = v
        BY <1>3, <1>4, <1>6, <1>10, <2>2, <4>1, AlikeTail DEF m
      <4>2. CASE d # v
        <5>1. mid[1] = w[1]
          BY <1>4, <1>6, <1>10, <4>2
        <5>2. w[1] \in Seq(Msg)
          <6>1. 1 \in 1 .. 6
            OBVIOUS
          <6> QED BY <1>7, <6>1 DEF IsWay
        <5> QED BY <5>1, <5>2, AlikeSame
      <4> QED BY <4>1, <4>2
    <3>3. \A j \in 1 .. 6 : Alike(w[j], mid[j], s, d)
      BY <1>10, <3>2, SixQueues, AlikeSame
    <3>4. Carries(mid, s, d, a, b)
      BY <1>7, <3>3, CarriesAlike
    <3>5. IsWay(mid)
      BY <1>7, <1>10, <3>2, OtherMailbox
    <3> QED BY <3>1, <3>4, <3>5
  <2> QED BY <2>1, <2>2
<1>12. Carries(u, s, d, a2, b2)
  <2>0. \A j \in 1 .. 5 : u[j] = mid[j]
    <3>1. \A j \in 1 .. 5 : j = 1 \/ j = 2 \/ j = 3 \/ j = 4 \/ j = 5
      OBVIOUS
    <3>2. mid[2] = w[2] /\ mid[3] = w[3] /\ mid[4] = w[4] /\ mid[5] = w[5]
      BY <1>10
    <3> QED BY <1>6, <1>10, <3>1, <3>2
  <2>1. CASE s \in Vats
    <3>1. PICK q \in Seq(Msg) : /\ out_messages'[s] = out_messages[s] \o q
                                /\ \A e \in Vats : Holds(q, s, e, sent[s][e], sent'[s][e])
      BY <2>1
    <3>2. Holds(q, s, d, b, b2)
      BY <3>1 DEF b, b2
    <3>3. mid[6] = w[6]
      BY <1>10
    <3>4. Added(mid, u, q)
      BY <1>6, <2>0, <2>1, <3>1, <3>3 DEF Added
    <3> QED BY <1>7, <1>9, <1>11, <3>2, <3>4, CarriesSend
  <2>2. CASE s \notin Vats
    <3>1. b2 = b
      BY <2>2 DEF b, b2
    <3>2. mid[6] = w[6]
      BY <1>10
    <3>3. \A j \in 1 .. 6 : Alike(mid[j], u[j], s, d)
      <4>1. u[6] = mid[6]
        BY <1>6, <2>2, <3>2
      <4>2. \A j \in 1 .. 6 : j \in 1 .. 5 \/ j = 6
        OBVIOUS
      <4> QED BY <2>0, <4>1, <4>2, AlikeSame
    <3> QED BY <1>7, <1>9, <1>11, <3>1, <3>3, CarriesAlike
  <2> QED BY <2>1, <2>2
<1> QED BY <1>12 DEF a2, b2, u

\* A handler sends to vats there are.
LEMMA TargetsAre ==
  ASSUME PlaceInv, NEW v, NEW ts \in Targets(v)
  PROVE  ts \in Seq(Vats)
<1>1. ts \in BoundedSeq(made, MaxBatch) /\ made \subseteq Vats
  BY DEF Targets, PlaceInv
<1>2. PICK k \in 0 .. MaxBatch : ts \in [1 .. k -> made]
  BY <1>1 DEF BoundedSeq, SeqOf
<1>3. k \in Nat /\ ts \in [1 .. k -> Vats]
  BY <1>1, <1>2, BoundAssumption
<1> QED BY <1>3

\* What a handler sends is of its vat, and a reply is of no channel.
LEMMA SendingHolds ==
  ASSUME NEW v \in Vats, NEW ts \in Seq(Vats), NEW m,
         sent \in [Senders -> [Vats -> Nat]]
  PROVE  /\ Batch(v, ts) \in Seq(From(v)) /\ Replies(v, m) \in Seq(From(v))
         /\ SentMore(v, ts) \in [Vats -> Nat]
         /\ \A d \in Vats :
              /\ SentMore(v, ts)[d] >= sent[v][d]
              /\ Holds(Batch(v, ts), v, d, sent[v][d], SentMore(v, ts)[d])
              /\ \A s : \A a \in Nat : Holds(Replies(v, m), s, d, a, a)
<1>1. Batch(v, ts) \in Seq(From(v)) /\ SentMore(v, ts) \in [Vats -> Nat]
  <2> DEFINE b == Batch(v, ts)
  <2>1. b \in Seq(Msg) /\ \A i \in DOMAIN b : b[i].src = v
    BY BatchHolds
  <2>2. SentMore(v, ts) \in [Vats -> Nat]
    BY BatchHolds
  <2> HIDE DEF b
  <2>3. \A i \in DOMAIN b : b[i] \in From(v)
    BY <2>1, MsgSeq DEF From
  <2>4. b \in Seq(From(v))
    <3> DEFINE k == Len(b)
    <3>1. k \in Nat /\ b \in [1 .. k -> Msg] /\ DOMAIN b = 1 .. k
      BY <2>1, LenProperties
    <3> HIDE DEF k
    <3>2. b \in [1 .. k -> From(v)]
      BY <2>3, <3>1
    <3> QED BY <3>1, <3>2
  <2> QED BY <2>2, <2>4 DEF b
<1>2. Replies(v, m) \in Seq(From(v))
  <2> DEFINE r == [src |-> v, dst |-> Void, no |-> 0]
  <2>1. r \in From(v)
    BY DEF From, Msg, Senders
  <2>2. <<r>> \in Seq(From(v)) /\ <<>> \in Seq(From(v))
    <3> HIDE DEF r
    <3> QED BY <2>1
  <2> QED BY <2>2 DEF Replies
<1>3. ASSUME NEW d \in Vats, NEW s, NEW a \in Nat PROVE Holds(Replies(v, m), s, d, a, a)
  <2>1. CASE m = Hello
    <3> DEFINE r == [src |-> v, dst |-> Void, no |-> 0]
    <3>1. Replies(v, m) = <<r>> /\ ~Of(r, s, d)
      BY <2>1, HomeAssumption DEF Replies, Of
    <3> HIDE DEF r
    <3>2. \A i \in DOMAIN <<r>> : ~Of(<<r>>[i], s, d)
      BY <3>1
    <3> QED BY <3>1, <3>2 DEF Holds
  <2>2. CASE m # Hello
    BY <2>2, HoldsNothing DEF Replies
  <2> QED BY <2>1, <2>2
<1> QED BY <1>1, <1>2, <1>3, BatchHolds

LEMMA ThreeParts ==
  ASSUME NEW p \in Seq(Msg), NEW q \in Seq(Msg), NEW r \in Seq(Msg)
  PROVE  (p \o q) \o r = p \o (q \o r)
<1>1. p \o q \in Seq(Msg) /\ q \o r \in Seq(Msg)
  BY ConcatProperties
<1> QED BY ConcatAssociative, SMTT(30)

\* A message is handled, and the handler sends.
LEMMA HandleMessageKeeps ==
  ASSUME MailInv, PlaceInv, NEW n \in Nodes, HandleMessage(n)
  PROVE  MailInv'
<1> DEFINE x == holding[n]
           m == Head(messages[x])
<1>1. PICK ts \in Targets(x) :
        /\ out_messages' = [out_messages EXCEPT ![x] = @ \o Batch(x, ts) \o Replies(x, m)]
        /\ sent' = [sent EXCEPT ![x] = SentMore(x, ts)]
  BY DEF HandleMessage
<1>2. /\ messages[x] # <<>> /\ Took(x) /\ messages' = [messages EXCEPT ![x] = Tail(@)]
      /\ UNCHANGED <<net_out_queue, wire, net_in_queue, sort_queue, net, n_received, made, down>>
      /\ x # NoVat
  BY DEF HandleMessage, Handling, netVars, PlaceInv
<1>3. x \in Vats /\ x \in made /\ x \in Senders
  BY <1>2, HeldIsMade DEF Senders
<1>4. ts \in Seq(Vats)
  BY TargetsAre
<1> HIDE DEF x
<1> DEFINE bt == Batch(x, ts)
           rp == Replies(x, m)
           q == bt \o rp
<1>5. sent \in [Senders -> [Vats -> Nat]]
  BY DEF MailInv, MailType
<1>6. /\ bt \in Seq(From(x)) /\ rp \in Seq(From(x)) /\ bt \in Seq(Msg) /\ rp \in Seq(Msg)
      /\ SentMore(x, ts) \in [Vats -> Nat]
      /\ \A d \in Vats : /\ Holds(bt, x, d, sent[x][d], SentMore(x, ts)[d])
                         /\ \A a \in Nat : Holds(rp, x, d, a, a)
  <2>1. /\ bt \in Seq(From(x)) /\ rp \in Seq(From(x)) /\ SentMore(x, ts) \in [Vats -> Nat]
        /\ \A d \in Vats : /\ Holds(bt, x, d, sent[x][d], SentMore(x, ts)[d])
                           /\ \A a \in Nat : Holds(rp, x, d, a, a)
    BY <1>3, <1>4, <1>5, SendingHolds
  <2> QED BY <2>1, SeqEnds, SubsetsOfMsg
<1> HIDE DEF bt, rp
<1>7. out_messages[x] \in Seq(From(x)) /\ out_messages[x] \in Seq(Msg)
  BY <1>3 DEF MailInv, MailType, MailInPlace
<1>8. /\ q \in Seq(From(x)) /\ q \in Seq(Msg)
      /\ out_messages[x] \o bt \o rp = out_messages[x] \o q
      /\ out_messages[x] \o q \in Seq(From(x))
  <2>1. q \in Seq(From(x)) /\ q \in Seq(Msg)
    BY <1>6, ConcatProperties
  <2>2. out_messages[x] \o bt \o rp = out_messages[x] \o q
    <3> DEFINE o == out_messages[x]
    <3>1. o \in Seq(Msg) /\ bt \in Seq(Msg) /\ rp \in Seq(Msg)
      BY <1>6, <1>7
    <3> HIDE DEF o
    <3>2. (o \o bt) \o rp = o \o (bt \o rp)
      BY <3>1, ThreeParts
    <3> QED BY <3>2 DEF o
  <2> HIDE DEF q
  <2>3. out_messages[x] \o q \in Seq(From(x))
    BY <1>7, <2>1, ConcatProperties
  <2> QED BY <2>1, <2>2, <2>3 DEF q
<1>9. out_messages' = [out_messages EXCEPT ![x] = out_messages[x] \o q]
  BY <1>1, <1>8 DEF bt, rp
<1>10. \A d \in Vats : Holds(q, x, d, sent[x][d], SentMore(x, ts)[d])
  <2> SUFFICES ASSUME NEW d \in Vats PROVE Holds(q, x, d, sent[x][d], SentMore(x, ts)[d])
    OBVIOUS
  <2> DEFINE a == sent[x][d]
             c == SentMore(x, ts)[d]
  <2>1. a \in Nat /\ c \in Nat /\ Holds(bt, x, d, a, c) /\ Holds(rp, x, d, c, c)
    BY <1>3, <1>5, <1>6
  <2> HIDE DEF a, c
  <2>2. Holds(q, x, d, a, c)
    BY <1>6, <2>1, HoldsConcat
  <2> QED BY <2>2 DEF a, c
<1> HIDE DEF q
<1>11. \A s \in Senders : sent'[s] = IF s = x THEN SentMore(x, ts) ELSE sent[s]
  BY <1>1, <1>3, <1>5
<1>12. \A s \in Vats : out_messages'[s] = IF s = x THEN out_messages[x] \o q ELSE out_messages[s]
  BY <1>3, <1>9 DEF MailInv, MailType
<1>13. sent' \in [Senders -> [Vats -> Nat]]
  BY <1>1, <1>3, <1>5, <1>6
<1>14. MailCarried'
  <2>1. \A s \in Senders \ Vats : sent'[s] = sent[s]
    BY <1>3, <1>11
  <2>2. ASSUME NEW s \in Vats
        PROVE  \E r \in Seq(Msg) :
                 /\ out_messages'[s] = out_messages[s] \o r
                 /\ \A d \in Vats : Holds(r, s, d, sent[s][d], sent'[s][d])
    <3>0. s \in Senders
      BY DEF Senders
    <3>1. CASE s = x
      BY <1>3, <1>8, <1>10, <1>11, <1>12, <3>1
    <3>2. CASE s # x
      <4>1. out_messages'[s] = out_messages[s] /\ sent'[s] = sent[s] /\ out_messages[s] \in Seq(Msg)
        BY <1>11, <1>12, <3>0, <3>2 DEF MailInv, MailType
      <4>2. <<>> \in Seq(Msg) /\ out_messages[s] = out_messages[s] \o <<>>
        BY <4>1, ConcatEmptySeq, EmptySeq
      <4>3. \A d \in Vats : Holds(<<>>, s, d, sent[s][d], sent'[s][d])
        BY <1>5, <3>0, <4>1, HoldsNothing
      <4> QED BY <4>1, <4>2, <4>3
    <3> QED BY <3>1, <3>2
  <2> QED BY <1>2, <1>3, <1>13, <2>1, <2>2, HandledCarried
<1>15. handled' \in [Senders -> [Vats -> Nat]] /\ messages' \in [Vats -> Seq(Msg)]
       /\ Tail(messages[x]) \in Seq(For(x))
  <2>1. m \in Msg /\ m.src \in Senders /\ m.no \in Nat
    BY <1>2, <1>3, NextMail DEF Msg
  <2>2. handled' = [handled EXCEPT ![m.src][x] = m.no]
    BY <1>2 DEF Took
  <2>3. messages[x] \in Seq(For(x)) /\ messages[x] \in Seq(Msg)
    BY <1>3 DEF MailInv, MailType, MailInPlace
  <2>4. Tail(messages[x]) \in Seq(For(x)) /\ Tail(messages[x]) \in Seq(Msg)
    BY <1>2, <2>3, SeqEnds, SubsetsOfMsg
  <2>5. messages' \in [Vats -> Seq(Msg)]
    BY <1>2, <2>4 DEF MailInv, MailType
  <2> HIDE DEF m
  <2>6. handled' \in [Senders -> [Vats -> Nat]]
    BY <2>1, <2>2, <1>3 DEF MailInv, MailType
  <2> QED BY <2>4, <2>5, <2>6
<1>16. out_messages' \in [Vats -> Seq(Msg)]
  <2>1. out_messages[x] \o q \in Seq(Msg)
    BY <1>8, SeqEnds, SubsetsOfMsg
  <2> DEFINE o == out_messages[x] \o q
  <2> HIDE DEF o
  <2> QED BY <1>9, <2>1 DEF MailInv, MailType, o
<1>17. MailType'
  BY <1>2, <1>13, <1>15, <1>16 DEF MailInv, MailType
<1>18. MailInPlace'
  <2>1. \A v \in Vats : messages'[v] \in Seq(For(v))
    <3>1. \A v \in Vats : messages'[v] = IF v = x THEN Tail(messages[x]) ELSE messages[v]
      BY <1>2 DEF MailInv, MailType
    <3> QED BY <1>15, <3>1 DEF MailInv, MailInPlace
  <2>2. \A v \in Vats : out_messages'[v] \in Seq(From(v)) /\ (v \notin made => out_messages'[v] = <<>>)
    BY <1>3, <1>8, <1>12 DEF MailInv, MailInPlace
  <2> QED BY <1>2, <2>1, <2>2 DEF MailInv, MailInPlace
<1> QED BY <1>14, <1>17, <1>18 DEF MailInv

\* A handler makes a vat, whose first messages are its own.
LEMMA HandleCreateVatKeeps ==
  ASSUME MailInv, PlaceInv, NEW n \in Nodes, HandleCreateVat(n)
  PROVE  MailInv'
<1> DEFINE x == holding[n]
           m == Head(messages[x])
<1>1. PICK w \in NewVats \ made : \E ts \in Targets(w) :
        /\ out_messages' = [out_messages EXCEPT ![w] = Batch(w, ts), ![x] = @ \o Replies(x, m)]
        /\ sent' = [sent EXCEPT ![w] = SentMore(w, ts)]
        /\ made' = made \cup {w}
  BY DEF HandleCreateVat
<1>2. PICK ts \in Targets(w) :
        /\ out_messages' = [out_messages EXCEPT ![w] = Batch(w, ts), ![x] = @ \o Replies(x, m)]
        /\ sent' = [sent EXCEPT ![w] = SentMore(w, ts)]
        /\ made' = made \cup {w}
  BY <1>1
<1>3. /\ messages[x] # <<>> /\ Took(x) /\ messages' = [messages EXCEPT ![x] = Tail(@)]
      /\ UNCHANGED <<net_out_queue, wire, net_in_queue, sort_queue, net, n_received, down>>
      /\ x # NoVat
  BY DEF HandleCreateVat, Handling, netVars, PlaceInv
<1>4. /\ x \in Vats /\ x \in made /\ w \in Vats /\ w \notin made /\ x # w
      /\ w \in Senders
  BY <1>3, HeldIsMade, HomeAssumption DEF Senders
<1>5. ts \in Seq(Vats)
  BY TargetsAre
<1> HIDE DEF x
<1> DEFINE bt == Batch(w, ts)
           rp == Replies(x, m)
           o == out_messages[x] \o rp
<1>6. sent \in [Senders -> [Vats -> Nat]] /\ out_messages \in [Vats -> Seq(Msg)]
  BY DEF MailInv, MailType
<1>7. /\ bt \in Seq(From(w)) /\ rp \in Seq(From(x)) /\ bt \in Seq(Msg) /\ rp \in Seq(Msg)
      /\ SentMore(w, ts) \in [Vats -> Nat]
      /\ \A d \in Vats : /\ Holds(bt, w, d, sent[w][d], SentMore(w, ts)[d])
                         /\ \A a \in Nat : Holds(rp, x, d, a, a)
  <2>1. /\ bt \in Seq(From(w)) /\ SentMore(w, ts) \in [Vats -> Nat]
        /\ \A d \in Vats : Holds(bt, w, d, sent[w][d], SentMore(w, ts)[d])
    BY <1>4, <1>5, <1>6, SendingHolds
  <2>2. rp \in Seq(From(x)) /\ \A d \in Vats : \A a \in Nat : Holds(rp, x, d, a, a)
    BY <1>4, <1>5, <1>6, SendingHolds
  <2> QED BY <2>1, <2>2, SeqEnds, SubsetsOfMsg
<1> HIDE DEF bt, rp
<1>8. /\ out_messages[x] \in Seq(From(x)) /\ out_messages[x] \in Seq(Msg) /\ out_messages[w] = <<>>
  BY <1>4 DEF MailInv, MailType, MailInPlace
<1>9. o \in Seq(From(x)) /\ o \in Seq(Msg)
  BY <1>7, <1>8, ConcatProperties
<1>10. \A s \in Vats : out_messages'[s] = IF s = w THEN bt ELSE IF s = x THEN o ELSE out_messages[s]
  BY <1>2, <1>4, <1>6 DEF bt, rp
<1>11. \A s \in Senders : sent'[s] = IF s = w THEN SentMore(w, ts) ELSE sent[s]
  BY <1>2, <1>4, <1>6
<1>12. sent' \in [Senders -> [Vats -> Nat]]
  BY <1>2, <1>4, <1>6, <1>7
<1>13. DOMAIN out_messages' = Vats /\ out_messages' = [s \in Vats |-> out_messages'[s]]
  BY <1>2, <1>6
<1>14. MailCarried'
  <2>1. \A s \in Senders \ Vats : sent'[s] = sent[s]
    BY <1>4, <1>11
  <2>2. ASSUME NEW s \in Vats
        PROVE  \E r \in Seq(Msg) :
                 /\ out_messages'[s] = out_messages[s] \o r
                 /\ \A d \in Vats : Holds(r, s, d, sent[s][d], sent'[s][d])
    <3>0. s \in Senders
      BY DEF Senders
    <3>1. CASE s = w
      <4>1. out_messages'[s] = bt /\ sent'[s] = SentMore(w, ts) /\ bt = <<>> \o bt
        BY <1>7, <1>10, <1>11, <3>0, <3>1, ConcatEmptySeq
      <4> QED BY <1>7, <1>8, <3>1, <4>1
    <3>2. CASE s = x
      <4>1. out_messages'[s] = out_messages[s] \o rp /\ sent'[s] = sent[s]
        BY <1>4, <1>10, <1>11, <3>0, <3>2
      <4>2. \A d \in Vats : Holds(rp, s, d, sent[s][d], sent'[s][d])
        BY <1>6, <1>7, <3>0, <3>2, <4>1
      <4> QED BY <1>7, <4>1, <4>2
    <3>3. CASE s # w /\ s # x
      <4>1. out_messages'[s] = out_messages[s] /\ sent'[s] = sent[s] /\ out_messages[s] \in Seq(Msg)
        BY <1>6, <1>10, <1>11, <3>0, <3>3
      <4>2. <<>> \in Seq(Msg) /\ out_messages[s] = out_messages[s] \o <<>>
        BY <4>1, ConcatEmptySeq, EmptySeq
      <4>3. \A d \in Vats : Holds(<<>>, s, d, sent[s][d], sent'[s][d])
        BY <1>6, <3>0, <4>1, HoldsNothing
      <4> QED BY <4>1, <4>2, <4>3
    <3> QED BY <3>1, <3>2, <3>3
  <2> QED BY <1>3, <1>4, <1>12, <2>1, <2>2, HandledCarried
<1> HIDE DEF o
<1>15. handled' \in [Senders -> [Vats -> Nat]] /\ messages' \in [Vats -> Seq(Msg)]
       /\ Tail(messages[x]) \in Seq(For(x))
  <2>1. m \in Msg /\ m.src \in Senders /\ m.no \in Nat
    BY <1>3, <1>4, NextMail DEF Msg
  <2>2. handled' = [handled EXCEPT ![m.src][x] = m.no]
    BY <1>3 DEF Took
  <2>3. messages[x] \in Seq(For(x)) /\ messages[x] \in Seq(Msg)
    BY <1>4 DEF MailInv, MailType, MailInPlace
  <2>4. Tail(messages[x]) \in Seq(For(x)) /\ Tail(messages[x]) \in Seq(Msg)
    BY <1>3, <2>3, SeqEnds, SubsetsOfMsg
  <2>5. messages' \in [Vats -> Seq(Msg)]
    BY <1>3, <2>4 DEF MailInv, MailType
  <2> HIDE DEF m
  <2>6. handled' \in [Senders -> [Vats -> Nat]]
    BY <2>1, <2>2, <1>4 DEF MailInv, MailType
  <2> QED BY <2>4, <2>5, <2>6
<1>16. out_messages' \in [Vats -> Seq(Msg)]
  <2>1. \A s \in Vats : out_messages'[s] \in Seq(Msg)
    BY <1>6, <1>7, <1>9, <1>10
  <2> QED BY <1>13, <2>1
<1>17. MailType'
  BY <1>3, <1>12, <1>15, <1>16 DEF MailInv, MailType
<1>18. MailInPlace'
  <2>1. \A v \in Vats : messages'[v] \in Seq(For(v))
    <3>1. \A v \in Vats : messages'[v] = IF v = x THEN Tail(messages[x]) ELSE messages[v]
      BY <1>3 DEF MailInv, MailType
    <3> QED BY <1>15, <3>1 DEF MailInv, MailInPlace
  <2>2. \A v \in Vats : out_messages'[v] \in Seq(From(v)) /\ (v \notin made' => out_messages'[v] = <<>>)
    BY <1>2, <1>4, <1>7, <1>9, <1>10 DEF MailInv, MailInPlace
  <2> QED BY <1>3, <2>1, <2>2 DEF MailInv, MailInPlace
<1> QED BY <1>14, <1>17, <1>18 DEF MailInv

-----------------------------------------------------------------------------
(* The initial state *)

LEMMA InitMail == Init => MailInv
<1> SUFFICES ASSUME Init PROVE MailInv
  OBVIOUS
<1>1. /\ Monad \in Vats /\ FirstNode \in Nodes /\ Home[Monad] = FirstNode
      /\ \A n \in Nodes : Main(n) \in Senders /\ Main(n) \notin Vats /\ NodeOf[Main(n)] = n
                          /\ Thread(Main(n)) = "main"
  <2>1. Monad \in Vats /\ FirstNode \in Nodes /\ Home[Monad] = FirstNode
    BY HomeAssumption DEF BootVats
  <2>2. ASSUME NEW n \in Nodes
        PROVE  Main(n) \in Senders /\ Main(n) \notin Vats /\ NodeOf[Main(n)] = n
               /\ Thread(Main(n)) = "main"
    <3>1. Main(n) \in Outsiders /\ Main(n) \notin Vats /\ Main(n)[1] = n
      BY HomeAssumption DEF Outsiders, Main
    <3> QED BY <3>1 DEF NodeOf, Senders, Thread
  <2> QED BY <2>1, <2>2
<1>2. /\ Hello \in For(Monad) /\ Hello \in Msg
      /\ \A n \in Nodes : StartProgram(n) \in Outgoing(n, "main") /\ StartProgram(n) \in Msg
  <2>1. Hello \in For(Monad) /\ Hello \in Msg
    BY <1>1 DEF For, Hello, Msg
  <2>2. ASSUME NEW n \in Nodes
        PROVE  StartProgram(n) \in Msg /\ StartProgram(n).src = Main(n) /\ StartProgram(n).dst = Monad
    BY <1>1 DEF StartProgram, Msg
  <2>3. ASSUME NEW n \in Nodes PROVE Main(n) # Monad
    BY <1>1
  <2> QED BY <1>1, <2>1, <2>2, <2>3 DEF Outgoing
<1> DEFINE none == <<>>
<1>3. /\ \A S : none \in Seq(S)
      /\ <<Hello>> \in Seq(For(Monad)) /\ <<Hello>> \in Seq(Msg)
      /\ \A n \in Nodes : /\ <<StartProgram(n)>> \in Seq(Outgoing(n, "main"))
                          /\ <<StartProgram(n)>> \in Seq(Msg)
  <2>1. \A S : \A e \in S : <<e>> \in Seq(S)
    OBVIOUS
  <2> QED BY <1>2, <2>1
<1>4. /\ messages = [v \in Vats |-> IF v = Monad THEN <<Hello>> ELSE none]
      /\ out_messages = [v \in Vats |-> none] /\ sort_queue = [v \in Vats |-> none]
      /\ net_out_queue = [n \in Nodes |-> [t \in Threads |->
                            IF t = "main" THEN <<StartProgram(n)>> ELSE none]]
      /\ wire = [n \in Nodes |-> [p \in Nodes |-> none]] /\ net_in_queue = [n \in Nodes |-> none]
      /\ net = [n \in Nodes |-> "events"] /\ n_received = [n \in Nodes |-> 0]
      /\ sent = BootSent /\ handled = [s \in Senders |-> [v \in Vats |-> 0]] /\ down = {}
  BY DEF Init
<1> HIDE DEF none
<1>5. MailType
  <2>1. /\ messages \in [Vats -> Seq(Msg)] /\ sort_queue \in [Vats -> Seq(Msg)]
        /\ out_messages \in [Vats -> Seq(Msg)] /\ net_in_queue \in [Nodes -> Seq(Msg)]
        /\ wire \in [Nodes -> [Nodes -> Seq(Msg)]]
    BY <1>3, <1>4
  <2>2. net_out_queue \in [Nodes -> [Threads -> Seq(Msg)]]
    BY <1>3, <1>4
  <2>3. /\ net \in [Nodes -> {"events", "out", "vats"}] /\ n_received \in [Nodes -> 0 .. NetBatch]
        /\ sent \in [Senders -> [Vats -> Nat]] /\ handled \in [Senders -> [Vats -> Nat]]
        /\ down \subseteq Nodes
    BY <1>4, BoundAssumption DEF BootSent
  <2> QED BY <2>1, <2>2, <2>3 DEF MailType
<1>6. MailInPlace
  <2>1. \A v \in Vats :
          /\ messages[v] \in Seq(For(v)) /\ sort_queue[v] \in Seq(Sorted(v))
          /\ out_messages[v] \in Seq(From(v)) /\ out_messages[v] = none
    BY <1>3, <1>4
  <2>2. \A n \in Nodes :
          /\ net_in_queue[n] \in Seq(Arrived(n))
          /\ \A p \in Nodes : wire[n][p] \in Seq(OnWire(n, p))
    BY <1>3, <1>4
  <2>3. \A n \in Nodes : \A t \in Threads : net_out_queue[n][t] \in Seq(Outgoing(n, t))
    BY <1>3, <1>4
  <2> QED BY <2>1, <2>2, <2>3 DEF MailInPlace, none
<1>7. MailCarried
  <2> SUFFICES ASSUME NEW s \in Senders, NEW v \in Vats
               PROVE  Carries(Way(s, v), s, v, 0, BootSent[s][v])
    BY <1>4 DEF MailCarried
  <2> DEFINE w == Way(s, v)
             b == BootSent[s][v]
             h == IF v = Monad /\ s = Main(FirstNode) THEN 1 ELSE 0
             c == [k \in 0 .. 6 |-> IF k = 0 THEN 0 ELSE IF k < 5 THEN h ELSE b]
  <2>0. NodeOf[s] \in Nodes /\ Thread(s) \in Threads /\ Home[v] \in Nodes
    BY NodeOfType, HomeAssumption
  <2>1. /\ w[1] = (IF v = Monad THEN <<Hello>> ELSE none)
        /\ w[2] = none /\ w[3] = none /\ w[4] = none /\ w[6] = none
        /\ w[5] = (IF s \in Vats THEN none ELSE <<StartProgram(NodeOf[s])>>)
    <3>1. messages[v] = (IF v = Monad THEN <<Hello>> ELSE none) /\ sort_queue[v] = none
          /\ net_in_queue[Home[v]] = none
      BY <1>4, <2>0
    <3>2. wire[NodeOf[s]][Home[v]] = none /\ (s \in Vats => out_messages[s] = none)
      BY <1>4, <2>0
    <3>3. net_out_queue[NodeOf[s]][Thread(s)] = (IF s \in Vats THEN none ELSE <<StartProgram(NodeOf[s])>>)
      <4>1. net_out_queue[NodeOf[s]] = [t \in Threads |-> IF t = "main" THEN <<StartProgram(NodeOf[s])>> ELSE none]
        BY <1>4, <2>0
      <4>2. Thread(s) = "main" <=> s \notin Vats
        BY DEF Thread
      <4> QED BY <2>0, <4>1, <4>2
    <3> QED BY <3>1, <3>2, <3>3, WayIs DEF none
  <2>2. b = IF v # Monad \/ s \in Vats THEN 0 ELSE IF s = Main(FirstNode) THEN 2 ELSE 1
    BY DEF BootSent
  <2>3. \A a \in Nat : Holds(none, s, v, a, a)
    BY HoldsNothing DEF none
  <2> HIDE DEF w
  <2>4. Holds(w[1], s, v, 0, h)
    <3>1. Hello.src = Main(FirstNode) /\ Hello.dst = Monad /\ Hello.no = 1
      BY DEF Hello
    <3>2. CASE v = Monad
      <4>1. w[1] = <<Hello>>
        BY <2>1, <3>2
      <4> HIDE DEF Hello
      <4>2. CASE s = Main(FirstNode)
        <5>1. Of(Hello, s, v) /\ h = 1
          BY <3>1, <3>2, <4>2 DEF Of
        <5> QED BY <3>1, <4>1, <5>1 DEF Holds
      <4>3. CASE s # Main(FirstNode)
        <5>1. ~Of(Hello, s, v) /\ h = 0
          BY <3>1, <4>3 DEF Of
        <5> QED BY <4>1, <5>1 DEF Holds
      <4> QED BY <4>2, <4>3
    <3>3. CASE v # Monad
      BY <2>1, <2>3, <3>3
    <3> QED BY <3>2, <3>3
  <2>5. Holds(w[5], s, v, h, b)
    <3>1. CASE s \in Vats
      <4>1. h = 0 /\ b = 0
        BY <1>1, <2>2, <3>1
      <4> QED BY <2>1, <2>3, <3>1, <4>1
    <3>2. CASE s \notin Vats
      <4>1. PICK n \in Nodes : s = Main(n)
        BY <3>2 DEF Senders, Outsiders
      <4>2. NodeOf[s] = n
        BY <1>1, <4>1
      <4> DEFINE m == StartProgram(n)
      <4>3. m.src = s /\ m.dst = Monad /\ m.no = (IF n = FirstNode THEN 2 ELSE 1)
        BY <4>1 DEF StartProgram
      <4>4. n = FirstNode <=> s = Main(FirstNode)
        BY <1>1, <4>1
      <4>5. w[5] = <<m>>
        BY <2>1, <3>2, <4>2
      <4> HIDE DEF m
      <4>6. CASE v = Monad
        <5>1. Of(m, s, v) /\ m.no = b /\ b = h + 1 /\ h \in Nat
          BY <2>2, <3>2, <4>3, <4>4, <4>6 DEF Of
        <5> HIDE DEF b, h
        <5> QED BY <4>5, <5>1 DEF Holds
      <4>7. CASE v # Monad
        <5>1. ~Of(m, s, v) /\ h = 0 /\ b = 0
          BY <2>2, <4>3, <4>7 DEF Of
        <5> QED BY <4>5, <5>1 DEF Holds
      <4> QED BY <4>6, <4>7
    <3> QED BY <3>1, <3>2
  <2>6. b \in Nat /\ h \in Nat
    BY <2>2
  <2> HIDE DEF b, h
  <2>7. c \in [0 .. 6 -> Nat] /\ c[0] = 0 /\ c[6] = b /\ c[1] = h /\ c[2] = h /\ c[3] = h /\ c[4] = h
        /\ c[5] = b
    BY <2>6
  <2> HIDE DEF c
  <2>10. Holds(none, s, v, h, h) /\ Holds(none, s, v, b, b)
    BY <2>3, <2>6
  <2>8. ASSUME NEW k \in 1 .. 6 PROVE Holds(w[k], s, v, c[k - 1], c[k])
    <3>1. CASE k = 1
      BY <2>4, <2>7, <3>1
    <3>2. CASE k = 2
      <4>1. w[k] = none /\ c[k - 1] = h /\ c[k] = h
        BY <2>1, <2>7, <3>2
      <4> QED BY <2>10, <4>1
    <3>3. CASE k = 3
      <4>1. w[k] = none /\ c[k - 1] = h /\ c[k] = h
        BY <2>1, <2>7, <3>3
      <4> QED BY <2>10, <4>1
    <3>4. CASE k = 4
      <4>1. w[k] = none /\ c[k - 1] = h /\ c[k] = h
        BY <2>1, <2>7, <3>4
      <4> QED BY <2>10, <4>1
    <3>5. CASE k = 5
      BY <2>5, <2>7, <3>5
    <3>6. CASE k = 6
      <4>1. w[k] = none /\ c[k - 1] = b /\ c[k] = b
        BY <2>1, <2>7, <3>6
      <4> QED BY <2>10, <4>1
    <3> QED BY <3>1, <3>2, <3>3, <3>4, <3>5, <3>6, SixQueues
  <2>9. Carries(w, s, v, 0, b)
    BY <2>7, <2>8 DEF Carries
  <2> QED BY <2>9 DEF w, b
<1> QED BY <1>5, <1>6, <1>7 DEF MailInv

-----------------------------------------------------------------------------
(* The theorems *)

LEMMA MailStep ==
  ASSUME MailInv, PlaceInv, [Next]_vars
  PROVE  MailInv'
<1>1. ASSUME NEW n \in Nodes, Burner(n) PROVE MailInv'
  BY <1>1, HandleMessageKeeps, HandleCreateVatKeeps, FlushMessageKeeps, OthersStill DEF Burner
<1>2. ASSUME NEW n \in Nodes, NetLoop(n) PROVE MailInv'
  <2>1. ASSUME NetPass(n) PROVE MailInv'
    BY <2>1, NetPassDelivers
  <2>2. ASSUME NEW t \in Threads, NetSend(n, t) PROVE MailInv'
    BY <2>2, NetSendKeeps
  <2> QED BY <1>2, <2>1, <2>2, NetSortKeeps, OthersStill DEF NetLoop
<1>3. ASSUME NEW n \in Nodes, Panic(n) PROVE MailInv'
  BY <1>3, OthersStill
<1>4. ASSUME NEW n \in Nodes, NEW p \in Nodes, NetReceive(n, p) PROVE MailInv'
  BY <1>4, NetReceiveKeeps
<1>5. CASE UNCHANGED vars
  BY <1>5, MailStill DEF vars, burnerVars, netVars, MailInv, MailType
<1> QED BY <1>1, <1>2, <1>3, <1>4, <1>5 DEF Next

\* Both invariants together.
LEMMA Invariants == Spec => [](PlaceInv /\ MailInv)
<1>1. Init => PlaceInv /\ MailInv
  BY InitPlaces, InitMail
<1>2. (PlaceInv /\ MailInv) /\ [Next]_vars => (PlaceInv /\ MailInv)'
  BY PlaceStep, MailStep
<1> QED BY <1>1, <1>2, PTL DEF Spec

\* The queues between the threads and between the nodes hold what the other end
\* takes them to hold, a burner that is not idle has a vat, and a round of
\* net_loop never counts past its limit (pleroma.cpp:64-166, netcode.cpp:118-155).
THEOREM TypesAreKept == Spec => []TypeOK
<1>1. PlaceInv /\ MailInv => TypeOK
  BY DEF PlaceInv, MailInv, MailType, TypeOK
<1> QED BY <1>1, Invariants, PTL

\* A step of a handler is a step of a channel.
LEMMA HandleMessageIsHandle ==
  ASSUME MailInv, PlaceInv, NEW n \in Nodes, HandleMessage(n)
  PROVE  \E v \in Vats, s \in Senders : Channels!Handle(v, s)
<1> DEFINE v == holding[n]
           m == Head(messages[v])
           s == m.src
<1>1. /\ messages[v] # <<>> /\ Took(v) /\ UNCHANGED <<made, down>> /\ v # NoVat /\ n \notin down
  BY DEF HandleMessage, Handling, PlaceInv, Up
<1>2. v \in Vats /\ v \in made /\ v \in Senders /\ NodeOf[v] = n
  BY <1>1, HeldIsMade, NodeOfType DEF Senders
<1>3. s \in Senders /\ m.no = handled[s][v] + 1 /\ m.no <= sent[s][v]
  BY <1>1, <1>2, NextMail
<1>4. PICK ts \in Targets(v) : sent' = [sent EXCEPT ![v] = SentMore(v, ts)]
  BY DEF HandleMessage
<1>5. /\ sent \in [Senders -> [Vats -> Nat]]
      /\ \A d \in Vats : SentMore(v, ts)[d] >= sent[v][d]
  BY <1>2, TargetsAre, SendingHolds DEF MailInv, MailType
<1>6. handled' = [handled EXCEPT ![s][v] = m.no] /\ handled \in [Senders -> [Vats -> Nat]]
  BY <1>1 DEF Took, MailInv, MailType
<1> HIDE DEF v, m, s
<1>7. handled' = [handled EXCEPT ![s][v] = @ + 1] /\ handled[s][v] < sent[s][v]
  BY <1>2, <1>3, <1>5, <1>6
<1>8. Channels!Taken(v, s)
  BY <1>1, <1>2, <1>7 DEF Channels!Taken
<1>9. Channels!SentBy(v)
  BY <1>2, <1>4, <1>5 DEF Channels!SentBy
<1>10. Channels!Handle(v, s)
  BY <1>1, <1>8, <1>9 DEF Channels!Handle
<1> QED BY <1>2, <1>3, <1>10

\* So is one that makes a vat.
LEMMA HandleCreateVatIsCreate ==
  ASSUME MailInv, PlaceInv, NEW n \in Nodes, HandleCreateVat(n)
  PROVE  \E v, w \in Vats, s \in Senders : Channels!Create(v, s, w)
<1> DEFINE v == holding[n]
           m == Head(messages[v])
           s == m.src
<1>1. /\ messages[v] # <<>> /\ Took(v) /\ UNCHANGED down /\ v # NoVat /\ n \notin down
  BY DEF HandleCreateVat, Handling, PlaceInv, Up
<1>2. v \in Vats /\ v \in made /\ v \in Senders /\ NodeOf[v] = n
  BY <1>1, HeldIsMade, NodeOfType DEF Senders
<1>3. s \in Senders /\ m.no = handled[s][v] + 1 /\ m.no <= sent[s][v]
  BY <1>1, <1>2, NextMail
<1>4. PICK w \in NewVats \ made :
        Home[w] = n /\ made' = made \cup {w}
        /\ \E ts \in Targets(w) : sent' = [sent EXCEPT ![w] = SentMore(w, ts)]
  BY DEF HandleCreateVat
<1>5. w \in Vats /\ w \notin made /\ w \in Senders /\ NodeOf[w] = n
  BY <1>4, HomeAssumption, NodeOfType DEF Senders
<1>6. PICK ts \in Targets(w) : sent' = [sent EXCEPT ![w] = SentMore(w, ts)]
  BY <1>4
<1>7. /\ sent \in [Senders -> [Vats -> Nat]]
      /\ \A d \in Vats : SentMore(w, ts)[d] >= sent[w][d]
  BY <1>5, TargetsAre, SendingHolds DEF MailInv, MailType
<1>8. handled' = [handled EXCEPT ![s][v] = m.no] /\ handled \in [Senders -> [Vats -> Nat]]
  BY <1>1 DEF Took, MailInv, MailType
<1> HIDE DEF v, m, s
<1>9. handled' = [handled EXCEPT ![s][v] = @ + 1] /\ handled[s][v] < sent[s][v]
  BY <1>2, <1>3, <1>7, <1>8
<1>10. Channels!Taken(v, s)
  BY <1>1, <1>2, <1>9 DEF Channels!Taken
<1>11. Channels!SentBy(w)
  BY <1>5, <1>6, <1>7 DEF Channels!SentBy
<1>12. Channels!Create(v, s, w)
  BY <1>1, <1>2, <1>4, <1>5, <1>10, <1>11 DEF Channels!Create
<1> QED BY <1>2, <1>3, <1>5, <1>12

\* What the threads of a node do to the queues is unseen.
LEMMA StepIsChannels ==
  ASSUME MailInv, PlaceInv, [Next]_vars
  PROVE  [Channels!Next]_(Channels!vars)
<1>1. ASSUME NEW n \in Nodes, HandleMessage(n) PROVE Channels!Next
  BY <1>1, HandleMessageIsHandle DEF Channels!Next
<1>2. ASSUME NEW n \in Nodes, HandleCreateVat(n) PROVE Channels!Next
  BY <1>2, HandleCreateVatIsCreate DEF Channels!Next
<1>3. ASSUME NEW n \in Nodes, Panic(n) PROVE Channels!Next
  BY <1>3 DEF Panic, Channels!Crash, Channels!Next
<1>4. ASSUME NEW n \in Nodes,
             \/ TakeVat(n) \/ FlushMessage(n) \/ ReturnVat(n) \/ NetLoop(n)
             \/ \E p \in Nodes : NetReceive(p, n)
      PROVE  UNCHANGED Channels!vars
  BY <1>4 DEF TakeVat, FlushMessage, ReturnVat, NetLoop, NetReceive, NetSent, NetSort, NetPass,
              NetDone, NetSend, Channels!vars
<1>5. CASE UNCHANGED vars
  BY <1>5 DEF vars, Channels!vars
<1> QED BY <1>1, <1>2, <1>3, <1>4, <1>5 DEF Next, Burner

\* On any number of nodes, with any number of vats and whatever handlers send:
\* between any two vats mail is neither lost nor doubled nor reordered on its way
\* through the queues of the burners and the net_loops, and a node that goes down
\* stops only its own vats (pleroma.cpp:79-159, netcode.cpp:118-155).
THEOREM MailIsKept == Spec => ImplementsChannels
<1>1. Init => Channels!Init
  BY DEF Init, Channels!Init
<1>2. (PlaceInv /\ MailInv) /\ [Next]_vars => [Channels!Next]_(Channels!vars)
  BY StepIsChannels
<1> QED BY <1>1, <1>2, Invariants, PTL DEF Spec, ImplementsChannels, Channels!Spec
=============================================================================
