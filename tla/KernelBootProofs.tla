-------------------------- MODULE KernelBootProofs --------------------------
(***************************************************************************)
(* Proofs about KernelBoot, for every program, preamble and set of         *)
(* resources.                                                              *)
(***************************************************************************)
EXTENDS KernelBoot, SequenceTheorems, FiniteSetTheorems, WellFoundedInduction, TLAPS

IsSeq(q) == q \in Seq(ToSet(q))
Chan(s, d) == At(mail, <<s, d>>)
Caps(v) == CapsOf(vats[v])
Known == Programs \cup {Child}

\* What is where.
SystemMap == [x \in Names |-> IF x = "Monad" THEN MonadRef ELSE <<0, Index(SystemNames, x) + 1>>]
Kinds == {"Monad", "NodeMan", "Io", "Amoeba", "HttpLb", "ZenoMaster", "Program"}
Node(n) == [id |-> n, nodeman |-> IF n = 0 THEN <<0, 1>> ELSE <<1, 0>>]
VatOK(v, x) ==
  /\ x.kind \in Kinds
  /\ x.kind = "Monad" => v = MonadRef
  /\ x.kind = "Io" => v = <<0, 2>>
  /\ x.kind = "Amoeba" => v = <<0, 3>>
  /\ x.kind = "Program" => x.prog \in Known
  /\ v[1] # 0 => x.kind \in {"NodeMan", "Program"}
VatsOK ==
  /\ DOMAIN promises = DOMAIN vats
  /\ base \in [Nodes -> Nat]
  /\ MonadRef \in DOMAIN vats /\ vats[MonadRef].kind = "Monad"
  /\ \A v \in DOMAIN vats : v \in Nodes \X Nat /\ v[2] < base[v[1]] /\ VatOK(v, vats[v])
NodesOK ==
  /\ nodes \in {<<Node(0)>>, <<Node(0), Node(1)>>}
  /\ \A i \in DOMAIN nodes :
       nodes[i].nodeman \in DOMAIN vats /\ vats[nodes[i].nodeman].kind = "NodeMan"
  /\ Len(nodes) = 1 => base[1] = 0
SystemOK ==
  /\ system = <<>> => base[0] = 2
  /\ system # <<>> =>
       /\ system = SystemMap
       /\ \A x \in Names : system[x] \in DOMAIN vats /\ vats[system[x]].kind = x
  /\ IsSeq(subscribers)
  /\ \A i \in DOMAIN subscribers : system # <<>> /\ subscribers[i] = <<0, 3>>
ScreenOK == screen => system # <<>>

\* The first messages of all.
BootOK ==
  /\ system = <<>> => \A c \in DOMAIN mail : c \in {<<Thread(0), MonadRef>>, <<Thread(1), MonadRef>>}
  /\ system = <<>> => Chan(Thread(0), MonadRef) = <<HelloMsg, StartProgramMsg(0)>>
  /\ system # <<>> => Chan(Thread(0), MonadRef) \in {<<>>, <<StartProgramMsg(0)>>}
  /\ Chan(Thread(1), MonadRef) \in {<<>>, <<StartProgramMsg(1)>>}
  /\ Len(nodes) = 1 => Chan(Thread(1), MonadRef) = <<>>

\* Every message is one that its receiver knows, from where it may come.
RefOK(v, k, x) == system # <<>> /\ Caps(v)[k] \in Names /\ x = system[Caps(v)[k]]
FitsAt(what, n) == Preamble[what] \subseteq Resources[n]
MadeFor(w, what) ==
  w \in DOMAIN vats /\ vats[w].kind = "Program" /\ vats[w].prog = what /\ FitsAt(what, w[1])
ThreadRequestOK(s, d, m) ==
  /\ d = MonadRef /\ m.prom = 0
  /\ \/ s = Thread(0) /\ m.fn = "hello"
     \/ s \in {Thread(0), Thread(1)} /\ m.fn = "start-program" /\ m.args = s[1]
     \/ s = Keyboard /\ m.fn = "irq-handler"
ZigRan == \E p \in Programs : "zig" \in ToSet(Main[p]) /\ ran[p] # <<>>
CallOK(s, d, fn, args, k) ==
  \/ /\ fn = "request-far-entity" /\ d = MonadRef
     /\ args = Caps(s)[k] \/ (args = Nothing /\ s[1] = 1 /\ vats[s].kind = "Program")
  \/ fn = "new-vat" /\ d = MonadRef /\ vats[s].kind = "Program" /\ args = Child
  \/ fn = "subscribe-irq" /\ d = MonadRef
  \/ /\ fn = "create-vat" /\ s = MonadRef /\ vats[d].kind = "NodeMan"
     /\ args \in Known /\ FitsAt(args, d[1])
  \/ fn = "print" /\ vats[d].kind = "Io" /\ vats[s].kind = "Program" /\ args \in Nat
  \/ fn = "init" /\ vats[d].kind = "Amoeba"
  \/ fn = "handle-input" /\ vats[d].kind = "Amoeba"
  \/ fn = "main" /\ s = MonadRef /\ args \in Programs /\ MadeFor(d, args)
  \/ fn = "zig" /\ d = s /\ vats[s].kind = "Program" /\ ZigRan
VatRequestOK(s, d, m) ==
  /\ s \in DOMAIN vats /\ m.prom \in DOMAIN promises[s]
  /\ m.fn = "request-far-entity" <=> m.prom \in DOMAIN Caps(s)
  /\ CallOK(s, d, m.fn, m.args, m.prom)
RequestOK(s, d, m) ==
  d \in DOMAIN vats /\ (ThreadRequestOK(s, d, m) \/ VatRequestOK(s, d, m))
ResponseOK(s, d, m) ==
  /\ s \in DOMAIN vats /\ d \in DOMAIN vats /\ m.prom \in DOMAIN promises[d]
  /\ m.fn = "request-far-entity" <=> m.prom \in DOMAIN Caps(d)
  /\ m.fn = "request-far-entity" => RefOK(d, m.prom, m.args)
MessageOK(s, d, m) ==
  m.re \in BOOLEAN /\ (IF m.re THEN ResponseOK(s, d, m) ELSE RequestOK(s, d, m))
MailOK ==
  \A c \in DOMAIN mail :
    c = <<c[1], c[2]>> /\ mail[c] # <<>> /\ IsSeq(mail[c]) /\ \A i \in DOMAIN mail[c] : MessageOK(c[1], c[2], mail[c][i])

\* Promises: what they stand for, what waits for them, and who.
Waits == {<<"Io", "print">>, <<"Amoeba", "init">>, <<"Monad", "subscribe-irq">>}
CapDependent(v, k, q) ==
  /\ \E c \in ToSet(Caps(v)) : <<c, q.fn>> \in Waits /\ k = Cap(v, c)
  /\ q.fn = "print" => vats[v].kind = "Program" /\ q.args \in Nat
MainDependent(v, k, q) ==
  /\ v = MonadRef /\ q.fn = "main" /\ q.args \in Programs
  /\ q.prom = k + 1 /\ Len(promises[v][k].dependents) = 1 /\ promises[v][k + 1].dependents = <<>>
DependentOK(v, k, q) ==
  /\ q.re = FALSE /\ q.prom \in DOMAIN promises[v] /\ q.prom \notin DOMAIN Caps(v)
  /\ CapDependent(v, k, q) \/ MainDependent(v, k, q)
AskerOK(v, a) ==
  v = MonadRef /\ a.m.fn \in {"start-program", "new-vat"} /\ RequestOK(a.src, v, a.m)
Fields == {"value", "dependents", "asker"}
PromiseOK(v, k) ==
  LET p == promises[v][k] IN
  /\ DOMAIN p = Fields
  /\ k \in DOMAIN Caps(v) => p.value = None \/ RefOK(v, k, p.value)
  /\ IsSeq(p.dependents) /\ \A i \in DOMAIN p.dependents : DependentOK(v, k, p.dependents[i])
  /\ p.asker = None \/ AskerOK(v, p.asker)
PromisesOK ==
  \A v \in DOMAIN vats :
    /\ IsSeq(promises[v]) /\ IsSeq(Caps(v)) /\ DOMAIN Caps(v) \subseteq DOMAIN promises[v]
    /\ \A k \in DOMAIN promises[v] : PromiseOK(v, k)

\* A call that its promise's fate hangs on is in one place only.
Start(k) == k \in DOMAIN promises[MonadRef] /\ promises[MonadRef][k].dependents # <<>>
StartOf(k) == promises[MonadRef][k].dependents[1].args
Direct(v, k) == k \in DOMAIN Caps(v) \/ (v = MonadRef /\ Start(k))
From(v, d, re) == IF re THEN d ELSE v
To(v, d, re) == IF re THEN v ELSE d
Leg(v, d, re) == Chan(From(v, d, re), To(v, d, re))
IsLeg(v, k, d, re, i) ==
  i \in DOMAIN Leg(v, d, re) /\ Leg(v, d, re)[i].re = re /\ Leg(v, d, re)[i].prom = k
LegsOnce ==
  \A v \in DOMAIN vats : \A k \in DOMAIN promises[v] : Direct(v, k) =>
    \A d \in DOMAIN vats, re \in BOOLEAN : \A i \in DOMAIN Leg(v, d, re) : IsLeg(v, k, d, re, i) =>
      /\ promises[v][k].value = None
      /\ \A e \in DOMAIN vats, r \in BOOLEAN : \A j \in DOMAIN Leg(v, e, r) :
           IsLeg(v, k, e, r, j) => d = e /\ re = r /\ i = j
StartsOK ==
  \A k \in DOMAIN promises[MonadRef] : Start(k) =>
    \A d \in DOMAIN vats, re \in BOOLEAN : \A i \in DOMAIN Leg(MonadRef, d, re) :
      IsLeg(MonadRef, k, d, re, i) =>
        LET m == Leg(MonadRef, d, re)[i] IN
        IF re THEN MadeFor(m.args, StartOf(k)) ELSE m.fn = "create-vat" /\ m.args = StartOf(k)

\* The main of a program is about to be started, waits for its vat, is on its
\* way, or has run.
NotStarted(p) == Chan(Thread(p), MonadRef) # <<>> \/ (p = 1 /\ Len(nodes) = 1)
Pending(p, k) == Start(k) /\ promises[MonadRef][k].value = None /\ StartOf(k) = p
Coming(p, d, i) ==
  LET q == Chan(MonadRef, d) IN i \in DOMAIN q /\ q[i].re = FALSE /\ q[i].fn = "main" /\ q[i].args = p
RanOK == DOMAIN ran = Programs
MainsOK ==
  \A p \in Programs :
    /\ IsSeq(ran[p]) /\ Len(ran[p]) <= 1 /\ \A v \in ToSet(ran[p]) : MadeFor(v, p)
    /\ NotStarted(p) => ran[p] = <<>>
    /\ \A k \in DOMAIN promises[MonadRef] : Pending(p, k) =>
         /\ ~ NotStarted(p) /\ ran[p] = <<>>
         /\ \A l \in DOMAIN promises[MonadRef] : Pending(p, l) => k = l
         /\ \A d \in DOMAIN vats : \A i \in DOMAIN Chan(MonadRef, d) : ~ Coming(p, d, i)
    /\ \A d \in DOMAIN vats : \A i \in DOMAIN Chan(MonadRef, d) : Coming(p, d, i) =>
         /\ ~ NotStarted(p) /\ ran[p] = <<>>
         /\ \A e \in DOMAIN vats : \A j \in DOMAIN Chan(MonadRef, e) : Coming(p, e, j) => d = e /\ i = j

\* Prints of a program: done, on their way and waiting, they are in order.
IsPrint(m) == m.re = FALSE /\ m.fn = "print"
HasRun(v) == \E p \in Programs : vats[v].prog = p /\ ran[p] # <<>> /\ ran[p][1] = v
Increasing(q) ==
  \A i, j \in DOMAIN q : i < j /\ IsPrint(q[i]) /\ IsPrint(q[j]) => q[i].args < q[j].args
NonePrinted(v) ==
  At(prints, v) = <<>> /\ \A i \in DOMAIN Chan(v, <<0, 2>>) : ~ IsPrint(Chan(v, <<0, 2>>)[i])
PrintsOf(v) ==
  LET done == At(prints, v) q == Chan(v, <<0, 2>>) IN
  /\ \A i, j \in DOMAIN done : i < j => done[i] < done[j]
  /\ Increasing(q)
  /\ \A i \in DOMAIN done : \A j \in DOMAIN q : IsPrint(q[j]) => done[i] < q[j].args
  /\ \A k \in DOMAIN promises[v] : Increasing(promises[v][k].dependents)
  /\ "Io" \in ToSet(Caps(v)) /\ promises[v][Cap(v, "Io")].value = None => NonePrinted(v)
  /\ ~ HasRun(v) => NonePrinted(v) /\ \A k \in DOMAIN promises[v] : promises[v][k].dependents = <<>>
PrintsOK ==
  /\ \A v \in DOMAIN prints : v \in DOMAIN vats /\ vats[v].kind = "Program"
       /\ IsSeq(prints[v]) /\ \A i \in DOMAIN prints[v] : prints[v][i] \in Nat
  /\ \A v \in DOMAIN vats : vats[v].kind = "Program" => PrintsOf(v)

Inv ==
  /\ VatsOK /\ NodesOK /\ SystemOK /\ ScreenOK /\ BootOK /\ MailOK /\ PromisesOK
  /\ LegsOnce /\ StartsOK /\ RanOK /\ MainsOK /\ PrintsOK /\ PanicsAreKnown

-----------------------------------------------------------------------------
(* Sequences and sets of numbers *)

\* A function on 1 .. n is a sequence.
LEMMA SeqIs ==
  ASSUME NEW n \in Nat, NEW f, f = [i \in 1 .. n |-> f[i]]
  PROVE  IsSeq(f) /\ Len(f) = n /\ DOMAIN f = 1 .. n
<1> DEFINE S == ToSet(f)
<1>1. DOMAIN f = 1 .. n
  OBVIOUS
<1>2. \A i \in 1 .. n : f[i] \in S
  BY <1>1 DEF ToSet
<1> HIDE DEF S
<1>3. f \in [1 .. n -> S]
  BY <1>1, <1>2
<1>4. f \in Seq(S) /\ Len(f) = n
  BY <1>3
<1> QED BY <1>1, <1>4 DEF IsSeq, S

\* What is put after a sequence comes after it.
Joins(t, q, r) == t = q \o r
IsJoin(t, q, r) ==
  /\ IsSeq(t) /\ Len(t) = Len(q) + Len(r) /\ DOMAIN t = 1 .. Len(t)
  /\ \A i \in DOMAIN t : i <= Len(q) => i \in DOMAIN q /\ t[i] = q[i]
  /\ \A i \in DOMAIN t : ~ i <= Len(q) => i - Len(q) \in DOMAIN r /\ t[i] = r[i - Len(q)]
  /\ \A i \in DOMAIN q : i \in DOMAIN t /\ t[i] = q[i]

\* Two sequences, one after the other.
LEMMA CatIs ==
  ASSUME NEW q, NEW r, NEW t, IsSeq(q), IsSeq(r), Joins(t, q, r)
  PROVE  IsJoin(t, q, r)
<1>0. t = q \o r
  BY DEF Joins
<1> DEFINE S == ToSet(q) \cup ToSet(r)
<1>1. q \in Seq(S) /\ r \in Seq(S)
  <2>1. q \in Seq(ToSet(q)) /\ r \in Seq(ToSet(r))
    BY DEF IsSeq
  <2> HIDE DEF S
  <2>2. ToSet(q) \subseteq S /\ ToSet(r) \subseteq S
    BY DEF S
  <2> QED BY <2>1, <2>2
<1> HIDE DEF S
<1>2. t \in Seq(S) /\ Len(t) = Len(q) + Len(r) /\ Len(q) \in Nat /\ Len(r) \in Nat
  BY <1>0, <1>1
<1>3. \A i \in 1 .. Len(t) : t[i] = IF i <= Len(q) THEN q[i] ELSE r[i - Len(q)]
  BY <1>0, <1>1, <1>2
<1>4. t \in [1 .. Len(t) -> S] /\ Len(t) \in Nat
  BY <1>2, LenProperties
<1>5. IsSeq(t) /\ DOMAIN t = 1 .. Len(t)
  BY <1>4, SeqIs
<1>6. DOMAIN q = 1 .. Len(q) /\ DOMAIN r = 1 .. Len(r)
  BY <1>1
<1> QED BY <1>2, <1>3, <1>4, <1>5, <1>6 DEF IsJoin

\* What is left when the oldest is taken.
LEMMA TailIs ==
  ASSUME NEW q, IsSeq(q), q # <<>>, NEW t, t = Tail(q)
  PROVE  /\ IsSeq(t) /\ Len(q) \in Nat /\ Len(t) = Len(q) - 1 /\ DOMAIN t = 1 .. Len(t)
         /\ DOMAIN q = 1 .. Len(q) /\ 1 \in DOMAIN q /\ Head(q) = q[1]
         /\ \A i \in DOMAIN t : i + 1 \in DOMAIN q /\ t[i] = q[i + 1]
<1> DEFINE S == ToSet(q)
<1>1. q \in Seq(S)
  BY DEF IsSeq
<1> HIDE DEF S
<1>2. t \in Seq(S) /\ Len(t) = Len(q) - 1 /\ Len(q) \in Nat
  BY <1>1
<1>3. t \in [1 .. Len(t) -> S] /\ Len(t) \in Nat
  BY <1>2, LenProperties
<1>4. IsSeq(t) /\ DOMAIN t = 1 .. Len(t)
  BY <1>3, SeqIs
<1>5. DOMAIN q = 1 .. Len(q) /\ Len(q) > 0
  BY <1>1
<1>6. \A i \in DOMAIN t : t[i] = q[i + 1]
  BY <1>1, <1>2, <1>4
<1> QED BY <1>1, <1>2, <1>4, <1>5, <1>6

\* A sequence has its length for domain, and the empty one has none.
LEMMA SeqDomain ==
  /\ \A q : IsSeq(q) => Len(q) \in Nat /\ DOMAIN q = 1 .. Len(q) /\ (q = <<>> <=> Len(q) = 0)
  /\ IsSeq(<<>>) /\ DOMAIN << >> = {}
  /\ \A x : IsSeq(<<x>>) /\ Len(<<x>>) = 1 /\ DOMAIN <<x>> = 1 .. 1 /\ <<x>>[1] = x
<1>1. ASSUME NEW q, IsSeq(q) PROVE Len(q) \in Nat /\ DOMAIN q = 1 .. Len(q) /\ (q = <<>> <=> Len(q) = 0)
  <2> DEFINE S == ToSet(q)
  <2>1. q \in Seq(S)
    BY <1>1 DEF IsSeq
  <2> HIDE DEF S
  <2> QED BY <2>1
<1>2. IsSeq(<<>>) /\ DOMAIN << >> = {}
  BY DEF IsSeq, ToSet
<1>3. ASSUME NEW x PROVE IsSeq(<<x>>) /\ Len(<<x>>) = 1 /\ DOMAIN <<x>> = 1 .. 1 /\ <<x>>[1] = x
  <2>1. PICK t : t = <<x>>
    OBVIOUS
  <2>2. t \in Seq({x}) /\ Len(t) = 1 /\ DOMAIN t = 1 .. 1 /\ t[1] = x
    BY <2>1
  <2>3. t = [i \in 1 .. 1 |-> t[i]]
    BY <2>2
  <2> QED BY <2>1, <2>2, <2>3, SeqIs
<1> QED BY <1>1, <1>2, <1>3

\* Sequences with the same members are the same.
LEMMA SeqSame ==
  ASSUME NEW q, NEW r, IsSeq(q), IsSeq(r), Len(q) = Len(r), \A i \in DOMAIN q : q[i] = r[i]
  PROVE  q = r
<1>1. PICK S : S = ToSet(q) \cup ToSet(r)
  OBVIOUS
<1>2. q \in Seq(S) /\ r \in Seq(S)
  <2>1. q \in Seq(ToSet(q)) /\ r \in Seq(ToSet(r))
    BY DEF IsSeq
  <2>2. ToSet(q) \subseteq S /\ ToSet(r) \subseteq S
    BY <1>1
  <2> QED BY <2>1, <2>2
<1>3. \A i \in 1 .. Len(q) : q[i] = r[i]
  BY SeqDomain
<1> QED BY <1>2, <1>3, SeqEqual

\* The largest of some numbers.
LEMMA GreatestOf ==
  ASSUME NEW b \in Nat, NEW T \in SUBSET (1 .. b), T # {}
  PROVE  \E m \in T : \A n \in T : m >= n
<1> DEFINE upto == {n .. b : n \in T}
<1>1. IsWellFoundedOn(StrictSubsetOrdering(1 .. b), FiniteSubsetsOf(1 .. b))
  BY FS_StrictSubsetOrderingWellFounded
<1>2. upto \subseteq FiniteSubsetsOf(1 .. b) /\ upto # {}
  <2>1. ASSUME NEW n \in T PROVE n .. b \in FiniteSubsetsOf(1 .. b)
    BY FS_Interval DEF FiniteSubsetsOf
  <2> QED BY <2>1
<1>3. PICK u \in upto : \A v \in upto : <<v, u>> \notin StrictSubsetOrdering(1 .. b)
  BY <1>1, <1>2, WFMin
<1>4. PICK m \in T : u = m .. b
  OBVIOUS
<1>5. ASSUME NEW n \in T, m < n PROVE FALSE
  <2>1. n .. b \subseteq m .. b /\ m \in m .. b /\ m \notin n .. b /\ m .. b \subseteq 1 .. b
    BY <1>5
  <2>2. <<n .. b, u>> \in StrictSubsetOrdering(1 .. b)
    BY <1>4, <2>1 DEF StrictSubsetOrdering
  <2> QED BY <1>3, <2>2
<1> QED BY <1>5

\* A set of numbers has an enumeration in order (a smallest set that had none
\* would have one without its largest number).
LEMMA InOrderIs ==
  ASSUME NEW b \in Nat, NEW S \in SUBSET (1 .. b)
  PROVE  /\ Cardinality(S) \in Nat /\ DOMAIN InOrder(S) = 1 .. Cardinality(S)
         /\ \A i \in DOMAIN InOrder(S) : InOrder(S)[i] \in S
         /\ \A i, j \in DOMAIN InOrder(S) : i < j => InOrder(S)[i] < InOrder(S)[j]
<1> DEFINE Rising(T, f) ==
             f \in [1 .. Cardinality(T) -> T] /\ \A i, j \in DOMAIN f : i < j => f[i] < f[j]
           bad == {T \in SUBSET (1 .. b) : ~ \E f : Rising(T, f)}
<1>1. \A T \in SUBSET (1 .. b) : IsFiniteSet(T) /\ Cardinality(T) \in Nat
  <2>1. IsFiniteSet(1 .. b)
    BY FS_Interval
  <2> QED BY <2>1, FS_Subset, FS_CardinalityType
<1>2. bad = {}
  <2> SUFFICES ASSUME bad # {} PROVE FALSE
    OBVIOUS
  <2>1. IsWellFoundedOn(StrictSubsetOrdering(1 .. b), FiniteSubsetsOf(1 .. b))
    BY FS_StrictSubsetOrderingWellFounded
  <2>2. bad \subseteq FiniteSubsetsOf(1 .. b)
    BY <1>1 DEF FiniteSubsetsOf
  <2>3. PICK T \in bad : \A U \in bad : <<U, T>> \notin StrictSubsetOrdering(1 .. b)
    <3> HIDE DEF bad
    <3> QED BY <2>1, <2>2, WFMin
  <2>4. T # {}
    <3> SUFFICES ASSUME T = {} PROVE FALSE
      OBVIOUS
    <3>1. Cardinality(T) = 0
      BY FS_EmptySet
    <3>2. PICK f : f = [i \in 1 .. 0 |-> i]
      OBVIOUS
    <3>3. f \in [1 .. 0 -> T] /\ DOMAIN f = {}
      BY <3>2
    <3>4. Rising(T, f)
      BY <3>1, <3>3
    <3> QED BY <3>4
  <2>5. PICK m \in T : \A n \in T : m >= n
    BY <2>4, GreatestOf
  <2> DEFINE U == T \ {m}
  <2>6. U \in SUBSET (1 .. b) /\ <<U, T>> \in StrictSubsetOrdering(1 .. b)
    BY DEF StrictSubsetOrdering
  <2>7. U \notin bad
    BY <2>3, <2>6
  <2>8. PICK f : Rising(U, f)
    BY <2>6, <2>7
  <2>9. Cardinality(T) = Cardinality(U) + 1 /\ Cardinality(U) \in Nat
    <3>1. IsFiniteSet(T) /\ IsFiniteSet(U)
      BY <1>1, <2>6
    <3>2. Cardinality(U) = Cardinality(T) - 1 /\ Cardinality(U) \in Nat /\ Cardinality(T) \in Nat
      BY <1>1, <2>6, <3>1, FS_RemoveElement
    <3> QED BY <3>2
  <2>10. PICK k \in Nat : k = Cardinality(U)
    BY <2>9
  <2>11. PICK g : g = [i \in 1 .. k + 1 |-> IF i = k + 1 THEN m ELSE f[i]]
    OBVIOUS
  <2>12. f \in [1 .. k -> U] /\ \A i, j \in 1 .. k : i < j => f[i] < f[j]
    BY <2>8, <2>10
  <2>13. DOMAIN g = 1 .. k + 1 /\ g \in [1 .. k + 1 -> T]
    BY <2>11, <2>12
  <2>14. ASSUME NEW i \in 1 .. k + 1, NEW j \in 1 .. k + 1, i < j PROVE g[i] < g[j]
    <3>1. CASE j = k + 1
      <4>1. i \in 1 .. k /\ f[i] \in U /\ g[i] = f[i] /\ g[j] = m
        BY <2>11, <2>12, <2>14, <3>1
      <4>2. f[i] \in T /\ f[i] # m /\ T \subseteq Int
        BY <4>1
      <4>3. m >= f[i] /\ m \in Int /\ f[i] \in Int
        BY <2>5, <4>2
      <4> QED BY <4>1, <4>2, <4>3
    <3>2. CASE j # k + 1
      <4>1. i \in 1 .. k /\ j \in 1 .. k
        BY <2>14, <3>2
      <4> QED BY <2>11, <2>12, <2>14, <4>1
    <3> QED BY <3>1, <3>2
  <2>15. Rising(T, g)
    BY <2>9, <2>10, <2>13, <2>14
  <2> QED BY <2>15
<1>3. PICK f : Rising(S, f)
  BY <1>2
<1>4. Rising(S, InOrder(S))
  BY <1>3 DEF InOrder
<1>5. PICK g : g = InOrder(S)
  OBVIOUS
<1>6. Rising(S, g) /\ Cardinality(S) \in Nat
  BY <1>1, <1>4, <1>5
<1>7. DOMAIN g = 1 .. Cardinality(S) /\ \A i \in DOMAIN g : g[i] \in S
  BY <1>6
<1> QED BY <1>5, <1>6, <1>7

-----------------------------------------------------------------------------
(* What a handler leaves behind *)

\* The invariant of the mail, channel by channel.
LEMMA MailMeans ==
  ASSUME MailOK
  PROVE  \A a, b : /\ IsSeq(Chan(a, b)) /\ Len(Chan(a, b)) \in Nat
                   /\ DOMAIN Chan(a, b) = 1 .. Len(Chan(a, b))
                   /\ \A i \in DOMAIN Chan(a, b) : MessageOK(a, b, Chan(a, b)[i])
<1> SUFFICES ASSUME NEW a, NEW b
             PROVE  IsSeq(Chan(a, b)) /\ \A i \in DOMAIN Chan(a, b) : MessageOK(a, b, Chan(a, b)[i])
  BY SeqDomain
<1>1. PICK c : c = <<a, b>> /\ c[1] = a /\ c[2] = b
  <2>1. PICK c : c = <<a, b>>
    OBVIOUS
  <2>2. c[1] = a /\ c[2] = b
    BY <2>1
  <2> QED BY <2>1, <2>2
<1>2. CASE c \in DOMAIN mail
  <2>1. Chan(a, b) = mail[c]
    BY <1>1, <1>2 DEF Chan, At
  <2> QED BY <1>1, <1>2, <2>1 DEF MailOK
<1>3. CASE c \notin DOMAIN mail
  <2>1. Chan(a, b) = <<>>
    BY <1>1, <1>3 DEF Chan, At
  <2> QED BY <2>1, SeqDomain
<1> QED BY <1>2, <1>3

\* The vats after a handler: those that were there, and new ones.
AreVatsAfter(v, ps, new) ==
  /\ base' \in [Nodes -> Nat] /\ \A n \in Nodes : base[n] <= base'[n]
  /\ DOMAIN vats' = DOMAIN vats \cup Born(v, new) /\ DOMAIN promises' = DOMAIN vats'
  /\ \A w \in DOMAIN vats :
       vats'[w] = vats[w] /\ w \notin Born(v, new) /\ (w # v => promises'[w] = promises[w])
  /\ promises'[v] = ps
  /\ \A w \in Born(v, new) :
       /\ w \notin DOMAIN vats /\ w[1] = v[1] /\ w \in Nodes \X Nat /\ w[2] < base'[w[1]]
       /\ \E i \in DOMAIN new : w = <<v[1], base[v[1]] + i - 1>> /\ vats'[w] = new[i]
       /\ promises'[w] = [k \in DOMAIN CapsOf(vats'[w]) |-> Promise]

\* What EndsWith does to vats and promises.
LEMMA VatsAfter ==
  ASSUME VatsOK, NEW s, NEW v \in DOMAIN vats, NEW ps, NEW out, NEW new, IsSeq(new),
         EndsWith(s, v, ps, out, new)
  PROVE  AreVatsAfter(v, ps, new)
<1>1. PICK n \in Nodes : n = v[1]
  BY DEF VatsOK
<1>2. PICK l \in Nat : l = Len(new) /\ DOMAIN new = 1 .. l
  BY SeqDomain
<1>3. PICK b \in Nat : b = base[n]
  BY DEF VatsOK
<1>4. Born(v, new) = {<<n, b + i - 1>> : i \in 1 .. l}
  BY <1>1, <1>2, <1>3 DEF Born
<1>5. base' = [base EXCEPT ![n] = b + l]
  BY <1>1, <1>2, <1>3 DEF EndsWith
<1>6. base' \in [Nodes -> Nat] /\ (\A i \in Nodes : base[i] <= base'[i]) /\ base'[n] = b + l
  <2>1. base \in [Nodes -> Nat]
    BY DEF VatsOK
  <2> QED BY <1>3, <1>5, <2>1
<1>7. \A w \in DOMAIN vats : w \in Nodes \X Nat /\ w[2] < base[w[1]]
  BY DEF VatsOK
<1>8. PICK B : B = Born(v, new)
  OBVIOUS
<1>9. ASSUME NEW w \in B PROVE \E i \in 1 .. l : w = <<n, b + i - 1>> /\ w[1] = n /\ w[2] = b + i - 1
  BY <1>4, <1>8, <1>9
<1>10. \A w \in B : w \notin DOMAIN vats
  <2> SUFFICES ASSUME NEW w \in B, w \in DOMAIN vats PROVE FALSE
    OBVIOUS
  <2>1. PICK i \in 1 .. l : w[1] = n /\ w[2] = b + i - 1
    BY <1>9
  <2> QED BY <1>3, <1>7, <2>1
<1>11. vats' = [w \in DOMAIN vats \cup B |-> IF w \in B THEN new[w[2] - base[w[1]] + 1] ELSE vats[w]]
  BY <1>8 DEF EndsWith
<1>12. promises' = [w \in DOMAIN vats \cup B |->
                      IF w = v THEN ps
                      ELSE IF w \in B THEN [k \in DOMAIN CapsOf(vats'[w]) |-> Promise] ELSE promises[w]]
  BY <1>8 DEF EndsWith
<1>13. \A w \in DOMAIN vats : w \notin B
  BY <1>10
<1>14. \A w \in DOMAIN vats : vats'[w] = vats[w] /\ (w # v => promises'[w] = promises[w])
  BY <1>11, <1>12, <1>13
<1>15. promises'[v] = ps /\ DOMAIN vats' = DOMAIN vats \cup B /\ DOMAIN promises' = DOMAIN vats'
  BY <1>11, <1>12
<1>16. ASSUME NEW w \in B
       PROVE  /\ w[1] = n /\ w \in Nodes \X Nat /\ w[2] < base'[w[1]]
              /\ \E i \in 1 .. l : w = <<n, b + i - 1>> /\ vats'[w] = new[i]
              /\ promises'[w] = [k \in DOMAIN CapsOf(vats'[w]) |-> Promise]
  <2>1. PICK i \in 1 .. l : w = <<n, b + i - 1>> /\ w[1] = n /\ w[2] = b + i - 1
    BY <1>9
  <2>2. vats'[w] = new[w[2] - b + 1]
    BY <1>3, <1>11, <2>1
  <2>3. w[2] - b + 1 = i /\ w[2] \in Nat /\ w[2] < b + l
    BY <2>1
  <2>4. w # v
    BY <1>10
  <2> QED BY <1>6, <1>12, <2>1, <2>2, <2>3, <2>4
<1> QED BY <1>1, <1>2, <1>3, <1>6, <1>8, <1>10, <1>13, <1>14, <1>15, <1>16 DEF AreVatsAfter

\* The channels after a handler: what was there without the message taken, and
\* after it what the handler sends and what new vats ask for.
Shift(s, v, a, b) == IF a = s /\ b = v THEN 1 ELSE 0
Kept(s, v, a, b) == Len(Chan(a, b)) - Shift(s, v, a, b)
New(v, out, new, a, b) == Arriving(v, out, Born(v, new), <<a, b>>)
IsChanAfter(s, v, out, new, a, b) ==
  /\ IsSeq(Chan(a, b)') /\ Kept(s, v, a, b) \in Nat
  /\ DOMAIN Chan(a, b)' = 1 .. Len(Chan(a, b)')
  /\ Len(Chan(a, b)') = Kept(s, v, a, b) + Len(New(v, out, new, a, b))
  /\ Len(Chan(a, b)) = Kept(s, v, a, b) + Shift(s, v, a, b)
  /\ \A i \in DOMAIN Chan(a, b)' : i <= Kept(s, v, a, b) =>
       /\ i + Shift(s, v, a, b) \in DOMAIN Chan(a, b)
       /\ Chan(a, b)'[i] = Chan(a, b)[i + Shift(s, v, a, b)]
  /\ \A i \in DOMAIN Chan(a, b)' : ~ i <= Kept(s, v, a, b) =>
       /\ i - Kept(s, v, a, b) \in DOMAIN New(v, out, new, a, b)
       /\ Chan(a, b)'[i] = New(v, out, new, a, b)[i - Kept(s, v, a, b)]

\* What a step does to one channel: its oldest message is taken, or it gets what is new.
LEMMA ChanAfter ==
  ASSUME MailOK, NEW s, NEW v, NEW m, Takes(s, v, m), NEW ps, NEW out, NEW new,
         EndsWith(s, v, ps, out, new), NEW a, NEW b, IsSeq(New(v, out, new, a, b))
  PROVE  IsChanAfter(s, v, out, new, a, b)
<1>1. PICK c : c = <<a, b>> /\ c[1] = a /\ c[2] = b
  <2>1. PICK c : c = <<a, b>>
    OBVIOUS
  <2>2. c[1] = a /\ c[2] = b
    BY <2>1
  <2> QED BY <2>1, <2>2
<1>2. PICK n : n = New(v, out, new, a, b)
  OBVIOUS
<1>3. PICK q : q = Chan(a, b)
  OBVIOUS
<1>4. PICK r : r = Rest(s, v, c)
  OBVIOUS
<1>5. c = <<s, v>> <=> a = s /\ b = v
  BY <1>1
<1>6. IsSeq(q) /\ Len(q) \in Nat /\ DOMAIN q = 1 .. Len(q)
  BY <1>3, MailMeans
<1>7. c = <<s, v>> => q # <<>> /\ At(mail, c) = q
  BY <1>1, <1>3 DEF Takes, Chan, At, MailOK
<1>8. /\ IsSeq(r) /\ Len(r) = Kept(s, v, a, b) /\ Len(r) \in Nat /\ DOMAIN r = 1 .. Len(r)
      /\ \A i \in DOMAIN r : i + Shift(s, v, a, b) \in DOMAIN q /\ r[i] = q[i + Shift(s, v, a, b)]
  <2>1. CASE c = <<s, v>>
    <3>1. r = Tail(q) /\ Shift(s, v, a, b) = 1
      BY <1>4, <1>5, <1>7, <2>1 DEF Rest, Shift
    <3>2. Kept(s, v, a, b) = Len(q) - 1
      BY <1>3, <3>1 DEF Kept
    <3>3. /\ IsSeq(r) /\ Len(r) = Len(q) - 1 /\ DOMAIN r = 1 .. Len(r)
          /\ \A i \in DOMAIN r : i + 1 \in DOMAIN q /\ r[i] = q[i + 1]
      BY <1>6, <1>7, <2>1, <3>1, TailIs
    <3>4. Len(r) \in Nat
      BY <3>3, SeqDomain
    <3> QED BY <3>1, <3>2, <3>3, <3>4
  <2>2. CASE c # <<s, v>>
    <3>1. r = q /\ Shift(s, v, a, b) = 0
      BY <1>1, <1>3, <1>4, <1>5, <2>2 DEF Rest, Shift, Chan
    <3>2. Kept(s, v, a, b) = Len(q)
      BY <1>3, <1>6, <3>1 DEF Kept
    <3>3. \A i \in DOMAIN q : i + 0 = i
      BY <1>6
    <3> QED BY <1>6, <3>1, <3>2, <3>3
  <2> QED BY <2>1, <2>2
<1>9. IsSeq(n) /\ DOMAIN n = 1 .. Len(n) /\ Len(n) \in Nat
  BY <1>2, SeqDomain
<1>10. PICK t : t = r \o n
  OBVIOUS
<1>11. Chan(a, b)' = t
  <2>1. PICK all : all = DOMAIN mail \cup ({v} \X DOMAIN out) \cup (Born(v, new) \X {MonadRef})
    OBVIOUS
  <2>2. mail' = [x \in {x \in all : Rest(s, v, x) \o Arriving(v, out, Born(v, new), x) # <<>>} |->
                    Rest(s, v, x) \o Arriving(v, out, Born(v, new), x)]
    BY <2>1 DEF EndsWith, Deliver
  <2>3. Rest(s, v, c) \o Arriving(v, out, Born(v, new), c) = t
    BY <1>1, <1>2, <1>4, <1>10 DEF New
  <2>4. CASE c \in all
    BY <1>1, <2>2, <2>3, <2>4 DEF Chan, At
  <2>5. CASE c \notin all
    <3>1. c \notin DOMAIN mail /\ c \notin {v} \X DOMAIN out /\ c \notin Born(v, new) \X {MonadRef}
      BY <2>1, <2>5
    <3>2. Chan(a, b)' = <<>>
      BY <1>1, <2>2, <2>5 DEF Chan, At
    <3>3. n = <<>>
      BY <1>1, <1>2, <3>1 DEF New, Arriving, At
    <3>4. c # <<s, v>>
      BY <3>1 DEF Takes
    <3>5. r = <<>>
      BY <1>4, <3>1, <3>4 DEF Rest, At
    <3>6. t = <<>>
      BY <1>10, <3>3, <3>5
    <3> QED BY <3>2, <3>6
  <2> QED BY <2>4, <2>5
<1>12. IsJoin(t, r, n)
  <2>1. Joins(t, r, n)
    BY <1>10 DEF Joins
  <2> QED BY <1>8, <1>9, <2>1, CatIs
<1>13. Len(q) = Kept(s, v, a, b) + Shift(s, v, a, b)
  BY <1>3, <1>6 DEF Kept, Shift
<1>14. PICK k \in Nat : k = Kept(s, v, a, b)
  BY <1>8
<1>15. PICK h : h = Shift(s, v, a, b)
  OBVIOUS
<1> QED BY <1>2, <1>3, <1>8, <1>11, <1>12, <1>13, <1>14, <1>15 DEF IsJoin, IsChanAfter

-----------------------------------------------------------------------------
(* What stays true as the vats grow *)

Grows ==
  /\ \A w \in DOMAIN vats :
       w \in DOMAIN vats' /\ vats'[w] = vats[w] /\ DOMAIN promises[w] \subseteq DOMAIN promises'[w]
  /\ system # <<>> => system' = system
  /\ \A p \in Programs : ran[p] # <<>> => ran'[p] # <<>>

\* A reference keeps its meaning, a vat what it was made for.
LEMMA RefStays ==
  ASSUME Grows
  PROVE  /\ \A w \in DOMAIN vats : Caps(w)' = Caps(w)
         /\ \A w \in DOMAIN vats : \A k, x : RefOK(w, k, x) => RefOK(w, k, x)'
         /\ \A w, p : MadeFor(w, p) => MadeFor(w, p)'
         /\ ZigRan => ZigRan'
<1>1. \A w \in DOMAIN vats : Caps(w)' = Caps(w)
  BY DEF Grows, Caps
<1>2. ASSUME NEW w \in DOMAIN vats, NEW k, NEW x, RefOK(w, k, x) PROVE RefOK(w, k, x)'
  BY <1>1, <1>2 DEF RefOK, Grows
<1>3. ASSUME NEW w, NEW p, MadeFor(w, p) PROVE MadeFor(w, p)'
  BY <1>3 DEF MadeFor, Grows, FitsAt
<1>4. ZigRan => ZigRan'
  BY DEF ZigRan, Grows
<1> QED BY <1>1, <1>2, <1>3, <1>4

\* A message stays one that its receiver knows.
LEMMA RequestStays ==
  ASSUME Grows, NEW s, NEW d, NEW m, RequestOK(s, d, m)
  PROVE  RequestOK(s, d, m)'
<1>1. d \in DOMAIN vats' /\ vats'[d] = vats[d]
  BY DEF Grows, RequestOK
<1>2. CASE ThreadRequestOK(s, d, m)
  <2>1. ThreadRequestOK(s, d, m)'
    BY <1>2 DEF ThreadRequestOK
  <2> QED BY <1>1, <2>1 DEF RequestOK
<1>3. CASE VatRequestOK(s, d, m)
  <2>1. s \in DOMAIN vats /\ s \in DOMAIN vats' /\ vats'[s] = vats[s] /\ m.prom \in DOMAIN promises'[s]
    BY <1>3 DEF VatRequestOK, Grows
  <2>2. Caps(s)' = Caps(s)
    BY <2>1, RefStays
  <2>3. CallOK(s, d, m.fn, m.args, m.prom)
    BY <1>3 DEF VatRequestOK
  <2>4. \A p : MadeFor(d, p) => MadeFor(d, p)'
    BY RefStays
  <2>5. ZigRan => ZigRan'
    BY RefStays
  <2>6. CallOK(s, d, m.fn, m.args, m.prom)'
    BY <1>1, <2>1, <2>2, <2>3, <2>4, <2>5 DEF CallOK, FitsAt
  <2>7. VatRequestOK(s, d, m)'
    BY <1>3, <2>1, <2>2, <2>6 DEF VatRequestOK
  <2> QED BY <1>1, <2>7 DEF RequestOK
<1> QED BY <1>2, <1>3 DEF RequestOK

\* A message stays one that its receiver knows.
LEMMA MessageStays ==
  ASSUME Grows, NEW s, NEW d, NEW m, MessageOK(s, d, m)
  PROVE  MessageOK(s, d, m)'
<1>1. CASE m.re
  <2>1. ResponseOK(s, d, m)
    BY <1>1 DEF MessageOK
  <2>2. s \in DOMAIN vats' /\ d \in DOMAIN vats /\ d \in DOMAIN vats' /\ m.prom \in DOMAIN promises'[d]
    BY <2>1 DEF ResponseOK, Grows
  <2>3. Caps(d)' = Caps(d) /\ (RefOK(d, m.prom, m.args) => RefOK(d, m.prom, m.args)')
    BY <2>2, RefStays
  <2>4. ResponseOK(s, d, m)'
    BY <2>1, <2>2, <2>3 DEF ResponseOK
  <2> QED BY <1>1, <2>4 DEF MessageOK
<1>2. CASE ~ m.re
  BY <1>2, RequestStays DEF MessageOK
<1> QED BY <1>1, <1>2

\* A promise that is not touched stays well formed.
LEMMA PromiseStays ==
  ASSUME Grows, NEW w \in DOMAIN vats, promises'[w] = promises[w], NEW k, PromiseOK(w, k)
  PROVE  PromiseOK(w, k)'
<1>1. PICK p : p = promises[w][k]
  OBVIOUS
<1>2. promises'[w][k] = p
  BY <1>1
<1>3. Caps(w)' = Caps(w) /\ vats'[w] = vats[w]
  BY RefStays DEF Grows
<1>4. p.value = None \/ RefOK(w, k, p.value) => p.value = None \/ RefOK(w, k, p.value)'
  BY RefStays
<1>5. ASSUME NEW q, DependentOK(w, k, q) PROVE DependentOK(w, k, q)'
  <2>1. CapDependent(w, k, q) => CapDependent(w, k, q)'
    BY <1>3 DEF CapDependent, Cap, Caps
  <2>2. MainDependent(w, k, q) => MainDependent(w, k, q)'
    BY DEF MainDependent
  <2> QED BY <1>3, <1>5, <2>1, <2>2 DEF DependentOK
<1>6. AskerOK(w, p.asker) => AskerOK(w, p.asker)'
  BY RequestStays DEF AskerOK
<1>7. /\ DOMAIN p = Fields
      /\ k \in DOMAIN Caps(w) => p.value = None \/ RefOK(w, k, p.value)
      /\ IsSeq(p.dependents) /\ \A i \in DOMAIN p.dependents : DependentOK(w, k, p.dependents[i])
      /\ p.asker = None \/ AskerOK(w, p.asker)
  BY <1>1 DEF PromiseOK
<1>8. /\ DOMAIN p = Fields
      /\ k \in DOMAIN Caps(w)' => p.value = None \/ RefOK(w, k, p.value)'
      /\ IsSeq(p.dependents) /\ \A i \in DOMAIN p.dependents : DependentOK(w, k, p.dependents[i])'
      /\ p.asker = None \/ AskerOK(w, p.asker)'
  BY <1>3, <1>4, <1>5, <1>6, <1>7
<1> QED BY <1>2, <1>8 DEF PromiseOK

\* The capabilities of an entity are a sequence of names.
LEMMA CapsAreSeq ==
  ASSUME NEW v, NEW x, VatOK(v, x)
  PROVE  IsSeq(CapsOf(x)) /\ \A i \in DOMAIN CapsOf(x) : CapsOf(x)[i] # Nothing
<1>1. ASSUME NEW p \in Known PROVE IsSeq(Inocaps[p]) /\ \A i \in DOMAIN Inocaps[p] : Inocaps[p][i] # Nothing
  <2>1. PICK q : q = Inocaps[p]
    OBVIOUS
  <2>2. q \in Seq(STRING)
    BY <2>1, ProgramAssumption DEF ProgramAssumption, Known
  <2>3. q \in [1 .. Len(q) -> STRING] /\ Len(q) \in Nat
    BY <2>2, LenProperties
  <2> QED BY <2>1, <2>3, SeqIs, ValueAssumption DEF ValueAssumption
<1>2. PICK t : t = <<"Monad">> /\ IsSeq(t) /\ \A i \in DOMAIN t : t[i] # Nothing
  <2>1. PICK u : u = <<"Monad">>
    OBVIOUS
  <2>2. IsSeq(u) /\ DOMAIN u = 1 .. 1 /\ u[1] = "Monad"
    BY <2>1, SeqDomain
  <2>3. "Monad" # Nothing
    BY ValueAssumption DEF ValueAssumption, Names
  <2>4. \A i \in DOMAIN u : u[i] # Nothing
    BY <2>2, <2>3
  <2> QED BY <2>1, <2>2, <2>4, Zenon
<1>3. IsSeq(<<>>) /\ DOMAIN << >> = {}
  BY SeqDomain
<1>4. CASE x.kind = "Program"
  <2>1. CapsOf(x) = Inocaps[x.prog] /\ x.prog \in Known
    BY <1>4 DEF CapsOf, VatOK
  <2> QED BY <1>1, <2>1
<1>5. CASE x.kind # "Program"
  <2>1. CapsOf(x) = t \/ CapsOf(x) = <<>>
    BY <1>2, <1>5 DEF CapsOf
  <2> QED BY <1>2, <1>3, <2>1
<1> QED BY <1>4, <1>5

-----------------------------------------------------------------------------
(* A handler's step: the vats, the mail and the promises stay well formed *)

Step(s, v, m, ps, out, new) == v \in DOMAIN vats /\ Takes(s, v, m) /\ EndsWith(s, v, ps, out, new)
OutOK(v, out) ==
  \A d : IsSeq(At(out, d)) /\ \A j \in DOMAIN At(out, d) : MessageOK(v, d, At(out, d)[j])'
NewOK(v, new) == IsSeq(new) /\ \A i \in DOMAIN new : VatOK(<<v[1], base[v[1]] + i - 1>>, new[i])
PsOK(v, ps) ==
  IsSeq(ps) /\ DOMAIN promises[v] \subseteq DOMAIN ps /\ \A k \in DOMAIN ps : PromiseOK(v, k)'

\* The vats that a step makes are where their kinds have to be.
LEMMA VatsStay ==
  ASSUME VatsOK, NEW s, NEW v, NEW m, NEW ps, NEW out, NEW new, Step(s, v, m, ps, out, new), NewOK(v, new)
  PROVE  /\ VatsOK' /\ \A w \in DOMAIN vats' : VatOK(w, vats'[w])
         /\ \A w \in Born(v, new) : IsSeq(Caps(w)') /\ DOMAIN promises'[w] = DOMAIN Caps(w)'
<1>1. v \in DOMAIN vats /\ EndsWith(s, v, ps, out, new) /\ IsSeq(new)
  BY DEF Step, NewOK
<1>2. AreVatsAfter(v, ps, new)
  BY <1>1, VatsAfter
<1> USE <1>2 DEF AreVatsAfter
<1>3. ASSUME NEW w \in DOMAIN vats PROVE w \in Nodes \X Nat /\ w[2] < base'[w[1]] /\ VatOK(w, vats'[w])
  <2>1. w \in Nodes \X Nat /\ w[2] < base[w[1]] /\ VatOK(w, vats[w]) /\ base \in [Nodes -> Nat]
    BY DEF VatsOK
  <2>2. PICK n \in Nodes : n = w[1]
    BY <2>1
  <2>3. w[2] \in Nat /\ base[n] \in Nat /\ base'[n] \in Nat /\ base[n] <= base'[n]
    BY <1>2, <2>1
  <2>4. w[2] < base'[n]
    BY <2>1, <2>2, <2>3
  <2> QED BY <1>2, <2>1, <2>2, <2>4
<1>4. ASSUME NEW w \in Born(v, new) PROVE VatOK(w, vats'[w])
  BY <1>2 DEF NewOK
<1>5. MonadRef \in DOMAIN vats' /\ vats'[MonadRef].kind = "Monad"
  BY <1>2 DEF VatsOK
<1>6. \A w \in DOMAIN vats' : w \in Nodes \X Nat /\ w[2] < base'[w[1]] /\ VatOK(w, vats'[w])
  BY <1>2, <1>3, <1>4
<1>7. VatsOK'
  BY <1>2, <1>5, <1>6 DEF VatsOK, VatOK
<1>8. ASSUME NEW w \in Born(v, new) PROVE IsSeq(Caps(w)') /\ DOMAIN promises'[w] = DOMAIN Caps(w)'
  <2>1. Caps(w)' = CapsOf(vats'[w])
    BY DEF Caps
  <2>2. IsSeq(CapsOf(vats'[w]))
    BY <1>4, CapsAreSeq
  <2> QED BY <1>2, <2>1, <2>2
<1> QED BY <1>6, <1>7, <1>8

\* New promises and vats come with nothing that waits for them.
LEMMA PromisesStay ==
  ASSUME VatsOK, PromisesOK, Grows, NEW s, NEW v, NEW m, NEW ps, NEW out, NEW new,
         Step(s, v, m, ps, out, new), NewOK(v, new), PsOK(v, ps)
  PROVE  PromisesOK'
<1>1. v \in DOMAIN vats /\ EndsWith(s, v, ps, out, new) /\ IsSeq(new)
  BY DEF Step, NewOK
<1>2. AreVatsAfter(v, ps, new)
  BY <1>1, VatsAfter
<1> USE <1>2 DEF AreVatsAfter
<1> SUFFICES ASSUME NEW w \in DOMAIN vats'
             PROVE  /\ IsSeq(promises'[w]) /\ IsSeq(Caps(w)') /\ DOMAIN Caps(w)' \subseteq DOMAIN promises'[w]
                    /\ \A k \in DOMAIN promises'[w] : PromiseOK(w, k)'
  BY DEF PromisesOK
<1>3. CASE w \in DOMAIN vats
  <2>1. Caps(w)' = Caps(w)
    BY <1>3, RefStays
  <2>2. IsSeq(Caps(w)) /\ DOMAIN Caps(w) \subseteq DOMAIN promises[w] /\ IsSeq(promises[w])
    BY <1>3 DEF PromisesOK
  <2>3. CASE w = v
    BY <1>2, <2>1, <2>2, <2>3 DEF PsOK
  <2>4. CASE w # v
    <3>1. promises'[w] = promises[w]
      BY <1>2, <1>3, <2>4
    <3>2. \A k \in DOMAIN promises[w] : PromiseOK(w, k)
      BY <1>3 DEF PromisesOK
    <3>3. \A k \in DOMAIN promises[w] : PromiseOK(w, k)'
      BY <1>3, <3>1, <3>2, PromiseStays
    <3> QED BY <2>1, <2>2, <3>1, <3>3
  <2> QED BY <2>3, <2>4
<1>4. CASE w \notin DOMAIN vats
  <2>1. w \in Born(v, new)
    BY <1>2, <1>4
  <2>2. IsSeq(Caps(w)') /\ DOMAIN promises'[w] = DOMAIN Caps(w)'
    BY <2>1, VatsStay
  <2>3. Caps(w)' = CapsOf(vats'[w])
    BY DEF Caps
  <2>4. \A k \in DOMAIN promises'[w] : promises'[w][k] = Promise
    BY <1>2, <2>1
  <2>5. IsSeq(promises'[w])
    <3>1. PICK n \in Nat : DOMAIN CapsOf(vats'[w]) = 1 .. n
      BY <2>2, <2>3, SeqDomain
    <3>2. promises'[w] = [k \in 1 .. n |-> promises'[w][k]]
      BY <1>2, <2>1, <3>1
    <3>3. PICK f : f = promises'[w]
      OBVIOUS
    <3> QED BY <3>2, <3>3, SeqIs
  <2>6. ASSUME NEW k \in DOMAIN promises'[w] PROVE PromiseOK(w, k)'
    <3>1. promises'[w][k] = Promise /\ IsSeq(<<>>) /\ DOMAIN << >> = {}
      BY <2>4, SeqDomain
    <3> QED BY <3>1 DEF PromiseOK, Promise, Fields
  <2> QED BY <2>2, <2>5, <2>6
<1> QED BY <1>3, <1>4

\* What is new in a channel: what the handler sends, what a new vat asks for.
AreNew(v, out, new, a, b) ==
  /\ a = v => New(v, out, new, a, b) = At(out, b)
  /\ a \in Born(v, new) /\ b = MonadRef => New(v, out, new, a, b) = Asks(a, Caps(a)')
  /\ a # v /\ ~ (a \in Born(v, new) /\ b = MonadRef) => New(v, out, new, a, b) = <<>>
  /\ IsSeq(New(v, out, new, a, b))
  /\ \A j \in DOMAIN New(v, out, new, a, b) :
       \A x : x = New(v, out, new, a, b)[j] => MessageOK(a, b, x)'

\* What is new on a channel are calls of the handler or what the new entities ask for.
LEMMA Arrivals ==
  ASSUME VatsOK, NEW s, NEW v, NEW m, NEW ps, NEW out, NEW new,
         Step(s, v, m, ps, out, new), NewOK(v, new), OutOK(v, out), NEW a, NEW b
  PROVE  AreNew(v, out, new, a, b)
<1>1. v \in DOMAIN vats /\ EndsWith(s, v, ps, out, new) /\ IsSeq(new)
  BY DEF Step, NewOK
<1>2. AreVatsAfter(v, ps, new)
  BY <1>1, VatsAfter
<1> USE <1>2 DEF AreVatsAfter
<1>3. PICK n : n = New(v, out, new, a, b)
  OBVIOUS
<1>4. a = v => n = At(out, b)
  BY <1>3 DEF New, Arriving
<1>5. a \in Born(v, new) /\ b = MonadRef => n = Asks(a, Caps(a)')
  BY <1>1, <1>2, <1>3 DEF New, Arriving, Caps
<1>6. a # v /\ ~ (a \in Born(v, new) /\ b = MonadRef) => n = <<>>
  BY <1>3 DEF New, Arriving
<1>7. IsSeq(n) /\ \A j \in DOMAIN n : MessageOK(a, b, n[j])'
  <2>1. CASE a = v
    BY <1>4, <2>1 DEF OutOK
  <2>2. CASE a \in Born(v, new) /\ b = MonadRef
    <3>1. PICK q : q = Caps(a)'
      OBVIOUS
    <3>2. IsSeq(q) /\ DOMAIN promises'[a] = DOMAIN q
      BY <2>2, <3>1, VatsStay
    <3>3. PICK l \in Nat : DOMAIN q = 1 .. l
      BY <3>2, SeqDomain
    <3>4. n = [i \in DOMAIN q |-> Request("request-far-entity", IF a[1] = MonadRef[1] THEN q[i] ELSE Nothing, i)]
      BY <1>5, <2>2, <3>1 DEF Asks
    <3>5. IsSeq(n) /\ DOMAIN n = DOMAIN q
      <4>1. n = [i \in 1 .. l |-> n[i]]
        BY <3>3, <3>4
      <4> QED BY <3>3, <4>1, SeqIs
    <3>6. ASSUME NEW j \in DOMAIN n PROVE MessageOK(a, b, n[j])'
      <4>1. PICK x : x = n[j]
        OBVIOUS
      <4>2. /\ x.re = FALSE /\ x.fn = "request-far-entity" /\ x.prom = j
            /\ x.args = IF a[1] = MonadRef[1] THEN q[j] ELSE Nothing
        BY <3>4, <3>5, <4>1 DEF Request
      <4>3. a \in DOMAIN vats' /\ b \in DOMAIN vats' /\ j \in DOMAIN q
        BY <1>2, <2>2, <3>5 DEF VatsOK
      <4>4. a[1] # MonadRef[1] => a[1] = 1 /\ vats'[a].kind = "Program"
        <5>1. VatOK(a, vats'[a]) /\ a[1] \in {0, 1}
          BY <1>2, <4>3, <2>2, VatsStay DEF Nodes
        <5>2. vats'[a].kind = "NodeMan" => q = <<>>
          BY <3>1 DEF Caps, CapsOf
        <5>3. q # <<>>
          BY <4>3, SeqDomain
        <5> QED BY <5>1, <5>2, <5>3 DEF VatOK, MonadRef
      <4>5. CallOK(a, b, x.fn, x.args, x.prom)'
        BY <2>2, <3>1, <4>2, <4>4 DEF CallOK
      <4>6. VatRequestOK(a, b, x)'
        BY <3>1, <3>2, <4>2, <4>3, <4>5 DEF VatRequestOK
      <4> QED BY <4>1, <4>2, <4>3, <4>6 DEF MessageOK, RequestOK
    <3> QED BY <3>5, <3>6
  <2>3. CASE a # v /\ ~ (a \in Born(v, new) /\ b = MonadRef)
    BY <1>6, <2>3, SeqDomain
  <2> QED BY <2>1, <2>2, <2>3
<1> QED BY <1>3, <1>4, <1>5, <1>6, <1>7 DEF AreNew

\* Every message in the mail is still one its receiver knows.
LEMMA MailStays ==
  ASSUME VatsOK, MailOK, Grows, NEW s, NEW v, NEW m, NEW ps, NEW out, NEW new,
         Step(s, v, m, ps, out, new), NewOK(v, new), OutOK(v, out)
  PROVE  MailOK'
<1>1. Takes(s, v, m) /\ EndsWith(s, v, ps, out, new)
  BY DEF Step
<1> SUFFICES ASSUME NEW c \in DOMAIN mail'
             PROVE  /\ c = <<c[1], c[2]>> /\ mail'[c] # <<>> /\ IsSeq(mail'[c])
                    /\ \A i \in DOMAIN mail'[c] : MessageOK(c[1], c[2], mail[c][i])'
  BY DEF MailOK
<1>2. c = <<c[1], c[2]>> /\ mail'[c] # <<>>
  <2>1. PICK all : all = DOMAIN mail \cup ({v} \X DOMAIN out) \cup (Born(v, new) \X {MonadRef})
    OBVIOUS
  <2>2. mail' = [x \in {x \in all : Rest(s, v, x) \o Arriving(v, out, Born(v, new), x) # <<>>} |->
                    Rest(s, v, x) \o Arriving(v, out, Born(v, new), x)]
    BY <1>1, <2>1 DEF EndsWith, Deliver
  <2>3. c \in all /\ mail'[c] # <<>>
    BY <2>2
  <2>4. c \in DOMAIN mail => c = <<c[1], c[2]>>
    BY DEF MailOK
  <2> QED BY <2>1, <2>3, <2>4
<1>3. PICK a, b : a = c[1] /\ b = c[2] /\ c = <<a, b>>
  BY <1>2
<1>4. PICK q : q = Chan(a, b)'
  OBVIOUS
<1>5. mail'[c] = q
  BY <1>3, <1>4 DEF Chan, At
<1>6. PICK n : n = New(v, out, new, a, b)
  OBVIOUS
<1>7. IsSeq(n) /\ \A j \in DOMAIN n : MessageOK(a, b, n[j])'
  <2>1. AreNew(v, out, new, a, b)
    BY Arrivals
  <2> QED BY <1>6, <2>1 DEF AreNew
<1>8. IsChanAfter(s, v, out, new, a, b)
  BY <1>1, <1>6, <1>7, ChanAfter
<1>9. ASSUME NEW i \in DOMAIN q PROVE MessageOK(a, b, q[i])'
  <2>1. CASE i <= Kept(s, v, a, b)
    <3>1. PICK j \in DOMAIN Chan(a, b) : q[i] = Chan(a, b)[j]
      BY <1>4, <1>8, <1>9, <2>1 DEF IsChanAfter
    <3>2. MessageOK(a, b, Chan(a, b)[j])
      BY MailMeans
    <3> QED BY <3>1, <3>2, MessageStays
  <2>2. CASE ~ i <= Kept(s, v, a, b)
    <3>1. PICK j \in DOMAIN n : q[i] = n[j]
      BY <1>4, <1>6, <1>8, <1>9, <2>2 DEF IsChanAfter
    <3> QED BY <1>7, <3>1
  <2> QED BY <2>1, <2>2
<1>10. ASSUME NEW i \in DOMAIN mail'[c] PROVE MessageOK(c[1], c[2], mail[c][i])'
  <2>1. PICK x : x = q[i]
    OBVIOUS
  <2>2. MessageOK(a, b, x)'
    BY <1>5, <1>9, <1>10, <2>1
  <2> QED BY <1>3, <1>5, <2>1, <2>2
<1> QED BY <1>2, <1>4, <1>5, <1>8, <1>10 DEF IsChanAfter

-----------------------------------------------------------------------------
(* Calls stay in one place *)

\* What a handler sends: answers to what it took, calls of new promises, and
\* what is in neither of the places that are counted.
SendsOnce(s, v, m, out) ==
  \A d : \A j \in DOMAIN At(out, d) : \A x : x = At(out, d)[j] =>
    /\ d \in DOMAIN vats
    /\ x.re => /\ x.prom \in DOMAIN promises[d]
               /\ Direct(d, x.prom) =>
                    /\ d = s /\ m.re = FALSE /\ x.prom = m.prom
                    /\ \A l \in DOMAIN At(out, d) : At(out, d)[l].re => l = j
    /\ ~ x.re => /\ x.prom \in DOMAIN promises[v] => ~ Direct(v, x.prom)
                 /\ x.prom \notin DOMAIN promises[v] =>
                      \A e : \A l \in DOMAIN At(out, e) :
                        ~ At(out, e)[l].re /\ At(out, e)[l].prom = x.prom => d = e /\ j = l
Settles(v, m, ps) ==
  /\ DOMAIN promises[v] \subseteq DOMAIN ps
  /\ \A k \in DOMAIN promises[v] :
       ps[k].value = promises[v][k].value \/ (m.re /\ k = m.prom)
  /\ \A k \in DOMAIN ps : k \notin DOMAIN promises[v] => ps[k].value = None
  /\ v = MonadRef => \A k \in DOMAIN promises[v] : ps[k].dependents = promises[v][k].dependents

\* A message that was taken is what it is, and was sent by who sent it.
LEMMA TakenIs ==
  ASSUME MailOK, NEW s, NEW v, NEW m, Takes(s, v, m)
  PROVE  /\ Chan(s, v) # <<>> /\ 1 \in DOMAIN Chan(s, v) /\ m = Chan(s, v)[1]
         /\ MessageOK(s, v, m) /\ m.re \in BOOLEAN
<1>1. PICK c : c = <<s, v>>
  OBVIOUS
<1>2. c \in DOMAIN mail /\ Chan(s, v) = mail[c] /\ m = Head(mail[c])
  BY <1>1 DEF Takes, Chan, At
<1>3. IsSeq(Chan(s, v)) /\ Chan(s, v) # <<>>
  BY <1>2 DEF MailOK
<1>4. PICK q : q = Chan(s, v)
  OBVIOUS
<1>5. 1 \in DOMAIN q /\ Head(q) = q[1]
  BY <1>3, <1>4, TailIs
<1>6. MessageOK(s, v, m)
  BY <1>2, <1>4, <1>5, MailMeans
<1> QED BY <1>2, <1>3, <1>4, <1>5, <1>6 DEF MessageOK

\* Nothing is under way from or to a vat that is not there, nor for a promise
\* that its vat has not.
LEMMA LegsAreThere ==
  ASSUME VatsOK, MailOK, NEW u, u \in Nodes \X Nat, NEW k, NEW d, NEW re \in BOOLEAN, NEW i, IsLeg(u, k, d, re, i)
  PROVE  u \in DOMAIN vats /\ k \in DOMAIN promises[u]
<1>1. PICK a, b : a = From(u, d, re) /\ b = To(u, d, re)
  OBVIOUS
<1>2. PICK x : x = Chan(a, b)[i]
  OBVIOUS
<1>3. MessageOK(a, b, x) /\ x.re = re /\ x.prom = k
  BY <1>1, <1>2, MailMeans DEF IsLeg, Leg
<1>4. CASE re
  <2>1. ResponseOK(a, b, x) /\ b = u
    BY <1>1, <1>3, <1>4 DEF MessageOK, To
  <2> QED BY <1>3, <2>1 DEF ResponseOK
<1>5. CASE ~ re
  <2>1. RequestOK(a, b, x) /\ a = u
    BY <1>1, <1>3, <1>5 DEF MessageOK, From
  <2>2. ~ ThreadRequestOK(u, b, x)
    BY DEF ThreadRequestOK, Thread, Keyboard
  <2> QED BY <1>3, <2>1, <2>2 DEF RequestOK, VatRequestOK
<1> QED BY <1>4, <1>5

\* A leg after a handler's step: one from before, or a new message.
OldLeg(s, v, u, k, d, re, i) ==
  i \in Nat /\ i >= 1 /\ IsLeg(u, k, d, re, i + Shift(s, v, From(u, d, re), To(u, d, re)))
NewLeg(s, v, out, new, u, k, d, re, i) ==
  LET a == From(u, d, re)
      b == To(u, d, re)
      j == i - Kept(s, v, a, b) IN
  /\ i \in Nat /\ Kept(s, v, a, b) \in Nat
  /\ j \in DOMAIN New(v, out, new, a, b)
  /\ \A x : x = New(v, out, new, a, b)[j] => x.re = re /\ x.prom = k

\* A leg after a step was there before, one place on, or is new.
LEMMA LegBefore ==
  ASSUME VatsOK, MailOK, NEW s, NEW v, NEW m, NEW ps, NEW out, NEW new,
         Step(s, v, m, ps, out, new), NewOK(v, new), OutOK(v, out),
         NEW u, NEW k, NEW d, NEW re \in BOOLEAN, NEW i, IsLeg(u, k, d, re, i)'
  PROVE  OldLeg(s, v, u, k, d, re, i) \/ NewLeg(s, v, out, new, u, k, d, re, i)
<1>1. PICK a, b : a = From(u, d, re) /\ b = To(u, d, re)
  OBVIOUS
<1>2. AreNew(v, out, new, a, b)
  BY Arrivals
<1>3. IsSeq(New(v, out, new, a, b))
  BY <1>2 DEF AreNew
<1>4. IsChanAfter(s, v, out, new, a, b)
  BY <1>3, ChanAfter DEF Step
<1>5. PICK q : q = Chan(a, b)'
  OBVIOUS
<1>6. i \in DOMAIN q /\ q[i].re = re /\ q[i].prom = k
  BY <1>1, <1>5 DEF IsLeg, Leg, From, To
<1>7. i \in Nat /\ i >= 1
  BY <1>4, <1>5, <1>6, SeqDomain DEF IsChanAfter
<1>8. CASE i <= Kept(s, v, a, b)
  <2>1. i + Shift(s, v, a, b) \in DOMAIN Chan(a, b) /\ q[i] = Chan(a, b)[i + Shift(s, v, a, b)]
    BY <1>4, <1>5, <1>6, <1>8 DEF IsChanAfter
  <2>2. IsLeg(u, k, d, re, i + Shift(s, v, a, b))
    BY <1>1, <1>6, <2>1 DEF IsLeg, Leg
  <2> QED BY <1>1, <1>7, <2>2 DEF OldLeg
<1>9. CASE ~ i <= Kept(s, v, a, b)
  <2>1. i - Kept(s, v, a, b) \in DOMAIN New(v, out, new, a, b)
        /\ q[i] = New(v, out, new, a, b)[i - Kept(s, v, a, b)] /\ Kept(s, v, a, b) \in Nat
    BY <1>4, <1>5, <1>6, <1>9 DEF IsChanAfter
  <2> QED BY <1>1, <1>6, <1>7, <2>1 DEF NewLeg
<1> QED BY <1>8, <1>9

\* Where a new message comes from.
NewLegFrom(s, v, out, new, u, k, d, re, i) ==
  LET a == From(u, d, re)
      b == To(u, d, re)
      j == i - Kept(s, v, a, b) IN
  \/ a = v /\ j \in DOMAIN At(out, b) /\ At(out, b)[j].re = re /\ At(out, b)[j].prom = k
  \/ a = u /\ a \in Born(v, new) /\ a # v /\ b = MonadRef /\ d = MonadRef /\ re = FALSE /\ j = k

\* A new leg is in what the handler sends, or a request of a new entity.
LEMMA NewLegIs ==
  ASSUME VatsOK, NEW s, NEW v, NEW m, NEW ps, NEW out, NEW new,
         Step(s, v, m, ps, out, new), NewOK(v, new), OutOK(v, out),
         NEW u, NEW k, NEW d, NEW re \in BOOLEAN, NEW i, NewLeg(s, v, out, new, u, k, d, re, i)
  PROVE  NewLegFrom(s, v, out, new, u, k, d, re, i)
<1> USE DEF NewLegFrom
<1>1. PICK a, b, j : a = From(u, d, re) /\ b = To(u, d, re) /\ j = i - Kept(s, v, a, b)
  OBVIOUS
<1>2. AreNew(v, out, new, a, b)
  BY Arrivals
<1>3. PICK n : n = New(v, out, new, a, b)
  OBVIOUS
<1>4. j \in DOMAIN n /\ n[j].re = re /\ n[j].prom = k
  BY <1>1, <1>3 DEF NewLeg
<1>5. CASE a = v
  BY <1>1, <1>2, <1>3, <1>4, <1>5 DEF AreNew
<1>6. CASE a # v /\ a \in Born(v, new) /\ b = MonadRef
  <2>1. n = Asks(a, Caps(a)')
    BY <1>2, <1>3, <1>6 DEF AreNew
  <2>2. PICK q : q = Caps(a)'
    OBVIOUS
  <2>3. n[j].re = FALSE /\ n[j].prom = j
    BY <1>4, <2>1, <2>2 DEF Asks, Request
  <2>4. re = FALSE /\ k = j
    BY <1>4, <2>3
  <2>5. a = u /\ b = d
    BY <1>1, <2>4 DEF From, To
  <2> QED BY <1>1, <1>6, <2>4, <2>5
<1>7. CASE a # v /\ ~ (a \in Born(v, new) /\ b = MonadRef)
  <2>1. n = <<>>
    BY <1>2, <1>3, <1>7 DEF AreNew
  <2> QED BY <1>4, <2>1, SeqDomain
<1> QED BY <1>5, <1>6, <1>7

\* A promise that was there is counted only if it was.
LEMMA DirectBefore ==
  ASSUME VatsOK, NEW s, NEW v, NEW m, NEW ps, NEW out, NEW new,
         Step(s, v, m, ps, out, new), NewOK(v, new), Settles(v, m, ps),
         NEW u \in DOMAIN vats, NEW k \in DOMAIN promises[u]
  PROVE  /\ Direct(u, k)' => Direct(u, k)
         /\ u = MonadRef => promises'[u][k].dependents = promises[u][k].dependents
         /\ promises'[u][k].value = promises[u][k].value \/ (u = v /\ m.re /\ k = m.prom)
         /\ k \in DOMAIN promises'[u]
<1>1. AreVatsAfter(v, ps, new)
  BY VatsAfter DEF Step, NewOK
<1>2. u # v => promises'[u] = promises[u]
  BY <1>1 DEF AreVatsAfter
<1>3. u = v => promises'[u] = ps
  BY <1>1 DEF AreVatsAfter
<1>4. u = MonadRef => promises'[u][k].dependents = promises[u][k].dependents
  BY <1>2, <1>3 DEF Settles
<1>5. promises'[u][k].value = promises[u][k].value \/ (u = v /\ m.re /\ k = m.prom)
  BY <1>2, <1>3 DEF Settles
<1>6. k \in DOMAIN promises'[u]
  BY <1>2, <1>3 DEF Settles
<1>7. Caps(u)' = Caps(u)
  BY <1>1 DEF AreVatsAfter, Caps
<1>8. Direct(u, k)' => Direct(u, k)
  BY <1>4, <1>7 DEF Direct, Start
<1> QED BY <1>4, <1>5, <1>6, <1>8

LegsHere(u, k) ==
  \A d, re, i : re \in BOOLEAN /\ IsLeg(u, k, d, re, i) =>
    /\ promises[u][k].value = None
    /\ \A e, r, j : r \in BOOLEAN /\ IsLeg(u, k, e, r, j) => d = e /\ re = r /\ i = j

\* The invariant, with every address for a place (all messages are between vats).
LEMMA LegsMean ==
  ASSUME VatsOK, MailOK, LegsOnce, NEW u \in DOMAIN vats, NEW k \in DOMAIN promises[u], Direct(u, k)
  PROVE  LegsHere(u, k)
<1>1. ASSUME NEW d, NEW re \in BOOLEAN, NEW i, IsLeg(u, k, d, re, i)
      PROVE  d \in DOMAIN vats /\ i \in DOMAIN Leg(u, d, re)
  <2>1. PICK a, b : a = From(u, d, re) /\ b = To(u, d, re)
    OBVIOUS
  <2>2. PICK x : x = Chan(a, b)[i]
    OBVIOUS
  <2>3. MessageOK(a, b, x) /\ x.re = re
    BY <1>1, <2>1, <2>2, MailMeans DEF IsLeg, Leg
  <2>4. u \in Nodes \X Nat
    BY DEF VatsOK
  <2>5. CASE re
    BY <1>1, <2>1, <2>3, <2>5 DEF MessageOK, ResponseOK, From, IsLeg
  <2>6. CASE ~ re
    BY <1>1, <2>1, <2>3, <2>6 DEF MessageOK, RequestOK, To, IsLeg
  <2> QED BY <2>5, <2>6
<1>2. ASSUME NEW d, NEW re \in BOOLEAN, NEW i, IsLeg(u, k, d, re, i)
      PROVE  /\ promises[u][k].value = None
             /\ \A e, r, j : r \in BOOLEAN /\ IsLeg(u, k, e, r, j) => d = e /\ re = r /\ i = j
  <2>1. d \in DOMAIN vats /\ i \in DOMAIN Leg(u, d, re)
    BY <1>1, <1>2
  <2>2. /\ promises[u][k].value = None
        /\ \A e \in DOMAIN vats, r \in BOOLEAN : \A j \in DOMAIN Leg(u, e, r) :
             IsLeg(u, k, e, r, j) => d = e /\ re = r /\ i = j
    BY <1>2, <2>1 DEF LegsOnce
  <2> QED BY <1>1, <2>2
<1> QED BY <1>2 DEF LegsHere

\* A call whose promise matters is still in one place only.
LEMMA LegsStay ==
  ASSUME VatsOK, MailOK, PromisesOK, LegsOnce, NEW s, NEW v, NEW m, NEW ps, NEW out, NEW new,
         Step(s, v, m, ps, out, new), NewOK(v, new), OutOK(v, out),
         SendsOnce(s, v, m, out), Settles(v, m, ps)
  PROVE  LegsOnce'
<1>1. AreVatsAfter(v, ps, new) /\ v \in DOMAIN vats /\ Takes(s, v, m)
  BY VatsAfter DEF Step, NewOK
<1> SUFFICES ASSUME NEW u \in DOMAIN vats', NEW k \in DOMAIN promises'[u], Direct(u, k)'
             PROVE  LegsHere(u, k)'
  BY DEF LegsOnce, LegsHere
<1> DEFINE Old(d, re, i) == OldLeg(s, v, u, k, d, re, i)
           Fresh(d, re, i) == NewLeg(s, v, out, new, u, k, d, re, i)
<1>2. SUFFICES /\ \A d, re, i : re \in BOOLEAN /\ (Old(d, re, i) \/ Fresh(d, re, i)) =>
                    /\ promises'[u][k].value = None
                    /\ \A e, r, j : r \in BOOLEAN /\ (Old(e, r, j) \/ Fresh(e, r, j)) => d = e /\ re = r /\ i = j
  <2>1. \A d, re, i : re \in BOOLEAN /\ IsLeg(u, k, d, re, i)' => Old(d, re, i) \/ Fresh(d, re, i)
    BY LegBefore
  <2> HIDE DEF Old, Fresh
  <2> QED BY <1>2, <2>1 DEF LegsHere
<1>3. u \in Nodes \X Nat
  BY VatsStay DEF VatsOK
<1>4. ASSUME NEW d, NEW re \in BOOLEAN, NEW i, Fresh(d, re, i)
      PROVE  LET j == i - Kept(s, v, From(u, d, re), To(u, d, re)) IN
             \/ re = FALSE /\ u = v /\ j \in DOMAIN At(out, d) /\ At(out, d)[j].re = re /\ At(out, d)[j].prom = k
             \/ re = TRUE /\ d = v /\ j \in DOMAIN At(out, u) /\ At(out, u)[j].re = re /\ At(out, u)[j].prom = k
             \/ re = FALSE /\ d = MonadRef /\ u \in Born(v, new) /\ j = k
  <2>1. re = TRUE \/ re = FALSE
    OBVIOUS
  <2>2. re = FALSE => From(u, d, re) = u /\ To(u, d, re) = d
    BY DEF From, To
  <2>3. re = TRUE => From(u, d, re) = d /\ To(u, d, re) = u
    BY DEF From, To
  <2>4. NewLegFrom(s, v, out, new, u, k, d, re, i)
    BY <1>4, NewLegIs
  <2> QED BY <2>1, <2>2, <2>3, <2>4 DEF NewLegFrom
<1>5. \A d, re, i : Fresh(d, re, i) => i \in Nat /\ Kept(s, v, From(u, d, re), To(u, d, re)) \in Nat
  BY DEF NewLeg
<1>6. ASSUME NEW d, NEW re \in BOOLEAN, NEW i, Old(d, re, i)
      PROVE  u \in DOMAIN vats /\ k \in DOMAIN promises[u]
  BY <1>3, <1>6, LegsAreThere DEF OldLeg
<1>7. CASE u \notin DOMAIN vats
  <2>1. u \in Born(v, new) /\ u # v
    BY <1>1, <1>7 DEF AreVatsAfter
  <2>2. promises'[u][k].value = None
    BY <1>1, <2>1 DEF AreVatsAfter, Promise
  <2>3. ASSUME NEW d, NEW re \in BOOLEAN, NEW i, Fresh(d, re, i)
        PROVE  re = FALSE /\ d = MonadRef /\ i - Kept(s, v, From(u, d, re), To(u, d, re)) = k
    <3>1. \A j : j \in DOMAIN At(out, u) => u \in DOMAIN vats
      BY DEF SendsOnce
    <3> QED BY <1>4, <1>7, <2>1, <2>3, <3>1
  <2>4. ASSUME NEW d, NEW re \in BOOLEAN, NEW i, Fresh(d, re, i), NEW e, NEW r \in BOOLEAN, NEW j, Fresh(e, r, j)
        PROVE  d = e /\ re = r /\ i = j
    <3>1. re = FALSE /\ r = FALSE /\ d = MonadRef /\ e = MonadRef
      BY <2>3, <2>4
    <3>2. PICK l \in Nat : l = Kept(s, v, From(u, d, re), To(u, d, re)) /\ i \in Nat /\ j \in Nat
      BY <1>5, <2>4
    <3>3. i - l = k /\ j - l = k
      BY <2>3, <2>4, <3>1, <3>2
    <3> QED BY <3>1, <3>2, <3>3
  <2> HIDE DEF Old, Fresh
  <2> QED BY <1>6, <1>7, <2>2, <2>4
<1>8. CASE u \in DOMAIN vats /\ k \notin DOMAIN promises[u]
  <2>1. u = v /\ promises'[u] = ps /\ u \notin Born(v, new)
    BY <1>1, <1>8 DEF AreVatsAfter
  <2>2. promises'[u][k].value = None
    BY <1>8, <2>1 DEF Settles
  <2>3. ASSUME NEW d, NEW re \in BOOLEAN, NEW i, Fresh(d, re, i)
        PROVE  /\ re = FALSE
               /\ LET j == i - Kept(s, v, u, d) IN
                  j \in DOMAIN At(out, d) /\ ~ At(out, d)[j].re /\ At(out, d)[j].prom = k
    <3>1. re # TRUE
      <4> SUFFICES ASSUME re = TRUE PROVE FALSE
        OBVIOUS
      <4>1. PICK j : j \in DOMAIN At(out, u) /\ At(out, u)[j].re = TRUE /\ At(out, u)[j].prom = k
        BY <1>4, <2>1, <2>3
      <4>2. k \in DOMAIN promises[u]
        BY <4>1 DEF SendsOnce
      <4> QED BY <1>8, <4>2
    <3>2. re = FALSE /\ From(u, d, re) = u /\ To(u, d, re) = d
      BY <3>1 DEF From, To
    <3> QED BY <1>4, <2>1, <2>3, <3>2
  <2>4. ASSUME NEW d, NEW re \in BOOLEAN, NEW i, Fresh(d, re, i), NEW e, NEW r \in BOOLEAN, NEW j, Fresh(e, r, j)
        PROVE  d = e /\ re = r /\ i = j
    <3>1. PICK x, y : x = i - Kept(s, v, u, d) /\ y = j - Kept(s, v, u, e)
      OBVIOUS
    <3>2. /\ re = FALSE /\ x \in DOMAIN At(out, d) /\ ~ At(out, d)[x].re /\ At(out, d)[x].prom = k
          /\ r = FALSE /\ y \in DOMAIN At(out, e) /\ ~ At(out, e)[y].re /\ At(out, e)[y].prom = k
      BY <2>3, <2>4, <3>1
    <3>3. d = e /\ x = y
      BY <1>8, <2>1, <3>2 DEF SendsOnce
    <3>4. From(u, d, re) = u /\ To(u, d, re) = d
      BY <3>2 DEF From, To
    <3>5. PICK l \in Nat : l = Kept(s, v, u, d) /\ i \in Nat /\ j \in Nat
      BY <1>5, <2>4, <3>4
    <3>6. i - l = j - l
      BY <3>1, <3>3, <3>5
    <3> QED BY <3>2, <3>3, <3>5, <3>6
  <2> HIDE DEF Old, Fresh
  <2> QED BY <1>6, <1>8, <2>2, <2>4
<1>9. CASE u \in DOMAIN vats /\ k \in DOMAIN promises[u]
  <2>1. /\ Direct(u, k)' => Direct(u, k)
        /\ promises'[u][k].value = promises[u][k].value \/ (u = v /\ m.re /\ k = m.prom)
    BY <1>9, DirectBefore
  <2>2. Direct(u, k)
    BY <2>1
  <2>3. LegsHere(u, k)
    BY <1>9, <2>2, LegsMean
  <2>4. m = Chan(s, v)[1] /\ 1 \in DOMAIN Chan(s, v) /\ m.re \in BOOLEAN
    BY <1>1, TakenIs
  <2>5. u \notin Born(v, new)
    BY <1>1, <1>9 DEF AreVatsAfter
  <2>6. ASSUME NEW d, NEW re \in BOOLEAN, NEW i, Fresh(d, re, i)
        PROVE  /\ re = TRUE /\ d = v /\ u = s /\ m.re = FALSE /\ k = m.prom
               /\ IsLeg(u, k, v, FALSE, 1)
               /\ LET j == i - Kept(s, v, v, u) IN j \in DOMAIN At(out, u) /\ At(out, u)[j].re
    <3>1. re # FALSE
      <4> SUFFICES ASSUME re = FALSE PROVE FALSE
        OBVIOUS
      <4>1. PICK j : u = v /\ j \in DOMAIN At(out, d) /\ At(out, d)[j].re = FALSE /\ At(out, d)[j].prom = k
        BY <1>4, <2>5, <2>6
      <4>2. ~ Direct(u, k)
        BY <1>9, <4>1 DEF SendsOnce
      <4> QED BY <2>2, <4>2
    <3>2. re = TRUE
      BY <3>1
    <3>3. From(u, d, re) = d /\ To(u, d, re) = u
      BY <3>2 DEF From, To
    <3>4. PICK j : j = i - Kept(s, v, d, u)
      OBVIOUS
    <3>5. d = v /\ j \in DOMAIN At(out, u) /\ At(out, u)[j].re = TRUE /\ At(out, u)[j].prom = k
      BY <1>4, <2>6, <3>2, <3>3, <3>4
    <3>6. u = s /\ m.re = FALSE /\ k = m.prom
      BY <2>2, <3>5 DEF SendsOnce
    <3>7. IsLeg(u, k, v, FALSE, 1)
      BY <2>4, <3>6 DEF IsLeg, Leg, From, To
    <3> QED BY <3>2, <3>4, <3>5, <3>6, <3>7
  <2>7. ASSUME NEW d, NEW re \in BOOLEAN, NEW i, Fresh(d, re, i), NEW e, NEW r \in BOOLEAN, NEW j, Fresh(e, r, j)
        PROVE  d = e /\ re = r /\ i = j
    <3>1. PICK x, y : x = i - Kept(s, v, v, u) /\ y = j - Kept(s, v, v, u)
      OBVIOUS
    <3>2. /\ re = TRUE /\ r = TRUE /\ d = v /\ e = v /\ x \in DOMAIN At(out, u) /\ At(out, u)[x].re
          /\ y \in DOMAIN At(out, u) /\ At(out, u)[y].re
      BY <2>6, <2>7, <3>1
    <3>3. At(out, u)[x].prom = k
      BY <1>4, <2>5, <2>7, <3>1, <3>2 DEF From, To
    <3>4. x = y
      <4>1. \A l \in DOMAIN At(out, u) : At(out, u)[l].re => l = x
        BY <2>2, <3>2, <3>3 DEF SendsOnce
      <4> QED BY <3>2, <4>1
    <3>5. From(u, d, re) = v /\ To(u, d, re) = u
      BY <3>2 DEF From, To
    <3>6. PICK l \in Nat : l = Kept(s, v, v, u) /\ i \in Nat /\ j \in Nat
      BY <1>5, <2>7, <3>5
    <3>7. i - l = j - l
      BY <3>1, <3>4, <3>6
    <3> QED BY <3>2, <3>6, <3>7
  <2>8. ASSUME NEW d, NEW re \in BOOLEAN, NEW i, Old(d, re, i), IsLeg(u, k, v, FALSE, 1), u = s PROVE FALSE
    <3>1. PICK h : h = Shift(s, v, From(u, d, re), To(u, d, re))
      OBVIOUS
    <3>2. IsLeg(u, k, d, re, i + h) /\ i \in Nat /\ i >= 1
      BY <2>8, <3>1 DEF OldLeg
    <3>3. d = v /\ re = FALSE /\ i + h = 1
      BY <2>3, <2>8, <3>2 DEF LegsHere
    <3>4. h = 1
      BY <2>8, <3>1, <3>3 DEF Shift, From, To
    <3> QED BY <3>2, <3>3, <3>4
  <2>9. ASSUME NEW d, NEW re \in BOOLEAN, NEW i, Old(d, re, i), NEW e, NEW r \in BOOLEAN, NEW j, Old(e, r, j)
        PROVE  d = e /\ re = r /\ i = j
    <3>1. PICK h, g : h = Shift(s, v, From(u, d, re), To(u, d, re)) /\ g = Shift(s, v, From(u, e, r), To(u, e, r))
      OBVIOUS
    <3>2. IsLeg(u, k, d, re, i + h) /\ IsLeg(u, k, e, r, j + g) /\ i \in Nat /\ j \in Nat
      BY <2>9, <3>1 DEF OldLeg
    <3>3. d = e /\ re = r /\ i + h = j + g
      BY <2>3, <3>2 DEF LegsHere
    <3>4. h = g /\ h \in Nat
      BY <3>1, <3>3 DEF Shift
    <3> QED BY <3>2, <3>3, <3>4
  <2>10. ASSUME NEW d, NEW re \in BOOLEAN, NEW i, Old(d, re, i) PROVE promises'[u][k].value = None
    <3>1. PICK h : h = Shift(s, v, From(u, d, re), To(u, d, re))
      OBVIOUS
    <3>2. IsLeg(u, k, d, re, i + h) /\ i \in Nat /\ i >= 1
      BY <2>10, <3>1 DEF OldLeg
    <3>3. promises[u][k].value = None
      BY <2>3, <3>2 DEF LegsHere
    <3>4. ~ (u = v /\ m.re /\ k = m.prom)
      <4> SUFFICES ASSUME u = v, m.re, k = m.prom PROVE FALSE
        OBVIOUS
      <4>1. IsLeg(u, k, s, TRUE, 1)
        BY <2>4 DEF IsLeg, Leg, From, To
      <4>2. d = s /\ re = TRUE /\ i + h = 1
        BY <2>3, <3>2, <4>1 DEF LegsHere
      <4>3. h = 1
        BY <3>1, <4>2 DEF Shift, From, To
      <4> QED BY <3>2, <4>2, <4>3
    <3> QED BY <2>1, <3>3, <3>4
  <2>11. ASSUME NEW d, NEW re \in BOOLEAN, NEW i, Fresh(d, re, i) PROVE promises'[u][k].value = None
    <3>1. IsLeg(u, k, v, FALSE, 1) /\ m.re = FALSE
      BY <2>6, <2>11
    <3>2. promises[u][k].value = None
      BY <2>3, <3>1 DEF LegsHere
    <3> QED BY <2>1, <3>1, <3>2
  <2>12. ASSUME NEW d, NEW re \in BOOLEAN, NEW i, Fresh(d, re, i) PROVE IsLeg(u, k, v, FALSE, 1) /\ u = s
    BY <2>6, <2>12
  <2> HIDE DEF Old, Fresh
  <2>13. ASSUME NEW d, NEW re \in BOOLEAN, NEW i, Old(d, re, i) \/ Fresh(d, re, i),
                NEW e, NEW r \in BOOLEAN, NEW j, Old(e, r, j) \/ Fresh(e, r, j)
         PROVE  d = e /\ re = r /\ i = j
    <3>1. ~ (Old(d, re, i) /\ Fresh(e, r, j)) /\ ~ (Fresh(d, re, i) /\ Old(e, r, j))
      BY <2>8, <2>12
    <3>2. CASE Old(d, re, i) /\ Old(e, r, j)
      BY <2>9, <3>2
    <3>3. CASE Fresh(d, re, i) /\ Fresh(e, r, j)
      BY <2>7, <3>3
    <3> QED BY <2>13, <3>1, <3>2, <3>3
  <2> QED BY <2>10, <2>11, <2>13
<1> QED BY <1>7, <1>8, <1>9

-----------------------------------------------------------------------------
(* The calls that start a program are for it *)

StartLegOK(k, re, x) ==
  IF re THEN MadeFor(x.args, StartOf(k)) ELSE x.fn = "create-vat" /\ x.args = StartOf(k)
\* What a handler sends for the start of a program.
StartsRight(s, v, m, ps, out) ==
  \A d : \A j \in DOMAIN At(out, d) : \A x : x = At(out, d)[j] =>
    /\ x.re /\ s = MonadRef /\ d = s /\ x.prom = m.prom /\ m.fn = "create-vat" => MadeFor(x.args, m.args)'
    /\ ~ x.re /\ v = MonadRef /\ x.prom \in DOMAIN ps /\ x.prom \notin DOMAIN promises[v]
          /\ ps[x.prom].dependents # <<>> =>
         x.fn = "create-vat" /\ x.args = ps[x.prom].dependents[1].args

\* What StartsOK says of one leg.
LEMMA StartsMean ==
  ASSUME VatsOK, MailOK, StartsOK, NEW k \in DOMAIN promises[MonadRef], Start(k),
         NEW d, NEW re \in BOOLEAN, NEW i, IsLeg(MonadRef, k, d, re, i)
  PROVE  StartLegOK(k, re, Leg(MonadRef, d, re)[i])
<1>1. PICK a, b : a = From(MonadRef, d, re) /\ b = To(MonadRef, d, re)
  OBVIOUS
<1>2. PICK x : x = Chan(a, b)[i]
  OBVIOUS
<1>3. MessageOK(a, b, x) /\ x.re = re
  BY <1>1, <1>2, MailMeans DEF IsLeg, Leg
<1>4. i \in DOMAIN Leg(MonadRef, d, re)
  BY DEF IsLeg
<1>5. d \in DOMAIN vats
  <2>1. CASE re
    BY <1>1, <1>3, <2>1 DEF MessageOK, ResponseOK, From
  <2>2. CASE ~ re
    BY <1>1, <1>3, <2>2 DEF MessageOK, RequestOK, To
  <2> QED BY <2>1, <2>2
<1>6. LET y == Leg(MonadRef, d, re)[i] IN
      IF re THEN MadeFor(y.args, StartOf(k)) ELSE y.fn = "create-vat" /\ y.args = StartOf(k)
  BY <1>4, <1>5 DEF StartsOK
<1> QED BY <1>6 DEF StartLegOK

\* The legs of programs that start still ask for, or bring, the right vat.
LEMMA StartsStay ==
  ASSUME VatsOK, MailOK, PromisesOK, LegsOnce, StartsOK, Grows, NEW s, NEW v, NEW m, NEW ps, NEW out, NEW new,
         Step(s, v, m, ps, out, new), NewOK(v, new), OutOK(v, out),
         SendsOnce(s, v, m, out), Settles(v, m, ps), StartsRight(s, v, m, ps, out)
  PROVE  StartsOK'
<1>1. AreVatsAfter(v, ps, new) /\ v \in DOMAIN vats /\ Takes(s, v, m)
  BY VatsAfter DEF Step, NewOK
<1>2. MonadRef \in DOMAIN vats /\ MonadRef \in Nodes \X Nat /\ MonadRef \notin Born(v, new)
  BY <1>1 DEF VatsOK, AreVatsAfter
<1> SUFFICES ASSUME NEW k \in DOMAIN promises'[MonadRef], Start(k)',
                    NEW d, NEW re \in BOOLEAN, NEW i, IsLeg(MonadRef, k, d, re, i)',
                    NEW y, y = Leg(MonadRef, d, re)'[i]
             PROVE  StartLegOK(k, re, y)'
  BY DEF StartsOK, StartLegOK
<1>3. PICK a, b : a = From(MonadRef, d, re) /\ b = To(MonadRef, d, re)
  OBVIOUS
<1>4. IsChanAfter(s, v, out, new, a, b)
  <2>1. AreNew(v, out, new, a, b)
    BY Arrivals
  <2> QED BY <1>1, <2>1, ChanAfter DEF AreNew, Step
<1>5. y = Chan(a, b)'[i] /\ i \in DOMAIN Chan(a, b)' /\ y.re = re /\ y.prom = k
  BY <1>3 DEF IsLeg, Leg, From, To
<1>6. PICK h, g : h = Shift(s, v, a, b) /\ g = Kept(s, v, a, b) /\ g \in Nat
  BY <1>4 DEF IsChanAfter
<1>7. CASE i <= g
  <2>1. i + h \in DOMAIN Chan(a, b) /\ y = Chan(a, b)[i + h]
    BY <1>4, <1>5, <1>6, <1>7 DEF IsChanAfter
  <2>2. IsLeg(MonadRef, k, d, re, i + h) /\ Leg(MonadRef, d, re)[i + h] = y
    BY <1>3, <1>5, <2>1 DEF IsLeg, Leg
  <2>3. k \in DOMAIN promises[MonadRef]
    BY <1>2, <2>2, LegsAreThere
  <2>4. promises'[MonadRef][k].dependents = promises[MonadRef][k].dependents
    BY <1>2, <2>3, DirectBefore
  <2>5. Start(k) /\ StartOf(k)' = StartOf(k)
    BY <2>3, <2>4 DEF Start, StartOf
  <2>6. StartLegOK(k, re, y)
    BY <2>2, <2>3, <2>5, StartsMean
  <2>7. PICK p : p = StartOf(k)
    OBVIOUS
  <2>8. MadeFor(y.args, p) => MadeFor(y.args, p)'
    BY RefStays
  <2>9. StartOf(k)' = p
    BY <2>5, <2>7
  <2> QED BY <2>6, <2>7, <2>8, <2>9 DEF StartLegOK, MadeFor
<1>8. CASE ~ i <= g
  <2>1. PICK j : j = i - g
    OBVIOUS
  <2>2. j \in DOMAIN New(v, out, new, a, b) /\ y = New(v, out, new, a, b)[j]
    BY <1>4, <1>5, <1>6, <1>8, <2>1 DEF IsChanAfter
  <2>3. i \in Nat
    BY <1>4, <1>5, SeqDomain DEF IsChanAfter
  <2>4. NewLeg(s, v, out, new, MonadRef, k, d, re, i)
    BY <1>3, <1>5, <1>6, <2>1, <2>2, <2>3 DEF NewLeg
  <2>5. NewLegFrom(s, v, out, new, MonadRef, k, d, re, i)
    BY <2>4, NewLegIs
  <2>6. a = v
    BY <1>2, <1>3, <2>5 DEF NewLegFrom
  <2>7. AreNew(v, out, new, a, b)
    BY Arrivals
  <2>8. j \in DOMAIN At(out, b) /\ y = At(out, b)[j]
    BY <2>2, <2>6, <2>7 DEF AreNew
  <2>9. CASE re
    <3>1. b = MonadRef /\ d = v
      BY <1>3, <2>6, <2>9 DEF From, To
    <3>2. k \in DOMAIN promises[MonadRef]
      BY <1>5, <2>8, <2>9, <3>1 DEF SendsOnce
    <3>3. promises'[MonadRef][k].dependents = promises[MonadRef][k].dependents
      BY <1>2, <3>2, DirectBefore
    <3>4. Start(k) /\ StartOf(k)' = StartOf(k)
      BY <3>2, <3>3 DEF Start, StartOf
    <3>5. Direct(MonadRef, k)
      BY <3>4 DEF Direct
    <3>6. MonadRef = s /\ m.re = FALSE /\ k = m.prom
      BY <1>5, <2>8, <2>9, <3>1, <3>5 DEF SendsOnce
    <3>7. m = Chan(s, v)[1] /\ 1 \in DOMAIN Chan(s, v)
      BY <1>1, TakenIs
    <3>8. IsLeg(MonadRef, k, v, FALSE, 1) /\ Leg(MonadRef, v, FALSE)[1] = m
      BY <3>6, <3>7 DEF IsLeg, Leg, From, To
    <3>9. StartLegOK(k, FALSE, m)
      BY <3>2, <3>4, <3>8, StartsMean
    <3>10. m.fn = "create-vat" /\ m.args = StartOf(k)
      BY <3>9 DEF StartLegOK
    <3>11. MadeFor(y.args, m.args)'
      BY <1>5, <2>8, <2>9, <3>1, <3>6, <3>10 DEF StartsRight
    <3>12. m.args = StartOf(k)'
      BY <3>4, <3>10
    <3> QED BY <2>9, <3>11, <3>12 DEF StartLegOK, MadeFor
  <2>10. CASE ~ re
    <3>1. v = MonadRef /\ b = d
      BY <1>3, <2>6, <2>10 DEF From, To
    <3>2. CASE k \in DOMAIN promises[MonadRef]
      <4>1. promises'[MonadRef][k].dependents = promises[MonadRef][k].dependents
        BY <1>2, <3>2, DirectBefore
      <4>2. Direct(MonadRef, k)
        BY <3>2, <4>1 DEF Start, Direct
      <4>3. ~ Direct(MonadRef, k)
        BY <1>5, <2>8, <2>10, <3>1, <3>2 DEF SendsOnce
      <4> QED BY <4>2, <4>3
    <3>3. CASE k \notin DOMAIN promises[MonadRef]
      <4>1. promises'[MonadRef] = ps
        BY <1>1, <3>1 DEF AreVatsAfter
      <4>2. k \in DOMAIN ps /\ ps[k].dependents # <<>> /\ StartOf(k)' = ps[k].dependents[1].args
        BY <4>1 DEF Start, StartOf
      <4>3. y.fn = "create-vat" /\ y.args = ps[k].dependents[1].args
        BY <1>5, <2>8, <2>10, <3>1, <3>3, <4>2 DEF StartsRight
      <4> QED BY <2>10, <4>2, <4>3 DEF StartLegOK
    <3> QED BY <3>2, <3>3
  <2> QED BY <2>9, <2>10
<1> QED BY <1>6, <1>7, <1>8

-----------------------------------------------------------------------------
(* Mains before and after a handler *)

\* The channels from the threads only lose their oldest message.
LEMMA NotStartedBefore ==
  ASSUME VatsOK, MailOK, NEW s, NEW v, NEW m, NEW ps, NEW out, NEW new,
         Step(s, v, m, ps, out, new), NewOK(v, new), OutOK(v, out), NEW n
  PROVE  /\ Chan(Thread(n), MonadRef)' = (IF s = Thread(n) /\ v = MonadRef THEN Tail(Chan(Thread(n), MonadRef))
                                          ELSE Chan(Thread(n), MonadRef))
         /\ nodes' = nodes => (NotStarted(n)' => NotStarted(n))
<1>1. AreVatsAfter(v, ps, new) /\ v \in DOMAIN vats /\ Takes(s, v, m)
  BY VatsAfter DEF Step, NewOK
<1>2. PICK a : a = Thread(n)
  OBVIOUS
<1>3. a # v /\ a \notin Born(v, new)
  <2>1. a \notin Nodes \X Nat
    BY <1>2 DEF Thread
  <2> QED BY <1>1, <2>1 DEF AreVatsAfter, VatsOK
<1>4. PICK b : b = MonadRef
  OBVIOUS
<1>5. AreNew(v, out, new, a, b)
  BY Arrivals
<1>6. New(v, out, new, a, b) = <<>> /\ Len(<<>>) = 0
  BY <1>3, <1>5 DEF AreNew
<1>7. IsChanAfter(s, v, out, new, a, b)
  BY <1>1, <1>5, ChanAfter DEF AreNew, Step
<1>8. PICK q, r : q = Chan(a, b) /\ r = Chan(a, b)'
  OBVIOUS
<1>9. IsSeq(q) /\ IsSeq(r) /\ Len(r) = Kept(s, v, a, b) /\ DOMAIN r = 1 .. Len(r)
      /\ Kept(s, v, a, b) \in Nat /\ Len(q) = Kept(s, v, a, b) + Shift(s, v, a, b)
  BY <1>6, <1>7, <1>8, MailMeans DEF IsChanAfter
<1>10. \A i \in DOMAIN r : i <= Kept(s, v, a, b)
  BY <1>9
<1>11. \A i \in DOMAIN r : r[i] = q[i + Shift(s, v, a, b)]
  BY <1>7, <1>8, <1>10 DEF IsChanAfter
<1>12. CASE s = a /\ v = b
  <2>1. Shift(s, v, a, b) = 1 /\ q # <<>>
    BY <1>1, <1>8, <1>12, TakenIs DEF Shift
  <2>2. PICK t : t = Tail(q)
    OBVIOUS
  <2>3. IsSeq(t) /\ Len(t) = Len(q) - 1 /\ DOMAIN t = 1 .. Len(t) /\ \A i \in DOMAIN t : t[i] = q[i + 1]
    BY <1>9, <2>1, <2>2, TailIs
  <2>4. r = t
    <3>1. Len(t) = Len(r) /\ DOMAIN t = DOMAIN r
      BY <1>9, <2>1, <2>3
    <3>2. \A i \in DOMAIN r : r[i] = t[i]
      BY <1>11, <2>1, <2>3, <3>1
    <3>3. r \in Seq(ToSet(r)) /\ t \in Seq(ToSet(t))
      BY <1>9, <2>3 DEF IsSeq
    <3> QED BY <3>1, <3>2, <3>3, SeqSame
  <2>5. r # <<>> => q # <<>>
    BY <2>1
  <2> QED BY <1>2, <1>4, <1>8, <1>12, <2>2, <2>4, <2>5 DEF NotStarted
<1>13. CASE ~ (s = a /\ v = b)
  <2>1. Shift(s, v, a, b) = 0
    BY <1>13 DEF Shift
  <2>2. Len(r) = Len(q) /\ DOMAIN q = 1 .. Len(q) /\ DOMAIN r = DOMAIN q
    BY <1>9, <2>1, SeqDomain
  <2>3. \A i \in DOMAIN r : r[i] = q[i]
    BY <1>9, <1>11, <2>1
  <2>4. r = q
    BY <1>9, <2>2, <2>3, SeqSame DEF IsSeq
  <2> QED BY <1>2, <1>4, <1>8, <1>13, <2>4 DEF NotStarted
<1> QED BY <1>12, <1>13

\* A main under way after a handler was under way before, or is sent by it.
ComingOld(s, v, p, d, i) ==
  i \in Nat /\ i >= 1 /\ Coming(p, d, i + Shift(s, v, MonadRef, d))
ComingNew(s, v, out, p, d, i) ==
  LET j == i - Kept(s, v, MonadRef, d) IN
  /\ i \in Nat /\ Kept(s, v, MonadRef, d) \in Nat
  /\ v = MonadRef /\ j \in DOMAIN At(out, d)
  /\ ~ At(out, d)[j].re /\ At(out, d)[j].fn = "main" /\ At(out, d)[j].args = p

\* A main on its way was so before, or is sent by this step.
LEMMA ComingBefore ==
  ASSUME VatsOK, MailOK, NEW s, NEW v, NEW m, NEW ps, NEW out, NEW new,
         Step(s, v, m, ps, out, new), NewOK(v, new), OutOK(v, out),
         NEW p, NEW d, NEW i, Coming(p, d, i)'
  PROVE  ComingOld(s, v, p, d, i) \/ ComingNew(s, v, out, p, d, i)
<1>1. AreVatsAfter(v, ps, new) /\ v \in DOMAIN vats
  BY VatsAfter DEF Step, NewOK
<1>2. PICK a : a = MonadRef /\ a \notin Born(v, new)
  BY <1>1 DEF AreVatsAfter, VatsOK
<1>3. AreNew(v, out, new, a, d)
  BY Arrivals
<1>4. IsChanAfter(s, v, out, new, a, d)
  BY <1>3, ChanAfter DEF AreNew, Step
<1>5. PICK q : q = Chan(a, d)'
  OBVIOUS
<1>6. i \in DOMAIN q /\ q[i].re = FALSE /\ q[i].fn = "main" /\ q[i].args = p
  BY <1>2, <1>5 DEF Coming
<1>7. i \in Nat /\ i >= 1 /\ Kept(s, v, a, d) \in Nat
  BY <1>4, <1>5, <1>6, SeqDomain DEF IsChanAfter
<1>8. CASE i <= Kept(s, v, a, d)
  <2>1. i + Shift(s, v, a, d) \in DOMAIN Chan(a, d) /\ q[i] = Chan(a, d)[i + Shift(s, v, a, d)]
    BY <1>4, <1>5, <1>6, <1>8 DEF IsChanAfter
  <2> QED BY <1>2, <1>6, <1>7, <2>1 DEF ComingOld, Coming
<1>9. CASE ~ i <= Kept(s, v, a, d)
  <2>1. PICK j : j = i - Kept(s, v, a, d)
    OBVIOUS
  <2>2. j \in DOMAIN New(v, out, new, a, d) /\ q[i] = New(v, out, new, a, d)[j]
    BY <1>4, <1>5, <1>6, <1>9, <2>1 DEF IsChanAfter
  <2>3. a = v
    <3> SUFFICES ASSUME a # v PROVE FALSE
      OBVIOUS
    <3>1. New(v, out, new, a, d) = <<>>
      BY <1>2, <1>3 DEF AreNew
    <3> QED BY <2>2, <3>1, SeqDomain
  <2>4. j \in DOMAIN At(out, d) /\ q[i] = At(out, d)[j]
    BY <1>3, <2>2, <2>3 DEF AreNew
  <2> QED BY <1>2, <1>6, <1>7, <2>1, <2>3, <2>4 DEF ComingNew
<1> QED BY <1>8, <1>9

\* A promise that a main waits for was pending before, or is new.
LEMMA PendingBefore ==
  ASSUME VatsOK, MailOK, LegsOnce, NEW s, NEW v, NEW m, NEW ps, NEW out, NEW new,
         Step(s, v, m, ps, out, new), NewOK(v, new), Settles(v, m, ps),
         NEW p, NEW k, Pending(p, k)'
  PROVE  /\ k \in DOMAIN promises[MonadRef] => Pending(p, k)
         /\ k \notin DOMAIN promises[MonadRef] =>
              v = MonadRef /\ k \in DOMAIN ps /\ ps[k].dependents # <<>> /\ ps[k].dependents[1].args = p
<1>1. AreVatsAfter(v, ps, new) /\ v \in DOMAIN vats /\ Takes(s, v, m)
  BY VatsAfter DEF Step, NewOK
<1>2. PICK u \in DOMAIN vats : u = MonadRef
  BY DEF VatsOK
<1>3. k \in DOMAIN promises'[u] /\ promises'[u][k].dependents # <<>> /\ promises'[u][k].value = None
      /\ promises'[u][k].dependents[1].args = p
  BY <1>2 DEF Pending, Start, StartOf
<1>4. CASE k \in DOMAIN promises[u]
  <2>1. /\ promises'[u][k].dependents = promises[u][k].dependents
        /\ promises'[u][k].value = promises[u][k].value \/ (u = v /\ m.re /\ k = m.prom)
    BY <1>2, <1>4, DirectBefore
  <2>2. Start(k) /\ StartOf(k) = p
    BY <1>2, <1>3, <1>4, <2>1 DEF Start, StartOf
  <2>3. Direct(u, k)
    BY <1>2, <2>2 DEF Direct
  <2>4. promises[u][k].value = None
    <3>1. CASE u = v /\ m.re /\ k = m.prom
      <4>1. m = Chan(s, v)[1] /\ 1 \in DOMAIN Chan(s, v)
        BY <1>1, TakenIs
      <4>2. m.re \in BOOLEAN
        BY <1>1, TakenIs
      <4>3. IsLeg(u, k, s, TRUE, 1)
        BY <3>1, <4>1, <4>2 DEF IsLeg, Leg, From, To
      <4>4. LegsHere(u, k)
        BY <1>4, <2>3, LegsMean
      <4> QED BY <4>3, <4>4 DEF LegsHere
    <3>2. CASE ~ (u = v /\ m.re /\ k = m.prom)
      BY <1>3, <2>1, <3>2
    <3> QED BY <3>1, <3>2
  <2> QED BY <1>2, <1>4, <2>2, <2>4 DEF Pending
<1>5. CASE k \notin DOMAIN promises[u]
  <2>1. u = v
    BY <1>1, <1>3, <1>5 DEF AreVatsAfter
  <2>2. promises'[u] = ps
    BY <1>1, <2>1 DEF AreVatsAfter
  <2> QED BY <1>2, <1>3, <1>5, <2>1, <2>2
<1> QED BY <1>2, <1>4, <1>5

\* The main of a program is in one of four places, and a handler moves it to
\* the next of them: its start, its vat's promise, its way to the vat, its run.
OnePlace(p) ==
  /\ NotStarted(p) => ran[p] = <<>>
  /\ \A k : Pending(p, k) =>
       /\ ~ NotStarted(p) /\ ran[p] = <<>>
       /\ \A l : Pending(p, l) => k = l
       /\ \A d, i : ~ Coming(p, d, i)
  /\ \A d, i : Coming(p, d, i) =>
       /\ ~ NotStarted(p) /\ ran[p] = <<>>
       /\ \A e, j : Coming(p, e, j) => d = e /\ i = j
RanOnce(p) == IsSeq(ran[p]) /\ Len(ran[p]) <= 1 /\ \A v \in ToSet(ran[p]) : MadeFor(v, p)
Moves(s, v, p) ==
  /\ NotStarted(p)' => NotStarted(p)
  /\ \A k : Pending(p, k)' => \/ Pending(p, k)
                              \/ /\ NotStarted(p) /\ ~ NotStarted(p)'
                                 /\ \A l : Pending(p, l)' => Pending(p, l) \/ k = l
  /\ \A d, i : Coming(p, d, i)' => \/ ComingOld(s, v, p, d, i)
                                   \/ /\ \E k : Pending(p, k) /\ ~ Pending(p, k)'
                                      /\ \A e, j : Coming(p, e, j)' => ComingOld(s, v, p, e, j) \/ (d = e /\ i = j)
  /\ ran'[p] = ran[p] \/ (s = MonadRef /\ Coming(p, v, 1) /\ ran'[p] = Append(ran[p], v))

\* MainsOK, one program at a time.
LEMMA PlacesMean ==
  ASSUME VatsOK, MailOK
  PROVE  MainsOK <=> \A p \in Programs : OnePlace(p) /\ RanOnce(p)
<1>1. \A p, k : Pending(p, k) => k \in DOMAIN promises[MonadRef]
  BY DEF Pending, Start
<1>2. ASSUME NEW p, NEW d, NEW i, Coming(p, d, i) PROVE d \in DOMAIN vats /\ i \in DOMAIN Chan(MonadRef, d)
  <2>1. PICK x : x = Chan(MonadRef, d)[i]
    OBVIOUS
  <2>2. i \in DOMAIN Chan(MonadRef, d) /\ x.re = FALSE
    BY <1>2, <2>1 DEF Coming
  <2>3. MessageOK(MonadRef, d, x)
    BY <2>1, <2>2, MailMeans
  <2> QED BY <2>2, <2>3 DEF MessageOK, RequestOK
<1> QED BY <1>1, <1>2, Zenon DEF MainsOK, OnePlace, RanOnce

\* A program that moves on from one place to the next is in one place.
LEMMA MovesOne ==
  ASSUME VatsOK, MailOK, Grows, NEW s, NEW v, NEW p \in Programs, OnePlace(p), RanOnce(p), Moves(s, v, p)
  PROVE  OnePlace(p)' /\ RanOnce(p)'
<1> DEFINE Gone == s = MonadRef /\ Coming(p, v, 1)
<1>1. NotStarted(p)' => NotStarted(p)
  BY DEF Moves
<1>2. ran'[p] = ran[p] \/ (Gone /\ ran'[p] = Append(ran[p], v))
  BY DEF Moves
<1>3. Gone => ran[p] = <<>> /\ ~ NotStarted(p) /\ \A k : ~ Pending(p, k)
  BY DEF OnePlace
<1>4. ASSUME Gone, NEW d, NEW i PROVE ~ ComingOld(s, v, p, d, i)
  <2> SUFFICES ASSUME ComingOld(s, v, p, d, i) PROVE FALSE
    OBVIOUS
  <2>1. d = v /\ i + Shift(s, v, MonadRef, d) = 1 /\ i \in Nat /\ i >= 1
    BY <1>4 DEF ComingOld, OnePlace
  <2>2. Shift(s, v, MonadRef, d) = 1
    BY <1>4, <2>1 DEF Shift
  <2> QED BY <2>1, <2>2
<1>5. \A d, i : Coming(p, d, i)' => ComingOld(s, v, p, d, i) \/ \E k : Pending(p, k) /\ ~ Pending(p, k)'
  BY DEF Moves
<1>6. Gone => \A d, i : ~ Coming(p, d, i)'
  BY <1>3, <1>4, <1>5
<1>7. ASSUME NEW d, NEW i, NEW e, NEW j, ComingOld(s, v, p, d, i), ComingOld(s, v, p, e, j)
      PROVE  d = e /\ i = j
  <2>1. d = e /\ i + Shift(s, v, MonadRef, d) = j + Shift(s, v, MonadRef, e) /\ i \in Nat /\ j \in Nat
    BY <1>7 DEF ComingOld, OnePlace
  <2> QED BY <2>1 DEF Shift
<1>8. ASSUME NEW d, NEW i, ComingOld(s, v, p, d, i)
      PROVE  ~ NotStarted(p) /\ ran[p] = <<>> /\ \A k : ~ Pending(p, k)
  BY <1>8 DEF ComingOld, OnePlace
<1>9. \A k : Pending(p, k)' => \/ Pending(p, k)
                               \/ /\ NotStarted(p) /\ ~ NotStarted(p)'
                                  /\ \A l : Pending(p, l)' => Pending(p, l) \/ k = l
  BY DEF Moves
<1>10. \A k : Pending(p, k) => ~ NotStarted(p) /\ ran[p] = <<>> /\ \A l : Pending(p, l) => k = l
  BY DEF OnePlace
<1>11. \A d, i : Coming(p, d, i)' => \/ ComingOld(s, v, p, d, i)
                                     \/ /\ \E k : Pending(p, k) /\ ~ Pending(p, k)'
                                        /\ \A e, j : Coming(p, e, j)' => ComingOld(s, v, p, e, j) \/ (d = e /\ i = j)
  BY DEF Moves
<1>12. NotStarted(p) => ran[p] = <<>> /\ ~ Gone
  BY <1>3 DEF OnePlace
<1> HIDE DEF Gone
<1>13. ASSUME NEW k, Pending(p, k)'
       PROVE  /\ ~ NotStarted(p)' /\ ran'[p] = <<>>
              /\ \A l : Pending(p, l)' => k = l
              /\ \A d, i : ~ Coming(p, d, i)'
  <2>1. CASE Pending(p, k)
    <3>1. ~ NotStarted(p)'
      BY <1>1, <1>10, <2>1
    <3>2. ran'[p] = <<>>
      BY <1>2, <1>3, <1>10, <2>1
    <3>3. \A l : Pending(p, l)' => k = l
      BY <1>9, <1>10, <2>1
    <3>4. ASSUME NEW d, NEW i, Coming(p, d, i)' PROVE FALSE
      <4>1. ~ ComingOld(s, v, p, d, i)
        BY <1>8, <2>1
      <4>2. PICK l : Pending(p, l) /\ ~ Pending(p, l)'
        BY <1>11, <3>4, <4>1
      <4>3. l = k
        BY <1>10, <2>1, <4>2
      <4> QED BY <1>13, <4>2, <4>3
    <3> QED BY <3>1, <3>2, <3>3, <3>4
  <2>2. CASE ~ Pending(p, k)
    <3>1. /\ NotStarted(p) /\ ~ NotStarted(p)'
          /\ \A l : Pending(p, l)' => Pending(p, l) \/ k = l
      BY <1>9, <1>13, <2>2
    <3>2. \A l : ~ Pending(p, l)
      BY <1>10, <3>1
    <3>3. ran'[p] = <<>>
      BY <1>2, <1>12, <3>1
    <3>4. \A d, i : ~ Coming(p, d, i)'
      BY <1>5, <1>8, <3>1, <3>2
    <3> QED BY <3>1, <3>2, <3>3, <3>4
  <2> QED BY <2>1, <2>2
<1>14. ASSUME NEW d, NEW i, Coming(p, d, i)'
       PROVE  /\ ~ NotStarted(p)' /\ ran'[p] = <<>>
              /\ \A e, j : Coming(p, e, j)' => d = e /\ i = j
  <2>1. ~ Gone
    BY <1>6, <1>14
  <2>2. CASE ComingOld(s, v, p, d, i)
    <3>1. ~ NotStarted(p)' /\ ran'[p] = <<>>
      BY <1>1, <1>2, <1>8, <2>1, <2>2
    <3>2. ASSUME NEW e, NEW j, Coming(p, e, j)' PROVE d = e /\ i = j
      <4>1. ComingOld(s, v, p, e, j)
        BY <1>5, <1>8, <2>2, <3>2
      <4> QED BY <1>7, <2>2, <4>1
    <3> QED BY <3>1, <3>2
  <2>3. CASE ~ ComingOld(s, v, p, d, i)
    <3>1. PICK k : Pending(p, k) /\ ~ Pending(p, k)'
      BY <1>11, <1>14, <2>3
    <3>2. ~ NotStarted(p)' /\ ran'[p] = <<>>
      BY <1>1, <1>2, <1>10, <2>1, <3>1
    <3>3. \A e, j : Coming(p, e, j)' => d = e /\ i = j
      BY <1>8, <1>11, <1>14, <2>3, <3>1
    <3> QED BY <3>2, <3>3
  <2> QED BY <2>2, <2>3
<1>15. NotStarted(p)' => ran'[p] = <<>>
  BY <1>1, <1>2, <1>12
<1>16. OnePlace(p)'
  BY <1>13, <1>14, <1>15 DEF OnePlace
<1>17. RanOnce(p)'
  <2>1. CASE ran'[p] = ran[p]
    <3>1. \A w : MadeFor(w, p) => MadeFor(w, p)'
      BY RefStays
    <3> QED BY <2>1, <3>1 DEF RanOnce
  <2>2. CASE Gone /\ ran'[p] = Append(ran[p], v)
    <3>1. ran'[p] = <<v>>
      <4>1. Append(<<>>, v) = <<v>>
        OBVIOUS
      <4>2. ran[p] = <<>> /\ ran'[p] = Append(ran[p], v)
        BY <1>3, <2>2
      <4> QED BY <4>1, <4>2, Zenon
    <3>2. PICK r : r = ran'[p]
      OBVIOUS
    <3>3. IsSeq(r) /\ Len(r) = 1 /\ DOMAIN r = 1 .. 1 /\ r[1] = v
      BY <3>1, <3>2, SeqDomain
    <3>4. \A w \in ToSet(r) : w = v
      BY <3>3 DEF ToSet
    <3>5. MadeFor(v, p)
      <4>1. PICK x : x = Chan(MonadRef, v)[1]
        OBVIOUS
      <4>2. 1 \in DOMAIN Chan(MonadRef, v) /\ x.re = FALSE /\ x.fn = "main" /\ x.args = p
        BY <2>2, <4>1 DEF Coming, Gone
      <4>3. MessageOK(MonadRef, v, x)
        BY <4>1, <4>2, MailMeans
      <4>4. RequestOK(MonadRef, v, x) /\ ~ ThreadRequestOK(MonadRef, v, x)
        BY <4>2, <4>3 DEF MessageOK, ThreadRequestOK
      <4>5. CallOK(MonadRef, v, x.fn, x.args, x.prom)
        BY <4>4 DEF RequestOK, VatRequestOK
      <4> QED BY <4>2, <4>5 DEF CallOK
    <3>6. MadeFor(v, p)'
      BY <3>5, RefStays
    <3> QED BY <3>2, <3>3, <3>4, <3>6 DEF RanOnce
  <2> QED BY <1>2, <2>1, <2>2
<1> QED BY <1>16, <1>17

\* If each program moves on, or stays, its main is still in one place.
LEMMA MainsStay ==
  ASSUME VatsOK, MailOK, MainsOK, Grows, NEW s, NEW v, \A p \in Programs : Moves(s, v, p)
  PROVE  MainsOK'
<1>1. \A p \in Programs : OnePlace(p) /\ RanOnce(p)
  BY PlacesMean
<1>2. \A p \in Programs : OnePlace(p)' /\ RanOnce(p)'
  BY <1>1, MovesOne
<1> QED BY <1>2, Zenon DEF MainsOK, OnePlace, RanOnce

\* Most handlers start nothing.
MainsQuiet(v, ps, out) ==
  v = MonadRef =>
    /\ \A k \in DOMAIN ps : k \notin DOMAIN promises[v] => ps[k].dependents = <<>>
    /\ \A d : \A j \in DOMAIN At(out, d) : ~ At(out, d)[j].re => At(out, d)[j].fn # "main"

\* A step that has nothing to do with mains leaves every program where it is.
LEMMA QuietMoves ==
  ASSUME VatsOK, MailOK, LegsOnce, NEW s, NEW v, NEW m, NEW ps, NEW out, NEW new,
         Step(s, v, m, ps, out, new), NewOK(v, new), OutOK(v, out), Settles(v, m, ps),
         MainsQuiet(v, ps, out), ran' = ran, nodes' = nodes
  PROVE  \A p \in Programs : Moves(s, v, p)
<1> SUFFICES ASSUME NEW p \in Programs PROVE Moves(s, v, p)
  OBVIOUS
<1>1. NotStarted(p)' => NotStarted(p)
  BY NotStartedBefore
<1>2. ASSUME NEW k, Pending(p, k)' PROVE Pending(p, k)
  BY <1>2, PendingBefore DEF MainsQuiet
<1>3. ASSUME NEW d, NEW i, Coming(p, d, i)' PROVE ComingOld(s, v, p, d, i)
  <2>1. ~ ComingNew(s, v, out, p, d, i)
    BY DEF ComingNew, MainsQuiet
  <2> QED BY <1>3, <2>1, ComingBefore
<1> QED BY <1>1, <1>2, <1>3 DEF Moves

-----------------------------------------------------------------------------
(* Prints before and after a handler *)

Io == <<0, 2>>

\* The Io is the vat <<0, 2>>, and no program is.
LEMMA IoIs ==
  ASSUME VatsOK, SystemOK
  PROVE  /\ system # <<>> => system["Io"] = Io /\ Io \in DOMAIN vats /\ vats[Io].kind = "Io"
         /\ \A v \in DOMAIN vats : vats[v].kind = "Program" => v # Io /\ v # MonadRef
         /\ Io # None /\ Io # MonadRef
<1>1. "Io" \in Names
  BY DEF Names, SystemNames, ToSet
<1>2. system # <<>> => system["Io"] = Io /\ Io \in DOMAIN vats /\ vats[Io].kind = "Io"
  BY <1>1 DEF SystemOK, VatsOK, VatOK, Io
<1>3. ASSUME NEW v \in DOMAIN vats, vats[v].kind = "Program" PROVE v # Io /\ v # MonadRef
  <2>1. v # MonadRef
    BY <1>3 DEF VatsOK
  <2>2. CASE system # <<>>
    BY <1>2, <1>3, <2>1, <2>2
  <2>3. CASE system = <<>>
    <3>1. v[2] < base[v[1]] /\ base[0] = 2
      BY <2>3 DEF VatsOK, SystemOK
    <3> QED BY <2>1, <3>1 DEF Io
  <2> QED BY <2>2, <2>3
<1>4. Io # None /\ Io # MonadRef
  BY ValueAssumption DEF ValueAssumption, Io, MonadRef
<1> QED BY <1>2, <1>3, <1>4

\* What is under way from another vat was under way before.
LEMMA OthersSendNothing ==
  ASSUME VatsOK, MailOK, NEW s, NEW v, NEW m, NEW ps, NEW out, NEW new,
         Step(s, v, m, ps, out, new), NewOK(v, new), OutOK(v, out),
         NEW w \in DOMAIN vats', w # v
  PROVE  /\ IsSeq(Chan(w, Io)')
         /\ \A i \in DOMAIN Chan(w, Io)' :
              /\ i \in Nat /\ i >= 1 /\ i + Shift(s, v, w, Io) \in DOMAIN Chan(w, Io)
              /\ Chan(w, Io)'[i] = Chan(w, Io)[i + Shift(s, v, w, Io)]
         /\ w \notin DOMAIN vats => \A i : i \notin DOMAIN Chan(w, Io)'
<1>1. AreVatsAfter(v, ps, new)
  BY VatsAfter DEF Step, NewOK
<1>2. PICK d : d = Io /\ d # MonadRef
  <2>1. Io # MonadRef
    BY DEF Io, MonadRef
  <2> QED BY <2>1
<1>3. AreNew(v, out, new, w, d)
  BY Arrivals
<1>4. IsChanAfter(s, v, out, new, w, d)
  BY <1>3, ChanAfter DEF AreNew, Step
<1>5. New(v, out, new, w, d) = <<>> /\ Len(<<>>) = 0
  BY <1>2, <1>3 DEF AreNew
<1>6. PICK q, r : q = Chan(w, d) /\ r = Chan(w, d)'
  OBVIOUS
<1>7. /\ IsSeq(r) /\ DOMAIN r = 1 .. Len(r) /\ Len(r) = Kept(s, v, w, d) /\ Kept(s, v, w, d) \in Nat
      /\ \A i \in DOMAIN r : i <= Kept(s, v, w, d) =>
           i + Shift(s, v, w, d) \in DOMAIN q /\ r[i] = q[i + Shift(s, v, w, d)]
  BY <1>4, <1>5, <1>6 DEF IsChanAfter
<1>8. \A i \in DOMAIN r : i \in Nat /\ i >= 1 /\ i <= Kept(s, v, w, d)
  BY <1>7
<1>9. CASE w \notin DOMAIN vats
  <2>1. w \in Nodes \X Nat
    BY <1>1, <1>9 DEF AreVatsAfter
  <2>2. \A i : i \notin DOMAIN q
    <3> SUFFICES ASSUME NEW i \in DOMAIN q PROVE FALSE
      OBVIOUS
    <3>1. PICK x : x = q[i]
      OBVIOUS
    <3>2. MessageOK(w, d, x)
      BY <1>6, <3>1, MailMeans
    <3>3. ~ ThreadRequestOK(w, d, x)
      BY <2>1 DEF ThreadRequestOK, Thread, Keyboard
    <3> QED BY <1>9, <3>2, <3>3 DEF MessageOK, ResponseOK, RequestOK, VatRequestOK
  <2>3. \A i : i \notin DOMAIN r
    BY <1>7, <1>8, <2>2
  <2> QED BY <1>2, <1>6, <1>7, <1>8, <2>3
<1>10. CASE w \in DOMAIN vats
  BY <1>2, <1>6, <1>7, <1>8, <1>10
<1> QED BY <1>9, <1>10

\* What a program's handler sends to the Io, and leaves waiting.
PrintsSent(v, ps, out) ==
  /\ Increasing(At(out, Io))
  /\ \A k \in DOMAIN ps : Increasing(ps[k].dependents)
  /\ (\E j \in DOMAIN At(out, Io) : IsPrint(At(out, Io)[j])) =>
       NonePrinted(v) /\ HasRun(v)' /\ ("Io" \in ToSet(Caps(v)) => ps[Cap(v, "Io")].value # None)
  /\ "Io" \in ToSet(Caps(v)) /\ ps[Cap(v, "Io")].value = None => NonePrinted(v)
  /\ ~ HasRun(v)' => NonePrinted(v) /\ \A k \in DOMAIN ps : ps[k].dependents = <<>>
RanStays == DOMAIN ran' = DOMAIN ran /\ \A p \in Programs : ran[p] # <<>> => ran'[p] = ran[p]
Printed(s, v, m) ==
  \/ prints' = prints
  \/ /\ v = Io /\ IsPrint(m) /\ s \in DOMAIN vats /\ vats[s].kind = "Program"
     /\ m.args \in Nat /\ prints' = Put(prints, s, <<m.args>>)

\* A step does not bring the prints of other vats out of order.
LEMMA OthersPrints ==
  ASSUME VatsOK, MailOK, PrintsOK, NEW s, NEW v, NEW m, NEW ps, NEW out, NEW new,
         Step(s, v, m, ps, out, new), NewOK(v, new), OutOK(v, out), RanStays, Printed(s, v, m),
         NEW w \in DOMAIN vats', w # v, vats'[w].kind = "Program"
  PROVE  PrintsOf(w)'
<1>1. AreVatsAfter(v, ps, new) /\ v \in DOMAIN vats /\ Takes(s, v, m)
  BY VatsAfter DEF Step, NewOK
<1>2. PICK q, r, h : q = Chan(w, Io) /\ r = Chan(w, Io)' /\ h = Shift(s, v, w, Io)
  OBVIOUS
<1>3. /\ IsSeq(r) /\ \A i \in DOMAIN r : i \in Nat /\ i >= 1 /\ i + h \in DOMAIN q /\ r[i] = q[i + h]
      /\ w \notin DOMAIN vats => \A i : i \notin DOMAIN r
  BY <1>2, OthersSendNothing
<1>4. PICK done, then : done = At(prints, w) /\ then = At(prints', w)
  OBVIOUS
<1>5. h \in {0, 1}
  BY <1>2 DEF Shift
<1>6. \/ then = done
      \/ /\ w = s /\ v = Io /\ w \in DOMAIN vats /\ h = 1 /\ IsPrint(m) /\ m.args \in Nat
         /\ then = done \o <<m.args>>
  <2>1. CASE prints' = prints
    BY <1>4, <2>1
  <2>2. CASE prints' # prints
    <3>1. /\ v = Io /\ IsPrint(m) /\ s \in DOMAIN vats
          /\ m.args \in Nat /\ prints' = Put(prints, s, <<m.args>>)
      BY <2>2 DEF Printed
    <3>2. CASE w = s
      <4>1. then = done \o <<m.args>>
        BY <1>4, <3>1, <3>2 DEF Put, At
      <4>2. h = 1
        BY <1>2, <3>1, <3>2 DEF Shift
      <4> QED BY <3>1, <3>2, <4>1, <4>2
    <3>3. CASE w # s
      BY <1>4, <3>1, <3>3 DEF Put, At
    <3> QED BY <3>2, <3>3
  <2> QED BY <2>1, <2>2
<1>7. IsSeq(done) /\ (w \notin DOMAIN vats => done = <<>>) /\ \A i \in DOMAIN done : done[i] \in Nat
  <2>1. CASE w \in DOMAIN prints
    BY <1>4, <2>1 DEF PrintsOK, At
  <2>2. CASE w \notin DOMAIN prints
    BY <1>4, <2>2, SeqDomain DEF At
  <2> QED BY <2>1, <2>2
<1>8. CASE w \notin DOMAIN vats
  <2>1. then = <<>> /\ \A i : i \notin DOMAIN r
    BY <1>3, <1>6, <1>7, <1>8
  <2>2. \A k \in DOMAIN promises'[w] : promises'[w][k].dependents = <<>>
    BY <1>1, <1>8 DEF AreVatsAfter, Promise
  <2>3. DOMAIN << >> = {}
    BY SeqDomain
  <2>4. NonePrinted(w)'
    BY <1>2, <1>4, <2>1 DEF NonePrinted, Io
  <2> QED BY <1>2, <1>4, <2>1, <2>2, <2>3, <2>4 DEF PrintsOf, Increasing, Io
<1>9. CASE w \in DOMAIN vats
  <2>1. vats'[w] = vats[w] /\ promises'[w] = promises[w]
    BY <1>1, <1>9 DEF AreVatsAfter
  <2>2. PrintsOf(w)
    BY <1>9, <2>1 DEF PrintsOK
  <2>3. Caps(w)' = Caps(w) /\ Cap(w, "Io")' = Cap(w, "Io")
    BY <2>1 DEF Caps, Cap
  <2>4. HasRun(w) => HasRun(w)'
    BY <2>1 DEF HasRun, RanStays
  <2>5. Increasing(q) /\ (\A i, j \in DOMAIN done : i < j => done[i] < done[j])
        /\ \A i \in DOMAIN done : \A j \in DOMAIN q : IsPrint(q[j]) => done[i] < q[j].args
    BY <1>2, <1>4, <2>2 DEF PrintsOf, Io
  <2>6. /\ \A k \in DOMAIN promises[w] : Increasing(promises[w][k].dependents)
        /\ "Io" \in ToSet(Caps(w)) /\ promises[w][Cap(w, "Io")].value = None => NonePrinted(w)
        /\ ~ HasRun(w) => NonePrinted(w) /\ \A k \in DOMAIN promises[w] : promises[w][k].dependents = <<>>
    BY <2>2 DEF PrintsOf
  <2>7. NonePrinted(w) <=> done = <<>> /\ \A i \in DOMAIN q : ~ IsPrint(q[i])
    BY <1>2, <1>4 DEF NonePrinted, Io
  <2>8. IsSeq(q) /\ DOMAIN q = 1 .. Len(q) /\ Len(q) \in Nat
    BY <1>2, MailMeans
  <2>9. \A i \in DOMAIN q : IsPrint(q[i]) => q[i].args \in Int
    <3> SUFFICES ASSUME NEW i \in DOMAIN q, IsPrint(q[i]) PROVE q[i].args \in Int
      OBVIOUS
    <3>1. PICK x : x = q[i]
      OBVIOUS
    <3>2. MessageOK(w, Io, x) /\ x.re = FALSE /\ x.fn = "print"
      BY <1>2, <3>1, MailMeans DEF IsPrint
    <3>3. RequestOK(w, Io, x) /\ ~ ThreadRequestOK(w, Io, x)
      BY <3>2 DEF MessageOK, ThreadRequestOK
    <3>4. CallOK(w, Io, x.fn, x.args, x.prom)
      BY <3>3 DEF RequestOK, VatRequestOK
    <3> QED BY <3>1, <3>2, <3>4 DEF CallOK
  <2>10. Increasing(r)
    <3> SUFFICES ASSUME NEW i \in DOMAIN r, NEW j \in DOMAIN r, i < j, IsPrint(r[i]), IsPrint(r[j])
                 PROVE  r[i].args < r[j].args
      BY DEF Increasing
    <3>1. i + h \in DOMAIN q /\ r[i] = q[i + h] /\ j + h \in DOMAIN q /\ r[j] = q[j + h] /\ i + h < j + h
      BY <1>3, <1>5
    <3> QED BY <2>5, <3>1 DEF Increasing
  <2>11. CASE then = done
    <3>1. \A i \in DOMAIN done : \A j \in DOMAIN r : IsPrint(r[j]) => done[i] < r[j].args
      BY <1>3, <2>5
    <3>2. (\A i \in DOMAIN q : ~ IsPrint(q[i])) => \A i \in DOMAIN r : ~ IsPrint(r[i])
      BY <1>3
    <3>3. NonePrinted(w)' <=> done = <<>> /\ \A i \in DOMAIN r : ~ IsPrint(r[i])
      BY <1>2, <1>4, <2>11 DEF NonePrinted, Io
    <3>4. NonePrinted(w) => NonePrinted(w)'
      BY <2>7, <3>2, <3>3
    <3>5. /\ \A k \in DOMAIN promises'[w] : Increasing(promises'[w][k].dependents)
          /\ "Io" \in ToSet(Caps(w)') /\ promises'[w][Cap(w, "Io")'].value = None => NonePrinted(w)'
          /\ ~ HasRun(w)' => NonePrinted(w)' /\ \A k \in DOMAIN promises'[w] : promises'[w][k].dependents = <<>>
      BY <2>1, <2>3, <2>4, <2>6, <3>4
    <3> QED BY <1>2, <1>4, <2>5, <2>10, <2>11, <3>1, <3>5 DEF PrintsOf, Io, Increasing, IsPrint
  <2>12. CASE then # done
    <3>1. /\ w = s /\ v = Io /\ h = 1 /\ IsPrint(m) /\ m.args \in Nat /\ then = done \o <<m.args>>
      BY <1>6, <2>12
    <3>2. 1 \in DOMAIN q /\ m = q[1]
      BY <1>1, <1>2, <3>1, TakenIs
    <3>3. ~ NonePrinted(w)
      BY <2>7, <3>1, <3>2
    <3>4. HasRun(w)' /\ ~ ("Io" \in ToSet(Caps(w)) /\ promises[w][Cap(w, "Io")].value = None)
      BY <2>4, <2>6, <3>3
    <3>5. PICK t : t = <<m.args>>
      OBVIOUS
    <3>6. IsSeq(t) /\ Len(t) = 1 /\ DOMAIN t = 1 .. 1 /\ t[1] = m.args
      BY <3>5, SeqDomain
    <3>7. IsJoin(then, done, t)
      BY <1>7, <3>1, <3>5, <3>6, CatIs DEF Joins
    <3>8. PICK l \in Nat : l = Len(done) /\ DOMAIN done = 1 .. l /\ DOMAIN then = 1 .. l + 1
      BY <1>7, <3>6, <3>7, SeqDomain DEF IsJoin
    <3>9. (\A i \in 1 .. l : then[i] = done[i]) /\ then[l + 1] = m.args
      <4>1. \A i \in 1 .. l : then[i] = done[i]
        BY <3>7, <3>8 DEF IsJoin
      <4>2. l + 1 \in DOMAIN then /\ ~ l + 1 <= l /\ (l + 1) - l = 1
        BY <3>8
      <4>3. then[l + 1] = t[(l + 1) - l]
        BY <3>7, <3>8, <4>2 DEF IsJoin
      <4> QED BY <3>6, <4>1, <4>2, <4>3
    <3>10. \A i \in 1 .. l : done[i] < m.args
      BY <2>5, <3>1, <3>2, <3>8
    <3>11. \A i, j \in DOMAIN then : i < j => then[i] < then[j]
      <4> SUFFICES ASSUME NEW i \in 1 .. l + 1, NEW j \in 1 .. l + 1, i < j PROVE then[i] < then[j]
        BY <3>8
      <4>1. i \in 1 .. l /\ then[i] = done[i]
        BY <3>9
      <4>2. CASE j = l + 1
        BY <3>9, <3>10, <4>1, <4>2
      <4>3. CASE j # l + 1
        <5>1. j \in 1 .. l /\ then[j] = done[j]
          BY <3>9, <4>3
        <5> QED BY <2>5, <3>8, <4>1, <5>1
      <4> QED BY <4>2, <4>3
    <3>12. \A j \in DOMAIN r : IsPrint(r[j]) => m.args < r[j].args
      <4> SUFFICES ASSUME NEW j \in DOMAIN r, IsPrint(r[j]) PROVE m.args < r[j].args
        OBVIOUS
      <4>1. j + 1 \in DOMAIN q /\ r[j] = q[j + 1] /\ 1 < j + 1
        BY <1>3, <3>1
      <4> QED BY <2>5, <3>1, <3>2, <4>1 DEF Increasing
    <3>13. \A i \in DOMAIN then : \A j \in DOMAIN r : IsPrint(r[j]) => then[i] < r[j].args
      <4> SUFFICES ASSUME NEW i \in 1 .. l + 1, NEW j \in DOMAIN r, IsPrint(r[j]) PROVE then[i] < r[j].args
        BY <3>8
      <4>1. CASE i = l + 1
        BY <3>9, <3>12, <4>1
      <4>2. CASE i # l + 1
        <5>1. i \in 1 .. l /\ then[i] = done[i]
          BY <3>9, <4>2
        <5>2. j + h \in DOMAIN q /\ r[j] = q[j + h]
          BY <1>3
        <5> QED BY <2>5, <3>8, <5>1, <5>2
      <4> QED BY <4>1, <4>2
    <3>14. /\ \A k \in DOMAIN promises'[w] : Increasing(promises'[w][k].dependents)
           /\ ~ ("Io" \in ToSet(Caps(w)') /\ promises'[w][Cap(w, "Io")'].value = None)
      BY <2>1, <2>3, <2>6, <3>4
    <3> QED BY <1>2, <1>4, <2>10, <3>4, <3>11, <3>13, <3>14 DEF PrintsOf, Io, Increasing, IsPrint
  <2> QED BY <2>11, <2>12
<1> QED BY <1>8, <1>9

\* A program does not bring its own prints out of order.
LEMMA OwnPrints ==
  ASSUME VatsOK, SystemOK, MailOK, PrintsOK, NEW s, NEW v, NEW m, NEW ps, NEW out, NEW new,
         Step(s, v, m, ps, out, new), NewOK(v, new), OutOK(v, out),
         vats[v].kind = "Program", PrintsSent(v, ps, out), prints' = prints
  PROVE  PrintsOf(v)'
<1>1. AreVatsAfter(v, ps, new) /\ v \in DOMAIN vats
  BY VatsAfter DEF Step, NewOK
<1>2. v # Io /\ vats'[v] = vats[v] /\ promises'[v] = ps
  BY <1>1, IoIs DEF AreVatsAfter
<1>3. PICK d : d = Io
  OBVIOUS
<1>4. AreNew(v, out, new, v, d)
  BY Arrivals
<1>5. IsChanAfter(s, v, out, new, v, d)
  BY <1>4, ChanAfter DEF AreNew, Step
<1>6. PICK q, r, n : q = Chan(v, d) /\ r = Chan(v, d)' /\ n = At(out, d)
  OBVIOUS
<1>7. New(v, out, new, v, d) = n /\ Shift(s, v, v, d) = 0
  BY <1>2, <1>3, <1>4, <1>6 DEF AreNew, Shift
<1>8. PICK l \in Nat : l = Len(q) /\ DOMAIN q = 1 .. l
  BY <1>6, MailMeans
<1>9. Kept(s, v, v, d) = l
  BY <1>6, <1>7, <1>8 DEF Kept
<1>10. /\ DOMAIN r = 1 .. Len(r) /\ Len(r) = l + Len(n)
       /\ \A i \in DOMAIN r : i <= l => i \in DOMAIN q /\ r[i] = q[i]
       /\ \A i \in DOMAIN r : ~ i <= l => i - l \in DOMAIN n /\ r[i] = n[i - l]
  <2>1. \A i \in DOMAIN r : i <= l => i + 0 \in DOMAIN q /\ r[i] = q[i + 0]
    BY <1>5, <1>6, <1>7, <1>9 DEF IsChanAfter
  <2>2. DOMAIN r = 1 .. Len(r) /\ Len(r) = l + Len(n)
        /\ \A i \in DOMAIN r : ~ i <= l => i - l \in DOMAIN n /\ r[i] = n[i - l]
    BY <1>5, <1>6, <1>7, <1>9 DEF IsChanAfter
  <2>3. \A i \in DOMAIN r : i + 0 = i
    BY <2>2
  <2> QED BY <2>1, <2>2, <2>3
<1>11. DOMAIN n = 1 .. Len(n) /\ Len(n) \in Nat
  BY <1>6, SeqDomain DEF OutOK
<1>12. PrintsOf(v)
  BY <1>1 DEF PrintsOK
<1>13. PICK done : done = At(prints, v)
  OBVIOUS
<1>14. /\ Increasing(q) /\ (\A i, j \in DOMAIN done : i < j => done[i] < done[j])
       /\ \A i \in DOMAIN done : \A j \in DOMAIN q : IsPrint(q[j]) => done[i] < q[j].args
  BY <1>3, <1>6, <1>12, <1>13 DEF PrintsOf, Io
<1>15. NonePrinted(v) <=> done = <<>> /\ \A i \in DOMAIN q : ~ IsPrint(q[i])
  BY <1>3, <1>6, <1>13 DEF NonePrinted, Io
<1>16. /\ Increasing(n) /\ \A k \in DOMAIN ps : Increasing(ps[k].dependents)
       /\ (\E j \in DOMAIN n : IsPrint(n[j])) =>
            NonePrinted(v) /\ HasRun(v)' /\ ("Io" \in ToSet(Caps(v)) => ps[Cap(v, "Io")].value # None)
       /\ "Io" \in ToSet(Caps(v)) /\ ps[Cap(v, "Io")].value = None => NonePrinted(v)
       /\ ~ HasRun(v)' => NonePrinted(v) /\ \A k \in DOMAIN ps : ps[k].dependents = <<>>
  BY <1>3, <1>6 DEF PrintsSent
<1>17. Increasing(r)
  <2> SUFFICES ASSUME NEW i \in DOMAIN r, NEW j \in DOMAIN r, i < j, IsPrint(r[i]), IsPrint(r[j])
               PROVE  r[i].args < r[j].args
    BY DEF Increasing
  <2>1. CASE i <= l /\ j <= l
    <3>1. i \in DOMAIN q /\ j \in DOMAIN q /\ r[i] = q[i] /\ r[j] = q[j]
      BY <1>10, <2>1
    <3> QED BY <1>14, <3>1 DEF Increasing
  <2>2. CASE i <= l /\ ~ j <= l
    <3>1. i \in DOMAIN q /\ r[i] = q[i] /\ j - l \in DOMAIN n /\ r[j] = n[j - l]
      BY <1>10, <2>2
    <3>2. NonePrinted(v)
      BY <1>16, <3>1
    <3> QED BY <1>15, <3>1, <3>2
  <2>3. CASE ~ i <= l
    <3>1. ~ j <= l /\ i \in Nat /\ j \in Nat
      BY <1>8, <1>10, <1>11, <2>3
    <3>2. i - l \in DOMAIN n /\ r[i] = n[i - l] /\ j - l \in DOMAIN n /\ r[j] = n[j - l]
      BY <1>10, <2>3, <3>1
    <3>3. i - l < j - l
      BY <1>8, <3>1
    <3> QED BY <1>16, <3>2, <3>3 DEF Increasing
  <2> QED BY <2>1, <2>2, <2>3
<1>18. \A i \in DOMAIN done : \A j \in DOMAIN r : IsPrint(r[j]) => done[i] < r[j].args
  <2> SUFFICES ASSUME NEW i \in DOMAIN done, NEW j \in DOMAIN r, IsPrint(r[j]) PROVE done[i] < r[j].args
    OBVIOUS
  <2>1. CASE j <= l
    BY <1>10, <1>14, <2>1
  <2>2. CASE ~ j <= l
    <3>1. j - l \in DOMAIN n /\ r[j] = n[j - l]
      BY <1>10, <2>2
    <3>2. done = <<>>
      BY <1>15, <1>16, <3>1
    <3> QED BY <3>2, SeqDomain
  <2> QED BY <2>1, <2>2
<1>19. NonePrinted(v)' <=> done = <<>> /\ \A i \in DOMAIN r : ~ IsPrint(r[i])
  BY <1>3, <1>6, <1>13 DEF NonePrinted, Io
<1>20. NonePrinted(v) /\ (\A j \in DOMAIN n : ~ IsPrint(n[j])) => NonePrinted(v)'
  BY <1>10, <1>15, <1>19
<1>21. Caps(v)' = Caps(v) /\ Cap(v, "Io")' = Cap(v, "Io")
  BY <1>2 DEF Caps, Cap
<1>22. /\ "Io" \in ToSet(Caps(v)') /\ promises'[v][Cap(v, "Io")'].value = None => NonePrinted(v)'
       /\ ~ HasRun(v)' => NonePrinted(v)' /\ \A k \in DOMAIN promises'[v] : promises'[v][k].dependents = <<>>
       /\ \A k \in DOMAIN promises'[v] : Increasing(promises'[v][k].dependents)
  BY <1>2, <1>16, <1>20, <1>21
<1> QED BY <1>3, <1>6, <1>13, <1>14, <1>17, <1>18, <1>22 DEF PrintsOf, Io, Increasing, IsPrint

\* Prints stay in order.
LEMMA PrintsStay ==
  ASSUME VatsOK, SystemOK, MailOK, PrintsOK, NEW s, NEW v, NEW m, NEW ps, NEW out, NEW new,
         Step(s, v, m, ps, out, new), NewOK(v, new), OutOK(v, out), RanStays, Printed(s, v, m),
         vats[v].kind = "Program" => PrintsSent(v, ps, out)
  PROVE  PrintsOK'
<1>1. AreVatsAfter(v, ps, new) /\ v \in DOMAIN vats
  BY VatsAfter DEF Step, NewOK
<1>2. ASSUME NEW w \in DOMAIN vats', vats'[w].kind = "Program" PROVE PrintsOf(w)'
  <2>1. CASE w = v
    <3>1. vats[v].kind = "Program" /\ v # Io
      BY <1>1, <1>2, <2>1, IoIs DEF AreVatsAfter
    <3>2. prints' = prints
      BY <3>1 DEF Printed
    <3> QED BY <2>1, <3>1, <3>2, OwnPrints
  <2>2. CASE w # v
    BY <1>2, <2>2, OthersPrints
  <2> QED BY <2>1, <2>2
<1>3. ASSUME NEW w \in DOMAIN prints
      PROVE  /\ w \in DOMAIN vats /\ vats[w].kind = "Program" /\ IsSeq(prints[w])
             /\ \A i \in DOMAIN prints[w] : prints[w][i] \in Nat
  BY DEF PrintsOK
<1>4. ASSUME NEW w \in DOMAIN prints'
      PROVE  /\ w \in DOMAIN vats /\ vats[w].kind = "Program" /\ IsSeq(prints'[w])
             /\ \A i \in DOMAIN prints'[w] : prints'[w][i] \in Nat
  <2>1. CASE prints' = prints
    BY <1>3, <1>4, <2>1
  <2>2. CASE prints' # prints
    <3>1. s \in DOMAIN vats /\ vats[s].kind = "Program" /\ m.args \in Nat /\ prints' = Put(prints, s, <<m.args>>)
      BY <2>2 DEF Printed
    <3>2. CASE w # s
      <4>1. w \in DOMAIN prints /\ prints'[w] = prints[w]
        BY <1>4, <3>1, <3>2 DEF Put
      <4> QED BY <1>3, <4>1
    <3>3. CASE w = s
      <4>1. PICK t : t = <<m.args>>
        OBVIOUS
      <4>2. prints'[w] = At(prints, s) \o t
        BY <3>1, <3>3, <4>1 DEF Put
      <4>3. PICK done : done = At(prints, s)
        OBVIOUS
      <4>4. IsSeq(done) /\ \A i \in DOMAIN done : done[i] \in Nat
        BY <1>3, <4>3, SeqDomain DEF At
      <4>5. IsSeq(t) /\ DOMAIN t = 1 .. 1 /\ t[1] = m.args
        BY <4>1, SeqDomain
      <4>6. PICK x : x = prints'[w]
        OBVIOUS
      <4>7. IsJoin(x, done, t)
        BY <4>2, <4>3, <4>4, <4>5, <4>6, CatIs DEF Joins
      <4>8. \A i \in DOMAIN x : x[i] \in Nat
        <5> SUFFICES ASSUME NEW i \in DOMAIN x PROVE x[i] \in Nat
          OBVIOUS
        <5>1. CASE i <= Len(done)
          BY <4>4, <4>7, <5>1 DEF IsJoin
        <5>2. CASE ~ i <= Len(done)
          <6>1. i - Len(done) \in 1 .. 1 /\ x[i] = t[i - Len(done)]
            BY <4>5, <4>7, <5>2 DEF IsJoin
          <6>2. PICK o \in 1 .. 1 : x[i] = t[o]
            BY <6>1
          <6> QED BY <3>1, <4>5, <6>2
        <5> QED BY <5>1, <5>2
      <4> QED BY <3>1, <3>3, <4>6, <4>7, <4>8 DEF IsJoin
    <3> QED BY <3>2, <3>3
  <2> QED BY <2>1, <2>2
<1>5. \A w \in DOMAIN vats : w \in DOMAIN vats' /\ vats'[w] = vats[w]
  BY <1>1 DEF AreVatsAfter
<1>6. \A w \in DOMAIN prints' : w \in DOMAIN vats' /\ vats'[w].kind = "Program" /\ IsSeq(prints'[w])
                                /\ \A i \in DOMAIN prints'[w] : prints'[w][i] \in Nat
  BY <1>4, <1>5
<1> QED BY <1>2, <1>6 DEF PrintsOK, IsSeq

-----------------------------------------------------------------------------
(* What handlers call and answer *)

\* Some of the calls, in their order.
AreCalls(v, calls, S, q) ==
  /\ IsSeq(q) /\ Len(q) = Cardinality(S)
  /\ \E f : /\ \A j \in DOMAIN q : f[j] \in S /\ q[j] = Called(v, calls, f[j])
            /\ \A j, l \in DOMAIN q : j < l => f[j] < f[l]

\* CallsOf lists the calls whose indices are in S, in order.
LEMMA CallsAre ==
  ASSUME NEW v, NEW calls, IsSeq(calls), NEW S \in SUBSET DOMAIN calls
  PROVE  AreCalls(v, calls, S, CallsOf(v, calls, S))
<1>1. PICK b \in Nat : DOMAIN calls = 1 .. b
  BY SeqDomain
<1>2. PICK f : f = InOrder(S)
  OBVIOUS
<1>3. PICK n \in Nat : n = Cardinality(S) /\ DOMAIN f = 1 .. n
  BY <1>1, <1>2, InOrderIs
<1>4. (\A i \in DOMAIN f : f[i] \in S) /\ \A i, j \in DOMAIN f : i < j => f[i] < f[j]
  BY <1>1, <1>2, InOrderIs
<1>5. PICK q : q = CallsOf(v, calls, S)
  OBVIOUS
<1>6. q = [i \in 1 .. n |-> Called(v, calls, f[i])]
  BY <1>2, <1>3, <1>5 DEF CallsOf
<1>7. q = [i \in 1 .. n |-> q[i]] /\ DOMAIN q = 1 .. n
  BY <1>6
<1>8. IsSeq(q) /\ Len(q) = n
  BY <1>7, SeqIs
<1>9. \A j \in DOMAIN q : f[j] \in S /\ q[j] = Called(v, calls, f[j])
  BY <1>3, <1>4, <1>6, <1>7
<1>10. \A j, l \in DOMAIN q : j < l => f[j] < f[l]
  BY <1>3, <1>4, <1>7
<1> QED BY <1>3, <1>5, <1>8, <1>9, <1>10 DEF AreCalls

\* What is sent are the calls of targets that are there, and an answer.
IsCall(v, calls, d, i, x) ==
  i \in DOMAIN calls /\ x = Called(v, calls, i) /\ Target(v, calls[i]) = d /\ d # None
IsAnswer(s, m, value, d, x) == IsVat(s) /\ d = s /\ x = Response(m, value)
OutIs(v, calls, s, m, answered, value, out) ==
  /\ \A d : IsSeq(At(out, d))
  /\ \A d : \A j \in DOMAIN At(out, d) :
       \/ \E i : IsCall(v, calls, d, i, At(out, d)[j])
       \/ answered /\ IsAnswer(s, m, value, d, At(out, d)[j]) /\ j = Len(At(out, d))
  /\ \A d : \A j, l \in DOMAIN At(out, d) :
       j < l /\ ~ At(out, d)[j].re /\ ~ At(out, d)[l].re => At(out, d)[j].prom < At(out, d)[l].prom

\* SentBy holds the calls to each target, in order.
LEMMA SentIs ==
  ASSUME NEW v, NEW calls, IsSeq(calls), IsSeq(promises[v]), NEW s, NEW m, NEW value
  PROVE  OutIs(v, calls, s, m, FALSE, value, SentBy(v, calls))
<1>1. PICK out : out = SentBy(v, calls)
  OBVIOUS
<1>2. PICK len \in Nat : len = Len(promises[v])
  BY SeqDomain
<1>3. PICK b \in Nat : DOMAIN calls = 1 .. b
  BY SeqDomain
<1>4. SUFFICES ASSUME NEW d
      PROVE  /\ IsSeq(At(out, d))
             /\ \A j \in DOMAIN At(out, d) :
                  \E i : IsCall(v, calls, d, i, At(out, d)[j])
             /\ \A j, l \in DOMAIN At(out, d) : j < l => At(out, d)[j].prom < At(out, d)[l].prom
  BY <1>1 DEF OutIs
<1>5. CASE d \in DOMAIN out
  <2>1. PICK S \in SUBSET DOMAIN calls : S = {i \in DOMAIN calls : Target(v, calls[i]) = d}
    OBVIOUS
  <2>2. At(out, d) = CallsOf(v, calls, S) /\ d # None
    BY <1>1, <1>5, <2>1 DEF SentBy, At
  <2>3. PICK q : q = At(out, d)
    OBVIOUS
  <2>4. AreCalls(v, calls, S, q)
    BY <2>2, <2>3, CallsAre
  <2>5. PICK f : /\ \A j \in DOMAIN q : f[j] \in S /\ q[j] = Called(v, calls, f[j])
                 /\ \A j, l \in DOMAIN q : j < l => f[j] < f[l]
    BY <2>4 DEF AreCalls
  <2>6. \A j \in DOMAIN q : q[j].prom = len + f[j] /\ f[j] \in Nat
    BY <1>2, <1>3, <2>1, <2>5 DEF Called, Request
  <2>7. \A j, l \in DOMAIN q : j < l => q[j].prom < q[l].prom
    BY <1>2, <2>5, <2>6
  <2>8. IsSeq(q) /\ \A j \in DOMAIN q : \E i : IsCall(v, calls, d, i, q[j])
    <3>1. \A j \in DOMAIN q : IsCall(v, calls, d, f[j], q[j])
      BY <2>1, <2>2, <2>5 DEF IsCall
    <3> QED BY <2>4, <3>1 DEF AreCalls
  <2> QED BY <2>2, <2>3, <2>7, <2>8
<1>6. CASE d \notin DOMAIN out
  BY <1>6, SeqDomain DEF At
<1> QED BY <1>5, <1>6

\* A handler that calls nothing sends nothing.
LEMMA NothingIs ==
  ASSUME NEW v, NEW s, NEW m, NEW value
  PROVE  OutIs(v, <<>>, s, m, FALSE, value, NoMail)
<1>1. \A d : At(NoMail, d) = <<>>
  BY SeqDomain DEF At, NoMail
<1> QED BY <1>1, SeqDomain DEF OutIs

\* An answer comes after the calls.
LEMMA AnswerIs ==
  ASSUME NEW v, NEW calls, NEW s, NEW m, NEW value, NEW out, OutIs(v, calls, s, m, FALSE, value, out)
  PROVE  OutIs(v, calls, s, m, TRUE, value, Answer(out, s, m, value))
<1>1. CASE ~ IsVat(s)
  BY <1>1 DEF Answer, OutIs
<1>2. CASE IsVat(s)
  <2>1. PICK t, res : t = <<res>> /\ res = Response(m, value)
    OBVIOUS
  <2>2. PICK o : o = Put(out, s, t)
    OBVIOUS
  <2>3. Answer(out, s, m, value) = o
    BY <1>2, <2>1, <2>2 DEF Answer
  <2>4. IsSeq(t) /\ Len(t) = 1 /\ DOMAIN t = 1 .. 1 /\ t[1] = res
    BY <2>1, SeqDomain
  <2>5. \A d : d # s => At(o, d) = At(out, d)
    BY <2>2 DEF At, Put
  <2>6. PICK q, r : q = At(out, s) /\ r = At(o, s)
    OBVIOUS
  <2>7. r = q \o t
    BY <2>2, <2>6 DEF At, Put
  <2>8. IsSeq(q)
    BY <2>6 DEF OutIs
  <2>9. IsJoin(r, q, t)
    BY <2>4, <2>7, <2>8, CatIs DEF Joins
  <2>10. PICK l \in Nat : l = Len(q) /\ DOMAIN q = 1 .. l
    BY <2>8, SeqDomain
  <2>11. IsSeq(r) /\ Len(r) = l + 1 /\ DOMAIN r = 1 .. l + 1
    BY <2>4, <2>9, <2>10 DEF IsJoin
  <2>12. \A i \in 1 .. l : r[i] = q[i]
    BY <2>9, <2>10 DEF IsJoin
  <2>13. r[l + 1] = res
    <3>1. l + 1 \in DOMAIN r /\ ~ l + 1 <= l /\ (l + 1) - l = 1
      BY <2>11
    <3>2. r[l + 1] = t[(l + 1) - l]
      BY <2>9, <2>10, <3>1 DEF IsJoin
    <3> QED BY <2>4, <3>1, <3>2
  <2>14. res.re = TRUE
    BY <2>1 DEF Response
  <2>15. \A d : IsSeq(At(o, d))
    BY <2>5, <2>6, <2>11 DEF OutIs
  <2>16. ASSUME NEW d, NEW j \in DOMAIN At(o, d)
         PROVE \/ \E i : IsCall(v, calls, d, i, At(o, d)[j])
               \/ IsAnswer(s, m, value, d, At(o, d)[j]) /\ j = Len(At(o, d))
    <3>1. CASE d # s
      BY <2>5, <2>16, <3>1 DEF OutIs
    <3>2. CASE d = s /\ j = l + 1
      BY <1>2, <2>1, <2>6, <2>11, <2>13, <3>2 DEF IsAnswer
    <3>3. CASE d = s /\ j # l + 1
      <4>1. j \in 1 .. l /\ At(o, d)[j] = q[j]
        BY <2>6, <2>11, <2>12, <2>16, <3>3
      <4>2. j \in DOMAIN At(out, s) /\ q[j] = At(out, s)[j]
        BY <2>6, <2>10, <4>1
      <4>3. \E i : IsCall(v, calls, s, i, At(out, s)[j])
        BY <4>2 DEF OutIs
      <4> QED BY <3>3, <4>1, <4>2, <4>3
    <3> QED BY <3>1, <3>2, <3>3
  <2>17. ASSUME NEW d, NEW i \in DOMAIN At(o, d), NEW j \in DOMAIN At(o, d),
                i < j, ~ At(o, d)[i].re, ~ At(o, d)[j].re
         PROVE  At(o, d)[i].prom < At(o, d)[j].prom
    <3>1. CASE d # s
      BY <2>5, <2>17, <3>1 DEF OutIs
    <3>2. CASE d = s
      <4>1. i # l + 1 /\ j # l + 1
        BY <2>6, <2>13, <2>14, <2>17, <3>2
      <4>2. i \in 1 .. l /\ j \in 1 .. l /\ At(o, d)[i] = q[i] /\ At(o, d)[j] = q[j]
        BY <2>6, <2>11, <2>12, <2>17, <3>2, <4>1
      <4>3. \A x, y \in DOMAIN q : x < y /\ ~ q[x].re /\ ~ q[y].re => q[x].prom < q[y].prom
        BY <2>6 DEF OutIs
      <4> QED BY <2>10, <2>17, <4>2, <4>3
    <3> QED BY <3>1, <3>2
  <2> QED BY <1>2, <2>3, <2>15, <2>16, <2>17 DEF OutIs
<1> QED BY <1>1, <1>2

\* A handler of a request sends what it may.
CallsOK(v, calls) ==
  /\ IsSeq(calls)
  /\ \A i \in DOMAIN calls : \A d : d = Target(v, calls[i]) /\ d # None =>
       /\ d \in DOMAIN vats /\ calls[i].fn # "request-far-entity"
       /\ CallOK(v, d, calls[i].fn, calls[i].args, Len(promises[v]) + i)'
AnswerOK(s, m, value) ==
  /\ m.fn = "request-far-entity" => RefOK(s, m.prom, value)'
  /\ s = MonadRef /\ m.fn = "create-vat" => MadeFor(value, m.args)'
StartCallsOK(v, calls, ps) ==
  v = MonadRef => \A i \in DOMAIN calls : \A k : k = Len(promises[v]) + i /\ k \in DOMAIN ps /\ ps[k].dependents # <<>> =>
    calls[i].fn = "create-vat" /\ calls[i].args = ps[k].dependents[1].args

\* What a handler of a request sends is right if its calls are.
LEMMA HandlerSends ==
  ASSUME VatsOK, MailOK, PromisesOK, Grows, NEW s, NEW v \in DOMAIN vats, NEW m, Takes(s, v, m), m.re = FALSE,
         NEW calls, NEW answered \in BOOLEAN, NEW value, NEW out, NEW ps, OutIs(v, calls, s, m, answered, value, out),
         CallsOK(v, calls), promises'[v] = ps,
         \A i \in DOMAIN calls : Len(promises[v]) + i \in DOMAIN ps,
         answered => AnswerOK(s, m, value), StartCallsOK(v, calls, ps)
  PROVE  OutOK(v, out) /\ SendsOnce(s, v, m, out) /\ StartsRight(s, v, m, ps, out)
<1>1. MessageOK(s, v, m)
  BY TakenIs
<1>2. IsVat(s) => VatRequestOK(s, v, m)
  <2>1. RequestOK(s, v, m)
    BY <1>1 DEF MessageOK
  <2>2. ThreadRequestOK(s, v, m) => ~ IsVat(s)
    BY DEF ThreadRequestOK, IsVat, Thread, Keyboard
  <2> QED BY <2>1, <2>2 DEF RequestOK
<1>3. PICK len \in Nat : len = Len(promises[v]) /\ DOMAIN promises[v] = 1 .. len
  BY SeqDomain DEF PromisesOK
<1>4. PICK b \in Nat : DOMAIN calls = 1 .. b
  BY SeqDomain DEF CallsOK
<1>5. v \in DOMAIN vats' /\ vats'[v] = vats[v] /\ Caps(v)' = Caps(v)
  BY RefStays DEF Grows
<1>6. DOMAIN Caps(v) \subseteq 1 .. len
  BY <1>3 DEF PromisesOK
<1>7. ASSUME NEW d, NEW j \in DOMAIN At(out, d), NEW x, x = At(out, d)[j]
      PROVE  \/ \E i : IsCall(v, calls, d, i, x)
             \/ answered /\ IsAnswer(s, m, value, d, x) /\ j = Len(At(out, d))
  BY <1>7 DEF OutIs
<1>8. ASSUME NEW d, NEW i, NEW x, IsCall(v, calls, d, i, x)
      PROVE  /\ i \in DOMAIN calls /\ Target(v, calls[i]) = d
             /\ x.re = FALSE /\ x.prom = len + i /\ x.fn = calls[i].fn /\ x.args = calls[i].args
             /\ d \in DOMAIN vats /\ MessageOK(v, d, x)'
  <2> USE <1>8 DEF IsCall
  <2>1. x.re = FALSE /\ x.prom = len + i /\ x.fn = calls[i].fn /\ x.args = calls[i].args
    BY <1>3, <1>8 DEF Called, Request
  <2>2. d \in DOMAIN vats /\ calls[i].fn # "request-far-entity"
        /\ CallOK(v, d, calls[i].fn, calls[i].args, Len(promises[v]) + i)'
    BY <1>8 DEF CallsOK
  <2>3. PICK fn, args, k : fn = calls[i].fn /\ args = calls[i].args /\ k = len + i
    OBVIOUS
  <2>4. CallOK(v, d, fn, args, k)'
    BY <2>2, <2>3 DEF CallOK
  <2>5. x.fn # "request-far-entity" /\ k \notin DOMAIN Caps(v) /\ k \in DOMAIN promises'[v]
    BY <1>3, <1>4, <1>6, <2>1, <2>2, <2>3
  <2>6. CallOK(v, d, x.fn, x.args, x.prom)'
    BY <2>1, <2>3, <2>4
  <2>7. VatRequestOK(v, d, x)'
    BY <1>5, <2>1, <2>3, <2>5, <2>6 DEF VatRequestOK
  <2>8. d \in DOMAIN vats'
    BY <2>2 DEF Grows
  <2> QED BY <2>1, <2>2, <2>7, <2>8 DEF MessageOK, RequestOK
<1>9. ASSUME NEW d, NEW x, answered, IsAnswer(s, m, value, d, x)
      PROVE  /\ d = s /\ x.re = TRUE /\ x.prom = m.prom /\ x.args = value
             /\ s \in DOMAIN vats /\ m.prom \in DOMAIN promises[s] /\ MessageOK(v, d, x)'
  <2> USE <1>9 DEF IsAnswer
  <2>1. x.re = TRUE /\ x.prom = m.prom /\ x.args = value /\ x.fn = m.fn
    BY <1>9 DEF Response
  <2>2. /\ s \in DOMAIN vats /\ m.prom \in DOMAIN promises[s]
        /\ m.fn = "request-far-entity" <=> m.prom \in DOMAIN Caps(s)
    BY <1>2, <1>9 DEF VatRequestOK
  <2>3. Caps(s)' = Caps(s) /\ s \in DOMAIN vats' /\ m.prom \in DOMAIN promises'[s]
    BY <2>2, RefStays DEF Grows
  <2>4. m.fn = "request-far-entity" => RefOK(s, m.prom, value)'
    BY <1>9 DEF AnswerOK
  <2>5. PICK k : k = m.prom
    OBVIOUS
  <2>6. x.fn = "request-far-entity" => RefOK(s, k, value)'
    BY <2>1, <2>4, <2>5 DEF RefOK
  <2>7. RefOK(s, k, value)' => RefOK(s, x.prom, x.args)'
    BY <2>1, <2>5
  <2>8. ResponseOK(v, s, x)'
    BY <1>5, <2>1, <2>2, <2>3, <2>6, <2>7 DEF ResponseOK
  <2> QED BY <2>1, <2>2, <2>8 DEF MessageOK
<1>10. OutOK(v, out)
  <2>1. ASSUME NEW d, NEW j \in DOMAIN At(out, d) PROVE MessageOK(v, d, At(out, d)[j])'
    <3>1. PICK x : x = At(out, d)[j]
      OBVIOUS
    <3>2. MessageOK(v, d, x)'
      BY <1>7, <1>8, <1>9, <2>1, <3>1
    <3> QED BY <3>1, <3>2
  <2>2. \A d : IsSeq(At(out, d))
    BY DEF OutIs
  <2> QED BY <2>1, <2>2 DEF OutOK
<1>11. ASSUME NEW d, NEW j \in DOMAIN At(out, d), ~ At(out, d)[j].re,
              NEW e, NEW l \in DOMAIN At(out, e), ~ At(out, e)[l].re, At(out, d)[j].prom = At(out, e)[l].prom
       PROVE  d = e /\ j = l
  <2>1. PICK x, y : x = At(out, d)[j] /\ y = At(out, e)[l]
    OBVIOUS
  <2>2. PICK i : IsCall(v, calls, d, i, x)
    BY <1>7, <1>9, <1>11, <2>1
  <2>3. PICK k : IsCall(v, calls, e, k, y)
    BY <1>7, <1>9, <1>11, <2>1
  <2>4. x.prom = len + i /\ y.prom = len + k /\ i \in 1 .. b /\ k \in 1 .. b
    BY <1>4, <1>8, <2>2, <2>3
  <2>5. i = k
    <3>1. x.prom = y.prom
      BY <1>11, <2>1
    <3>2. len + i = len + k
      BY <2>4, <3>1
    <3> QED BY <2>4, <3>2
  <2>6. d = e
    <3>1. Target(v, calls[i]) = d /\ Target(v, calls[k]) = e
      BY <2>2, <2>3 DEF IsCall
    <3> QED BY <2>5, <3>1, Zenon
  <2>7. PICK q : q = At(out, d)
    OBVIOUS
  <2>8. IsSeq(q) /\ \A a, c \in DOMAIN q : a < c /\ ~ q[a].re /\ ~ q[c].re => q[a].prom < q[c].prom
    BY <2>7 DEF OutIs
  <2>9. PICK n \in Nat : DOMAIN q = 1 .. n
    BY <2>8, SeqDomain
  <2>10. j \in 1 .. n /\ l \in 1 .. n /\ q[j] = x /\ q[l] = y /\ ~ x.re /\ ~ y.re /\ x.prom \in Nat /\ x.prom = y.prom
    BY <1>4, <1>11, <2>1, <2>4, <2>5, <2>6, <2>7, <2>9
  <2>11. ~ j < l /\ ~ l < j
    BY <2>8, <2>9, <2>10
  <2> QED BY <2>6, <2>10, <2>11
<1>12. SendsOnce(s, v, m, out)
  <2> SUFFICES ASSUME NEW d, NEW j \in DOMAIN At(out, d), NEW x, x = At(out, d)[j]
               PROVE  /\ d \in DOMAIN vats
                      /\ x.re => /\ x.prom \in DOMAIN promises[d]
                                 /\ Direct(d, x.prom) =>
                                      /\ d = s /\ m.re = FALSE /\ x.prom = m.prom
                                      /\ \A l \in DOMAIN At(out, d) : At(out, d)[l].re => l = j
                      /\ ~ x.re => /\ x.prom \in DOMAIN promises[v] => ~ Direct(v, x.prom)
                                   /\ x.prom \notin DOMAIN promises[v] =>
                                        \A e : \A l \in DOMAIN At(out, e) :
                                          ~ At(out, e)[l].re /\ At(out, e)[l].prom = x.prom => d = e /\ j = l
    BY DEF SendsOnce
  <2>1. CASE \E i : IsCall(v, calls, d, i, x)
    <3>1. PICK i : IsCall(v, calls, d, i, x)
      BY <2>1
    <3>2. x.re = FALSE /\ x.prom = len + i /\ d \in DOMAIN vats /\ i \in DOMAIN calls
      BY <1>8, <3>1
    <3>3. x.prom \notin DOMAIN promises[v]
      BY <1>3, <1>4, <3>2
    <3> QED BY <1>11, <3>2, <3>3
  <2>2. CASE answered /\ IsAnswer(s, m, value, d, x) /\ j = Len(At(out, d))
    <3>1. x.re = TRUE /\ x.prom = m.prom /\ d = s /\ s \in DOMAIN vats /\ m.prom \in DOMAIN promises[s]
      BY <1>9, <2>2
    <3>2. ASSUME NEW l \in DOMAIN At(out, d), At(out, d)[l].re PROVE l = j
      <4>1. PICK y : y = At(out, d)[l]
        OBVIOUS
      <4>2. ~ \E i : IsCall(v, calls, d, i, y)
        BY <1>8, <3>2, <4>1
      <4>3. l = Len(At(out, d))
        BY <1>7, <4>1, <4>2
      <4> QED BY <2>2, <4>3
    <3> QED BY <2>2, <3>1, <3>2
  <2> QED BY <1>7, <2>1, <2>2
<1>13. StartsRight(s, v, m, ps, out)
  <2> SUFFICES ASSUME NEW d, NEW j \in DOMAIN At(out, d), NEW x, x = At(out, d)[j]
               PROVE  /\ x.re /\ s = MonadRef /\ d = s /\ x.prom = m.prom /\ m.fn = "create-vat" => MadeFor(x.args, m.args)'
                      /\ ~ x.re /\ v = MonadRef /\ x.prom \in DOMAIN ps /\ x.prom \notin DOMAIN promises[v]
                            /\ ps[x.prom].dependents # <<>> =>
                           x.fn = "create-vat" /\ x.args = ps[x.prom].dependents[1].args
    BY DEF StartsRight
  <2>1. CASE \E i : IsCall(v, calls, d, i, x)
    <3>1. PICK i : IsCall(v, calls, d, i, x)
      BY <2>1
    <3>2. x.re = FALSE /\ x.prom = len + i /\ x.fn = calls[i].fn /\ x.args = calls[i].args /\ i \in DOMAIN calls
      BY <1>8, <3>1
    <3> QED BY <1>3, <3>2 DEF StartCallsOK
  <2>2. CASE answered /\ IsAnswer(s, m, value, d, x) /\ j = Len(At(out, d))
    <3>1. x.re = TRUE /\ x.args = value /\ answered
      BY <1>9, <2>2
    <3>2. PICK val, args : val = value /\ args = m.args
      OBVIOUS
    <3>3. s = MonadRef /\ m.fn = "create-vat" => MadeFor(val, args)'
      BY <3>1, <3>2 DEF AnswerOK
    <3>4. s = MonadRef /\ m.fn = "create-vat" => MadeFor(x.args, m.args)'
      BY <3>1, <3>2, <3>3
    <3> QED BY <3>1, <3>4
  <2> QED BY <1>7, <2>1, <2>2
<1> QED BY <1>10, <1>12, <1>13

-----------------------------------------------------------------------------
(* What handlers leave in their promises *)

WaitsOn(v, calls, k) == {i \in DOMAIN calls : calls[i].on = k /\ Target(v, calls[i]) = None}
PsIs(v, calls, ps, a) ==
  /\ IsSeq(ps) /\ DOMAIN ps = 1 .. Len(promises[v]) + Len(calls)
  /\ \A k \in DOMAIN ps :
       /\ DOMAIN ps[k] = Fields
       /\ AreCalls(v, calls, WaitsOn(v, calls, k), Waiting(v, calls, k))
       /\ k \in DOMAIN promises[v] =>
            /\ ps[k].value = promises[v][k].value /\ ps[k].asker = promises[v][k].asker
            /\ Joins(ps[k].dependents, promises[v][k].dependents, Waiting(v, calls, k))
       /\ k \notin DOMAIN promises[v] =>
            ps[k].value = None /\ ps[k].dependents = Waiting(v, calls, k) /\ ps[k].asker \in {None, a}

\* Waiting lists the calls that wait for promise k, in order.
LEMMA WaitingIs ==
  ASSUME NEW v, NEW calls, IsSeq(calls), NEW k
  PROVE  AreCalls(v, calls, WaitsOn(v, calls, k), Waiting(v, calls, k))
<1>1. WaitsOn(v, calls, k) \in SUBSET DOMAIN calls
  BY DEF WaitsOn
<1>2. Waiting(v, calls, k) = CallsOf(v, calls, WaitsOn(v, calls, k))
  BY DEF Waiting, WaitsOn
<1> QED BY <1>1, <1>2, CallsAre

\* Nobody calls, nothing is listed.
LEMMA NoCalls ==
  ASSUME NEW v, NEW calls, NEW S, NEW q, AreCalls(v, calls, S, q)
  PROVE  S = {} => q = <<>>
<1> SUFFICES ASSUME S = {} PROVE q = <<>>
  OBVIOUS
<1>1. IsSeq(q) /\ \A j : j \notin DOMAIN q
  BY DEF AreCalls
<1>2. PICK n \in Nat : n = Len(q) /\ DOMAIN q = 1 .. n
  BY <1>1, SeqDomain
<1>3. n = 0
  BY <1>1, <1>2
<1> QED BY <1>1, <1>2, <1>3, SeqDomain

\* What PromisesAfter does: a promise for every call, and dependents for those that wait.
LEMMA PromisesAfterIs ==
  ASSUME NEW v, NEW calls, IsSeq(calls), IsSeq(promises[v]), \A k \in DOMAIN promises[v] : DOMAIN promises[v][k] = Fields
  PROVE  PsIs(v, calls, PromisesAfter(v, calls), None)
<1>1. PICK old, ps : old = promises[v] /\ ps = PromisesAfter(v, calls)
  OBVIOUS
<1>2. PICK len \in Nat : len = Len(old) /\ DOMAIN old = 1 .. len
  BY <1>1, SeqDomain
<1>3. PICK b \in Nat : b = Len(calls) /\ DOMAIN calls = 1 .. b
  BY SeqDomain
<1>4. ps = [k \in 1 .. len + b |->
              LET p == IF k \in DOMAIN old THEN old[k] ELSE Promise IN
              [p EXCEPT !.dependents = p.dependents \o Waiting(v, calls, k)]]
  BY <1>1, <1>2, <1>3 DEF PromisesAfter
<1>5. IsSeq(ps) /\ DOMAIN ps = 1 .. len + b
  <2>1. ps = [k \in 1 .. len + b |-> ps[k]]
    BY <1>4
  <2> QED BY <1>2, <1>3, <2>1, SeqIs
<1>6. ASSUME NEW k \in DOMAIN ps
      PROVE  /\ DOMAIN ps[k] = Fields
             /\ k \in DOMAIN old => /\ ps[k].value = old[k].value /\ ps[k].asker = old[k].asker
                                    /\ Joins(ps[k].dependents, old[k].dependents, Waiting(v, calls, k))
             /\ k \notin DOMAIN old => /\ ps[k].value = None /\ ps[k].asker = None
                                       /\ ps[k].dependents = Waiting(v, calls, k)
  <2>1. PICK p, t, w : /\ p = (IF k \in DOMAIN old THEN old[k] ELSE Promise) /\ w = Waiting(v, calls, k)
                       /\ t = p.dependents \o w
    OBVIOUS
  <2>2. ps[k] = [p EXCEPT !.dependents = t]
    BY <1>4, <1>5, <2>1
  <2>3. ps[k].value = p.value /\ ps[k].asker = p.asker /\ DOMAIN ps[k] = DOMAIN p
    BY <2>2
  <2>4. CASE k \in DOMAIN old
    <3>1. ps[k].dependents = t
      BY <1>1, <2>1, <2>2, <2>4 DEF Fields
    <3> QED BY <1>1, <2>1, <2>3, <2>4, <3>1 DEF Joins
  <2>5. CASE k \notin DOMAIN old
    <3>1. p = Promise
      BY <2>1, <2>5
    <3>2. p.value = None /\ p.asker = None /\ p.dependents = <<>> /\ DOMAIN p = Fields
      BY <3>1 DEF Promise, Fields
    <3>3. ps[k].dependents = t
      BY <2>2, <3>1 DEF Promise
    <3>4. AreCalls(v, calls, WaitsOn(v, calls, k), w)
      BY <2>1, WaitingIs
    <3>5. IsSeq(w) /\ IsSeq(<<>>) /\ Len(<<>>) = 0
      BY <3>4, SeqDomain DEF AreCalls
    <3>6. IsJoin(t, <<>>, w)
      BY <2>1, <3>2, <3>5, CatIs DEF Joins
    <3>7. t = w
      <4>1. PICK n \in Nat : n = Len(w) /\ DOMAIN w = 1 .. n
        BY <3>5, SeqDomain
      <4>2. IsSeq(t) /\ Len(t) = n /\ DOMAIN t = 1 .. n
        BY <3>5, <3>6, <4>1 DEF IsJoin
      <4>3. \A i \in DOMAIN t : ~ i <= Len(<<>>) /\ i - Len(<<>>) = i
        BY <3>5, <4>2
      <4>4. \A i \in DOMAIN t : t[i] = w[i]
        BY <3>6, <4>3 DEF IsJoin
      <4> QED BY <3>5, <4>1, <4>2, <4>4, SeqSame
    <3> QED BY <2>1, <2>3, <2>5, <3>2, <3>3, <3>7
  <2> QED BY <2>4, <2>5
<1>7. \A k : AreCalls(v, calls, WaitsOn(v, calls, k), Waiting(v, calls, k))
  BY WaitingIs
<1> QED BY <1>1, <1>2, <1>3, <1>5, <1>6, <1>7 DEF PsIs

\* Who asked waits for the last promise.
LEMMA LaterIs ==
  ASSUME NEW v, NEW calls, IsSeq(calls), calls # <<>>, IsSeq(promises[v]), NEW qs, PsIs(v, calls, qs, None), NEW a,
         NEW ps, ps = [qs EXCEPT ![Len(qs)].asker = a]
  PROVE  PsIs(v, calls, ps, a) /\ Len(ps) = Len(promises[v]) + Len(calls)
<1>1. PICK len \in Nat, b \in Nat : len = Len(promises[v]) /\ DOMAIN promises[v] = 1 .. len
                                   /\ b = Len(calls) /\ b > 0
  <2>1. Len(promises[v]) \in Nat /\ DOMAIN promises[v] = 1 .. Len(promises[v])
    BY SeqDomain
  <2>2. Len(calls) \in Nat /\ Len(calls) # 0
    BY SeqDomain
  <2> QED BY <2>1, <2>2
<1>2. IsSeq(qs) /\ DOMAIN qs = 1 .. len + b
  BY <1>1 DEF PsIs
<1>3. Len(qs) = len + b
  <2>1. DOMAIN qs = 1 .. Len(qs) /\ Len(qs) \in Nat
    BY <1>2, SeqDomain
  <2> QED BY <1>1, <1>2, <2>1
<1>4. PICK l \in Nat : l = len + b /\ l \in 1 .. len + b /\ l \notin 1 .. len
  <2>1. len + b \in Nat /\ len + b \in 1 .. len + b /\ len + b \notin 1 .. len
    BY <1>1
  <2> QED BY <2>1
<1>5. ps = [qs EXCEPT ![l].asker = a] /\ DOMAIN ps = 1 .. len + b
  BY <1>2, <1>3, <1>4
<1>6. IsSeq(ps) /\ Len(ps) = len + b
  <2>1. ps = [k \in 1 .. l |-> ps[k]]
    BY <1>2, <1>4, <1>5
  <2> QED BY <1>4, <2>1, SeqIs
<1>7. \A k \in DOMAIN ps : k # l => ps[k] = qs[k]
  BY <1>2, <1>5
<1>8. ps[l] = [qs[l] EXCEPT !.asker = a]
  BY <1>2, <1>4, <1>5
<1>9. DOMAIN qs[l] = Fields
  BY <1>2, <1>4 DEF PsIs
<1>10. DOMAIN ps[l] = Fields /\ ps[l].value = qs[l].value /\ ps[l].dependents = qs[l].dependents /\ ps[l].asker = a
  BY <1>8, <1>9 DEF Fields
<1>11. ASSUME NEW k \in DOMAIN ps
       PROVE  /\ DOMAIN ps[k] = Fields
              /\ AreCalls(v, calls, WaitsOn(v, calls, k), Waiting(v, calls, k))
              /\ k \in DOMAIN promises[v] =>
                   /\ ps[k].value = promises[v][k].value /\ ps[k].asker = promises[v][k].asker
                   /\ Joins(ps[k].dependents, promises[v][k].dependents, Waiting(v, calls, k))
              /\ k \notin DOMAIN promises[v] =>
                   ps[k].value = None /\ ps[k].dependents = Waiting(v, calls, k) /\ ps[k].asker \in {None, a}
  <2>1. k \in DOMAIN qs
    BY <1>2, <1>5
  <2>2. CASE k # l
    BY <1>7, <2>1, <2>2 DEF PsIs
  <2>3. CASE k = l
    <3>1. k \notin DOMAIN promises[v]
      BY <1>1, <1>4, <2>3
    <3> QED BY <1>10, <2>1, <2>3, <3>1 DEF PsIs
  <2> QED BY <2>2, <2>3
<1> QED BY <1>1, <1>5, <1>6, <1>11 DEF PsIs

\* Without calls promises stay as they are.
LEMMA NoCallsIs ==
  ASSUME NEW v, IsSeq(promises[v]),
         \A k \in DOMAIN promises[v] : DOMAIN promises[v][k] = Fields /\ IsSeq(promises[v][k].dependents)
  PROVE  PsIs(v, <<>>, promises[v], None)
<1>1. \A k : AreCalls(v, <<>>, WaitsOn(v, <<>>, k), Waiting(v, <<>>, k)) /\ Waiting(v, <<>>, k) = <<>>
  <2> SUFFICES ASSUME NEW k
               PROVE  AreCalls(v, <<>>, WaitsOn(v, <<>>, k), Waiting(v, <<>>, k)) /\ Waiting(v, <<>>, k) = <<>>
    OBVIOUS
  <2>1. PICK S : S = WaitsOn(v, <<>>, k)
    OBVIOUS
  <2>2. S = {}
    BY <2>1, SeqDomain DEF WaitsOn
  <2>3. AreCalls(v, <<>>, S, Waiting(v, <<>>, k))
    BY <2>1, WaitingIs, SeqDomain
  <2>4. Waiting(v, <<>>, k) = <<>>
    BY <2>2, <2>3, NoCalls
  <2> QED BY <2>1, <2>3, <2>4
<1>2. PICK len \in Nat : len = Len(promises[v]) /\ DOMAIN promises[v] = 1 .. len
  BY SeqDomain
<1>3. DOMAIN promises[v] = 1 .. Len(promises[v]) + Len(<<>>)
  BY <1>2
<1>4. ASSUME NEW q, IsSeq(q) PROVE q = q \o <<>>
  <2>1. q \in Seq(ToSet(q))
    BY <1>4 DEF IsSeq
  <2>2. PICK S : S = ToSet(q)
    OBVIOUS
  <2> QED BY <2>1, <2>2
<1> QED BY <1>1, <1>3, <1>4 DEF PsIs, Joins

\* What a handler leaves waiting: calls of capabilities, and mains.
WaitingOK(v, calls, ps) ==
  /\ v # MonadRef => \A i \in DOMAIN calls : Target(v, calls[i]) = None =>
       /\ \E c \in ToSet(Caps(v)) : <<c, calls[i].fn>> \in Waits /\ calls[i].on = Cap(v, c)
       /\ calls[i].fn = "print" => vats[v].kind = "Program" /\ calls[i].args \in Nat
  /\ v = MonadRef => \A k \in DOMAIN ps : WaitsOn(v, calls, k) # {} =>
       /\ k \notin DOMAIN promises[v] /\ k + 1 \in DOMAIN ps /\ WaitsOn(v, calls, k + 1) = {}
       /\ Cardinality(WaitsOn(v, calls, k)) = 1
       /\ \A i \in WaitsOn(v, calls, k) :
            calls[i].fn = "main" /\ calls[i].args \in Programs /\ Len(promises[v]) + i = k + 1

\* The promises that a handler of a request leaves are right if its calls are.
LEMMA HandlerLeaves ==
  ASSUME VatsOK, PromisesOK, Grows, NEW v \in DOMAIN vats, NEW m, NEW calls, IsSeq(calls), NEW ps, NEW a,
         PsIs(v, calls, ps, a), promises'[v] = ps, WaitingOK(v, calls, ps), a = None \/ AskerOK(v, a)'
  PROVE  PsOK(v, ps) /\ Settles(v, m, ps)
<1>1. PICK old : old = promises[v]
  OBVIOUS
<1>2. PICK len \in Nat : len = Len(old) /\ DOMAIN old = 1 .. len /\ DOMAIN Caps(v) \subseteq 1 .. len
  BY <1>1, SeqDomain DEF PromisesOK
<1>3. PICK b \in Nat : b = Len(calls) /\ DOMAIN calls = 1 .. b
  BY SeqDomain
<1>4. IsSeq(ps) /\ DOMAIN ps = 1 .. len + b /\ DOMAIN old \subseteq DOMAIN ps
  BY <1>1, <1>2, <1>3 DEF PsIs
<1>5. vats'[v] = vats[v] /\ v \in DOMAIN vats' /\ Caps(v)' = Caps(v)
  BY RefStays DEF Grows
<1>6. ASSUME NEW k \in DOMAIN ps
      PROVE  /\ DOMAIN ps[k] = Fields
             /\ AreCalls(v, calls, WaitsOn(v, calls, k), Waiting(v, calls, k))
             /\ k \in DOMAIN old =>
                  /\ ps[k].value = old[k].value /\ ps[k].asker = old[k].asker
                  /\ Joins(ps[k].dependents, old[k].dependents, Waiting(v, calls, k))
             /\ k \notin DOMAIN old =>
                  ps[k].value = None /\ ps[k].dependents = Waiting(v, calls, k) /\ ps[k].asker \in {None, a}
  BY <1>1 DEF PsIs
<1>7. ASSUME NEW k \in DOMAIN old
      PROVE  /\ DOMAIN old[k] = Fields /\ IsSeq(old[k].dependents)
             /\ k \in DOMAIN Caps(v) => old[k].value = None \/ RefOK(v, k, old[k].value)
             /\ \A i \in DOMAIN old[k].dependents : DependentOK(v, k, old[k].dependents[i])
             /\ old[k].asker = None \/ AskerOK(v, old[k].asker)
  BY <1>1 DEF PromisesOK, PromiseOK
<1>8. ASSUME v = MonadRef, NEW k \in DOMAIN old PROVE ps[k].dependents = old[k].dependents
  <2>1. WaitsOn(v, calls, k) = {}
    BY <1>1, <1>4, <1>8 DEF WaitingOK
  <2>2. Waiting(v, calls, k) = <<>>
    BY <1>4, <1>6, <1>8, <2>1, NoCalls
  <2>3. ps[k].dependents = old[k].dependents \o <<>>
    BY <1>4, <1>6, <1>8, <2>2 DEF Joins
  <2>4. PICK q, S : q = old[k].dependents /\ S = ToSet(q)
    OBVIOUS
  <2>5. q \in Seq(S)
    BY <1>7, <1>8, <2>4 DEF IsSeq
  <2> QED BY <2>3, <2>4, <2>5
<1>9. ASSUME NEW k \in DOMAIN ps, NEW i \in WaitsOn(v, calls, k), NEW q, q = Called(v, calls, i)
      PROVE  DependentOK(v, k, q)'
  <2>1. i \in DOMAIN calls /\ calls[i].on = k /\ Target(v, calls[i]) = None
    BY <1>9 DEF WaitsOn
  <2>2. q.re = FALSE /\ q.prom = len + i /\ q.fn = calls[i].fn /\ q.args = calls[i].args
    BY <1>1, <1>2, <1>9 DEF Called, Request
  <2>3. q.prom \in DOMAIN promises'[v] /\ q.prom \notin DOMAIN Caps(v)'
    BY <1>2, <1>3, <1>4, <1>5, <2>1, <2>2
  <2>4. CASE v # MonadRef
    <3>1. /\ \E c \in ToSet(Caps(v)) : <<c, q.fn>> \in Waits /\ k = Cap(v, c)
          /\ q.fn = "print" => vats[v].kind = "Program" /\ q.args \in Nat
      BY <2>1, <2>2, <2>4 DEF WaitingOK
    <3>2. \A c : Cap(v, c)' = Cap(v, c)
      BY <1>5 DEF Cap
    <3>3. CapDependent(v, k, q)'
      BY <1>5, <3>1, <3>2 DEF CapDependent
    <3> QED BY <2>2, <2>3, <3>3 DEF DependentOK
  <2>5. CASE v = MonadRef
    <3>1. WaitsOn(v, calls, k) # {}
      BY <1>9
    <3>2. /\ k \notin DOMAIN old /\ k + 1 \in DOMAIN ps /\ WaitsOn(v, calls, k + 1) = {}
          /\ Cardinality(WaitsOn(v, calls, k)) = 1
          /\ calls[i].fn = "main" /\ calls[i].args \in Programs /\ len + i = k + 1
      BY <1>1, <1>2, <1>9, <2>5, <3>1 DEF WaitingOK
    <3>3. ps[k].dependents = Waiting(v, calls, k) /\ Len(Waiting(v, calls, k)) = 1
      BY <1>6, <1>9, <3>2 DEF AreCalls
    <3>4. k + 1 \notin DOMAIN old
      BY <1>2, <1>4, <3>2
    <3>5. ps[k + 1].dependents = <<>>
      BY <1>6, <3>2, <3>4, NoCalls
    <3>6. MainDependent(v, k, q)'
      BY <2>2, <2>5, <3>2, <3>3, <3>5 DEF MainDependent
    <3> QED BY <2>2, <2>3, <3>6 DEF DependentOK
  <2> QED BY <2>4, <2>5
<1>10. ASSUME NEW k \in DOMAIN ps PROVE
         /\ IsSeq(Waiting(v, calls, k))
         /\ \A j \in DOMAIN Waiting(v, calls, k) : \A q : q = Waiting(v, calls, k)[j] => DependentOK(v, k, q)'
  <2>1. AreCalls(v, calls, WaitsOn(v, calls, k), Waiting(v, calls, k))
    BY <1>6, <1>10
  <2>2. PICK w : w = Waiting(v, calls, k)
    OBVIOUS
  <2>3. PICK f : \A j \in DOMAIN w : f[j] \in WaitsOn(v, calls, k) /\ w[j] = Called(v, calls, f[j])
    BY <2>1, <2>2 DEF AreCalls
  <2>4. \A j \in DOMAIN w : \A q : q = w[j] => DependentOK(v, k, q)'
    BY <1>9, <1>10, <2>3
  <2> QED BY <2>1, <2>2, <2>4 DEF AreCalls
<1>11. ASSUME NEW k \in DOMAIN old, NEW q, DependentOK(v, k, q) PROVE DependentOK(v, k, q)'
  <2>1. CapDependent(v, k, q) => CapDependent(v, k, q)'
    BY <1>5 DEF CapDependent, Cap, Caps
  <2>2. q.re = FALSE /\ q.prom \in DOMAIN old /\ q.prom \notin DOMAIN Caps(v)
    BY <1>1, <1>11 DEF DependentOK
  <2>3. MainDependent(v, k, q) => MainDependent(v, k, q)'
    <3> SUFFICES ASSUME MainDependent(v, k, q) PROVE MainDependent(v, k, q)'
      OBVIOUS
    <3>1. v = MonadRef /\ q.fn = "main" /\ q.args \in Programs
          /\ q.prom = k + 1 /\ Len(old[k].dependents) = 1 /\ old[k + 1].dependents = <<>>
      BY <1>1 DEF MainDependent
    <3>2. ps[k].dependents = old[k].dependents /\ ps[k + 1].dependents = old[k + 1].dependents
      BY <1>8, <1>11, <2>2, <3>1
    <3> QED BY <3>1, <3>2 DEF MainDependent
  <2>4. q.prom \in DOMAIN promises'[v] /\ q.prom \notin DOMAIN Caps(v)'
    BY <1>4, <1>5, <2>2
  <2>5. CapDependent(v, k, q) \/ MainDependent(v, k, q)
    BY <1>11 DEF DependentOK
  <2> QED BY <2>1, <2>2, <2>3, <2>4, <2>5 DEF DependentOK
<1>12. ASSUME NEW k \in DOMAIN ps PROVE PromiseOK(v, k)'
  <2>1. PICK p, w : p = ps[k] /\ w = Waiting(v, calls, k)
    OBVIOUS
  <2>2. CASE k \in DOMAIN old
    <3>1. k \in DOMAIN Caps(v)' => p.value = None \/ RefOK(v, k, p.value)'
      <4>1. PICK x : x = p.value /\ x = old[k].value
        BY <1>6, <1>12, <2>1, <2>2
      <4>2. k \in DOMAIN Caps(v)' => x = None \/ RefOK(v, k, x)'
        BY <1>5, <1>7, <2>2, <4>1, RefStays
      <4> QED BY <4>1, <4>2
    <3>2. p.asker = None \/ AskerOK(v, p.asker)'
      <4>1. PICK x : x = p.asker /\ x = old[k].asker
        BY <1>6, <1>12, <2>1, <2>2
      <4>2. AskerOK(v, x) => AskerOK(v, x)'
        BY RequestStays DEF AskerOK
      <4>3. x = None \/ AskerOK(v, x)'
        BY <1>7, <2>2, <4>1, <4>2
      <4> QED BY <4>1, <4>3
    <3>3. PICK q, r : q = p.dependents /\ r = old[k].dependents
      OBVIOUS
    <3>4. IsSeq(r) /\ IsSeq(w) /\ Joins(q, r, w)
      BY <1>6, <1>7, <1>10, <1>12, <2>1, <2>2, <3>3
    <3>5. IsJoin(q, r, w)
      BY <3>4, CatIs
    <3>6. ASSUME NEW i \in DOMAIN q PROVE DependentOK(v, k, q[i])'
      <4>1. PICK x : x = q[i]
        OBVIOUS
      <4>2. (\E j \in DOMAIN r : x = r[j]) \/ (\E j \in DOMAIN w : x = w[j])
        BY <3>5, <3>6, <4>1 DEF IsJoin
      <4>3. DependentOK(v, k, x)'
        <5>1. CASE \E j \in DOMAIN r : x = r[j]
          BY <1>7, <1>11, <2>2, <3>3, <5>1
        <5>2. CASE \E j \in DOMAIN w : x = w[j]
          BY <1>10, <1>12, <2>1, <5>2
        <5> QED BY <4>2, <5>1, <5>2
      <4> QED BY <4>1, <4>3
    <3>7. IsSeq(q) /\ DOMAIN p = Fields
      BY <1>6, <1>12, <2>1, <3>5 DEF IsJoin
    <3>8. promises'[v][k] = p
      BY <2>1
    <3> QED BY <3>1, <3>2, <3>3, <3>6, <3>7, <3>8 DEF PromiseOK
  <2>3. CASE k \notin DOMAIN old
    <3>1. DOMAIN p = Fields /\ p.value = None /\ p.dependents = w /\ p.asker \in {None, a}
      BY <1>6, <1>12, <2>1, <2>3
    <3>2. ASSUME NEW i \in DOMAIN w PROVE DependentOK(v, k, w[i])'
      <4>1. PICK x : x = w[i]
        OBVIOUS
      <4>2. DependentOK(v, k, x)'
        BY <1>10, <1>12, <2>1, <3>2, <4>1
      <4> QED BY <4>1, <4>2
    <3>3. IsSeq(w) /\ promises'[v][k] = p
      BY <1>10, <1>12, <2>1
    <3>4. p.asker = None \/ AskerOK(v, p.asker)'
      <4>1. PICK x : x = p.asker
        OBVIOUS
      <4>2. x = None \/ AskerOK(v, x)'
        BY <3>1, <4>1
      <4> QED BY <4>1, <4>2
    <3> QED BY <3>1, <3>2, <3>3, <3>4 DEF PromiseOK
  <2> QED BY <2>2, <2>3
<1>13. PsOK(v, ps)
  BY <1>1, <1>4, <1>12 DEF PsOK
<1>14. Settles(v, m, ps)
  BY <1>1, <1>4, <1>6, <1>8 DEF Settles
<1> QED BY <1>13, <1>14

-----------------------------------------------------------------------------
(* A handler's step keeps the invariant *)

\* What a call that is handled was.
IsTaken(s, v, fn, m) ==
  /\ v \in DOMAIN vats /\ Takes(s, v, m) /\ m.re = FALSE /\ m.fn = fn /\ RequestOK(s, v, m)
  /\ fn \in Knows(vats[v].kind)
  /\ fn \in {"start-program", "new-vat"} => Fitting(m.args) # {}
  /\ fn = "request-far-entity" => m.args # Nothing /\ m.args \in DOMAIN system
  /\ fn = "hello" <=> system = <<>>
  /\ fn = "hello" => s = Thread(0) /\ v = MonadRef

\* A request that is taken without failure.
LEMMA TakenCall ==
  ASSUME Inv, NEW s, NEW v, NEW fn, NEW m, TakesCall(s, v, fn, m)
  PROVE  IsTaken(s, v, fn, m)
<1>1. Takes(s, v, m) /\ v \in DOMAIN vats /\ m.fn = fn /\ ~ m.re /\ Failure(v, m) = None
  BY DEF TakesCall, Takes
<1>2. MessageOK(s, v, m) /\ m.re \in BOOLEAN
  BY <1>1, TakenIs DEF Inv
<1>3. m.re = FALSE /\ RequestOK(s, v, m)
  BY <1>1, <1>2 DEF MessageOK
<1>4. None \notin Failures
  BY ValueAssumption DEF ValueAssumption
<1>5. m.fn \in Knows(vats[v].kind)
  <2>1. m.fn \notin Knows(vats[v].kind) => Failure(v, m) = "no such function"
    BY <1>3, Zenon DEF Failure
  <2> QED BY <1>1, <1>4, <2>1 DEF Failures
<1>6. m.fn \in {"start-program", "new-vat"} => Fitting(m.args) # {}
  <2>1. m.fn \in {"start-program", "new-vat"} /\ Fitting(m.args) = {} => Failure(v, m) = "unschedulable"
    BY <1>3, <1>5 DEF Failure
  <2> QED BY <1>1, <1>4, <2>1 DEF Failures
<1>7. m.fn = "request-far-entity" => m.args # Nothing
  <2>1. m.fn = "request-far-entity" /\ m.args = Nothing => Failure(v, m) = "name lost"
    BY <1>3, <1>5 DEF Failure
  <2> QED BY <1>1, <1>4, <2>1 DEF Failures
<1>8. m.fn = "request-far-entity" => m.args \in DOMAIN system
  <2>1. m.fn = "request-far-entity" /\ m.args # Nothing /\ m.args \notin DOMAIN system => Failure(v, m) = "no such entity"
    BY <1>3, <1>5 DEF Failure
  <2> QED BY <1>1, <1>4, <1>7, <2>1 DEF Failures
<1>9. fn = "hello" => s = Thread(0) /\ v = MonadRef
  BY <1>1, <1>3 DEF RequestOK, ThreadRequestOK, VatRequestOK, CallOK
<1>10. system = <<>> => fn = "hello"
  <2> SUFFICES ASSUME system = <<>> PROVE fn = "hello"
    OBVIOUS
  <2>1. PICK c \in DOMAIN mail : c = <<s, v>>
    BY <1>1 DEF Takes
  <2>2. c \in {<<Thread(0), MonadRef>>, <<Thread(1), MonadRef>>}
    BY DEF Inv, BootOK
  <2>3. v = MonadRef
    BY <2>1, <2>2
  <2>4. m = HelloMsg
    BY <1>1, <2>3 DEF Takes, Mailbox
  <2> QED BY <1>1, <2>4 DEF HelloMsg, Request
<1>11. fn = "hello" => system = <<>>
  <2> SUFFICES ASSUME fn = "hello", system # <<>> PROVE FALSE
    OBVIOUS
  <2>1. Chan(s, v) \in {<<>>, <<StartProgramMsg(0)>>} /\ Chan(s, v) # <<>> /\ m = Chan(s, v)[1]
    BY <1>1, <1>9, TakenIs DEF Inv, BootOK
  <2>2. m = StartProgramMsg(0)
    BY <2>1
  <2> QED BY <1>1, <2>2 DEF StartProgramMsg, Request
<1> QED BY <1>1, <1>3, <1>5, <1>6, <1>7, <1>8, <1>9, <1>10, <1>11 DEF IsTaken

\* The nodes, the system and the first messages.
LEMMA BootStays ==
  ASSUME Inv, NEW s, NEW v, NEW m, NEW ps, NEW out, NEW new,
         Step(s, v, m, ps, out, new), NewOK(v, new), OutOK(v, out), nodes' = nodes,
         \/ system # <<>> /\ system' = system
         \/ system = <<>> /\ system' # <<>> /\ s = Thread(0) /\ v = MonadRef
  PROVE  NodesOK' /\ BootOK'
<1>1. AreVatsAfter(v, ps, new) /\ v \in DOMAIN vats /\ Takes(s, v, m)
  BY VatsAfter DEF Step, NewOK, Inv
<1>2. NodesOK'
  <2>1. \A i \in DOMAIN nodes : nodes[i].nodeman \in DOMAIN vats' /\ vats'[nodes[i].nodeman].kind = "NodeMan"
    BY <1>1 DEF AreVatsAfter, Inv, NodesOK
  <2>2. Len(nodes) = 1 => base'[1] = 0
    <3> SUFFICES ASSUME Len(nodes) = 1 PROVE base'[1] = 0
      OBVIOUS
    <3>1. base[1] = 0 /\ v \in Nodes \X Nat /\ v[2] < base[v[1]]
      BY <1>1 DEF Inv, NodesOK, VatsOK
    <3>2. v[1] = 0
      BY <3>1 DEF Nodes
    <3>3. base' = [base EXCEPT ![v[1]] = base[v[1]] + Len(new)]
      BY DEF Step, EndsWith
    <3>4. base' = [base EXCEPT ![0] = base[0] + Len(new)]
      BY <3>2, <3>3
    <3>5. base'[1] = base[1]
      <4>1. base \in [Nodes -> Nat]
        BY DEF Inv, VatsOK
      <4> QED BY <3>4, <4>1 DEF Nodes
    <3> QED BY <3>1, <3>5
  <2> QED BY <2>1, <2>2 DEF Inv, NodesOK, Node
<1>3. ASSUME NEW n PROVE
        Chan(Thread(n), MonadRef)' = (IF s = Thread(n) /\ v = MonadRef THEN Tail(Chan(Thread(n), MonadRef))
                                      ELSE Chan(Thread(n), MonadRef))
  BY NotStartedBefore DEF Inv
<1>4. ASSUME NEW x PROVE Tail(<<x>>) = <<>>
  OBVIOUS
<1>5. system' # <<>>
  OBVIOUS
<1>6. Chan(Thread(0), MonadRef)' \in {<<>>, <<StartProgramMsg(0)>>}
  <2>1. PICK q : q = Chan(Thread(0), MonadRef)
    OBVIOUS
  <2>2. CASE s = Thread(0) /\ v = MonadRef
    <3>1. q # <<>>
      BY <1>1, <2>1, <2>2, TakenIs DEF Inv
    <3>2. q = <<StartProgramMsg(0)>> \/ q = <<HelloMsg, StartProgramMsg(0)>>
      BY <2>1, <3>1 DEF Inv, BootOK
    <3>3. Tail(<<HelloMsg, StartProgramMsg(0)>>) = <<StartProgramMsg(0)>>
      OBVIOUS
    <3> QED BY <1>3, <1>4, <2>1, <2>2, <3>2, <3>3
  <2>3. CASE ~ (s = Thread(0) /\ v = MonadRef)
    BY <1>3, <2>3 DEF Inv, BootOK
  <2> QED BY <2>2, <2>3
<1>7. /\ Chan(Thread(1), MonadRef)' \in {<<>>, <<StartProgramMsg(1)>>}
      /\ Len(nodes) = 1 => Chan(Thread(1), MonadRef)' = <<>>
  <2>1. PICK q : q = Chan(Thread(1), MonadRef)
    OBVIOUS
  <2>2. q \in {<<>>, <<StartProgramMsg(1)>>} /\ (Len(nodes) = 1 => q = <<>>)
    BY <2>1 DEF Inv, BootOK
  <2>3. CASE s = Thread(1) /\ v = MonadRef
    <3>1. q # <<>>
      BY <1>1, <2>1, <2>3, TakenIs DEF Inv
    <3> QED BY <1>3, <1>4, <2>1, <2>2, <2>3, <3>1
  <2>4. CASE ~ (s = Thread(1) /\ v = MonadRef)
    BY <1>3, <2>1, <2>2, <2>4
  <2> QED BY <2>3, <2>4
<1>8. BootOK'
  BY <1>5, <1>6, <1>7 DEF BootOK, Thread, MonadRef, StartProgramMsg, Request
<1> QED BY <1>2, <1>8

\* The system entities stay what they are.
LEMMA SystemStays ==
  ASSUME Inv, system # <<>>, system' = system, Grows,
         subscribers' = subscribers \/ subscribers' = Append(subscribers, <<0, 3>>)
  PROVE  SystemOK'
<1>1. /\ system = SystemMap
      /\ \A x \in Names : system[x] \in DOMAIN vats' /\ vats'[system[x]].kind = x
  BY DEF Inv, SystemOK, Grows
<1>2. IsSeq(subscribers) /\ \A i \in DOMAIN subscribers : subscribers[i] = <<0, 3>>
  BY DEF Inv, SystemOK
<1>3. IsSeq(subscribers') /\ \A i \in DOMAIN subscribers' : subscribers'[i] = <<0, 3>>
  <2>1. CASE subscribers' = subscribers
    BY <1>2, <2>1
  <2>2. CASE subscribers' = Append(subscribers, <<0, 3>>)
    <3>1. PICK q, S, x : q = subscribers /\ x = <<0, 3>> /\ S = {x}
      OBVIOUS
    <3>2. q \in Seq(S)
      <4>1. IsSeq(q) /\ \A i \in DOMAIN q : q[i] \in S
        BY <1>2, <3>1
      <4>2. ToSet(q) \subseteq S /\ q \in Seq(ToSet(q))
        BY <4>1 DEF IsSeq, ToSet
      <4> QED BY <4>2
    <3>3. PICK r : r = subscribers'
      OBVIOUS
    <3>4. r = Append(q, x) /\ x \in S
      BY <2>2, <3>1, <3>3
    <3>5. r \in Seq(S)
      BY <3>2, <3>4
    <3>6. r \in [1 .. Len(r) -> S] /\ Len(r) \in Nat
      BY <3>5, LenProperties
    <3>7. IsSeq(r) /\ DOMAIN r = 1 .. Len(r)
      BY <3>6, SeqIs
    <3>8. \A i \in DOMAIN r : r[i] = x
      BY <3>1, <3>6, <3>7
    <3> QED BY <3>1, <3>3, <3>7, <3>8
  <2> QED BY <2>1, <2>2
<1> QED BY <1>1, <1>3 DEF SystemOK, SystemMap, Index, IsSeq

StepOK(s, v, m, ps, out, new) ==
  /\ Step(s, v, m, ps, out, new) /\ NewOK(v, new) /\ OutOK(v, out) /\ PsOK(v, ps)
  /\ SendsOnce(s, v, m, out) /\ Settles(v, m, ps) /\ StartsRight(s, v, m, ps, out)
Core ==
  /\ VatsOK /\ MailOK /\ PromisesOK /\ LegsOnce /\ StartsOK /\ RanOK /\ MainsOK /\ PrintsOK

\* A step that sends and leaves what is right keeps the core of the invariant.
LEMMA HandlerKeeps ==
  ASSUME Inv, Grows, NEW s, NEW v, NEW m, NEW ps, NEW out, NEW new, StepOK(s, v, m, ps, out, new),
         \A p \in Programs : Moves(s, v, p), RanStays, Printed(s, v, m),
         vats[v].kind = "Program" => PrintsSent(v, ps, out)
  PROVE  Core'
<1> USE DEF Inv, StepOK
<1>1. VatsOK'
  BY VatsStay
<1>2. MailOK'
  BY MailStays
<1>3. PromisesOK'
  BY PromisesStay
<1>4. LegsOnce'
  BY LegsStay
<1>5. StartsOK'
  BY StartsStay
<1>6. MainsOK'
  BY MainsStay
<1>7. PrintsOK'
  BY PrintsStay
<1>8. RanOK'
  BY DEF RanStays, RanOK
<1> QED BY <1>1, <1>2, <1>3, <1>4, <1>5, <1>6, <1>7, <1>8 DEF Core

\* A step forgets no vat and no promise.
LEMMA StepGrows ==
  ASSUME Inv, NEW s, NEW v, NEW m, NEW ps, NEW out, NEW new, Step(s, v, m, ps, out, new), NewOK(v, new),
         DOMAIN promises[v] \subseteq DOMAIN ps, RanStays, system # <<>> => system' = system
  PROVE  Grows /\ promises'[v] = ps /\ AreVatsAfter(v, ps, new)
<1>1. AreVatsAfter(v, ps, new) /\ v \in DOMAIN vats
  BY VatsAfter DEF Step, NewOK, Inv
<1>2. ASSUME NEW w \in DOMAIN vats
      PROVE  w \in DOMAIN vats' /\ vats'[w] = vats[w] /\ DOMAIN promises[w] \subseteq DOMAIN promises'[w]
  <2>1. CASE w = v
    BY <1>1, <2>1 DEF AreVatsAfter
  <2>2. CASE w # v
    BY <1>1, <2>2 DEF AreVatsAfter
  <2> QED BY <2>1, <2>2
<1>3. \A p \in Programs : ran[p] # <<>> => ran'[p] # <<>>
  BY DEF RanStays
<1> QED BY <1>1, <1>2, <1>3 DEF Grows, AreVatsAfter

\* The step of a handler of a request is right if its calls are.
LEMMA RequestStep ==
  ASSUME Inv, Grows, NEW s, NEW v, NEW m, NEW ps, NEW out, NEW new, Step(s, v, m, ps, out, new), NewOK(v, new),
         m.re = FALSE, promises'[v] = ps,
         NEW calls, NEW answered \in BOOLEAN, NEW value, NEW a, OutIs(v, calls, s, m, answered, value, out),
         PsIs(v, calls, ps, a), CallsOK(v, calls), WaitingOK(v, calls, ps), a = None \/ AskerOK(v, a)',
         answered => AnswerOK(s, m, value), StartCallsOK(v, calls, ps)
  PROVE  StepOK(s, v, m, ps, out, new)
<1>1. v \in DOMAIN vats /\ Takes(s, v, m) /\ IsSeq(calls)
  BY DEF Step, CallsOK
<1>2. PsOK(v, ps) /\ Settles(v, m, ps)
  BY <1>1, HandlerLeaves DEF Inv
<1>3. \A i \in DOMAIN calls : Len(promises[v]) + i \in DOMAIN ps
  <2>1. PICK len \in Nat, b \in Nat : len = Len(promises[v]) /\ b = Len(calls) /\ DOMAIN calls = 1 .. b
    <3>1. IsSeq(promises[v])
      BY <1>1 DEF Inv, PromisesOK
    <3> QED BY <1>1, <3>1, SeqDomain
  <2>2. DOMAIN ps = 1 .. len + b
    BY <2>1 DEF PsIs
  <2> QED BY <2>1, <2>2
<1>4. OutOK(v, out) /\ SendsOnce(s, v, m, out) /\ StartsRight(s, v, m, ps, out)
  BY <1>1, <1>3, HandlerSends DEF Inv
<1> QED BY <1>2, <1>4 DEF StepOK

\* A handler that only calls who is there, and starts nothing.
LEMMA QuietStep ==
  ASSUME Inv, NEW s, NEW v, NEW m, NEW ps, NEW out, NEW new, StepOK(s, v, m, ps, out, new), Grows,
         MainsQuiet(v, ps, out), ran' = ran, nodes' = nodes, Printed(s, v, m), vats[v].kind # "Program"
  PROVE  Core'
<1>1. RanStays
  BY DEF RanStays
<1>2. \A p \in Programs : Moves(s, v, p)
  BY QuietMoves DEF Inv, StepOK
<1> QED BY <1>1, <1>2, HandlerKeeps

\* The promises of a vat, and the entity a capability stands for.
LEMMA PromisesMean ==
  ASSUME Inv, NEW v \in DOMAIN vats
  PROVE  /\ IsSeq(promises[v]) /\ Len(promises[v]) \in Nat /\ DOMAIN promises[v] = 1 .. Len(promises[v])
         /\ \A k \in DOMAIN promises[v] : DOMAIN promises[v][k] = Fields /\ IsSeq(promises[v][k].dependents)
         /\ \A c \in ToSet(Caps(v)) :
              /\ Cap(v, c) \in DOMAIN Caps(v) /\ Caps(v)[Cap(v, c)] = c /\ Cap(v, c) \in DOMAIN promises[v]
              /\ \A x : x = promises[v][Cap(v, c)].value /\ x # None =>
                   system # <<>> /\ c \in Names /\ x = system[c] /\ x \in DOMAIN vats /\ vats[x].kind = c
<1>1. IsSeq(promises[v]) /\ Len(promises[v]) \in Nat /\ DOMAIN promises[v] = 1 .. Len(promises[v])
      /\ DOMAIN Caps(v) \subseteq DOMAIN promises[v]
  BY SeqDomain DEF Inv, PromisesOK
<1>2. ASSUME NEW k \in DOMAIN promises[v]
      PROVE  /\ DOMAIN promises[v][k] = Fields /\ IsSeq(promises[v][k].dependents)
             /\ k \in DOMAIN Caps(v) => promises[v][k].value = None \/ RefOK(v, k, promises[v][k].value)
  BY DEF Inv, PromisesOK, PromiseOK
<1>3. ASSUME NEW c \in ToSet(Caps(v))
      PROVE  /\ Cap(v, c) \in DOMAIN Caps(v) /\ Caps(v)[Cap(v, c)] = c /\ Cap(v, c) \in DOMAIN promises[v]
             /\ \A x : x = promises[v][Cap(v, c)].value /\ x # None =>
                  system # <<>> /\ c \in Names /\ x = system[c] /\ x \in DOMAIN vats /\ vats[x].kind = c
  <2>1. PICK q, k : q = Caps(v) /\ k = Cap(v, c)
    OBVIOUS
  <2>2. \E i \in DOMAIN q : q[i] = c
    BY <1>3, <2>1 DEF ToSet
  <2>3. k = CHOOSE i \in DOMAIN q : q[i] = c
    BY <2>1 DEF Cap, Index, Caps
  <2>4. k \in DOMAIN q /\ q[k] = c
    BY <2>2, <2>3
  <2>5. k \in DOMAIN promises[v]
    BY <1>1, <2>1, <2>4
  <2>6. ASSUME NEW x, x = promises[v][k].value, x # None
        PROVE  system # <<>> /\ c \in Names /\ x = system[c] /\ x \in DOMAIN vats /\ vats[x].kind = c
    <3>1. RefOK(v, k, x)
      BY <1>2, <2>1, <2>4, <2>5, <2>6
    <3>2. system # <<>> /\ c \in Names /\ x = system[c]
      BY <2>1, <2>4, <3>1 DEF RefOK
    <3> QED BY <3>2 DEF Inv, SystemOK
  <2> QED BY <2>1, <2>4, <2>5, <2>6
<1> QED BY <1>1, <1>2, <1>3

\* Without a panic the reasons for panics are still known.
LEMMA KnownStay ==
  ASSUME PanicsAreKnown, Grows, panics' = panics
  PROVE  PanicsAreKnown'
<1>1. "void" \in panics => \E p \in Programs : "zig" \in ToSet(Main[p]) /\ ran'[p] # <<>>
  BY DEF PanicsAreKnown, Grows
<1>2. "name lost" \in panics => \E v \in DOMAIN vats' : v[1] = 1 /\ vats'[v].kind = "Program"
  BY DEF PanicsAreKnown, Grows
<1> QED BY <1>1, <1>2 DEF PanicsAreKnown

\* From the core to the whole invariant.
LEMMA Finishes ==
  ASSUME Inv, Grows, Core', NEW s, NEW v, NEW m, NEW ps, NEW out, NEW new, StepOK(s, v, m, ps, out, new),
         system # <<>>, system' = system, nodes' = nodes, panics' = panics,
         subscribers' = subscribers \/ subscribers' = Append(subscribers, <<0, 3>>)
  PROVE  Inv'
<1>1. NodesOK' /\ BootOK'
  BY BootStays DEF StepOK
<1>2. SystemOK'
  BY SystemStays
<1>3. PanicsAreKnown'
  BY KnownStay DEF Inv
<1>4. ScreenOK'
  BY DEF ScreenOK
<1> QED BY <1>1, <1>2, <1>3, <1>4 DEF Inv, Core

\* A handler that only answers.
LEMMA SayingStep ==
  ASSUME Inv, Grows, NEW s, NEW v \in DOMAIN vats, NEW m, Takes(s, v, m), m.re = FALSE, NEW value, NEW new,
         EndsWith(s, v, promises[v], Answer(NoMail, s, m, value), new), NewOK(v, new), AnswerOK(s, m, value),
         ran' = ran, nodes' = nodes, Printed(s, v, m), vats[v].kind # "Program"
  PROVE  Core' /\ \E ps, out : StepOK(s, v, m, ps, out, new)
<1>1. PICK ps, out, calls : ps = promises[v] /\ out = Answer(NoMail, s, m, value) /\ calls = <<>>
  OBVIOUS
<1>2. Step(s, v, m, ps, out, new)
  BY <1>1 DEF Step
<1>3. IsSeq(calls) /\ DOMAIN calls = {}
  BY <1>1, SeqDomain
<1>4. OutIs(v, calls, s, m, TRUE, value, out)
  <2>1. OutIs(v, <<>>, s, m, FALSE, value, NoMail)
    BY NothingIs
  <2> QED BY <1>1, <2>1, AnswerIs
<1>5. PsIs(v, calls, ps, None)
  <2>1. IsSeq(promises[v])
    BY PromisesMean
  <2>2. \A k \in DOMAIN promises[v] : DOMAIN promises[v][k] = Fields /\ IsSeq(promises[v][k].dependents)
    BY PromisesMean
  <2> QED BY <1>1, <2>1, <2>2, NoCallsIs
<1>6. promises'[v] = ps
  <2>1. RanStays
    BY DEF RanStays
  <2>2. DOMAIN promises[v] \subseteq DOMAIN ps
    BY <1>1
  <2>3. AreVatsAfter(v, ps, new)
    BY <1>2, VatsAfter DEF NewOK, Step, Inv
  <2> QED BY <2>3 DEF AreVatsAfter
<1>7. CallsOK(v, calls) /\ StartCallsOK(v, calls, ps)
  BY <1>3 DEF CallsOK, StartCallsOK
<1>8. WaitingOK(v, calls, ps)
  BY <1>3 DEF WaitingOK, WaitsOn
<1>9. StepOK(s, v, m, ps, out, new)
  <2>1. TRUE \in BOOLEAN
    OBVIOUS
  <2> QED BY <1>2, <1>4, <1>5, <1>6, <1>7, <1>8, RequestStep
<1>10. MainsQuiet(v, ps, out)
  <2>1. ASSUME NEW d, NEW j \in DOMAIN At(out, d) PROVE At(out, d)[j].re
    <3>1. PICK x : x = At(out, d)[j]
      OBVIOUS
    <3>2. ~ \E i : IsCall(v, calls, d, i, x)
      BY <1>3 DEF IsCall
    <3>3. IsAnswer(s, m, value, d, x)
      BY <1>4, <2>1, <3>1, <3>2 DEF OutIs
    <3> QED BY <3>1, <3>3 DEF IsAnswer, Response
  <2> QED BY <1>1, <2>1 DEF MainsQuiet
<1>11. Core'
  BY <1>9, <1>10, QuietStep
<1> QED BY <1>9, <1>11

\* Most handlers make no vat.
LEMMA NoneNew ==
  ASSUME NEW v PROVE NewOK(v, <<>>)
BY SeqDomain DEF NewOK

\* A handler that ends with what is there already, and makes no entity.
LEMMA EndsGrows ==
  ASSUME Inv, NEW s, NEW v \in DOMAIN vats, NEW m, Takes(s, v, m), NEW ps, NEW out, Ends(s, v, ps, out),
         DOMAIN promises[v] \subseteq DOMAIN ps, RanStays, system' = system
  PROVE  /\ Grows /\ promises'[v] = ps /\ Step(s, v, m, ps, out, <<>>) /\ NewOK(v, <<>>)
         /\ DOMAIN vats' = DOMAIN vats /\ \A w \in DOMAIN vats : vats'[w] = vats[w]
<1>1. EndsWith(s, v, ps, out, <<>>)
  BY DEF Ends
<1>2. Step(s, v, m, ps, out, <<>>)
  BY <1>1 DEF Step
<1>3. NewOK(v, <<>>)
  BY NoneNew
<1>4. Grows /\ promises'[v] = ps /\ AreVatsAfter(v, ps, <<>>)
  BY <1>2, <1>3, StepGrows
<1>5. Born(v, <<>>) = {}
  BY SeqDomain DEF Born
<1> QED BY <1>2, <1>3, <1>4, <1>5 DEF AreVatsAfter

\* A handler that only answers keeps the invariant.
LEMMA EndsSayingKeeps ==
  ASSUME Inv, NEW s, NEW v \in DOMAIN vats, NEW m, Takes(s, v, m), m.re = FALSE, NEW value, EndsSaying(s, v, m, value),
         m.fn = "request-far-entity" => RefOK(s, m.prom, value),
         m.fn # "create-vat", system # <<>>, system' = system, nodes' = nodes, ran' = ran, panics' = panics,
         Printed(s, v, m), vats[v].kind # "Program", RequestOK(s, v, m),
         subscribers' = subscribers \/ subscribers' = Append(subscribers, <<0, 3>>)
  PROVE  Inv'
<1>1. Ends(s, v, promises[v], Answer(NoMail, s, m, value))
  BY DEF EndsSaying
<1>2. PICK ps, out : ps = promises[v] /\ out = Answer(NoMail, s, m, value)
  OBVIOUS
<1>3. Ends(s, v, ps, out) /\ DOMAIN promises[v] \subseteq DOMAIN ps
  BY <1>1, <1>2
<1>4. RanStays
  BY DEF RanStays
<1>5. Grows /\ NewOK(v, <<>>)
  BY <1>3, <1>4, EndsGrows
<1>6. AnswerOK(s, m, value)
  <2>1. m.fn = "request-far-entity" => RefOK(s, m.prom, value)'
    <3> SUFFICES ASSUME m.fn = "request-far-entity" PROVE RefOK(s, m.prom, value)'
      OBVIOUS
    <3>1. s \in DOMAIN vats
      BY DEF RequestOK, ThreadRequestOK, VatRequestOK
    <3>2. PICK k : k = m.prom
      OBVIOUS
    <3>3. RefOK(s, k, value)
      BY <3>2
    <3>4. RefOK(s, k, value)'
      BY <1>5, <3>1, <3>3, RefStays
    <3> QED BY <3>2, <3>4 DEF RefOK
  <2> QED BY <2>1 DEF AnswerOK
<1>7. EndsWith(s, v, promises[v], Answer(NoMail, s, m, value), <<>>)
  BY <1>1 DEF Ends
<1>8. Core' /\ \E qs, o : StepOK(s, v, m, qs, o, <<>>)
  BY <1>5, <1>6, <1>7, SayingStep
<1>9. PICK qs, o : StepOK(s, v, m, qs, o, <<>>)
  BY <1>8
<1> QED BY <1>5, <1>8, <1>9, Finishes

-----------------------------------------------------------------------------
(* The handlers that only answer *)

\* Which kind of entity knows which function.
LEMMA KnowsMeans ==
  ASSUME NEW k
  PROVE  /\ "print" \in Knows(k) => k = "Io"
         /\ "init" \in Knows(k) => k = "Amoeba"
         /\ "handle-input" \in Knows(k) => k = "Amoeba"
         /\ "create-vat" \in Knows(k) => k = "NodeMan"
         /\ "main" \in Knows(k) => k = "Program"
BY DEF Knows

\* The Monad says where a system entity is.
LEMMA RequestFarEntityKeeps ==
  ASSUME Inv, NEW s, NEW m, RequestFarEntity(s, m)
  PROVE  Inv'
<1>1. TakesCall(s, MonadRef, "request-far-entity", m) /\ EndsSaying(s, MonadRef, m, system[m.args])
      /\ UNCHANGED <<kernel, screen, keys, down, history>>
  BY DEF RequestFarEntity
<1>2. /\ MonadRef \in DOMAIN vats /\ Takes(s, MonadRef, m) /\ m.re = FALSE /\ m.fn = "request-far-entity"
      /\ RequestOK(s, MonadRef, m) /\ m.args # Nothing /\ m.args \in DOMAIN system
      /\ system # <<>>
  <2>1. PICK fn, v : fn = "request-far-entity" /\ v = MonadRef
    OBVIOUS
  <2>2. TakesCall(s, v, fn, m)
    BY <1>1, <2>1
  <2>3. IsTaken(s, v, fn, m)
    BY <2>2, TakenCall
  <2> QED BY <2>1, <2>3 DEF IsTaken
<1>3. PICK v, value : v = MonadRef /\ value = system[m.args]
  OBVIOUS
<1>4. RefOK(s, m.prom, value)
  <2>1. VatRequestOK(s, v, m)
    BY <1>2, <1>3 DEF RequestOK, ThreadRequestOK
  <2>2. CallOK(s, v, m.fn, m.args, m.prom)
    BY <2>1 DEF VatRequestOK
  <2>3. m.args = Caps(s)[m.prom]
    BY <1>2, <2>2 DEF CallOK
  <2>4. DOMAIN system = Names
    BY <1>2 DEF Inv, SystemOK, SystemMap
  <2> QED BY <1>2, <1>3, <2>3, <2>4 DEF RefOK
<1>5. system' = system /\ nodes' = nodes /\ ran' = ran /\ panics' = panics /\ prints' = prints /\ subscribers' = subscribers
  BY <1>1 DEF kernel, history
<1>6. vats[v].kind # "Program" /\ v \in DOMAIN vats
  BY <1>3 DEF Inv, VatsOK
<1>7. Printed(s, v, m)
  BY <1>5 DEF Printed
<1>8. EndsSaying(s, v, m, value) /\ Takes(s, v, m) /\ RequestOK(s, v, m)
  BY <1>1, <1>2, <1>3
<1>9. m.fn # "create-vat"
  BY <1>2
<1> QED BY <1>2, <1>4, <1>5, <1>6, <1>7, <1>8, <1>9, EndsSayingKeeps

\* The Monad notes the Amoeba for the keys to come.
LEMMA SubscribeIrqKeeps ==
  ASSUME Inv, NEW s, NEW m, SubscribeIrq(s, m)
  PROVE  Inv'
<1>1. TakesCall(s, MonadRef, "subscribe-irq", m) /\ EndsSaying(s, MonadRef, m, Nothing)
      /\ subscribers' = Append(subscribers, <<0, 3>>)
      /\ UNCHANGED <<nodes, system, screen, keys, down, history>>
  BY DEF SubscribeIrq
<1>2. PICK v : v = MonadRef
  OBVIOUS
<1>3. /\ v \in DOMAIN vats /\ Takes(s, v, m) /\ m.re = FALSE /\ m.fn = "subscribe-irq"
      /\ RequestOK(s, v, m) /\ system # <<>>
  <2>1. PICK fn : fn = "subscribe-irq"
    OBVIOUS
  <2>2. TakesCall(s, v, fn, m)
    BY <1>1, <1>2, <2>1
  <2>3. IsTaken(s, v, fn, m)
    BY <2>2, TakenCall
  <2> QED BY <2>1, <2>3 DEF IsTaken
<1>4. system' = system /\ nodes' = nodes /\ ran' = ran /\ panics' = panics /\ prints' = prints
  BY <1>1 DEF history
<1>5. vats[v].kind # "Program"
  BY <1>2 DEF Inv, VatsOK
<1>6. Printed(s, v, m)
  BY <1>4 DEF Printed
<1>7. EndsSaying(s, v, m, Nothing) /\ m.fn # "create-vat" /\ m.fn # "request-far-entity"
  BY <1>1, <1>2, <1>3
<1> QED BY <1>1, <1>3, <1>4, <1>5, <1>6, <1>7, EndsSayingKeeps

\* The Amoeba is told of a key.
LEMMA HandleInputKeeps ==
  ASSUME Inv, NEW s, NEW v, NEW m, HandleInput(s, v, m)
  PROVE  Inv'
<1>1. TakesCall(s, v, "handle-input", m) /\ EndsSaying(s, v, m, Nothing)
      /\ UNCHANGED <<kernel, screen, keys, down, history>>
  BY DEF HandleInput
<1>2. /\ v \in DOMAIN vats /\ Takes(s, v, m) /\ m.re = FALSE /\ m.fn = "handle-input"
      /\ RequestOK(s, v, m) /\ system # <<>> /\ "handle-input" \in Knows(vats[v].kind)
  <2>1. PICK fn : fn = "handle-input"
    OBVIOUS
  <2>2. TakesCall(s, v, fn, m)
    BY <1>1, <2>1
  <2>3. IsTaken(s, v, fn, m)
    BY <2>2, TakenCall
  <2> QED BY <2>1, <2>3 DEF IsTaken
<1>3. system' = system /\ nodes' = nodes /\ ran' = ran /\ panics' = panics /\ prints' = prints /\ subscribers' = subscribers
  BY <1>1 DEF kernel, history
<1>4. vats[v].kind # "Program"
  BY <1>2, KnowsMeans
<1>5. Printed(s, v, m)
  BY <1>3 DEF Printed
<1>6. m.fn # "create-vat" /\ m.fn # "request-far-entity"
  BY <1>2
<1> QED BY <1>1, <1>2, <1>3, <1>4, <1>5, <1>6, EndsSayingKeeps

\* The Io prints.
LEMMA IoPrintKeeps ==
  ASSUME Inv, NEW s, NEW v, NEW m, IoPrint(s, v, m)
  PROVE  Inv'
<1>1. TakesCall(s, v, "print", m) /\ EndsSaying(s, v, m, Nothing) /\ prints' = Put(prints, s, <<m.args>>)
      /\ UNCHANGED <<kernel, screen, keys, down, panics, ran>>
  BY DEF IoPrint
<1>2. /\ v \in DOMAIN vats /\ Takes(s, v, m) /\ m.re = FALSE /\ m.fn = "print"
      /\ RequestOK(s, v, m) /\ system # <<>> /\ "print" \in Knows(vats[v].kind)
  <2>1. PICK fn : fn = "print"
    OBVIOUS
  <2>2. TakesCall(s, v, fn, m)
    BY <1>1, <2>1
  <2>3. IsTaken(s, v, fn, m)
    BY <2>2, TakenCall
  <2> QED BY <2>1, <2>3 DEF IsTaken
<1>3. system' = system /\ nodes' = nodes /\ ran' = ran /\ panics' = panics /\ subscribers' = subscribers
  BY <1>1 DEF kernel
<1>4. vats[v].kind = "Io" /\ v = Io
  BY <1>2, KnowsMeans DEF Inv, VatsOK, VatOK, Io
<1>5. s \in DOMAIN vats /\ vats[s].kind = "Program" /\ m.args \in Nat
  <2>1. VatRequestOK(s, v, m)
    BY <1>2 DEF RequestOK, ThreadRequestOK
  <2>2. s \in DOMAIN vats /\ CallOK(s, v, m.fn, m.args, m.prom)
    BY <2>1 DEF VatRequestOK
  <2> QED BY <1>2, <2>2 DEF CallOK
<1>6. Printed(s, v, m)
  BY <1>1, <1>2, <1>4, <1>5 DEF Printed, IsPrint
<1>7. m.fn # "create-vat" /\ m.fn # "request-far-entity" /\ vats[v].kind # "Program"
  BY <1>2, <1>4
<1> QED BY <1>1, <1>2, <1>3, <1>6, <1>7, EndsSayingKeeps

\* A NodeMan makes the vat of a program.
LEMMA CreateVatKeeps ==
  ASSUME Inv, NEW s, NEW v, NEW m, CreateVat(s, v, m)
  PROVE  Inv'
<1>1. TakesCall(s, v, "create-vat", m) /\ UNCHANGED <<kernel, screen, keys, down, history>>
  BY DEF CreateVat
<1>2. PICK new, x, value : new = <<x>> /\ x = Vat("Program", m.args) /\ value = <<v[1], base[v[1]]>>
  OBVIOUS
<1>3. EndsWith(s, v, promises[v], Answer(NoMail, s, m, value), new)
  BY <1>2 DEF CreateVat
<1>4. /\ v \in DOMAIN vats /\ Takes(s, v, m) /\ m.re = FALSE /\ m.fn = "create-vat"
      /\ RequestOK(s, v, m) /\ system # <<>> /\ "create-vat" \in Knows(vats[v].kind)
  <2>1. PICK fn : fn = "create-vat"
    OBVIOUS
  <2>2. TakesCall(s, v, fn, m)
    BY <1>1, <2>1
  <2>3. IsTaken(s, v, fn, m)
    BY <2>2, TakenCall
  <2> QED BY <2>1, <2>3 DEF IsTaken
<1>5. system' = system /\ nodes' = nodes /\ ran' = ran /\ panics' = panics /\ subscribers' = subscribers /\ prints' = prints
  BY <1>1 DEF kernel, history
<1>6. vats[v].kind # "Program"
  BY <1>4, KnowsMeans
<1>7. m.args \in Known /\ FitsAt(m.args, v[1])
  <2>1. VatRequestOK(s, v, m)
    BY <1>4 DEF RequestOK, ThreadRequestOK
  <2>2. CallOK(s, v, m.fn, m.args, m.prom)
    BY <2>1 DEF VatRequestOK
  <2> QED BY <1>4, <2>2 DEF CallOK
<1>8. IsSeq(new) /\ DOMAIN new = 1 .. 1 /\ new[1] = x /\ x.kind = "Program" /\ x.prog = m.args
  BY <1>2, SeqDomain DEF Vat
<1>9. NewOK(v, new)
  <2>1. \A u : VatOK(u, x)
    BY <1>7, <1>8 DEF VatOK, Kinds
  <2> QED BY <1>8, <2>1 DEF NewOK
<1>10. PICK ps, out : ps = promises[v] /\ out = Answer(NoMail, s, m, value)
  OBVIOUS
<1>11. Step(s, v, m, ps, out, new)
  BY <1>3, <1>4, <1>10 DEF Step
<1>12. Grows /\ AreVatsAfter(v, ps, new)
  BY <1>5, <1>9, <1>10, <1>11, StepGrows DEF RanStays
<1>13. MadeFor(value, m.args)'
  <2>1. PICK n, b : n = v[1] /\ b = base[v[1]] /\ b \in Nat
    BY <1>4 DEF Inv, VatsOK
  <2>2. value = <<n, b + 1 - 1>>
    BY <1>2, <2>1
  <2>3. value \in Born(v, new)
    BY <1>8, <2>1, <2>2 DEF Born
  <2>4. value \in DOMAIN vats' /\ \E i \in DOMAIN new : vats'[value] = new[i]
    BY <1>12, <2>3 DEF AreVatsAfter
  <2>5. vats'[value] = x /\ value[1] = n
    BY <1>8, <2>2, <2>4
  <2> QED BY <1>7, <1>8, <2>1, <2>4, <2>5 DEF MadeFor, FitsAt
<1>14. AnswerOK(s, m, value)
  BY <1>4, <1>13 DEF AnswerOK
<1>15. Printed(s, v, m)
  BY <1>5 DEF Printed
<1>16. Core' /\ \E qs, o : StepOK(s, v, m, qs, o, new)
  BY <1>3, <1>4, <1>5, <1>6, <1>9, <1>12, <1>14, <1>15, SayingStep
<1>17. PICK qs, o : StepOK(s, v, m, qs, o, new)
  BY <1>16
<1> QED BY <1>4, <1>5, <1>12, <1>16, <1>17, Finishes

\* The system entities get the addresses that the map of the kernel says.
LEMMA HelloKeeps ==
  ASSUME Inv, NEW s, NEW m, Hello(s, m)
  PROVE  Inv'
<1>1. /\ TakesCall(s, MonadRef, "hello", m) /\ UNCHANGED <<nodes, subscribers, screen, keys, down, history>>
      /\ system' = [x \in Names |->
                      IF x = "Monad" THEN MonadRef ELSE <<0, base[0] + Index(SystemNames, x) - 1>>]
  BY DEF Hello
<1>2. PICK v : v = MonadRef
  OBVIOUS
<1>3. PICK new : new = [i \in DOMAIN SystemNames |-> Vat(SystemNames[i], None)]
  OBVIOUS
<1>4. EndsWith(s, v, promises[v], Answer(NoMail, s, m, Nothing), new)
  BY <1>2, <1>3 DEF Hello
<1>5. /\ v \in DOMAIN vats /\ Takes(s, v, m) /\ m.re = FALSE /\ m.fn = "hello"
      /\ RequestOK(s, v, m) /\ system = <<>> /\ s = Thread(0)
  <2>1. PICK fn : fn = "hello"
    OBVIOUS
  <2>2. TakesCall(s, v, fn, m)
    BY <1>1, <1>2, <2>1
  <2>3. IsTaken(s, v, fn, m)
    BY <2>2, TakenCall
  <2> QED BY <2>1, <2>3 DEF IsTaken
<1>6. nodes' = nodes /\ ran' = ran /\ panics' = panics /\ subscribers' = subscribers /\ prints' = prints
  BY <1>1 DEF history
<1>7. base[0] = 2 /\ v[1] = 0 /\ vats[v].kind # "Program"
  BY <1>2, <1>5 DEF Inv, SystemOK, VatsOK, MonadRef
<1>8. /\ DOMAIN SystemNames = 1 .. 4 /\ SystemNames[1] = "Io" /\ SystemNames[2] = "Amoeba"
      /\ SystemNames[3] = "HttpLb" /\ SystemNames[4] = "ZenoMaster"
  BY DEF SystemNames
<1>9. new = [i \in 1 .. 4 |-> Vat(SystemNames[i], None)]
  BY <1>3, <1>8
<1>10. IsSeq(new) /\ DOMAIN new = 1 .. 4
  <2>1. new = [i \in 1 .. 4 |-> new[i]]
    BY <1>9
  <2> QED BY <2>1, SeqIs
<1>11. \A i \in 1 .. 4 : new[i].kind = SystemNames[i]
  BY <1>9 DEF Vat
<1>12. NewOK(v, new)
  <2>1. ASSUME NEW i \in 1 .. 4, NEW u, u = <<0, 2 + i - 1>> PROVE VatOK(u, new[i])
    <3>1. u[1] = 0 /\ (i = 1 => u = <<0, 2>>) /\ (i = 2 => u = <<0, 3>>)
      BY <2>1
    <3>2. i = 1 \/ i = 2 \/ i = 3 \/ i = 4
      BY <2>1
    <3>3. new[i].kind = SystemNames[i]
      BY <1>11
    <3> QED BY <1>8, <3>1, <3>2, <3>3 DEF VatOK, Kinds
  <2> QED BY <1>7, <1>10, <2>1 DEF NewOK
<1>13. PICK ps, out : ps = promises[v] /\ out = Answer(NoMail, s, m, Nothing)
  OBVIOUS
<1>14. Step(s, v, m, ps, out, new)
  BY <1>4, <1>5, <1>13 DEF Step
<1>15. Grows /\ AreVatsAfter(v, ps, new)
  BY <1>5, <1>6, <1>12, <1>13, <1>14, StepGrows DEF RanStays
<1>16. AnswerOK(s, m, Nothing)
  BY <1>5 DEF AnswerOK
<1>17. Printed(s, v, m)
  BY <1>6 DEF Printed
<1>18. Core' /\ \E qs, o : StepOK(s, v, m, qs, o, new)
  BY <1>4, <1>5, <1>6, <1>7, <1>12, <1>15, <1>16, <1>17, SayingStep
<1>19. PICK qs, o : StepOK(s, v, m, qs, o, new)
  BY <1>18
<1>20. Names # {} /\ DOMAIN system' = Names
  BY <1>1 DEF Names
<1>21. system' # <<>>
  BY <1>20, SeqDomain
<1>22. NodesOK' /\ BootOK'
  <2>1. OutOK(v, o) /\ Step(s, v, m, qs, o, new)
    BY <1>19 DEF StepOK
  <2> QED BY <1>2, <1>5, <1>6, <1>12, <1>21, <2>1, BootStays
<1>23. SystemOK'
  <2>1. system' = SystemMap
    <3>1. ASSUME NEW x \in Names, x # "Monad" PROVE base[0] + Index(SystemNames, x) - 1 = Index(SystemNames, x) + 1
      <4>1. \E i \in DOMAIN SystemNames : SystemNames[i] = x
        BY <3>1 DEF Names, ToSet
      <4>2. PICK i \in 1 .. 4 : i = Index(SystemNames, x)
        BY <1>8, <4>1 DEF Index
      <4> QED BY <1>7, <4>2
    <3>2. system' = [x \in Names |-> IF x = "Monad" THEN MonadRef ELSE <<0, base[0] + Index(SystemNames, x) - 1>>]
      BY <1>1
    <3> QED BY <3>1, <3>2 DEF SystemMap
  <2>2. ASSUME NEW x \in Names PROVE system'[x] \in DOMAIN vats' /\ vats'[system'[x]].kind = x
    <3>1. CASE x = "Monad"
      <4>1. system'[x] = v
        BY <1>1, <1>2, <3>1, <2>2
      <4>2. v \in DOMAIN vats' /\ vats'[v] = vats[v] /\ vats[v].kind = "Monad"
        BY <1>2, <1>5, <1>15 DEF AreVatsAfter, Inv, VatsOK
      <4> QED BY <3>1, <4>1, <4>2
    <3>2. CASE x # "Monad"
      <4>1. \E i \in DOMAIN SystemNames : SystemNames[i] = x
        BY <2>2, <3>2 DEF Names, ToSet
      <4>2. PICK i \in 1 .. 4 : i = Index(SystemNames, x) /\ SystemNames[i] = x
        BY <1>8, <4>1 DEF Index
      <4>3. system'[x] = <<0, 2 + i - 1>>
        BY <1>1, <1>7, <2>2, <3>2, <4>2
      <4>4. PICK u : u = <<0, 2 + i - 1>>
        OBVIOUS
      <4>5. u \in Born(v, new)
        BY <1>7, <1>10, <4>4 DEF Born
      <4>6. u \in DOMAIN vats' /\ \E j \in DOMAIN new : u = <<v[1], base[v[1]] + j - 1>> /\ vats'[u] = new[j]
        BY <1>15, <4>5 DEF AreVatsAfter
      <4>7. PICK j \in 1 .. 4 : u = <<0, 2 + j - 1>> /\ vats'[u] = new[j]
        BY <1>7, <1>10, <4>6
      <4>8. i = j
        BY <4>4, <4>7
      <4> QED BY <1>11, <4>2, <4>3, <4>4, <4>6, <4>7, <4>8
    <3> QED BY <3>1, <3>2
  <2>3. subscribers' = subscribers /\ IsSeq(subscribers) /\ \A i \in DOMAIN subscribers : FALSE
    BY <1>5, <1>6 DEF Inv, SystemOK
  <2> QED BY <1>21, <2>1, <2>2, <2>3 DEF SystemOK, SystemMap, Index, IsSeq
<1>24. PanicsAreKnown'
  BY <1>6, <1>15, KnownStay DEF Inv
<1>25. ScreenOK'
  BY <1>21 DEF ScreenOK
<1> QED BY <1>18, <1>22, <1>23, <1>24, <1>25 DEF Inv, Core

-----------------------------------------------------------------------------
(* The handlers that call *)

\* No promise is forgotten.
LEMMA PsGrows ==
  ASSUME Inv, NEW v \in DOMAIN vats, NEW calls, IsSeq(calls), NEW ps, NEW a, PsIs(v, calls, ps, a)
  PROVE  DOMAIN promises[v] \subseteq DOMAIN ps
<1>1. PICK len \in Nat : len = Len(promises[v]) /\ DOMAIN promises[v] = 1 .. len
  BY PromisesMean
<1>2. PICK b \in Nat : b = Len(calls)
  BY SeqDomain
<1>3. DOMAIN ps = 1 .. len + b
  BY <1>1, <1>2 DEF PsIs
<1> QED BY <1>1, <1>2, <1>3

\* What a handler that calls leaves, and sends.
LEMMA CallsAfter ==
  ASSUME Inv, NEW v \in DOMAIN vats, NEW calls, IsSeq(calls), NEW s, NEW m, NEW value
  PROVE  /\ PsIs(v, calls, PromisesAfter(v, calls), None)
         /\ OutIs(v, calls, s, m, FALSE, value, SentBy(v, calls))
         /\ OutIs(v, calls, s, m, TRUE, value, Answer(SentBy(v, calls), s, m, value))
<1>1. IsSeq(promises[v]) /\ \A k \in DOMAIN promises[v] : DOMAIN promises[v][k] = Fields
  BY PromisesMean
<1>2. PsIs(v, calls, PromisesAfter(v, calls), None)
  BY <1>1, PromisesAfterIs
<1>3. OutIs(v, calls, s, m, FALSE, value, SentBy(v, calls))
  BY <1>1, SentIs
<1>4. PICK out : out = SentBy(v, calls)
  OBVIOUS
<1>5. OutIs(v, calls, s, m, TRUE, value, Answer(out, s, m, value))
  BY <1>3, <1>4, AnswerIs
<1> QED BY <1>2, <1>3, <1>4, <1>5

\* A promise that is new has what waits for it, and nothing waits for none.
LEMMA QuietCalls ==
  ASSUME Inv, NEW v \in DOMAIN vats, NEW calls, IsSeq(calls), NEW s, NEW m, NEW value, NEW answered \in BOOLEAN,
         NEW ps, NEW a, PsIs(v, calls, ps, a), NEW out, OutIs(v, calls, s, m, answered, value, out),
         v = MonadRef => \A i \in DOMAIN calls : calls[i].on = 0 /\ calls[i].to # None /\ calls[i].fn # "main"
  PROVE  MainsQuiet(v, ps, out) /\ StartCallsOK(v, calls, ps) /\ (v = MonadRef => WaitingOK(v, calls, ps))
<1> SUFFICES ASSUME v = MonadRef
             PROVE  MainsQuiet(v, ps, out) /\ StartCallsOK(v, calls, ps) /\ WaitingOK(v, calls, ps)
  BY DEF MainsQuiet, StartCallsOK
<1>1. \A k : WaitsOn(v, calls, k) = {}
  <2>1. \A i \in DOMAIN calls : Target(v, calls[i]) # None
    BY DEF Target
  <2> QED BY <2>1 DEF WaitsOn
<1>2. ASSUME NEW k \in DOMAIN ps, k \notin DOMAIN promises[v] PROVE ps[k].dependents = <<>>
  <2>1. AreCalls(v, calls, WaitsOn(v, calls, k), Waiting(v, calls, k)) /\ ps[k].dependents = Waiting(v, calls, k)
    BY <1>2 DEF PsIs
  <2>2. PICK S : S = WaitsOn(v, calls, k)
    OBVIOUS
  <2>3. AreCalls(v, calls, S, Waiting(v, calls, k)) /\ S = {}
    BY <1>1, <2>1, <2>2
  <2>4. Waiting(v, calls, k) = <<>>
    BY <2>3, NoCalls
  <2> QED BY <2>1, <2>4
<1>3. ASSUME NEW d, NEW j \in DOMAIN At(out, d), ~ At(out, d)[j].re PROVE At(out, d)[j].fn # "main"
  <2>1. PICK x : x = At(out, d)[j]
    OBVIOUS
  <2>2. ~ IsAnswer(s, m, value, d, x)
    BY <1>3, <2>1 DEF IsAnswer, Response
  <2>3. PICK i : IsCall(v, calls, d, i, x)
    BY <2>1, <2>2 DEF OutIs
  <2>4. x.fn = calls[i].fn /\ i \in DOMAIN calls
    BY <2>3 DEF IsCall, Called, Request
  <2> QED BY <2>1, <2>4
<1>4. MainsQuiet(v, ps, out)
  BY <1>2, <1>3 DEF MainsQuiet
<1>5. StartCallsOK(v, calls, ps)
  <2> SUFFICES ASSUME NEW i \in DOMAIN calls, NEW k, k = Len(promises[v]) + i, k \in DOMAIN ps, ps[k].dependents # <<>>
               PROVE  FALSE
    BY DEF StartCallsOK
  <2>1. k \notin DOMAIN promises[v]
    <3>1. PICK len \in Nat : len = Len(promises[v]) /\ DOMAIN promises[v] = 1 .. len
      BY PromisesMean
    <3>2. PICK b \in Nat : DOMAIN calls = 1 .. b
      BY SeqDomain
    <3> QED BY <3>1, <3>2
  <2> QED BY <1>2, <2>1
<1>6. WaitingOK(v, calls, ps)
  BY <1>1 DEF WaitingOK
<1> QED BY <1>4, <1>5, <1>6

\* A call stays one that its receiver knows.
LEMMA CallStays ==
  ASSUME Grows, NEW s \in DOMAIN vats, NEW d \in DOMAIN vats, NEW fn, NEW args, NEW k, CallOK(s, d, fn, args, k)
  PROVE  CallOK(s, d, fn, args, k)'
<1>1. vats'[d] = vats[d] /\ vats'[s] = vats[s]
  BY DEF Grows
<1>2. MadeFor(d, args) => MadeFor(d, args)'
  BY RefStays
<1>3. Caps(s)' = Caps(s) /\ (ZigRan => ZigRan')
  BY RefStays
<1> QED BY <1>1, <1>2, <1>3 DEF CallOK

\* Calls that are right when the handler runs are right when they are sent.
LEMMA CallsStay ==
  ASSUME Grows, NEW v \in DOMAIN vats, NEW calls, IsSeq(calls),
         \A i \in DOMAIN calls : \A d : d = Target(v, calls[i]) /\ d # None =>
           /\ d \in DOMAIN vats /\ calls[i].fn # "request-far-entity"
           /\ CallOK(v, d, calls[i].fn, calls[i].args, Len(promises[v]) + i)
  PROVE  CallsOK(v, calls)
<1> SUFFICES ASSUME NEW i \in DOMAIN calls, NEW d, d = Target(v, calls[i]), d # None
             PROVE  CallOK(v, d, calls[i].fn, calls[i].args, Len(promises[v]) + i)'
  BY DEF CallsOK
<1>1. PICK fn, args, k : fn = calls[i].fn /\ args = calls[i].args /\ k = Len(promises[v]) + i
  OBVIOUS
<1>2. CallOK(v, d, fn, args, k) /\ d \in DOMAIN vats
  BY <1>1
<1>3. CallOK(v, d, fn, args, k)'
  BY <1>2, CallStays
<1>4. ASSUME NEW l PROVE CallOK(v, d, fn, args, k)' => CallOK(v, d, fn, args, l)' \/ fn = "request-far-entity"
  BY DEF CallOK
<1>5. fn # "request-far-entity"
  BY <1>1
<1>6. CallOK(v, d, fn, args, Len(promises[v]) + i)'
  BY <1>3, <1>5 DEF CallOK
<1> QED BY <1>1, <1>6

\* A handler that calls, and starts no main.
LEMMA QuietCallsKeep ==
  ASSUME Inv, NEW s, NEW v \in DOMAIN vats, NEW m, Takes(s, v, m), m.re = FALSE, NEW calls, IsSeq(calls),
         NEW ps, NEW a, PsIs(v, calls, ps, a), NEW answered \in BOOLEAN, NEW value,
         NEW out, OutIs(v, calls, s, m, answered, value, out), Ends(s, v, ps, out),
         v = MonadRef => \A i \in DOMAIN calls : calls[i].on = 0 /\ calls[i].to # None /\ calls[i].fn # "main",
         v # MonadRef => WaitingOK(v, calls, ps),
         \A i \in DOMAIN calls : \A d : d = Target(v, calls[i]) /\ d # None =>
           /\ d \in DOMAIN vats /\ calls[i].fn # "request-far-entity"
           /\ CallOK(v, d, calls[i].fn, calls[i].args, Len(promises[v]) + i),
         a = None \/ AskerOK(v, a), answered => m.fn \notin {"request-far-entity", "create-vat"},
         system # <<>>, system' = system, nodes' = nodes, ran' = ran, panics' = panics, prints' = prints,
         vats[v].kind # "Program", subscribers' = subscribers
  PROVE  Inv'
<1>1. RanStays
  BY DEF RanStays
<1>2. DOMAIN promises[v] \subseteq DOMAIN ps
  BY PsGrows
<1>3. Grows /\ promises'[v] = ps /\ Step(s, v, m, ps, out, <<>>) /\ NewOK(v, <<>>)
  BY <1>1, <1>2, EndsGrows
<1>4. CallsOK(v, calls)
  BY <1>3, CallsStay
<1>5. MainsQuiet(v, ps, out) /\ StartCallsOK(v, calls, ps) /\ WaitingOK(v, calls, ps)
  BY QuietCalls
<1>6. a = None \/ AskerOK(v, a)'
  <2> SUFFICES ASSUME AskerOK(v, a) PROVE AskerOK(v, a)'
    OBVIOUS
  <2>1. PICK src, n : src = a.src /\ n = a.m
    OBVIOUS
  <2>2. RequestOK(src, v, n)
    BY <2>1 DEF AskerOK
  <2>3. RequestOK(src, v, n)'
    BY <1>3, <2>2, RequestStays
  <2>4. RequestOK(a.src, v, a.m)'
    BY <2>1, <2>3
  <2> QED BY <2>4 DEF AskerOK
<1>7. answered => AnswerOK(s, m, value)
  BY DEF AnswerOK
<1>8. StepOK(s, v, m, ps, out, <<>>)
  BY <1>3, <1>4, <1>5, <1>6, <1>7, RequestStep
<1>9. Printed(s, v, m)
  BY DEF Printed
<1>10. Core'
  BY <1>3, <1>5, <1>8, <1>9, QuietStep
<1> QED BY <1>3, <1>8, <1>10, Finishes

\* The NodeMan that is asked for a vat is there, on a node that has what it takes.
IsNewVat(what, c) ==
  /\ c.on = 0 /\ c.fn = "create-vat" /\ c.args = what
  /\ c.to # None /\ c.to \in DOMAIN vats /\ vats[c.to].kind = "NodeMan" /\ FitsAt(what, c.to[1])

\* monad_new_vat asks the NodeMan of a node that has all that is needed.
LEMMA NewVatIs ==
  ASSUME Inv, NEW what, Fitting(what) # {}
  PROVE  IsNewVat(what, NewVatCall(what))
<1>1. DOMAIN nodes \subseteq 1 .. 2 /\ \A i \in DOMAIN nodes : nodes[i] = Node(i - 1)
  <2>1. CASE nodes = <<Node(0)>>
    BY <2>1
  <2>2. CASE nodes = <<Node(0), Node(1)>>
    BY <2>2
  <2> QED BY <2>1, <2>2 DEF Inv, NodesOK
<1>2. PICK T \in SUBSET (1 .. 2) : T = Fitting(what) /\ T # {}
  BY <1>1 DEF Fitting
<1>3. \E i \in T : \A j \in T : i >= j
  BY <1>2
<1>4. PICK i : i = Max(T)
  OBVIOUS
<1>5. i \in T
  BY <1>3, <1>4 DEF Max
<1>6. i \in DOMAIN nodes /\ Preamble[what] \subseteq ResourcesSeen(nodes[i].id)
  BY <1>2, <1>5 DEF Fitting
<1>7. PICK w : w = nodes[i].nodeman
  OBVIOUS
<1>8. w \in DOMAIN vats /\ vats[w].kind = "NodeMan"
  BY <1>6, <1>7 DEF Inv, NodesOK
<1>9. nodes[i].id = i - 1 /\ w[1] = i - 1
  <2>1. nodes[i] = Node(i - 1) /\ i \in 1 .. 2
    BY <1>1, <1>6
  <2>2. nodes[i].nodeman = IF i - 1 = 0 THEN <<0, 1>> ELSE <<1, 0>>
    BY <2>1 DEF Node
  <2>3. i - 1 = 0 \/ i - 1 = 1
    BY <2>1
  <2> QED BY <1>7, <2>1, <2>2, <2>3 DEF Node
<1>10. FitsAt(what, w[1])
  <2>1. \A n : ResourcesSeen(n) \subseteq Resources[n]
    BY DEF ResourcesSeen
  <2> QED BY <1>6, <1>9, <2>1 DEF FitsAt
<1>11. w # None
  <2>1. w \in Nodes \X Nat
    BY <1>8 DEF Inv, VatsOK
  <2>2. w \in Int \X Int
    BY <2>1 DEF Nodes
  <2> QED BY <2>2, ValueAssumption DEF ValueAssumption
<1>12. NewVatCall(what) = Call(w, "create-vat", what)
  BY <1>2, <1>4, <1>7 DEF NewVatCall
<1> QED BY <1>8, <1>10, <1>11, <1>12 DEF IsNewVat, Call

\* A sequence of one call.
LEMMA OneCall ==
  ASSUME NEW c, NEW calls, calls = <<c>>
  PROVE  IsSeq(calls) /\ calls # <<>> /\ DOMAIN calls = {1} /\ calls[1] = c
<1>1. calls = [i \in 1 .. 1 |-> calls[i]] /\ calls[1] = c /\ 1 .. 1 = {1} /\ calls # <<>>
  OBVIOUS
<1> QED BY <1>1, SeqIs

\* The Monad asks for a vat on behalf of "new".
LEMMA NewVatRequestKeeps ==
  ASSUME Inv, NEW s, NEW m, NewVatRequest(s, m)
  PROVE  Inv'
<1>1. PICK fn, v : fn = "new-vat" /\ v = MonadRef
  OBVIOUS
<1>2. TakesCall(s, v, fn, m) /\ EndsLater(s, v, m, <<NewVatCall(m.args)>>)
      /\ UNCHANGED <<kernel, screen, keys, down, history>>
  BY <1>1 DEF NewVatRequest
<1>3. IsTaken(s, v, fn, m)
  BY <1>2, TakenCall
<1>4. /\ v \in DOMAIN vats /\ Takes(s, v, m) /\ m.re = FALSE /\ m.fn = "new-vat" /\ RequestOK(s, v, m)
      /\ Fitting(m.args) # {} /\ system # <<>>
  BY <1>1, <1>3 DEF IsTaken
<1>5. PICK c, calls : c = NewVatCall(m.args) /\ calls = <<c>>
  OBVIOUS
<1>6. IsNewVat(m.args, c)
  BY <1>4, <1>5, NewVatIs
<1>7. IsSeq(calls) /\ calls # <<>> /\ DOMAIN calls = {1} /\ calls[1] = c
  BY <1>5, OneCall
<1>8. PICK qs, out, a, ps : qs = PromisesAfter(v, calls) /\ out = SentBy(v, calls) /\ a = [src |-> s, m |-> m]
                            /\ ps = [qs EXCEPT ![Len(qs)].asker = a]
  OBVIOUS
<1>9. Ends(s, v, ps, out)
  BY <1>2, <1>5, <1>8 DEF EndsLater
<1>10. PsIs(v, calls, qs, None) /\ OutIs(v, calls, s, m, FALSE, Nothing, out)
  BY <1>4, <1>7, <1>8, CallsAfter
<1>11. PsIs(v, calls, ps, a)
  <2>1. IsSeq(promises[v])
    BY <1>4, PromisesMean
  <2> QED BY <1>7, <1>8, <1>10, <2>1, LaterIs
<1>12. m.args \in Known
  <2>1. VatRequestOK(s, v, m)
    BY <1>4 DEF RequestOK, ThreadRequestOK
  <2>2. CallOK(s, v, m.fn, m.args, m.prom)
    BY <2>1 DEF VatRequestOK
  <2> QED BY <1>4, <2>2 DEF CallOK, Known
<1>13. ASSUME NEW i \in DOMAIN calls, NEW d, d = Target(v, calls[i])
       PROVE  /\ d \in DOMAIN vats /\ calls[i].fn # "request-far-entity"
              /\ CallOK(v, d, calls[i].fn, calls[i].args, Len(promises[v]) + i)
  <2>1. calls[i] = c /\ d = c.to
    BY <1>6, <1>7, <1>13 DEF Target, IsNewVat
  <2> QED BY <1>1, <1>6, <1>12, <2>1 DEF IsNewVat, CallOK
<1>14. \A i \in DOMAIN calls : calls[i].on = 0 /\ calls[i].to # None /\ calls[i].fn # "main"
  BY <1>6, <1>7 DEF IsNewVat
<1>15. AskerOK(v, a)
  BY <1>1, <1>4, <1>8 DEF AskerOK
<1>16. /\ system' = system /\ nodes' = nodes /\ ran' = ran /\ panics' = panics /\ prints' = prints
       /\ subscribers' = subscribers
  BY <1>2 DEF kernel, history
<1>17. vats[v].kind # "Program" /\ FALSE \in BOOLEAN
  BY <1>1 DEF Inv, VatsOK
<1>18. v = MonadRef => \A i \in DOMAIN calls : calls[i].on = 0 /\ calls[i].to # None /\ calls[i].fn # "main"
  BY <1>14
<1>19. v # MonadRef => WaitingOK(v, calls, ps)
  BY <1>1
<1>20. PICK answered \in BOOLEAN : answered = FALSE
  OBVIOUS
<1>21. OutIs(v, calls, s, m, answered, Nothing, out) /\ (answered => m.fn \notin {"request-far-entity", "create-vat"})
  BY <1>10, <1>20
<1> QED BY <1>4, <1>7, <1>9, <1>11, <1>13, <1>15, <1>16, <1>17, <1>18, <1>19, <1>21, QuietCallsKeep

\* The Monad hands a key to those that asked for keys.
LEMMA IrqHandlerKeeps ==
  ASSUME Inv, NEW s, NEW m, IrqHandler(s, m)
  PROVE  Inv'
<1>1. PICK fn, v, calls : /\ fn = "irq-handler" /\ v = MonadRef
                          /\ calls = [i \in DOMAIN subscribers |-> Call(subscribers[i], "handle-input", m.args)]
  OBVIOUS
<1>2. PICK ps, out : ps = PromisesAfter(v, calls) /\ out = Answer(SentBy(v, calls), s, m, Nothing)
  OBVIOUS
<1>3. TakesCall(s, v, fn, m) /\ Ends(s, v, ps, out) /\ UNCHANGED <<kernel, screen, keys, down, history>>
  BY <1>1, <1>2 DEF IrqHandler
<1>4. IsTaken(s, v, fn, m)
  BY <1>3, TakenCall
<1>5. v \in DOMAIN vats /\ Takes(s, v, m) /\ m.re = FALSE /\ m.fn = "irq-handler" /\ system # <<>>
  BY <1>1, <1>4 DEF IsTaken
<1>6. IsSeq(subscribers) /\ \A i \in DOMAIN subscribers : subscribers[i] = <<0, 3>>
  BY DEF Inv, SystemOK
<1>7. IsSeq(calls) /\ DOMAIN calls = DOMAIN subscribers
  <2>1. PICK n \in Nat : DOMAIN subscribers = 1 .. n
    BY <1>6, SeqDomain
  <2>2. calls = [i \in 1 .. n |-> calls[i]] /\ DOMAIN calls = 1 .. n
    BY <1>1, <2>1
  <2> QED BY <2>1, <2>2, SeqIs
<1>8. PICK w : w = <<0, 3>>
  OBVIOUS
<1>9. ASSUME NEW i \in DOMAIN calls
      PROVE  calls[i].on = 0 /\ calls[i].to = w /\ calls[i].fn = "handle-input" /\ w \in DOMAIN vats /\ vats[w].kind = "Amoeba"
  <2>1. i \in DOMAIN subscribers /\ subscribers[i] = w
    BY <1>6, <1>7, <1>8
  <2>2. calls[i] = Call(w, "handle-input", m.args)
    BY <1>1, <2>1
  <2>3. "Amoeba" \in Names /\ "Amoeba" # "Monad"
    BY DEF Names, ToSet, SystemNames
  <2>4. system["Amoeba"] \in DOMAIN vats /\ vats[system["Amoeba"]].kind = "Amoeba"
    BY <1>5, <2>3 DEF Inv, SystemOK
  <2>5. system["Amoeba"] = <<0, 3>>
    <3>1. PICK u : u = system["Amoeba"]
      OBVIOUS
    <3>2. u \in DOMAIN vats /\ vats[u].kind = "Amoeba"
      BY <2>4, <3>1
    <3> QED BY <3>1, <3>2 DEF Inv, VatsOK, VatOK
  <2> QED BY <1>8, <2>2, <2>4, <2>5 DEF Call
<1>10. PICK answered \in BOOLEAN : answered = TRUE
  OBVIOUS
<1>11. PsIs(v, calls, ps, None) /\ OutIs(v, calls, s, m, answered, Nothing, out)
  BY <1>2, <1>5, <1>7, <1>10, CallsAfter
<1>12. answered => m.fn \notin {"request-far-entity", "create-vat"}
  BY <1>5
<1>13. w # None
  <2>1. w \in Int \X Int
    BY <1>8
  <2> QED BY <2>1, ValueAssumption DEF ValueAssumption
<1>14. v = MonadRef => \A i \in DOMAIN calls : calls[i].on = 0 /\ calls[i].to # None /\ calls[i].fn # "main"
  BY <1>9, <1>13
<1>15. ASSUME NEW i \in DOMAIN calls, NEW d, d = Target(v, calls[i])
       PROVE  /\ d \in DOMAIN vats /\ calls[i].fn # "request-far-entity"
              /\ CallOK(v, d, calls[i].fn, calls[i].args, Len(promises[v]) + i)
  <2>1. d = w
    BY <1>9, <1>15 DEF Target
  <2> QED BY <1>9, <2>1 DEF CallOK
<1>16. /\ system' = system /\ nodes' = nodes /\ ran' = ran /\ panics' = panics /\ prints' = prints
       /\ subscribers' = subscribers
  BY <1>3 DEF kernel, history
<1>17. vats[v].kind # "Program"
  BY <1>1 DEF Inv, VatsOK
<1>18. v # MonadRef => WaitingOK(v, calls, ps)
  BY <1>1
<1>19. PICK a : a = None
  OBVIOUS
<1>20. PsIs(v, calls, ps, a) /\ (a = None \/ AskerOK(v, a))
  BY <1>11, <1>19
<1> QED BY <1>3, <1>5, <1>7, <1>11, <1>12, <1>14, <1>15, <1>16, <1>17, <1>18, <1>20, QuietCallsKeep

\* The Amoeba opens its screen and asks for keys.
LEMMA AmoebaInitKeeps ==
  ASSUME Inv, NEW s, NEW v, NEW m, AmoebaInit(s, v, m)
  PROVE  Inv'
<1>1. PICK fn, k, c, calls : /\ fn = "init" /\ k = Cap(v, "Monad")
                             /\ c = CallPromise(k, "subscribe-irq", Nothing) /\ calls = <<c>>
  OBVIOUS
<1>2. PICK ps, out : ps = PromisesAfter(v, calls) /\ out = Answer(SentBy(v, calls), s, m, Nothing)
  OBVIOUS
<1>3. TakesCall(s, v, fn, m) /\ Ends(s, v, ps, out) /\ UNCHANGED <<kernel, keys, down, history>>
  BY <1>1, <1>2 DEF AmoebaInit
<1>4. IsTaken(s, v, fn, m)
  BY <1>3, TakenCall
<1>5. v \in DOMAIN vats /\ Takes(s, v, m) /\ m.re = FALSE /\ m.fn = "init" /\ system # <<>> /\ fn \in Knows(vats[v].kind)
  BY <1>1, <1>4 DEF IsTaken
<1>6. vats[v].kind = "Amoeba"
  BY <1>1, <1>5, KnowsMeans
<1>7. v # MonadRef
  BY <1>6 DEF Inv, VatsOK
<1>8. IsSeq(calls) /\ calls # <<>> /\ DOMAIN calls = {1} /\ calls[1] = c
  BY <1>1, OneCall
<1>9. PICK cap, q : cap = "Monad" /\ q = <<cap>> /\ q = Caps(v)
  <2>1. Caps(v) = <<"Monad">>
    BY <1>6 DEF Caps, CapsOf
  <2> QED BY <2>1
<1>10. DOMAIN q = {1} /\ q[1] = cap
  BY <1>9, OneCall
<1>11. cap \in ToSet(Caps(v))
  BY <1>9, <1>10 DEF ToSet
<1>12. /\ k \in DOMAIN Caps(v) /\ k \in DOMAIN promises[v]
       /\ \A x : x = promises[v][k].value /\ x # None => x \in DOMAIN vats /\ vats[x].kind = "Monad"
  BY <1>1, <1>5, <1>9, <1>11, PromisesMean
<1>13. k = 1
  BY <1>9, <1>10, <1>12
<1>14. c.on = k /\ c.fn = "subscribe-irq" /\ k # 0
  BY <1>1, <1>13 DEF CallPromise
<1>15. PICK answered \in BOOLEAN : answered = TRUE
  OBVIOUS
<1>16. PsIs(v, calls, ps, None) /\ OutIs(v, calls, s, m, answered, Nothing, out)
  BY <1>2, <1>5, <1>8, <1>15, CallsAfter
<1>17. ASSUME NEW i \in DOMAIN calls, NEW d, d = Target(v, calls[i]), d # None
       PROVE  /\ d \in DOMAIN vats /\ calls[i].fn # "request-far-entity"
              /\ CallOK(v, d, calls[i].fn, calls[i].args, Len(promises[v]) + i)
  <2>1. calls[i] = c /\ d = promises[v][k].value
    BY <1>8, <1>12, <1>14, <1>17 DEF Target
  <2>2. d \in DOMAIN vats /\ vats[d].kind = "Monad"
    BY <1>12, <1>17, <2>1
  <2>3. d = MonadRef
    BY <2>2 DEF Inv, VatsOK, VatOK
  <2> QED BY <1>14, <2>1, <2>2, <2>3 DEF CallOK
<1>18. WaitingOK(v, calls, ps)
  <2>1. <<cap, c.fn>> \in Waits
    BY <1>9, <1>14 DEF Waits
  <2>2. c.on = Cap(v, cap)
    BY <1>1, <1>9, <1>14
  <2> QED BY <1>7, <1>8, <1>11, <1>14, <2>1, <2>2 DEF WaitingOK
<1>19. /\ system' = system /\ nodes' = nodes /\ ran' = ran /\ panics' = panics /\ prints' = prints
       /\ subscribers' = subscribers
  BY <1>3 DEF kernel, history
<1>20. PICK a : a = None
  OBVIOUS
<1>21. PsIs(v, calls, ps, a) /\ (a = None \/ AskerOK(v, a)) /\ (answered => m.fn \notin {"request-far-entity", "create-vat"})
  BY <1>5, <1>16, <1>20
<1>22. vats[v].kind # "Program"
  BY <1>6
<1>23. v = MonadRef => \A i \in DOMAIN calls : calls[i].on = 0 /\ calls[i].to # None /\ calls[i].fn # "main"
  BY <1>7
<1> QED BY <1>3, <1>5, <1>8, <1>16, <1>17, <1>18, <1>19, <1>21, <1>22, <1>23, QuietCallsKeep

\* A start leaves one call waiting, that of main for the vat it asks for.
StartCalls(v, len, what, calls) ==
  /\ IsSeq(calls) /\ calls # <<>> /\ DOMAIN calls = 1 .. 2 /\ Len(calls) = 2
  /\ IsNewVat(what, calls[1])
  /\ calls[2].on = len + 1 /\ calls[2].fn = "main" /\ calls[2].args = what
  /\ Target(v, calls[1]) = calls[1].to /\ Target(v, calls[2]) = None
  /\ \A k : WaitsOn(v, calls, k) = IF k = len + 1 THEN {2} ELSE {}

\* The two calls of start-program: create-vat, and main for its answer.
LEMMA StartCallsAre ==
  ASSUME Inv, NEW v \in DOMAIN vats, NEW len \in Nat, len = Len(promises[v]), NEW what, Fitting(what) # {},
         NEW calls, calls = <<NewVatCall(what), CallPromise(len + 1, "main", what)>>
  PROVE  StartCalls(v, len, what, calls)
<1>1. IsSeq(calls) /\ calls # <<>> /\ DOMAIN calls = 1 .. 2 /\ Len(calls) = 2
  <2>1. calls = [i \in 1 .. 2 |-> calls[i]] /\ calls # <<>> /\ DOMAIN calls = 1 .. 2
    OBVIOUS
  <2>2. IsSeq(calls) /\ Len(calls) = 2
    BY <2>1, SeqIs
  <2> QED BY <2>1, <2>2
<1>2. PICK c, e : c = NewVatCall(what) /\ e = CallPromise(len + 1, "main", what)
  OBVIOUS
<1>3. calls[1] = c /\ calls[2] = e
  BY <1>2
<1>4. IsNewVat(what, c)
  BY <1>2, NewVatIs
<1>5. e.on = len + 1 /\ e.fn = "main" /\ e.args = what
  BY <1>2 DEF CallPromise
<1>6. Target(v, c) = c.to /\ c.to # None
  BY <1>4 DEF IsNewVat, Target
<1>7. len + 1 \notin DOMAIN promises[v] /\ len + 1 # 0
  <2>1. DOMAIN promises[v] = 1 .. len
    BY PromisesMean
  <2> QED BY <2>1
<1>8. Target(v, e) = None
  BY <1>5, <1>7 DEF Target
<1>9. ASSUME NEW k PROVE WaitsOn(v, calls, k) = IF k = len + 1 THEN {2} ELSE {}
  <2>1. 1 .. 2 = {1, 2}
    OBVIOUS
  <2>2. 1 \notin WaitsOn(v, calls, k)
    BY <1>3, <1>6 DEF WaitsOn
  <2>3. 2 \in WaitsOn(v, calls, k) <=> k = len + 1
    BY <1>1, <1>3, <1>5, <1>8 DEF WaitsOn
  <2>4. WaitsOn(v, calls, k) \subseteq {1, 2}
    BY <1>1, <2>1 DEF WaitsOn
  <2> QED BY <2>2, <2>3, <2>4
<1> QED BY <1>1, <1>3, <1>4, <1>5, <1>6, <1>8, <1>9 DEF StartCalls

\* The Monad starts a program.
LEMMA StartProgramKeeps ==
  ASSUME Inv, NEW s, NEW m, StartProgram(s, m)
  PROVE  Inv'
<1>1. PICK fn, v : fn = "start-program" /\ v = MonadRef
  OBVIOUS
<1>2. v \in DOMAIN vats
  BY <1>1 DEF Inv, VatsOK
<1>3. PICK len \in Nat : len = Len(promises[v]) /\ DOMAIN promises[v] = 1 .. len
  BY <1>2, PromisesMean
<1>4. PICK calls, what : what = m.args /\ calls = <<NewVatCall(what), CallPromise(len + 1, "main", what)>>
  OBVIOUS
<1>5. PICK qs, out, a, ps : qs = PromisesAfter(v, calls) /\ out = SentBy(v, calls) /\ a = [src |-> s, m |-> m]
                            /\ ps = [qs EXCEPT ![Len(qs)].asker = a]
  OBVIOUS
<1>6. TakesCall(s, v, fn, m) /\ Ends(s, v, ps, out) /\ UNCHANGED <<kernel, screen, keys, down, history>>
  BY <1>1, <1>3, <1>4, <1>5 DEF StartProgram, EndsLater
<1>7. IsTaken(s, v, fn, m)
  BY <1>6, TakenCall
<1>8. /\ Takes(s, v, m) /\ m.re = FALSE /\ m.fn = "start-program" /\ RequestOK(s, v, m)
      /\ Fitting(what) # {} /\ system # <<>>
  BY <1>1, <1>4, <1>7 DEF IsTaken
<1>9. s \in {Thread(0), Thread(1)} /\ what = s[1] /\ what \in Programs /\ s = Thread(what)
  <2>1. ThreadRequestOK(s, v, m)
    BY <1>8 DEF RequestOK, VatRequestOK, CallOK
  <2>2. s \in {Thread(0), Thread(1)} /\ what = s[1]
    BY <1>4, <1>8, <2>1 DEF ThreadRequestOK
  <2> QED BY <2>2 DEF Thread, Programs, Nodes
<1>10. StartCalls(v, len, what, calls)
  BY <1>2, <1>3, <1>4, <1>8, StartCallsAre
<1>11. PICK c, e : c = calls[1] /\ e = calls[2]
  OBVIOUS
<1>12. /\ IsSeq(calls) /\ calls # <<>> /\ DOMAIN calls = 1 .. 2 /\ Len(calls) = 2 /\ IsNewVat(what, c)
       /\ e.on = len + 1 /\ e.fn = "main" /\ e.args = what
       /\ Target(v, c) = c.to /\ Target(v, e) = None
       /\ \A k : WaitsOn(v, calls, k) = IF k = len + 1 THEN {2} ELSE {}
  BY <1>10, <1>11 DEF StartCalls
<1>13. PsIs(v, calls, qs, None) /\ OutIs(v, calls, s, m, FALSE, Nothing, out)
  BY <1>2, <1>5, <1>12, CallsAfter
<1>14. PsIs(v, calls, ps, a)
  <2>1. IsSeq(promises[v])
    BY <1>2, PromisesMean
  <2> QED BY <1>5, <1>12, <1>13, <2>1, LaterIs
<1>15. DOMAIN ps = 1 .. len + 2
  BY <1>3, <1>12, <1>14 DEF PsIs
<1>16. /\ system' = system /\ nodes' = nodes /\ ran' = ran /\ panics' = panics /\ prints' = prints
       /\ subscribers' = subscribers /\ RanStays /\ Printed(s, v, m)
  BY <1>6 DEF kernel, history, RanStays, Printed
<1>17. Grows /\ promises'[v] = ps /\ Step(s, v, m, ps, out, <<>>) /\ NewOK(v, <<>>)
  <2>1. DOMAIN promises[v] \subseteq DOMAIN ps
    BY <1>3, <1>15
  <2> QED BY <1>2, <1>6, <1>8, <1>16, <2>1, EndsGrows
<1>18. CallsOK(v, calls)
  <2>1. ASSUME NEW i \in DOMAIN calls, NEW d, d = Target(v, calls[i]), d # None
        PROVE  /\ d \in DOMAIN vats /\ calls[i].fn # "request-far-entity"
               /\ CallOK(v, d, calls[i].fn, calls[i].args, Len(promises[v]) + i)
    <3>1. i = 1 \/ i = 2
      BY <1>12, <2>1
    <3>2. calls[i] = c /\ d = c.to
      BY <1>11, <1>12, <2>1, <3>1
    <3> QED BY <1>1, <1>9, <1>12, <3>2 DEF IsNewVat, CallOK, Known
  <2> QED BY <1>2, <1>12, <1>17, <2>1, CallsStay
<1>19. ASSUME NEW k \in DOMAIN ps, k \notin DOMAIN promises[v]
       PROVE  /\ AreCalls(v, calls, WaitsOn(v, calls, k), ps[k].dependents)
              /\ k # len + 1 => ps[k].dependents = <<>>
              /\ k = len + 1 => 1 \in DOMAIN ps[k].dependents /\ ps[k].dependents[1].args = what
  <2>1. AreCalls(v, calls, WaitsOn(v, calls, k), ps[k].dependents)
    BY <1>14, <1>19 DEF PsIs
  <2>2. PICK S, q : S = WaitsOn(v, calls, k) /\ q = ps[k].dependents
    OBVIOUS
  <2>3. AreCalls(v, calls, S, q)
    BY <2>1, <2>2
  <2>4. CASE k # len + 1
    <3>1. S = {}
      BY <1>12, <2>2, <2>4
    <3>2. q = <<>>
      BY <2>3, <3>1, NoCalls
    <3> QED BY <2>1, <2>2, <2>4, <3>2
  <2>5. CASE k = len + 1
    <3>1. S = {2}
      BY <1>12, <2>2, <2>5
    <3>2. Cardinality(S) = 1
      BY <3>1, FS_Singleton
    <3>3. IsSeq(q) /\ Len(q) = 1 /\ \E f : \A j \in DOMAIN q : f[j] \in S /\ q[j] = Called(v, calls, f[j])
      BY <2>3, <3>2 DEF AreCalls
    <3>4. 1 \in DOMAIN q
      BY <3>3, SeqDomain
    <3>5. q[1] = Called(v, calls, 2)
      BY <3>1, <3>3, <3>4
    <3>6. q[1].args = what
      BY <1>11, <1>12, <3>5 DEF Called, Request
    <3> QED BY <2>1, <2>2, <2>5, <3>4, <3>6
  <2> QED BY <2>4, <2>5
<1>20. StartCallsOK(v, calls, ps)
  <2> SUFFICES ASSUME NEW i \in DOMAIN calls, NEW k, k = Len(promises[v]) + i, k \in DOMAIN ps, ps[k].dependents # <<>>
               PROVE  calls[i].fn = "create-vat" /\ calls[i].args = ps[k].dependents[1].args
    BY DEF StartCallsOK
  <2>1. i \in 1 .. 2 /\ k = len + i /\ k \notin DOMAIN promises[v]
    BY <1>3, <1>12
  <2>2. k = len + 1 /\ ps[k].dependents[1].args = what
    BY <1>19, <2>1
  <2>3. i = 1
    BY <2>1, <2>2
  <2> QED BY <1>11, <1>12, <2>2, <2>3 DEF IsNewVat
<1>21. WaitingOK(v, calls, ps)
  <2>1. ASSUME NEW k \in DOMAIN ps, WaitsOn(v, calls, k) # {}
        PROVE  /\ k \notin DOMAIN promises[v] /\ k + 1 \in DOMAIN ps /\ WaitsOn(v, calls, k + 1) = {}
               /\ Cardinality(WaitsOn(v, calls, k)) = 1
               /\ \A i \in WaitsOn(v, calls, k) :
                    calls[i].fn = "main" /\ calls[i].args \in Programs /\ Len(promises[v]) + i = k + 1
    <3>1. k = len + 1 /\ WaitsOn(v, calls, k) = {2}
      BY <1>12, <2>1
    <3>2. k + 1 # len + 1 /\ k + 1 \in 1 .. len + 2 /\ k \notin 1 .. len
      BY <3>1
    <3>3. WaitsOn(v, calls, k + 1) = {}
      BY <1>12, <3>2
    <3>4. Cardinality(WaitsOn(v, calls, k)) = 1
      <4>1. PICK S : S = {2} /\ S = WaitsOn(v, calls, k)
        BY <3>1
      <4> QED BY <4>1, FS_Singleton
    <3>5. \A i \in WaitsOn(v, calls, k) : i = 2
      BY <3>1
    <3>6. Len(promises[v]) + 2 = k + 1
      BY <1>3, <3>1
    <3> QED BY <1>3, <1>9, <1>11, <1>12, <1>15, <3>2, <3>3, <3>4, <3>5, <3>6
  <2> QED BY <1>1, <2>1 DEF WaitingOK
<1>22. AskerOK(v, a)'
  <2>1. RequestOK(s, v, m)'
    BY <1>8, <1>17, RequestStays
  <2> QED BY <1>1, <1>5, <1>8, <2>1 DEF AskerOK
<1>23. StepOK(s, v, m, ps, out, <<>>)
  <2>1. PICK answered \in BOOLEAN : answered = FALSE
    OBVIOUS
  <2>2. OutIs(v, calls, s, m, answered, Nothing, out) /\ (answered => AnswerOK(s, m, Nothing))
    BY <1>13, <2>1
  <2> QED BY <1>8, <1>14, <1>17, <1>18, <1>20, <1>21, <1>22, <2>2, RequestStep
<1>24. ASSUME NEW p \in Programs PROVE Moves(s, v, p)
  <2>1. OutOK(v, out) /\ Settles(v, m, ps) /\ VatsOK /\ MailOK /\ LegsOnce
    BY <1>23 DEF StepOK, Inv
  <2>2. NotStarted(p)' => NotStarted(p)
    BY <1>16, <1>17, <2>1, NotStartedBefore
  <2>3. p = what => NotStarted(p) /\ ~ NotStarted(p)'
    <3> SUFFICES ASSUME p = what PROVE NotStarted(p) /\ ~ NotStarted(p)'
      OBVIOUS
    <3>1. PICK q : q = Chan(Thread(p), MonadRef)
      OBVIOUS
    <3>2. q # <<>>
      BY <1>1, <1>8, <1>9, <2>1, <3>1, TakenIs
    <3>3. \E x : q = <<x>>
      BY <1>8, <3>1, <3>2 DEF Inv, BootOK, Programs, Nodes
    <3>4. Tail(q) = <<>>
      BY <3>3
    <3>5. Chan(Thread(p), MonadRef)' = <<>>
      <4>1. Chan(Thread(p), MonadRef)' = (IF s = Thread(p) /\ v = MonadRef THEN Tail(Chan(Thread(p), MonadRef))
                                          ELSE Chan(Thread(p), MonadRef))
        BY <1>17, <2>1, NotStartedBefore
      <4> QED BY <1>1, <1>9, <3>1, <3>4, <4>1
    <3>6. ~ (p = 1 /\ Len(nodes) = 1)
      BY <3>1, <3>2 DEF Inv, BootOK
    <3> QED BY <1>16, <3>1, <3>2, <3>5, <3>6 DEF NotStarted
  <2>4. ASSUME NEW k, Pending(p, k)' PROVE Pending(p, k) \/ (k = len + 1 /\ p = what)
    <3>1. /\ k \in DOMAIN promises[v] => Pending(p, k)
          /\ k \notin DOMAIN promises[v] => k \in DOMAIN ps /\ ps[k].dependents # <<>> /\ ps[k].dependents[1].args = p
      BY <1>1, <1>17, <2>1, <2>4, PendingBefore
    <3> QED BY <1>19, <3>1
  <2>5. \A k : Pending(p, k)' => \/ Pending(p, k)
                                 \/ /\ NotStarted(p) /\ ~ NotStarted(p)'
                                    /\ \A l : Pending(p, l)' => Pending(p, l) \/ k = l
    BY <2>3, <2>4
  <2>6. ASSUME NEW d, NEW i, Coming(p, d, i)' PROVE ComingOld(s, v, p, d, i)
    <3>1. ASSUME ComingNew(s, v, out, p, d, i) PROVE FALSE
      <4>1. PICK j, x : j \in DOMAIN At(out, d) /\ x = At(out, d)[j] /\ ~ x.re /\ x.fn = "main"
        BY <3>1 DEF ComingNew
      <4>2. PICK l : IsCall(v, calls, d, l, x)
        BY <1>13, <4>1 DEF OutIs
      <4>3. l \in 1 .. 2 /\ x.fn = calls[l].fn /\ Target(v, calls[l]) # None
        BY <1>12, <4>2 DEF IsCall, Called, Request
      <4>4. l = 1
        BY <1>11, <1>12, <4>3
      <4> QED BY <1>11, <1>12, <4>1, <4>3, <4>4 DEF IsNewVat
    <3> QED BY <1>17, <2>1, <2>6, <3>1, ComingBefore
  <2> QED BY <1>16, <2>2, <2>5, <2>6 DEF Moves
<1>25. vats[v].kind # "Program"
  BY <1>1 DEF Inv, VatsOK
<1>26. Core'
  BY <1>16, <1>17, <1>23, <1>24, <1>25, HandlerKeeps
<1> QED BY <1>8, <1>16, <1>17, <1>23, <1>26, Finishes

\* The statements of a main, as calls.
IsStatement(v, i, what, c) ==
  \/ /\ what = "print" /\ "Io" \in ToSet(Caps(v)) /\ c.on = Cap(v, "Io") /\ c.fn = "print" /\ c.args = i
  \/ /\ what = "init" /\ "Amoeba" \in ToSet(Caps(v)) /\ c.on = Cap(v, "Amoeba") /\ c.fn = "init"
  \/ /\ what = "new" /\ c.on = 0 /\ c.to = MonadRef /\ c.fn = "new-vat" /\ c.args = Child
  \/ /\ what = "zig" /\ c.on = 0 /\ c.to = v /\ c.fn = "zig"
AreStatements(v, p, calls) ==
  /\ IsSeq(calls) /\ \A i \in DOMAIN calls : i \in Nat
  /\ \A i \in DOMAIN calls : \E what \in ToSet(Main[p]) : IsStatement(v, i, what, calls[i])

\* The calls of a main are its statements, in order.
LEMMA StatementsAre ==
  ASSUME NEW v, NEW p \in Programs, vats[v].kind = "Program", vats[v].prog = p,
         NEW calls, calls = [i \in DOMAIN Main[p] |-> Statement(v, i, Main[p][i])]
  PROVE  AreStatements(v, p, calls)
<1>1. PICK main : main = Main[p]
  OBVIOUS
<1>2. /\ main \in Seq({"print", "init", "new", "zig"})
      /\ "print" \in ToSet(main) => "Io" \in ToSet(Inocaps[p])
      /\ "init" \in ToSet(main) => "Amoeba" \in ToSet(Inocaps[p])
  BY <1>1, ProgramAssumption DEF ProgramAssumption
<1>3. PICK b \in Nat : DOMAIN main = 1 .. b
  BY <1>2
<1>4. \A i \in 1 .. b : main[i] \in {"print", "init", "new", "zig"} /\ main[i] \in ToSet(main)
  BY <1>2, <1>3 DEF ToSet
<1>5. calls = [i \in 1 .. b |-> calls[i]] /\ DOMAIN calls = 1 .. b
  BY <1>1, <1>3
<1>6. IsSeq(calls)
  BY <1>5, SeqIs
<1>7. Caps(v) = Inocaps[p]
  BY DEF Caps, CapsOf
<1>8. ASSUME NEW i \in DOMAIN calls PROVE IsStatement(v, i, main[i], calls[i]) /\ main[i] \in ToSet(main)
  <2>1. PICK what : what = main[i] /\ what \in ToSet(main) /\ what \in {"print", "init", "new", "zig"}
    BY <1>4, <1>5
  <2>2. PICK c : c = calls[i] /\ c = Statement(v, i, what)
    BY <1>1, <1>3, <1>5, <2>1
  <2>3. ASSUME what = "print" PROVE IsStatement(v, i, what, c)
    <3>1. c = CallPromise(Cap(v, "Io"), "print", i)
      BY <2>2, <2>3 DEF Statement
    <3> QED BY <1>2, <1>7, <2>1, <2>3, <3>1 DEF CallPromise, IsStatement
  <2>4. ASSUME what = "init" PROVE IsStatement(v, i, what, c)
    <3>1. c = CallPromise(Cap(v, "Amoeba"), "init", Nothing)
      BY <2>2, <2>4 DEF Statement
    <3> QED BY <1>2, <1>7, <2>1, <2>4, <3>1 DEF CallPromise, IsStatement
  <2>5. ASSUME what = "new" PROVE IsStatement(v, i, what, c)
    <3>1. c = Call(MonadRef, "new-vat", Child)
      BY <2>2, <2>5 DEF Statement
    <3> QED BY <2>1, <2>5, <3>1 DEF Call, IsStatement
  <2>6. ASSUME what = "zig" PROVE IsStatement(v, i, what, c)
    <3>1. c = Call(v, "zig", i)
      BY <2>2, <2>6 DEF Statement
    <3> QED BY <2>1, <2>6, <3>1 DEF Call, IsStatement
  <2>7. IsStatement(v, i, what, c)
    BY <2>1, <2>3, <2>4, <2>5, <2>6
  <2> QED BY <2>1, <2>2, <2>7
<1>9. \A i \in DOMAIN calls : i \in Nat
  BY <1>5
<1>10. \A i \in DOMAIN calls : \E what \in ToSet(Main[p]) : IsStatement(v, i, what, calls[i])
  BY <1>1, <1>8
<1> QED BY <1>6, <1>9, <1>10 DEF AreStatements

\* Who a statement calls is there, or it waits for a capability.
LEMMA StatementMeans ==
  ASSUME Inv, NEW v \in DOMAIN vats, vats[v].kind = "Program", NEW i, NEW what, NEW c, IsStatement(v, i, what, c)
  PROVE  /\ c.fn \in {"print", "init", "new-vat", "zig"}
         /\ c.fn = "print" => /\ "Io" \in ToSet(Caps(v)) /\ c.args = i
                              /\ Target(v, c) = promises[v][Cap(v, "Io")].value
         /\ \A d : d = Target(v, c) /\ d # None =>
              /\ d \in DOMAIN vats
              /\ c.fn = "print" => vats[d].kind = "Io"
              /\ c.fn = "init" => vats[d].kind = "Amoeba"
              /\ c.fn = "new-vat" => d = MonadRef /\ c.args = Child
              /\ c.fn = "zig" => d = v /\ what = "zig"
         /\ Target(v, c) = None => \E x \in ToSet(Caps(v)) : <<x, c.fn>> \in Waits /\ c.on = Cap(v, x)
<1>1. ASSUME NEW x, x \in ToSet(Caps(v)), c.on = Cap(v, x)
      PROVE  /\ Target(v, c) = promises[v][Cap(v, x)].value
             /\ \A d : d = Target(v, c) /\ d # None => d \in DOMAIN vats /\ vats[d].kind = x
  <2>1. PICK k : k = Cap(v, x)
    OBVIOUS
  <2>2. k \in DOMAIN promises[v] /\ \A d : d = promises[v][k].value /\ d # None => d \in DOMAIN vats /\ vats[d].kind = x
    BY <1>1, <2>1, PromisesMean
  <2>3. k # 0
    BY <2>2, PromisesMean
  <2>4. Target(v, c) = promises[v][k].value
    BY <1>1, <2>1, <2>2, <2>3 DEF Target
  <2> QED BY <2>1, <2>2, <2>4
<1>2. c.on = 0 => Target(v, c) = c.to
  BY DEF Target
<1>3. v # None /\ MonadRef # None /\ MonadRef \in DOMAIN vats
  <2>1. v \in Int \X Int /\ MonadRef \in Int \X Int /\ MonadRef \in DOMAIN vats
    BY DEF Inv, VatsOK, Nodes, MonadRef
  <2> QED BY <2>1, ValueAssumption DEF ValueAssumption
<1>4. PICK io, am : io = "Io" /\ am = "Amoeba"
  OBVIOUS
<1>5. CASE what = "print" /\ io \in ToSet(Caps(v)) /\ c.on = Cap(v, io) /\ c.fn = "print" /\ c.args = i
  <2>1. <<io, c.fn>> \in Waits
    BY <1>4, <1>5 DEF Waits
  <2>2. /\ Target(v, c) = promises[v][Cap(v, io)].value
        /\ \A d : d = Target(v, c) /\ d # None => d \in DOMAIN vats /\ vats[d].kind = io
    BY <1>1, <1>5
  <2> QED BY <1>4, <1>5, <2>1, <2>2
<1>6. CASE what = "init" /\ am \in ToSet(Caps(v)) /\ c.on = Cap(v, am) /\ c.fn = "init"
  <2>1. <<am, c.fn>> \in Waits
    BY <1>4, <1>6 DEF Waits
  <2>2. \A d : d = Target(v, c) /\ d # None => d \in DOMAIN vats /\ vats[d].kind = am
    BY <1>1, <1>6
  <2> QED BY <1>4, <1>6, <2>1, <2>2
<1>7. CASE what = "new" /\ c.on = 0 /\ c.to = MonadRef /\ c.fn = "new-vat" /\ c.args = Child
  BY <1>2, <1>3, <1>7
<1>8. CASE what = "zig" /\ c.on = 0 /\ c.to = v /\ c.fn = "zig"
  BY <1>2, <1>3, <1>8
<1> QED BY <1>4, <1>5, <1>6, <1>7, <1>8 DEF IsStatement

\* A main that runs has not run before, and nothing of its vat has been printed.
LEMMA MainIsNew ==
  ASSUME Inv, NEW v \in DOMAIN vats, NEW m, Takes(MonadRef, v, m), m.re = FALSE, m.fn = "main",
         NEW p \in Programs, m.args = p, MadeFor(v, p)
  PROVE  /\ Coming(p, v, 1) /\ ran[p] = <<>> /\ ~ HasRun(v) /\ NonePrinted(v)
         /\ \A k \in DOMAIN promises[v] : promises[v][k].dependents = <<>>
<1>1. Coming(p, v, 1)
  <2>1. PICK q : q = Chan(MonadRef, v)
    OBVIOUS
  <2>2. 1 \in DOMAIN q /\ m = q[1]
    BY <2>1, TakenIs DEF Inv
  <2> QED BY <2>1, <2>2 DEF Coming
<1>2. ran[p] = <<>>
  <2>1. OnePlace(p)
    BY PlacesMean DEF Inv
  <2> QED BY <1>1, <2>1 DEF OnePlace
<1>3. ~ HasRun(v)
  BY <1>2 DEF HasRun, MadeFor
<1>4. PrintsOf(v)
  BY DEF Inv, PrintsOK, MadeFor
<1> QED BY <1>1, <1>2, <1>3, <1>4 DEF PrintsOf

\* The main of a program runs.
LEMMA MainRunsKeeps ==
  ASSUME Inv, NEW s, NEW v, NEW m, MainRuns(s, v, m)
  PROVE  Inv'
<1>1. PICK fn, p, calls : /\ fn = "main" /\ p = m.args
                          /\ calls = [i \in DOMAIN Main[p] |-> Statement(v, i, Main[p][i])]
  OBVIOUS
<1>2. PICK ps, out : ps = PromisesAfter(v, calls) /\ out = SentBy(v, calls)
  OBVIOUS
<1>3. /\ TakesCall(s, v, fn, m) /\ ran' = [ran EXCEPT ![p] = Append(ran[p], v)] /\ Ends(s, v, ps, out)
      /\ UNCHANGED <<kernel, screen, keys, down, panics, prints>>
  BY <1>1, <1>2 DEF MainRuns
<1>4. IsTaken(s, v, fn, m)
  BY <1>3, TakenCall
<1>5. /\ v \in DOMAIN vats /\ Takes(s, v, m) /\ m.re = FALSE /\ m.fn = "main" /\ RequestOK(s, v, m)
      /\ system # <<>>
  BY <1>1, <1>4 DEF IsTaken
<1>6. s = MonadRef /\ p \in Programs /\ MadeFor(v, p)
  <2>1. VatRequestOK(s, v, m)
    BY <1>5 DEF RequestOK, ThreadRequestOK
  <2>2. CallOK(s, v, m.fn, m.args, m.prom)
    BY <2>1 DEF VatRequestOK
  <2> QED BY <1>1, <1>5, <2>2 DEF CallOK
<1>7. vats[v].kind = "Program" /\ vats[v].prog = p
  BY <1>6 DEF MadeFor
<1>8. /\ Coming(p, v, 1) /\ ran[p] = <<>> /\ ~ HasRun(v) /\ NonePrinted(v)
      /\ \A k \in DOMAIN promises[v] : promises[v][k].dependents = <<>>
  <2>1. Takes(MonadRef, v, m) /\ m.args = p
    BY <1>1, <1>5, <1>6
  <2> QED BY <1>5, <1>6, <2>1, MainIsNew
<1>9. v # MonadRef /\ v # Io /\ Io # None
  BY <1>5, <1>7, IoIs DEF Inv
<1>10. AreStatements(v, p, calls)
  BY <1>1, <1>6, <1>7, StatementsAre
<1>11. IsSeq(calls) /\ \A i \in DOMAIN calls : i \in Nat
  BY <1>10 DEF AreStatements
<1>12. ASSUME NEW i \in DOMAIN calls
       PROVE  /\ calls[i].fn \in {"print", "init", "new-vat", "zig"}
              /\ calls[i].fn = "print" => /\ "Io" \in ToSet(Caps(v)) /\ calls[i].args = i
                                          /\ Target(v, calls[i]) = promises[v][Cap(v, "Io")].value
              /\ \A d : d = Target(v, calls[i]) /\ d # None =>
                   /\ d \in DOMAIN vats
                   /\ calls[i].fn = "print" => vats[d].kind = "Io"
                   /\ calls[i].fn = "init" => vats[d].kind = "Amoeba"
                   /\ calls[i].fn = "new-vat" => d = MonadRef /\ calls[i].args = Child
                   /\ calls[i].fn = "zig" => d = v /\ "zig" \in ToSet(Main[p])
              /\ Target(v, calls[i]) = None =>
                   \E x \in ToSet(Caps(v)) : <<x, calls[i].fn>> \in Waits /\ calls[i].on = Cap(v, x)
  <2>1. PICK what \in ToSet(Main[p]) : IsStatement(v, i, what, calls[i])
    BY <1>10 DEF AreStatements
  <2>2. PICK c : c = calls[i]
    OBVIOUS
  <2>3. IsStatement(v, i, what, c)
    BY <2>1, <2>2
  <2>4. /\ c.fn \in {"print", "init", "new-vat", "zig"}
        /\ c.fn = "print" => /\ "Io" \in ToSet(Caps(v)) /\ c.args = i
                             /\ Target(v, c) = promises[v][Cap(v, "Io")].value
        /\ \A d : d = Target(v, c) /\ d # None =>
             /\ d \in DOMAIN vats
             /\ c.fn = "print" => vats[d].kind = "Io"
             /\ c.fn = "init" => vats[d].kind = "Amoeba"
             /\ c.fn = "new-vat" => d = MonadRef /\ c.args = Child
             /\ c.fn = "zig" => d = v /\ what = "zig"
        /\ Target(v, c) = None => \E x \in ToSet(Caps(v)) : <<x, c.fn>> \in Waits /\ c.on = Cap(v, x)
    BY <1>5, <1>7, <2>3, StatementMeans
  <2> QED BY <2>1, <2>2, <2>4
<1>13. PsIs(v, calls, ps, None) /\ OutIs(v, calls, s, m, FALSE, Nothing, out)
  BY <1>2, <1>5, <1>11, CallsAfter
<1>14. ran'[p] = <<v>> /\ DOMAIN ran' = DOMAIN ran /\ \A q \in Programs : q # p => ran'[q] = ran[q]
  <2>1. p \in DOMAIN ran
    BY <1>6 DEF Inv, RanOK
  <2>2. Append(<<>>, v) = <<v>>
    OBVIOUS
  <2> QED BY <1>3, <1>8, <2>1, <2>2
<1>15. RanStays /\ system' = system /\ nodes' = nodes /\ panics' = panics /\ prints' = prints /\ subscribers' = subscribers
  BY <1>3, <1>8, <1>14 DEF RanStays, kernel
<1>16. DOMAIN promises[v] \subseteq DOMAIN ps
  BY <1>5, <1>11, <1>13, PsGrows
<1>17. /\ Grows /\ promises'[v] = ps /\ Step(s, v, m, ps, out, <<>>) /\ NewOK(v, <<>>)
       /\ vats'[v] = vats[v]
  BY <1>3, <1>5, <1>15, <1>16, EndsGrows
<1>18. CallsOK(v, calls)
  <2> SUFFICES ASSUME NEW i \in DOMAIN calls, NEW d, d = Target(v, calls[i]), d # None
               PROVE  /\ d \in DOMAIN vats /\ calls[i].fn # "request-far-entity"
                      /\ CallOK(v, d, calls[i].fn, calls[i].args, Len(promises[v]) + i)'
    BY <1>11 DEF CallsOK
  <2>1. d \in DOMAIN vats /\ vats'[d] = vats[d]
    BY <1>12, <1>17 DEF Grows
  <2>2. "zig" \in ToSet(Main[p]) => ZigRan'
    BY <1>6, <1>14 DEF ZigRan
  <2>3. i \in Nat
    BY <1>11
  <2>4. PICK c : c = calls[i]
    OBVIOUS
  <2>5. /\ c.fn \in {"print", "init", "new-vat", "zig"}
        /\ c.fn = "print" => c.args = i /\ vats[d].kind = "Io"
        /\ c.fn = "init" => vats[d].kind = "Amoeba"
        /\ c.fn = "new-vat" => d = MonadRef /\ c.args = Child
        /\ c.fn = "zig" => d = v /\ "zig" \in ToSet(Main[p])
    BY <1>12, <2>4
  <2>6. PICK f, x : f = c.fn /\ x = c.args
    OBVIOUS
  <2>7. CallOK(v, d, f, x, Len(promises[v]) + i)'
    BY <1>7, <1>17, <2>1, <2>2, <2>3, <2>5, <2>6 DEF CallOK
  <2> QED BY <2>1, <2>4, <2>5, <2>6, <2>7
<1>19. WaitingOK(v, calls, ps)
  BY <1>7, <1>9, <1>11, <1>12 DEF WaitingOK
<1>20. StartCallsOK(v, calls, ps)
  BY <1>9 DEF StartCallsOK
<1>21. StepOK(s, v, m, ps, out, <<>>)
  <2>1. PICK answered \in BOOLEAN : answered = FALSE
    OBVIOUS
  <2>2. OutIs(v, calls, s, m, answered, Nothing, out) /\ (answered => AnswerOK(s, m, Nothing))
    BY <1>13, <2>1
  <2>3. PICK a : a = None
    OBVIOUS
  <2>4. PsIs(v, calls, ps, a) /\ (a = None \/ AskerOK(v, a)')
    BY <1>13, <2>3
  <2> QED BY <1>5, <1>17, <1>18, <1>19, <1>20, <2>2, <2>4, RequestStep
<1>22. ASSUME NEW q \in Programs PROVE Moves(s, v, q)
  <2>1. OutOK(v, out) /\ Settles(v, m, ps) /\ VatsOK /\ MailOK /\ LegsOnce
    BY <1>21 DEF StepOK, Inv
  <2>2. NotStarted(q)' => NotStarted(q)
    BY <1>15, <1>17, <2>1, NotStartedBefore
  <2>3. ASSUME NEW k, Pending(q, k)' PROVE Pending(q, k)
    <3>1. /\ k \in DOMAIN promises[MonadRef] => Pending(q, k)
          /\ k \notin DOMAIN promises[MonadRef] => v = MonadRef
      BY <1>17, <2>1, <2>3, PendingBefore
    <3> QED BY <1>9, <3>1
  <2>4. ASSUME NEW d, NEW i, Coming(q, d, i)' PROVE ComingOld(s, v, q, d, i)
    <3>1. ~ ComingNew(s, v, out, q, d, i)
      BY <1>9 DEF ComingNew
    <3> QED BY <1>17, <2>1, <2>4, <3>1, ComingBefore
  <2>5. ran'[q] = ran[q] \/ (s = MonadRef /\ Coming(q, v, 1) /\ ran'[q] = Append(ran[q], v))
    <3>1. Append(<<>>, v) = <<v>>
      OBVIOUS
    <3> QED BY <1>6, <1>8, <1>14, <3>1
  <2> QED BY <2>2, <2>3, <2>4, <2>5 DEF Moves
<1>23. ASSUME NEW i, NEW j, NEW x, NEW y, x = Called(v, calls, i), y = Called(v, calls, j),
              i \in DOMAIN calls, j \in DOMAIN calls, IsPrint(x), IsPrint(y)
       PROVE  x.args = i /\ y.args = j
  BY <1>12, <1>23 DEF Called, Request, IsPrint
<1>24. Increasing(At(out, Io))
  <2>1. PICK len \in Nat : len = Len(promises[v])
    BY <1>5, PromisesMean
  <2>2. PICK o : o = At(out, Io)
    OBVIOUS
  <2>3. ASSUME NEW j \in DOMAIN o, NEW l \in DOMAIN o, j < l, IsPrint(o[j]), IsPrint(o[l]) PROVE o[j].args < o[l].args
    <3>1. PICK x, y : x = o[j] /\ y = o[l]
      OBVIOUS
    <3>2. ~ x.re /\ ~ y.re /\ x.prom < y.prom
      BY <1>13, <2>2, <2>3, <3>1 DEF OutIs, IsPrint
    <3>3. PICK i : IsCall(v, calls, Io, i, x)
      BY <1>13, <2>2, <3>1 DEF OutIs
    <3>4. PICK k : IsCall(v, calls, Io, k, y)
      BY <1>13, <2>2, <3>1 DEF OutIs
    <3>5. x = Called(v, calls, i) /\ i \in DOMAIN calls /\ y = Called(v, calls, k) /\ k \in DOMAIN calls
      BY <3>3, <3>4 DEF IsCall
    <3>6. x.args = i /\ y.args = k
      BY <1>23, <2>3, <3>1, <3>5
    <3>7. x.prom = len + i /\ y.prom = len + k /\ i \in Nat /\ k \in Nat
      BY <1>11, <2>1, <3>5 DEF Called, Request
    <3> QED BY <3>1, <3>2, <3>6, <3>7
  <2> QED BY <2>2, <2>3 DEF Increasing
<1>25. ASSUME NEW k \in DOMAIN ps PROVE Increasing(ps[k].dependents)
  <2>1. PICK q : q = Waiting(v, calls, k)
    OBVIOUS
  <2>2. AreCalls(v, calls, WaitsOn(v, calls, k), q)
    BY <1>13, <2>1 DEF PsIs
  <2>3. ps[k].dependents = q
    <3>1. CASE k \in DOMAIN promises[v]
      <4>1. ps[k].dependents = <<>> \o q
        BY <1>8, <1>13, <2>1, <3>1 DEF PsIs, Joins
      <4>2. PICK S : S = ToSet(q) /\ q \in Seq(S)
        BY <2>2 DEF AreCalls, IsSeq
      <4> QED BY <4>1, <4>2
    <3>2. CASE k \notin DOMAIN promises[v]
      BY <1>13, <2>1, <3>2 DEF PsIs
    <3> QED BY <3>1, <3>2
  <2>4. PICK f : /\ \A j \in DOMAIN q : f[j] \in WaitsOn(v, calls, k) /\ q[j] = Called(v, calls, f[j])
                 /\ \A j, l \in DOMAIN q : j < l => f[j] < f[l]
    BY <2>2 DEF AreCalls
  <2>5. ASSUME NEW j \in DOMAIN q, NEW l \in DOMAIN q, j < l, IsPrint(q[j]), IsPrint(q[l]) PROVE q[j].args < q[l].args
    <3>1. PICK x, y, i, n : x = q[j] /\ y = q[l] /\ i = f[j] /\ n = f[l]
      OBVIOUS
    <3>2. x = Called(v, calls, i) /\ i \in DOMAIN calls /\ y = Called(v, calls, n) /\ n \in DOMAIN calls /\ i < n
      BY <2>4, <2>5, <3>1 DEF WaitsOn
    <3>3. x.args = i /\ y.args = n
      BY <1>23, <2>5, <3>1, <3>2
    <3> QED BY <3>1, <3>2, <3>3
  <2> QED BY <2>3, <2>5 DEF Increasing
<1>26. HasRun(v)'
  <2>1. <<v>> # <<>> /\ <<v>>[1] = v
    OBVIOUS
  <2>2. vats'[v].prog = p /\ ran'[p] # <<>> /\ ran'[p][1] = v
    BY <1>7, <1>14, <1>17, <2>1
  <2> QED BY <1>6, <2>2 DEF HasRun
<1>27. ASSUME NEW j \in DOMAIN At(out, Io), IsPrint(At(out, Io)[j]), "Io" \in ToSet(Caps(v))
       PROVE  ps[Cap(v, "Io")].value # None
  <2>1. PICK x : x = At(out, Io)[j]
    OBVIOUS
  <2>2. PICK i : IsCall(v, calls, Io, i, x)
    BY <1>13, <2>1 DEF OutIs
  <2>3. i \in DOMAIN calls /\ x = Called(v, calls, i) /\ Target(v, calls[i]) = Io
    BY <2>2 DEF IsCall
  <2>4. calls[i].fn = "print"
    BY <1>27, <2>1, <2>3 DEF IsPrint, Called, Request
  <2>5. promises[v][Cap(v, "Io")].value = Io
    BY <1>12, <2>3, <2>4
  <2>6. PICK cap : cap = "Io"
    OBVIOUS
  <2>7. Cap(v, cap) \in DOMAIN promises[v]
    BY <1>5, <1>27, <2>6, PromisesMean
  <2>8. ps[Cap(v, "Io")].value = promises[v][Cap(v, "Io")].value
    BY <1>13, <1>16, <2>6, <2>7 DEF PsIs
  <2> QED BY <1>9, <2>5, <2>8
<1>28. PrintsSent(v, ps, out)
  BY <1>8, <1>24, <1>25, <1>26, <1>27 DEF PrintsSent
<1>29. Printed(s, v, m)
  BY <1>15 DEF Printed
<1>30. Core'
  BY <1>15, <1>17, <1>21, <1>22, <1>28, <1>29, HandlerKeeps
<1> QED BY <1>5, <1>15, <1>17, <1>21, <1>30, Finishes

-----------------------------------------------------------------------------
(* Responses *)

\* What a response is for, and what waits for it.
Responds(s, v, m, k, x) ==
  /\ v \in DOMAIN vats /\ s \in DOMAIN vats /\ k \in DOMAIN promises[v] /\ system # <<>>
  /\ k \in DOMAIN Caps(v) => RefOK(v, k, x) /\ x \in DOMAIN vats /\ vats[x].kind = Caps(v)[k]
  /\ Direct(v, k) => promises[v][k].value = None
  /\ v = MonadRef /\ Start(k) => MadeFor(x, StartOf(k))

\* An answer comes to a promise that is there.
LEMMA ResponseMeans ==
  ASSUME Inv, NEW s, NEW v, NEW m, Takes(s, v, m), m.re, NEW k, k = m.prom, NEW x, x = m.args
  PROVE  Responds(s, v, m, k, x)
<1>1. Chan(s, v) # <<>> /\ 1 \in DOMAIN Chan(s, v) /\ m = Chan(s, v)[1] /\ MessageOK(s, v, m) /\ m.re \in BOOLEAN
  BY TakenIs DEF Inv
<1>2. ResponseOK(s, v, m)
  BY <1>1 DEF MessageOK
<1>3. v \in DOMAIN vats /\ s \in DOMAIN vats /\ k \in DOMAIN promises[v]
  BY <1>2 DEF ResponseOK
<1>4. system # <<>>
  <2> SUFFICES ASSUME system = <<>> PROVE FALSE
    OBVIOUS
  <2>1. <<s, v>> \in DOMAIN mail
    BY DEF Takes
  <2>2. PICK c \in DOMAIN mail : c = <<s, v>>
    BY <2>1
  <2>3. c \in {<<Thread(0), MonadRef>>, <<Thread(1), MonadRef>>}
    BY DEF Inv, BootOK
  <2>4. s \in {Thread(0), Thread(1)}
    BY <2>2, <2>3
  <2>5. s[2] = -1 /\ s[2] \in Nat
    BY <1>3, <2>4 DEF Thread, Inv, VatsOK
  <2> QED BY <2>5
<1>5. k \in DOMAIN Caps(v) => RefOK(v, k, x)
  BY <1>2 DEF ResponseOK
<1>6. k \in DOMAIN Caps(v) => x \in DOMAIN vats /\ vats[x].kind = Caps(v)[k]
  BY <1>4, <1>5 DEF RefOK, Inv, SystemOK
<1>7. PICK re \in BOOLEAN : re = TRUE
  OBVIOUS
<1>8. Leg(v, s, re) = Chan(s, v)
  BY <1>7 DEF Leg, From, To
<1>9. IsLeg(v, k, s, re, 1)
  BY <1>1, <1>7, <1>8 DEF IsLeg
<1>10. Direct(v, k) => promises[v][k].value = None
  <2> SUFFICES ASSUME Direct(v, k) PROVE promises[v][k].value = None
    OBVIOUS
  <2>1. LegsHere(v, k)
    BY <1>3, LegsMean DEF Inv
  <2> QED BY <1>9, <2>1 DEF LegsHere
<1>11. v = MonadRef /\ Start(k) => MadeFor(x, StartOf(k))
  <2> SUFFICES ASSUME v = MonadRef, Start(k) PROVE MadeFor(x, StartOf(k))
    OBVIOUS
  <2>1. k \in DOMAIN promises[MonadRef] /\ IsLeg(MonadRef, k, s, re, 1)
    BY <1>3, <1>9
  <2>2. StartLegOK(k, re, Leg(MonadRef, s, re)[1])
    BY <2>1, StartsMean DEF Inv
  <2>3. Leg(MonadRef, s, re)[1] = m
    BY <1>1, <1>8
  <2> QED BY <1>7, <2>2, <2>3 DEF StartLegOK
<1> QED BY <1>3, <1>4, <1>5, <1>6, <1>10, <1>11 DEF Responds

\* A call that waits for a promise may be made of what the promise stands for.
Waited(v, k, x, j, q) ==
  /\ q.re = FALSE /\ q.prom \in DOMAIN promises[v] /\ ~ Direct(v, q.prom) /\ q.prom \notin DOMAIN Caps(v)
  /\ x \in DOMAIN vats /\ q.fn # "request-far-entity" /\ CallOK(v, x, q.fn, q.args, q.prom)
  /\ Direct(v, k)
  /\ q.fn = "print" => k = Cap(v, "Io") /\ "Io" \in ToSet(Caps(v)) /\ vats[v].kind = "Program"
  /\ q.fn = "main" => v = MonadRef /\ Start(k) /\ StartOf(k) = q.args /\ j = 1

\* What waits for a promise that has its answer can be sent.
LEMMA WaitedIs ==
  ASSUME Inv, NEW s, NEW v, NEW m, NEW k, NEW x, Responds(s, v, m, k, x),
         NEW deps, deps = promises[v][k].dependents, NEW j \in DOMAIN deps, NEW q, q = deps[j]
  PROVE  Waited(v, k, x, j, q)
<1>1. v \in DOMAIN vats /\ k \in DOMAIN promises[v]
  BY DEF Responds
<1>2. DependentOK(v, k, q) /\ IsSeq(deps) /\ IsSeq(Caps(v))
  BY <1>1 DEF Inv, PromisesOK, PromiseOK
<1>3. q.re = FALSE /\ q.prom \in DOMAIN promises[v] /\ q.prom \notin DOMAIN Caps(v)
  BY <1>2 DEF DependentOK
<1>4. CASE CapDependent(v, k, q)
  <2>1. PICK c \in ToSet(Caps(v)) : <<c, q.fn>> \in Waits /\ k = Cap(v, c)
    BY <1>4 DEF CapDependent
  <2>2. k \in DOMAIN Caps(v) /\ Caps(v)[k] = c
    BY <1>1, <2>1, PromisesMean
  <2>3. x \in DOMAIN vats /\ vats[x].kind = c
    BY <2>2 DEF Responds
  <2>4. /\ q.fn = "print" => c = "Io" /\ vats[v].kind = "Program" /\ q.args \in Nat
        /\ q.fn = "init" => c = "Amoeba"
        /\ q.fn = "subscribe-irq" => c = "Monad"
        /\ q.fn \in {"print", "init", "subscribe-irq"}
    BY <1>4, <2>1 DEF CapDependent, Waits
  <2>5. c = "Monad" => x = MonadRef
    BY <2>3 DEF Inv, VatsOK, VatOK
  <2>6. CallOK(v, x, q.fn, q.args, q.prom)
    BY <2>3, <2>4, <2>5 DEF CallOK
  <2>7. v # MonadRef
    <3>1. \A i : i \notin DOMAIN <<>>
      OBVIOUS
    <3>2. vats[v].kind = "Monad" => Caps(v) = <<>>
      BY DEF Caps, CapsOf
    <3> QED BY <2>2, <3>1, <3>2 DEF Inv, VatsOK
  <2>8. Direct(v, k) /\ ~ Direct(v, q.prom)
    BY <1>3, <2>2, <2>7 DEF Direct
  <2> QED BY <1>3, <2>1, <2>3, <2>4, <2>6, <2>8 DEF Waited
<1>5. CASE MainDependent(v, k, q)
  <2>1. /\ v = MonadRef /\ q.fn = "main" /\ q.args \in Programs /\ q.prom = k + 1 /\ Len(deps) = 1
        /\ promises[v][k + 1].dependents = <<>>
    BY <1>5 DEF MainDependent
  <2>2. j = 1
    BY <1>2, <2>1, SeqDomain
  <2>3. Start(k) /\ StartOf(k) = q.args
    <3>1. deps # <<>>
      BY <2>2, SeqDomain
    <3> QED BY <1>1, <2>1, <2>2, <3>1 DEF Start, StartOf
  <2>4. MadeFor(x, q.args)
    BY <2>1, <2>3 DEF Responds
  <2>5. ~ Direct(v, q.prom)
    BY <1>3, <2>1 DEF Direct, Start
  <2>6. x \in DOMAIN vats /\ CallOK(v, x, q.fn, q.args, q.prom)
    BY <2>1, <2>4 DEF CallOK, MadeFor
  <2>7. Direct(v, k)
    BY <2>1, <2>3 DEF Direct
  <2> QED BY <1>3, <2>1, <2>2, <2>3, <2>5, <2>6, <2>7 DEF Waited
<1> QED BY <1>2, <1>4, <1>5 DEF DependentOK

\* What is sent are the calls that waited, in their order, and an answer.
ReplyIs(x, deps, answered, src, res, out) ==
  /\ \A d : IsSeq(At(out, d))
  /\ \A d : \A j \in DOMAIN At(out, d) :
       \/ j \in DOMAIN deps /\ d = x /\ At(out, d)[j] = deps[j]
       \/ answered /\ IsVat(src) /\ d = src /\ At(out, d)[j] = res

\* What a response sets off: the dependents, and an answer to the asker.
LEMMA RepliesAre ==
  ASSUME NEW x, NEW deps, IsSeq(deps), NEW o, o = Put(NoMail, x, deps), NEW src, NEW am, NEW value, NEW res, res = Response(am, value)
  PROVE  /\ ReplyIs(x, deps, FALSE, src, res, o)
         /\ ReplyIs(x, deps, TRUE, src, res, Answer(o, src, am, value))
<1>1. \A d : At(NoMail, d) = <<>>
  BY SeqDomain DEF At, NoMail
<1>2. At(o, x) = deps
  <2>1. deps \in Seq(ToSet(deps))
    BY DEF IsSeq
  <2>2. PICK S : S = ToSet(deps)
    OBVIOUS
  <2>3. <<>> \o deps = deps
    BY <2>1, <2>2
  <2> QED BY <1>1, <2>3 DEF Put, At
<1>3. \A d : d # x => At(o, d) = <<>>
  BY DEF Put, At, NoMail
<1>4. ReplyIs(x, deps, FALSE, src, res, o)
  <2>1. \A d : IsSeq(At(o, d))
    BY <1>2, <1>3, SeqDomain
  <2>2. \A d : \A j \in DOMAIN At(o, d) : j \in DOMAIN deps /\ d = x /\ At(o, d)[j] = deps[j]
    BY <1>2, <1>3, SeqDomain
  <2> QED BY <2>1, <2>2 DEF ReplyIs
<1>5. CASE ~ IsVat(src)
  BY <1>4, <1>5 DEF ReplyIs, Answer
<1>6. CASE IsVat(src)
  <2>1. PICK t, r : t = <<res>> /\ r = Put(o, src, t)
    OBVIOUS
  <2>2. Answer(o, src, am, value) = r
    BY <1>6, <2>1 DEF Answer
  <2>3. IsSeq(t) /\ DOMAIN t = {1} /\ t[1] = res
    BY <2>1, OneCall
  <2>4. \A d : d # src => At(r, d) = At(o, d)
    BY <2>1 DEF Put, At
  <2>5. PICK u, w : u = At(o, src) /\ w = At(r, src)
    OBVIOUS
  <2>6. Joins(w, u, t) /\ IsSeq(u)
    BY <1>4, <2>1, <2>5 DEF Put, At, Joins, ReplyIs
  <2>7. IsJoin(w, u, t)
    BY <2>3, <2>6, CatIs
  <2>8. IsSeq(w) /\ \A j \in DOMAIN w : (j \in DOMAIN u /\ w[j] = u[j]) \/ w[j] = res
    BY <2>3, <2>7 DEF IsJoin
  <2>9. \A d : IsSeq(At(r, d))
    BY <1>4, <2>4, <2>5, <2>8 DEF ReplyIs
  <2>10. ASSUME NEW d, NEW j \in DOMAIN At(r, d)
         PROVE  \/ j \in DOMAIN deps /\ d = x /\ At(r, d)[j] = deps[j]
                \/ IsVat(src) /\ d = src /\ At(r, d)[j] = res
    BY <1>4, <1>6, <2>4, <2>5, <2>8, <2>10 DEF ReplyIs
  <2>11. ReplyIs(x, deps, TRUE, src, res, r)
    BY <2>9, <2>10 DEF ReplyIs
  <2> QED BY <1>4, <2>2, <2>11
<1> QED BY <1>4, <1>5, <1>6

\* The handler of a response, with what its step needs.
Replies(v, k, x, ps, deps, answered, a, out) ==
  /\ IsSeq(ps) /\ DOMAIN ps = DOMAIN promises[v]
  /\ \A l \in DOMAIN ps : /\ ps[l].dependents = promises[v][l].dependents /\ ps[l].asker = promises[v][l].asker
                          /\ DOMAIN ps[l] = Fields
                          /\ ps[l].value = IF l = k THEN x ELSE promises[v][l].value
  /\ deps = promises[v][k].dependents /\ IsSeq(deps)
  /\ answered => AskerOK(v, a)
  /\ ReplyIs(x, deps, answered, a.src, Response(a.m, x), out)

\* The same, as what is sent to each vat.
LEMMA RepliesIs ==
  ASSUME Inv, NEW s, NEW v, NEW m, HandleResponse(s, v, m), NEW k, k = m.prom, NEW x, x = m.args
  PROVE  \E ps, deps, answered, a, out :
           answered \in BOOLEAN /\ Replies(v, k, x, ps, deps, answered, a, out) /\ Ends(s, v, ps, out)
<1>1. PICK p, ps, o : p = promises[v][k] /\ o = Put(NoMail, x, p.dependents) /\ ps = [promises[v] EXCEPT ![k].value = x]
  OBVIOUS
<1>2. Takes(s, v, m) /\ v \in DOMAIN vats /\ k \in DOMAIN promises[v]
  BY DEF HandleResponse, Takes
<1>3. PICK out : out = IF p.asker = None \/ m.fn = "main" THEN o ELSE Answer(o, p.asker.src, p.asker.m, x)
  OBVIOUS
<1>4. Ends(s, v, ps, out)
  BY <1>1, <1>3 DEF HandleResponse
<1>5. PICK deps, a : deps = p.dependents /\ a = p.asker
  OBVIOUS
<1>6. PICK n \in Nat : DOMAIN promises[v] = 1 .. n
  BY <1>2, PromisesMean
<1>7. IsSeq(ps) /\ DOMAIN ps = DOMAIN promises[v]
  <2>1. ps = [i \in 1 .. n |-> ps[i]] /\ DOMAIN ps = 1 .. n
    BY <1>1, <1>6
  <2> QED BY <1>6, <2>1, SeqIs
<1>8. ASSUME NEW l \in DOMAIN ps
      PROVE  /\ ps[l].dependents = promises[v][l].dependents /\ ps[l].asker = promises[v][l].asker
             /\ DOMAIN ps[l] = Fields
             /\ ps[l].value = IF l = k THEN x ELSE promises[v][l].value
  <2>1. DOMAIN promises[v][l] = Fields
    BY <1>2, <1>7, PromisesMean
  <2>2. CASE l # k
    BY <1>1, <2>1, <2>2
  <2>3. CASE l = k
    <3>1. ps[l] = [promises[v][l] EXCEPT !.value = x]
      BY <1>1, <1>2, <2>3
    <3> QED BY <2>1, <2>3, <3>1 DEF Fields
  <2> QED BY <2>2, <2>3
<1>9. IsSeq(deps)
  BY <1>1, <1>2, <1>5, PromisesMean
<1>10. PICK res : res = Response(a.m, x)
  OBVIOUS
<1>11. PICK src, am : src = a.src /\ am = a.m
  OBVIOUS
<1>12. o = Put(NoMail, x, deps) /\ res = Response(am, x)
  BY <1>1, <1>5, <1>10, <1>11
<1>13. ReplyIs(x, deps, FALSE, src, res, o) /\ ReplyIs(x, deps, TRUE, src, res, Answer(o, src, am, x))
  BY <1>9, <1>12, RepliesAre
<1>14. a = None \/ AskerOK(v, a)
  <2>1. PromiseOK(v, k)
    BY <1>2 DEF Inv, PromisesOK
  <2> QED BY <1>1, <1>5, <2>1 DEF PromiseOK
<1>15. CASE a = None \/ m.fn = "main"
  <2>1. PICK answered \in BOOLEAN : answered = FALSE
    OBVIOUS
  <2>2. out = o
    BY <1>3, <1>5, <1>15
  <2>3. ReplyIs(x, deps, answered, a.src, Response(a.m, x), out)
    BY <1>10, <1>11, <1>13, <2>1, <2>2
  <2>4. Replies(v, k, x, ps, deps, answered, a, out)
    BY <1>1, <1>5, <1>7, <1>8, <1>9, <2>1, <2>3 DEF Replies
  <2> QED BY <1>4, <2>4
<1>16. CASE ~ (a = None \/ m.fn = "main")
  <2>1. PICK answered \in BOOLEAN : answered = TRUE
    OBVIOUS
  <2>2. out = Answer(o, src, am, x)
    BY <1>3, <1>5, <1>11, <1>16
  <2>3. ReplyIs(x, deps, answered, a.src, Response(a.m, x), out)
    BY <1>10, <1>11, <1>13, <2>1, <2>2
  <2>4. Replies(v, k, x, ps, deps, answered, a, out)
    BY <1>1, <1>5, <1>7, <1>8, <1>9, <1>14, <1>16, <2>1, <2>3 DEF Replies
  <2> QED BY <1>4, <2>4
<1> QED BY <1>15, <1>16

\* Who is answered waits for a vat of its own.
Answers(v, a, x, d, y) ==
  /\ d \in DOMAIN vats /\ vats[d].kind = "Program" /\ d # MonadRef /\ v = MonadRef
  /\ y.re = TRUE /\ y.fn # "request-far-entity" /\ y.prom \in DOMAIN promises[d] /\ ~ Direct(d, y.prom)
  /\ y.prom \notin DOMAIN Caps(d)

\* The answer to the asker is one it waits for.
LEMMA AnswersAre ==
  ASSUME Inv, NEW v, NEW a, AskerOK(v, a), NEW x, NEW d, d = a.src, IsVat(d), NEW y, y = Response(a.m, x)
  PROVE  Answers(v, a, x, d, y)
<1>1. PICK m : m = a.m
  OBVIOUS
<1>2. v = MonadRef /\ m.fn \in {"start-program", "new-vat"} /\ RequestOK(d, v, m)
  BY <1>1 DEF AskerOK
<1>3. ~ ThreadRequestOK(d, v, m)
  BY DEF ThreadRequestOK, IsVat, Thread, Keyboard
<1>4. VatRequestOK(d, v, m)
  BY <1>2, <1>3 DEF RequestOK
<1>5. d \in DOMAIN vats /\ m.prom \in DOMAIN promises[d] /\ m.prom \notin DOMAIN Caps(d)
  BY <1>2, <1>4 DEF VatRequestOK
<1>6. CallOK(d, v, m.fn, m.args, m.prom)
  BY <1>4 DEF VatRequestOK
<1>7. vats[d].kind = "Program"
  BY <1>2, <1>6 DEF CallOK
<1>8. d # MonadRef
  BY <1>7 DEF Inv, VatsOK
<1>9. y.re = TRUE /\ y.fn = m.fn /\ y.prom = m.prom
  BY <1>1 DEF Response
<1> QED BY <1>2, <1>5, <1>7, <1>8, <1>9 DEF Answers, Direct

\* The step of a response.
LEMMA ReplyStep ==
  ASSUME Inv, Grows, NEW s, NEW v, NEW m, NEW k, NEW x, m.re, k = m.prom, Responds(s, v, m, k, x),
         NEW ps, NEW deps, NEW answered \in BOOLEAN, NEW a, NEW out, Replies(v, k, x, ps, deps, answered, a, out),
         Step(s, v, m, ps, out, <<>>), NewOK(v, <<>>), promises'[v] = ps
  PROVE  StepOK(s, v, m, ps, out, <<>>)
<1>1. v \in DOMAIN vats /\ k \in DOMAIN promises[v] /\ s \in DOMAIN vats /\ vats'[v] = vats[v] /\ v \in DOMAIN vats'
  BY DEF Responds, Grows
<1>2. /\ IsSeq(ps) /\ DOMAIN ps = DOMAIN promises[v]
      /\ \A l \in DOMAIN ps : /\ ps[l].dependents = promises[v][l].dependents /\ ps[l].asker = promises[v][l].asker
                              /\ DOMAIN ps[l] = Fields
                              /\ ps[l].value = IF l = k THEN x ELSE promises[v][l].value
      /\ deps = promises[v][k].dependents /\ IsSeq(deps)
  BY DEF Replies
<1>3. PICK src, res : src = a.src /\ res = Response(a.m, x)
  OBVIOUS
<1>4. ReplyIs(x, deps, answered, src, res, out)
  BY <1>3 DEF Replies
<1>5. Caps(v)' = Caps(v)
  BY <1>1, RefStays
<1>6. ASSUME NEW d, NEW j \in DOMAIN At(out, d), NEW y, y = At(out, d)[j]
      PROVE  \/ d = x /\ j \in DOMAIN deps /\ y = deps[j] /\ Waited(v, k, x, j, y)
             \/ answered /\ Answers(v, a, x, d, y)
  <2>1. \/ j \in DOMAIN deps /\ d = x /\ y = deps[j]
        \/ answered /\ IsVat(src) /\ d = src /\ y = res
    BY <1>4, <1>6 DEF ReplyIs
  <2>2. CASE j \in DOMAIN deps /\ d = x /\ y = deps[j]
    BY <1>2, <2>2, WaitedIs
  <2>3. CASE answered /\ IsVat(src) /\ d = src /\ y = res
    <3>1. AskerOK(v, a)
      BY <2>3 DEF Replies
    <3> QED BY <1>3, <2>3, <3>1, AnswersAre
  <2> QED BY <2>1, <2>2, <2>3
<1>7. OutOK(v, out)
  <2>1. ASSUME NEW d, NEW j \in DOMAIN At(out, d) PROVE MessageOK(v, d, At(out, d)[j])'
    <3>1. PICK y : y = At(out, d)[j]
      OBVIOUS
    <3>2. CASE d = x /\ Waited(v, k, x, j, y)
      <4>1. PICK fn, args, l : fn = y.fn /\ args = y.args /\ l = y.prom
        OBVIOUS
      <4>2. d \in DOMAIN vats /\ CallOK(v, d, fn, args, l) /\ y.re = FALSE /\ l \in DOMAIN promises[v]
            /\ l \notin DOMAIN Caps(v) /\ fn # "request-far-entity"
        BY <3>2, <4>1 DEF Waited
      <4>3. CallOK(v, d, fn, args, l)'
        BY <1>1, <4>2, CallStays
      <4>4. VatRequestOK(v, d, y)'
        BY <1>1, <1>2, <1>5, <4>1, <4>2, <4>3 DEF VatRequestOK
      <4>5. MessageOK(v, d, y)'
        BY <4>2, <4>4 DEF MessageOK, RequestOK, Grows
      <4> QED BY <3>1, <4>5 DEF MessageOK, RequestOK, ResponseOK, VatRequestOK, ThreadRequestOK, RefOK, CallOK
    <3>3. CASE Answers(v, a, x, d, y)
      <4>1. d \in DOMAIN vats /\ y.re = TRUE /\ y.fn # "request-far-entity" /\ y.prom \in DOMAIN promises[d]
            /\ y.prom \notin DOMAIN Caps(d)
        BY <3>3 DEF Answers
      <4>2. PICK l : l = y.prom
        OBVIOUS
      <4>3. Caps(d)' = Caps(d) /\ l \in DOMAIN promises'[d] /\ d \in DOMAIN vats'
        BY <4>1, <4>2, RefStays DEF Grows
      <4>4. ResponseOK(v, d, y)'
        BY <1>1, <4>1, <4>2, <4>3 DEF ResponseOK
      <4>5. MessageOK(v, d, y)'
        BY <4>1, <4>4 DEF MessageOK
      <4> QED BY <3>1, <4>5 DEF MessageOK, RequestOK, ResponseOK, VatRequestOK, ThreadRequestOK, RefOK, CallOK
    <3> QED BY <1>6, <3>1, <3>2, <3>3
  <2>2. \A d : IsSeq(At(out, d))
    BY <1>4 DEF ReplyIs
  <2> QED BY <2>1, <2>2 DEF OutOK
<1>8. SendsOnce(s, v, m, out)
  <2> SUFFICES ASSUME NEW d, NEW j \in DOMAIN At(out, d), NEW y, y = At(out, d)[j]
               PROVE  /\ d \in DOMAIN vats
                      /\ y.re => /\ y.prom \in DOMAIN promises[d]
                                 /\ Direct(d, y.prom) =>
                                      /\ d = s /\ m.re = FALSE /\ y.prom = m.prom
                                      /\ \A l \in DOMAIN At(out, d) : At(out, d)[l].re => l = j
                      /\ ~ y.re => /\ y.prom \in DOMAIN promises[v] => ~ Direct(v, y.prom)
                                   /\ y.prom \notin DOMAIN promises[v] =>
                                        \A e : \A l \in DOMAIN At(out, e) :
                                          ~ At(out, e)[l].re /\ At(out, e)[l].prom = y.prom => d = e /\ j = l
    BY DEF SendsOnce
  <2>1. CASE d = x /\ Waited(v, k, x, j, y)
    BY <2>1 DEF Waited
  <2>2. CASE Answers(v, a, x, d, y)
    BY <2>2 DEF Answers
  <2> QED BY <1>6, <2>1, <2>2
<1>9. StartsRight(s, v, m, ps, out)
  <2> SUFFICES ASSUME NEW d, NEW j \in DOMAIN At(out, d), NEW y, y = At(out, d)[j]
               PROVE  /\ ~ (y.re /\ s = MonadRef /\ d = s)
                      /\ ~ y.re => y.prom \in DOMAIN promises[v]
    BY DEF StartsRight
  <2>1. CASE d = x /\ Waited(v, k, x, j, y)
    BY <2>1 DEF Waited
  <2>2. CASE Answers(v, a, x, d, y)
    BY <2>2 DEF Answers
  <2> QED BY <1>6, <2>1, <2>2
<1>10. Settles(v, m, ps)
  BY <1>2 DEF Settles
<1>11. PsOK(v, ps)
  <2>1. ASSUME NEW l \in DOMAIN ps PROVE PromiseOK(v, l)'
    <3>1. PICK p : p = ps[l]
      OBVIOUS
    <3>2. promises'[v][l] = p /\ l \in DOMAIN promises[v] /\ DOMAIN p = Fields
      BY <1>2, <3>1
    <3>3. PromiseOK(v, l)
      BY <1>1, <3>2 DEF Inv, PromisesOK
    <3>4. p.dependents = promises[v][l].dependents /\ p.asker = promises[v][l].asker
          /\ p.value = IF l = k THEN x ELSE promises[v][l].value
      BY <1>2, <3>1
    <3>5. l \in DOMAIN Caps(v) => p.value = None \/ RefOK(v, l, p.value)
      BY <3>3, <3>4 DEF PromiseOK, Responds
    <3>6. p.value = None \/ RefOK(v, l, p.value) => p.value = None \/ RefOK(v, l, p.value)'
      BY <1>1, RefStays
    <3>7. ASSUME NEW q, DependentOK(v, l, q) PROVE DependentOK(v, l, q)'
      <4>1. CapDependent(v, l, q) => CapDependent(v, l, q)'
        BY <1>1, <1>5 DEF CapDependent, Cap, Caps
      <4>2. MainDependent(v, l, q) => MainDependent(v, l, q)'
        <5> SUFFICES ASSUME MainDependent(v, l, q) PROVE MainDependent(v, l, q)'
          OBVIOUS
        <5>1. /\ v = MonadRef /\ q.fn = "main" /\ q.args \in Programs
              /\ q.prom = l + 1 /\ Len(promises[v][l].dependents) = 1 /\ promises[v][l + 1].dependents = <<>>
          BY DEF MainDependent
        <5>2. l + 1 \in DOMAIN promises[v]
          BY <3>7, <5>1 DEF DependentOK
        <5>3. Len(ps[l].dependents) = 1 /\ ps[l + 1].dependents = <<>>
          BY <1>2, <5>1, <5>2
        <5> QED BY <5>1, <5>3 DEF MainDependent
      <4> QED BY <1>2, <1>5, <3>7, <4>1, <4>2 DEF DependentOK
    <3>8. p.asker = None \/ AskerOK(v, p.asker)'
      <4>1. p.asker = None \/ AskerOK(v, p.asker)
        BY <3>3, <3>4 DEF PromiseOK
      <4> QED BY <4>1, RequestStays DEF AskerOK
    <3>9. IsSeq(p.dependents) /\ \A i \in DOMAIN p.dependents : DependentOK(v, l, p.dependents[i])
      BY <3>3, <3>4 DEF PromiseOK
    <3>10. /\ DOMAIN p = Fields
           /\ l \in DOMAIN Caps(v)' => p.value = None \/ RefOK(v, l, p.value)'
           /\ IsSeq(p.dependents) /\ \A i \in DOMAIN p.dependents : DependentOK(v, l, p.dependents[i])'
           /\ p.asker = None \/ AskerOK(v, p.asker)'
      BY <1>5, <3>2, <3>5, <3>6, <3>7, <3>8, <3>9
    <3> QED BY <3>2, <3>10 DEF PromiseOK
  <2> QED BY <1>2, <2>1 DEF PsOK
<1> QED BY <1>7, <1>8, <1>9, <1>10, <1>11 DEF StepOK

\* A response comes.
LEMMA HandleResponseKeeps ==
  ASSUME Inv, NEW s, NEW v, NEW m, HandleResponse(s, v, m)
  PROVE  Inv'
<1>1. PICK k, x : k = m.prom /\ x = m.args
  OBVIOUS
<1>2. Takes(s, v, m) /\ m.re /\ UNCHANGED <<kernel, screen, keys, down, history>>
  BY DEF HandleResponse
<1>3. Responds(s, v, m, k, x)
  BY <1>1, <1>2, ResponseMeans
<1>4. \E ps, deps, answered, a, out :
        answered \in BOOLEAN /\ Replies(v, k, x, ps, deps, answered, a, out) /\ Ends(s, v, ps, out)
  BY <1>1, RepliesIs
<1>5. PICK ps, deps, answered, a, out :
        answered \in BOOLEAN /\ Replies(v, k, x, ps, deps, answered, a, out) /\ Ends(s, v, ps, out)
  BY <1>4
<1>6. v \in DOMAIN vats /\ k \in DOMAIN promises[v] /\ system # <<>>
  BY <1>3 DEF Responds
<1>7. /\ DOMAIN ps = DOMAIN promises[v]
      /\ \A l \in DOMAIN ps : /\ ps[l].dependents = promises[v][l].dependents
                              /\ ps[l].value = IF l = k THEN x ELSE promises[v][l].value
      /\ deps = promises[v][k].dependents
      /\ answered => AskerOK(v, a)
  BY <1>5 DEF Replies
<1>8. /\ system' = system /\ nodes' = nodes /\ ran' = ran /\ panics' = panics /\ prints' = prints
      /\ subscribers' = subscribers /\ RanStays /\ Printed(s, v, m)
  BY <1>2 DEF kernel, history, RanStays, Printed
<1>9. Grows /\ promises'[v] = ps /\ Step(s, v, m, ps, out, <<>>) /\ NewOK(v, <<>>) /\ vats'[v] = vats[v]
  BY <1>2, <1>5, <1>6, <1>7, <1>8, EndsGrows
<1>10. StepOK(s, v, m, ps, out, <<>>)
  BY <1>1, <1>2, <1>3, <1>5, <1>9, ReplyStep
<1>11. ASSUME NEW d, NEW j \in DOMAIN At(out, d), NEW y, y = At(out, d)[j], ~ y.re
       PROVE  d = x /\ j \in DOMAIN deps /\ y = deps[j] /\ Waited(v, k, x, j, y)
  <2>1. \/ j \in DOMAIN deps /\ d = x /\ y = deps[j]
        \/ y = Response(a.m, x)
    BY <1>5, <1>11 DEF Replies, ReplyIs
  <2>2. y # Response(a.m, x)
    BY <1>11 DEF Response
  <2>3. j \in DOMAIN deps /\ d = x /\ y = deps[j]
    BY <2>1, <2>2
  <2>4. Waited(v, k, x, j, y)
    BY <1>3, <1>7, <2>3, WaitedIs
  <2> QED BY <2>3, <2>4
<1>12. (k \in DOMAIN Caps(v) \/ (\E j, y : Waited(v, k, x, j, y))) => x # None
  <2>1. x \in DOMAIN vats => x \in Int \X Int
    BY DEF Inv, VatsOK, Nodes
  <2> QED BY <1>3, <2>1, ValueAssumption DEF ValueAssumption, Responds, Waited
<1>13. ASSUME NEW q \in Programs PROVE Moves(s, v, q)
  <2>1. OutOK(v, out) /\ Settles(v, m, ps) /\ VatsOK /\ MailOK /\ LegsOnce
    BY <1>10 DEF StepOK, Inv
  <2>2. NotStarted(q)' => NotStarted(q)
    BY <1>8, <1>9, <2>1, NotStartedBefore
  <2>3. ASSUME NEW l, Pending(q, l)' PROVE Pending(q, l)
    <3>1. /\ l \in DOMAIN promises[MonadRef] => Pending(q, l)
          /\ l \notin DOMAIN promises[MonadRef] => v = MonadRef /\ l \in DOMAIN ps
      BY <1>9, <2>1, <2>3, PendingBefore
    <3> QED BY <1>7, <3>1
  <2>4. ASSUME NEW d, NEW i, ComingNew(s, v, out, q, d, i)
        PROVE  /\ Pending(q, k) /\ ~ Pending(q, k)' /\ d = x
               /\ i \in Nat /\ Kept(s, v, MonadRef, d) \in Nat /\ i - Kept(s, v, MonadRef, d) = 1
    <3>1. PICK j, y : /\ j = i - Kept(s, v, MonadRef, d) /\ i \in Nat /\ Kept(s, v, MonadRef, d) \in Nat
                      /\ j \in DOMAIN At(out, d) /\ y = At(out, d)[j] /\ ~ y.re /\ y.fn = "main" /\ y.args = q
      BY <2>4 DEF ComingNew
    <3>2. d = x /\ Waited(v, k, x, j, y)
      BY <1>11, <3>1
    <3>3. v = MonadRef /\ Start(k) /\ StartOf(k) = q /\ j = 1 /\ Direct(v, k) /\ x # None
      BY <1>12, <3>1, <3>2 DEF Waited
    <3>4. promises[MonadRef][k].value = None
      BY <1>3, <3>3 DEF Responds
    <3>5. ~ Pending(q, k)'
      <4>1. promises'[MonadRef][k].value = x
        BY <1>6, <1>7, <1>9, <3>3
      <4> QED BY <3>3, <4>1 DEF Pending
    <3> QED BY <3>1, <3>2, <3>3, <3>4, <3>5 DEF Pending
  <2>5. ASSUME NEW d, NEW i, Coming(q, d, i)', ~ ComingOld(s, v, q, d, i)
        PROVE  /\ \E l : Pending(q, l) /\ ~ Pending(q, l)'
               /\ \A e, j : Coming(q, e, j)' => ComingOld(s, v, q, e, j) \/ (d = e /\ i = j)
    <3>1. \A e, j : Coming(q, e, j)' => ComingOld(s, v, q, e, j) \/ ComingNew(s, v, out, q, e, j)
      BY <1>9, <2>1, ComingBefore
    <3>2. ComingNew(s, v, out, q, d, i)
      BY <2>5, <3>1
    <3>3. ASSUME NEW e, NEW j, Coming(q, e, j)', ~ ComingOld(s, v, q, e, j) PROVE d = e /\ i = j
      <4>1. ComingNew(s, v, out, q, e, j)
        BY <3>1, <3>3
      <4>2. d = x /\ e = x
        BY <2>4, <3>2, <4>1
      <4>3. PICK n \in Nat : n = Kept(s, v, MonadRef, d) /\ i \in Nat /\ i - n = 1
        BY <2>4, <3>2
      <4>4. j \in Nat /\ j - n = 1
        BY <2>4, <4>1, <4>2, <4>3
      <4> QED BY <4>2, <4>3, <4>4
    <3> QED BY <2>4, <3>2, <3>3
  <2> QED BY <1>8, <2>2, <2>3, <2>5 DEF Moves
<1>14. ASSUME vats[v].kind = "Program" PROVE PrintsSent(v, ps, out)
  <2>1. PrintsOf(v)
    BY <1>6, <1>14 DEF Inv, PrintsOK
  <2>2. HasRun(v)' <=> HasRun(v)
    BY <1>8, <1>9 DEF HasRun
  <2>3. PICK io : io = "Io"
    OBVIOUS
  <2>4. io \in ToSet(Caps(v)) => Cap(v, io) \in DOMAIN promises[v] /\ Cap(v, io) \in DOMAIN Caps(v)
    BY <1>6, PromisesMean
  <2>5. Increasing(deps)
    BY <1>6, <1>7, <2>1 DEF PrintsOf
  <2>6. Increasing(At(out, Io))
    <3>1. PICK o : o = At(out, Io)
      OBVIOUS
    <3>2. ASSUME NEW i \in DOMAIN o, IsPrint(o[i]) PROVE i \in DOMAIN deps /\ o[i] = deps[i]
      <4>1. PICK y : y = o[i]
        OBVIOUS
      <4>2. ~ y.re
        BY <3>2, <4>1 DEF IsPrint
      <4> QED BY <1>11, <3>1, <4>1, <4>2
    <3>3. Increasing(o)
      BY <2>5, <3>2 DEF Increasing
    <3> QED BY <3>1, <3>3
  <2>7. \A l \in DOMAIN ps : Increasing(ps[l].dependents)
    BY <1>7, <2>1 DEF PrintsOf
  <2>8. ASSUME NEW j \in DOMAIN At(out, Io), IsPrint(At(out, Io)[j])
        PROVE  NonePrinted(v) /\ HasRun(v)' /\ (io \in ToSet(Caps(v)) => ps[Cap(v, io)].value # None)
    <3>1. PICK y : y = At(out, Io)[j] /\ ~ y.re /\ y.fn = "print"
      BY <2>8 DEF IsPrint
    <3>2. j \in DOMAIN deps /\ Waited(v, k, x, j, y)
      BY <1>11, <3>1
    <3>3. k = Cap(v, io) /\ io \in ToSet(Caps(v)) /\ Direct(v, k) /\ x # None
      BY <1>12, <2>3, <3>1, <3>2 DEF Waited
    <3>4. promises[v][k].value = None
      BY <1>3, <3>3 DEF Responds
    <3>5. NonePrinted(v)
      BY <2>1, <2>3, <3>3, <3>4 DEF PrintsOf
    <3>6. HasRun(v)
      <4>1. promises[v][k].dependents # <<>>
        BY <1>7, <3>2, SeqDomain
      <4> QED BY <1>6, <2>1, <4>1 DEF PrintsOf
    <3>7. ps[k].value = x
      BY <1>6, <1>7
    <3> QED BY <2>2, <3>3, <3>5, <3>6, <3>7
  <2>9. io \in ToSet(Caps(v)) /\ ps[Cap(v, io)].value = None => NonePrinted(v)
    <3> SUFFICES ASSUME io \in ToSet(Caps(v)), ps[Cap(v, io)].value = None PROVE NonePrinted(v)
      OBVIOUS
    <3>1. CASE Cap(v, io) = k
      BY <1>7, <1>12, <2>4, <3>1
    <3>2. CASE Cap(v, io) # k
      <4>1. promises[v][Cap(v, io)].value = None
        BY <1>7, <2>4, <3>2
      <4> QED BY <2>1, <2>3, <4>1 DEF PrintsOf
    <3> QED BY <3>1, <3>2
  <2>10. ~ HasRun(v)' => NonePrinted(v) /\ \A l \in DOMAIN ps : ps[l].dependents = <<>>
    BY <1>7, <2>1, <2>2 DEF PrintsOf
  <2> QED BY <2>3, <2>6, <2>7, <2>8, <2>9, <2>10 DEF PrintsSent
<1>15. Core'
  BY <1>8, <1>9, <1>10, <1>13, <1>14, HandlerKeeps
<1> QED BY <1>6, <1>8, <1>9, <1>10, <1>15, Finishes

-----------------------------------------------------------------------------
(* Steps that no vat takes *)

\* Keys, nodes that join and nodes that stop touch no vat that there is.
Outside ==
  /\ Grows /\ VatsOK' /\ ran' = ran /\ prints' = prints
  /\ \A w \in DOMAIN vats : promises'[w] = promises[w]
  /\ \A w \in DOMAIN vats' : w \in DOMAIN vats \/ (vats'[w].kind = "NodeMan" /\ promises'[w] = <<>>)
  /\ \A a, b : Chan(a, b)' = Chan(a, b) \/ (a \in {Thread(1), Keyboard} /\ b = MonadRef)
  /\ \A p \in Programs : NotStarted(p)' <=> NotStarted(p)

\* Vats, their promises and their mail are as they were.
LEMMA OutsideVats ==
  ASSUME Inv, Outside
  PROVE  /\ \A w \in DOMAIN vats : w \in DOMAIN vats' /\ vats'[w] = vats[w] /\ Caps(w)' = Caps(w)
         /\ \A a \in DOMAIN vats' : \A b : Chan(a, b)' = Chan(a, b)
         /\ \A w \in DOMAIN vats' : \A k : k \in DOMAIN promises'[w] => w \in DOMAIN vats /\ k \in DOMAIN promises[w]
         /\ MonadRef \in DOMAIN vats /\ promises'[MonadRef] = promises[MonadRef]
<1>1. ASSUME NEW w \in DOMAIN vats PROVE w \in DOMAIN vats' /\ vats'[w] = vats[w] /\ Caps(w)' = Caps(w)
  BY RefStays DEF Outside, Grows
<1>2. ASSUME NEW a \in DOMAIN vats', NEW b PROVE Chan(a, b)' = Chan(a, b)
  <2>1. a[2] \in Nat
    BY DEF Outside, VatsOK
  <2>2. a # Thread(1) /\ a # Keyboard
    BY <2>1 DEF Thread, Keyboard
  <2> QED BY <2>2 DEF Outside
<1>3. ASSUME NEW w \in DOMAIN vats', NEW k \in DOMAIN promises'[w]
      PROVE  w \in DOMAIN vats /\ k \in DOMAIN promises[w]
  BY SeqDomain DEF Outside
<1>4. MonadRef \in DOMAIN vats /\ promises'[MonadRef] = promises[MonadRef]
  BY DEF Inv, VatsOK, Outside
<1> QED BY <1>1, <1>2, <1>3, <1>4

\* Promises are as they were.
LEMMA OutsidePromises ==
  ASSUME Inv, Outside
  PROVE  PromisesOK' /\ RanOK'
<1>1. ASSUME NEW w \in DOMAIN vats'
      PROVE  /\ IsSeq(promises'[w]) /\ IsSeq(Caps(w)') /\ DOMAIN Caps(w)' \subseteq DOMAIN promises'[w]
             /\ \A k \in DOMAIN promises'[w] : PromiseOK(w, k)'
  <2>1. CASE w \in DOMAIN vats
    <3>1. promises'[w] = promises[w] /\ Caps(w)' = Caps(w) /\ Grows
      BY <2>1, OutsideVats DEF Outside
    <3>2. IsSeq(promises[w]) /\ IsSeq(Caps(w)) /\ DOMAIN Caps(w) \subseteq DOMAIN promises[w]
          /\ \A k \in DOMAIN promises[w] : PromiseOK(w, k)
      BY <2>1 DEF Inv, PromisesOK
    <3>3. \A k \in DOMAIN promises[w] : PromiseOK(w, k)'
      BY <2>1, <3>1, <3>2, PromiseStays
    <3> QED BY <3>1, <3>2, <3>3
  <2>2. CASE w \notin DOMAIN vats
    <3>1. vats'[w].kind = "NodeMan" /\ promises'[w] = <<>>
      BY <2>2 DEF Outside
    <3>2. Caps(w)' = <<>>
      BY <3>1 DEF Caps, CapsOf
    <3> QED BY <3>1, <3>2, SeqDomain
  <2> QED BY <2>1, <2>2
<1>2. PromisesOK'
  BY <1>1 DEF PromisesOK, IsSeq
<1>3. RanOK'
  BY DEF Inv, RanOK, Outside
<1> QED BY <1>2, <1>3

\* Legs are as they were.
LEMMA OutsideLegs ==
  ASSUME Inv, Outside
  PROVE  LegsOnce' /\ StartsOK'
<1>1. ASSUME NEW v \in DOMAIN vats, NEW k
      PROVE  /\ Start(k)' <=> Start(k)
             /\ Start(k) => StartOf(k)' = StartOf(k)
             /\ Direct(v, k)' <=> Direct(v, k)
             /\ \A d \in DOMAIN vats', re \in BOOLEAN : Leg(v, d, re)' = Leg(v, d, re)
             /\ \A d \in DOMAIN vats', re \in BOOLEAN : \A i : IsLeg(v, k, d, re, i)' <=> IsLeg(v, k, d, re, i)
  <2>1. promises'[MonadRef] = promises[MonadRef] /\ Caps(v)' = Caps(v) /\ v \in DOMAIN vats'
    BY OutsideVats
  <2>2. (Start(k)' <=> Start(k)) /\ (Start(k) => StartOf(k)' = StartOf(k))
    BY <2>1 DEF Start, StartOf
  <2>3. Direct(v, k)' <=> Direct(v, k)
    BY <2>1, <2>2 DEF Direct
  <2>4. ASSUME NEW d \in DOMAIN vats', NEW re \in BOOLEAN PROVE Leg(v, d, re)' = Leg(v, d, re)
    <3>1. PICK a, b : a = From(v, d, re) /\ b = To(v, d, re)
      OBVIOUS
    <3>2. a \in DOMAIN vats'
      BY <2>1, <3>1 DEF From
    <3>3. Chan(a, b)' = Chan(a, b)
      BY <3>2, OutsideVats
    <3> QED BY <3>1, <3>3 DEF Leg, From, To
  <2>5. ASSUME NEW d \in DOMAIN vats', NEW re \in BOOLEAN, NEW i PROVE IsLeg(v, k, d, re, i)' <=> IsLeg(v, k, d, re, i)
    BY <2>4 DEF IsLeg
  <2> QED BY <2>2, <2>3, <2>4, <2>5
<1>2. LegsOnce'
  <2> SUFFICES ASSUME NEW v \in DOMAIN vats', NEW k \in DOMAIN promises'[v], Direct(v, k)',
                      NEW d \in DOMAIN vats', NEW re \in BOOLEAN, NEW i, IsLeg(v, k, d, re, i)'
               PROVE  /\ promises'[v][k].value = None
                      /\ \A e \in DOMAIN vats', r \in BOOLEAN : \A j : IsLeg(v, k, e, r, j)' => d = e /\ re = r /\ i = j
    BY DEF LegsOnce
  <2>1. v \in DOMAIN vats /\ k \in DOMAIN promises[v] /\ promises'[v] = promises[v]
    BY OutsideVats DEF Outside
  <2>2. Direct(v, k) /\ IsLeg(v, k, d, re, i)
    BY <1>1, <2>1
  <2>3. LegsHere(v, k)
    BY <2>1, <2>2, LegsMean DEF Inv
  <2>4. promises[v][k].value = None /\ \A e, r, j : r \in BOOLEAN /\ IsLeg(v, k, e, r, j) => d = e /\ re = r /\ i = j
    BY <2>2, <2>3 DEF LegsHere
  <2> QED BY <1>1, <2>1, <2>4
<1>3. StartsOK'
  <2> SUFFICES ASSUME NEW k \in DOMAIN promises'[MonadRef], Start(k)', NEW d \in DOMAIN vats', NEW re \in BOOLEAN,
                      NEW i \in DOMAIN Leg(MonadRef, d, re)', IsLeg(MonadRef, k, d, re, i)',
                      NEW m, m = Leg(MonadRef, d, re)[i]'
               PROVE  IF re THEN MadeFor(m.args, StartOf(k))' ELSE m.fn = "create-vat" /\ m.args = StartOf(k)'
    BY DEF StartsOK, MadeFor
  <2>1. PICK u \in DOMAIN vats : u = MonadRef
    BY OutsideVats
  <2>2. k \in DOMAIN promises[MonadRef]
    BY OutsideVats
  <2>3. Start(k) /\ StartOf(k)' = StartOf(k) /\ IsLeg(u, k, d, re, i) /\ Leg(u, d, re)' = Leg(u, d, re)
    BY <1>1, <2>1
  <2>4. StartLegOK(k, re, Leg(MonadRef, d, re)[i])
    BY <2>1, <2>2, <2>3, StartsMean DEF Inv
  <2>5. PICK x, p : m = Leg(MonadRef, d, re)[i] /\ x = m.args /\ p = StartOf(k)
    BY <2>1, <2>3
  <2>6. MadeFor(x, p) => MadeFor(x, p)'
    BY RefStays DEF Outside
  <2>7. IF re THEN MadeFor(x, p)' ELSE m.fn = "create-vat" /\ x = p
    BY <2>4, <2>5, <2>6 DEF StartLegOK
  <2>8. StartOf(k)' = p
    BY <2>3, <2>5
  <2> QED BY <2>5, <2>7, <2>8 DEF MadeFor
<1> QED BY <1>2, <1>3

\* Mains are where they were.
LEMMA OutsideMains ==
  ASSUME Inv, Outside
  PROVE  MainsOK'
<1>1. \A p \in Programs : OnePlace(p) /\ RanOnce(p)
  BY PlacesMean DEF Inv
<1>2. MonadRef \in DOMAIN vats /\ MonadRef \in DOMAIN vats' /\ promises'[MonadRef] = promises[MonadRef]
  BY OutsideVats
<1>3. ASSUME NEW p \in Programs PROVE OnePlace(p)' /\ RanOnce(p)'
  <2>1. ASSUME NEW d, NEW i PROVE Coming(p, d, i)' <=> Coming(p, d, i)
    <3>1. PICK a \in DOMAIN vats' : a = MonadRef
      BY <1>2
    <3>2. Chan(a, d)' = Chan(a, d)
      BY OutsideVats
    <3> QED BY <3>1, <3>2 DEF Coming
  <2>2. ASSUME NEW k PROVE Pending(p, k)' <=> Pending(p, k)
    BY <1>2 DEF Pending, Start, StartOf
  <2>3. (NotStarted(p)' <=> NotStarted(p)) /\ ran'[p] = ran[p]
    BY DEF Outside
  <2>4. OnePlace(p)'
    BY <1>1, <2>1, <2>2, <2>3, Zenon DEF OnePlace
  <2>5. RanOnce(p)'
    BY <1>1, <2>3, RefStays DEF Outside, RanOnce
  <2> QED BY <2>4, <2>5
<1> QED BY <1>3, Zenon DEF MainsOK, OnePlace, RanOnce

\* Prints are as they were.
LEMMA OutsidePrints ==
  ASSUME Inv, Outside
  PROVE  PrintsOK'
<1>1. prints' = prints /\ ran' = ran
  BY DEF Outside
<1>2. ASSUME NEW v \in DOMAIN prints'
      PROVE  /\ v \in DOMAIN vats' /\ vats'[v].kind = "Program" /\ IsSeq(prints'[v])
             /\ \A i \in DOMAIN prints'[v] : prints'[v][i] \in Nat
  BY <1>1, OutsideVats DEF Inv, PrintsOK
<1>3. ASSUME NEW v \in DOMAIN vats', vats'[v].kind = "Program" PROVE PrintsOf(v)'
  <2>1. v \in DOMAIN vats
    BY <1>3 DEF Outside
  <2>2. vats'[v] = vats[v] /\ promises'[v] = promises[v] /\ Caps(v)' = Caps(v)
    BY <2>1, OutsideVats DEF Outside
  <2>3. PrintsOf(v)
    BY <1>3, <2>1, <2>2 DEF Inv, PrintsOK
  <2>4. PICK io : io = <<0, 2>>
    OBVIOUS
  <2>5. PICK done, q, ps, caps : done = At(prints, v) /\ q = Chan(v, io) /\ ps = promises[v] /\ caps = Caps(v)
    OBVIOUS
  <2>6. Chan(v, io)' = q /\ At(prints, v)' = done /\ promises'[v] = ps /\ Caps(v)' = caps
    BY <1>1, <1>3, <2>2, <2>5, OutsideVats DEF At
  <2>7. PICK k : k = Index(caps, "Io")
    OBVIOUS
  <2>8. Cap(v, "Io") = k /\ Cap(v, "Io")' = k
    BY <2>5, <2>6, <2>7 DEF Cap, Caps
  <2>9. HasRun(v)' <=> HasRun(v)
    BY <1>1, <2>2 DEF HasRun
  <2>10. NonePrinted(v)' <=> NonePrinted(v)
    BY <2>4, <2>5, <2>6 DEF NonePrinted
  <2>11. /\ \A i, j \in DOMAIN done : i < j => done[i] < done[j]
         /\ Increasing(q)
         /\ \A i \in DOMAIN done : \A j \in DOMAIN q : IsPrint(q[j]) => done[i] < q[j].args
         /\ \A l \in DOMAIN ps : Increasing(ps[l].dependents)
         /\ "Io" \in ToSet(caps) /\ ps[k].value = None => NonePrinted(v)
         /\ ~ HasRun(v) => NonePrinted(v) /\ \A l \in DOMAIN ps : ps[l].dependents = <<>>
    BY <2>3, <2>4, <2>5, <2>8 DEF PrintsOf
  <2> QED BY <2>4, <2>6, <2>8, <2>9, <2>10, <2>11 DEF PrintsOf, Increasing
<1> QED BY <1>2, <1>3 DEF PrintsOK, IsSeq

\* A node that stops has a reason that is known.
LEMMA FailureIs ==
  ASSUME Inv, NEW s, NEW v, NEW m, Takes(s, v, m), NEW f, f = Failure(v, m), f # None
  PROVE  /\ f \in {"void", "name lost", "no such entity", "unschedulable"}
         /\ f = "void" => ZigRan
         /\ f = "name lost" => \E w \in DOMAIN vats : w[1] = 1 /\ vats[w].kind = "Program"
         /\ f = "no such entity" => \E p \in Known : ~ (ToSet(Inocaps[p]) \subseteq Names)
         /\ f = "unschedulable" => \E p \in Known : ~ (Preamble[p] \subseteq Resources[0])
<1>1. MessageOK(s, v, m) /\ m.re \in BOOLEAN
  BY TakenIs DEF Inv
<1>2. m.re = FALSE
  BY <1>1 DEF Failure
<1>3. RequestOK(s, v, m)
  BY <1>1, <1>2 DEF MessageOK
<1>4. PICK fn, args : fn = m.fn /\ args = m.args
  OBVIOUS
<1>5. v \in DOMAIN vats /\ vats[MonadRef].kind = "Monad" /\ VatOK(v, vats[v])
  BY <1>3 DEF Inv, VatsOK, RequestOK
<1>6. \/ ThreadRequestOK(s, v, m)
      \/ /\ s \in DOMAIN vats /\ CallOK(s, v, fn, args, m.prom)
         /\ fn = "request-far-entity" <=> m.prom \in DOMAIN Caps(s)
  BY <1>3, <1>4 DEF RequestOK, VatRequestOK
<1>7. fn \in Knows(vats[v].kind)
  <2>1. PICK kind : kind = vats[v].kind
    OBVIOUS
  <2>2. \/ kind = "Monad" /\ fn \in {"hello", "start-program", "new-vat", "request-far-entity",
                                      "subscribe-irq", "irq-handler"}
        \/ kind = "NodeMan" /\ fn = "create-vat"
        \/ kind = "Io" /\ fn = "print"
        \/ kind = "Amoeba" /\ fn \in {"init", "handle-input"}
        \/ kind = "Program" /\ fn \in {"main", "zig"}
    BY <1>4, <1>5, <1>6, <2>1 DEF ThreadRequestOK, CallOK, MadeFor
  <2> QED BY <2>1, <2>2 DEF Knows
<1>8. f = CASE fn \in {"start-program", "new-vat"} /\ Fitting(args) = {} -> "unschedulable"
            [] fn = "request-far-entity" /\ args = Nothing -> "name lost"
            [] fn = "request-far-entity" /\ args \notin DOMAIN system \cup {Nothing} -> "no such entity"
            [] fn = "zig" -> "void"
            [] OTHER -> None
  BY <1>2, <1>4, <1>7, Zenon DEF Failure
<1>9. \/ fn \in {"start-program", "new-vat"} /\ Fitting(args) = {} /\ f = "unschedulable"
      \/ fn = "request-far-entity" /\ args = Nothing /\ f = "name lost"
      \/ fn = "request-far-entity" /\ args # Nothing /\ args \notin DOMAIN system /\ f = "no such entity"
      \/ fn = "zig" /\ f = "void"
  BY <1>8
<1>10. ASSUME fn \in {"start-program", "new-vat"}, Fitting(args) = {} PROVE \E p \in Known : ~ (Preamble[p] \subseteq Resources[0])
  <2>1. args \in Known
    BY <1>4, <1>6, <1>10 DEF ThreadRequestOK, CallOK, Known, Programs, Nodes, Thread
  <2>2. 1 \in DOMAIN nodes /\ nodes[1].id = 0
    BY DEF Inv, NodesOK, Node
  <2>3. ~ (Preamble[args] \subseteq ResourcesSeen(0))
    BY <1>10, <2>2 DEF Fitting
  <2> QED BY <2>1, <2>3 DEF ResourcesSeen
<1>11. ASSUME fn = "request-far-entity"
       PROVE  /\ s \in DOMAIN vats /\ m.prom \in DOMAIN Caps(s) /\ v = MonadRef
              /\ args = Caps(s)[m.prom] \/ (args = Nothing /\ s[1] = 1 /\ vats[s].kind = "Program")
  BY <1>4, <1>6, <1>11 DEF ThreadRequestOK, CallOK
<1>12. ASSUME fn = "request-far-entity", args = Nothing
       PROVE  \E w \in DOMAIN vats : w[1] = 1 /\ vats[w].kind = "Program"
  <2>1. VatOK(s, vats[s])
    BY <1>11, <1>12 DEF Inv, VatsOK
  <2>2. Caps(s)[m.prom] # Nothing
    BY <1>11, <1>12, <2>1, CapsAreSeq DEF Caps
  <2> QED BY <1>11, <1>12, <2>2
<1>13. ASSUME fn = "request-far-entity", args # Nothing, args \notin DOMAIN system
       PROVE  \E p \in Known : ~ (ToSet(Inocaps[p]) \subseteq Names)
  <2>1. system # <<>>
    <3> SUFFICES ASSUME system = <<>> PROVE FALSE
      OBVIOUS
    <3>1. m = HelloMsg
      BY <1>11, <1>13 DEF Takes, Mailbox
    <3> QED BY <1>4, <1>13, <3>1 DEF HelloMsg, Request
  <2>2. DOMAIN system = Names
    BY <2>1 DEF Inv, SystemOK, SystemMap
  <2>3. PICK k, q : k = m.prom /\ q = Caps(s) /\ k \in DOMAIN q /\ q[k] \notin Names
    BY <1>11, <1>13, <2>2
  <2>4. vats[s].kind # "Amoeba"
    <3> SUFFICES ASSUME vats[s].kind = "Amoeba" PROVE FALSE
      OBVIOUS
    <3>1. PICK cap : cap = "Monad"
      OBVIOUS
    <3>2. q = <<cap>>
      BY <2>3, <3>1 DEF Caps, CapsOf
    <3>3. DOMAIN q = {1} /\ q[1] = cap
      BY <3>2, OneCall
    <3> QED BY <2>3, <3>1, <3>3 DEF Names
  <2>5. vats[s].kind = "Program"
    <3>1. vats[s].kind # "Program" => q = <<>>
      BY <2>3, <2>4 DEF Caps, CapsOf
    <3> QED BY <2>3, <3>1, SeqDomain
  <2>6. vats[s].prog \in Known /\ q = Inocaps[vats[s].prog]
    <3>1. VatOK(s, vats[s])
      BY <1>11, <1>13 DEF Inv, VatsOK
    <3> QED BY <2>3, <2>5, <3>1 DEF VatOK, Caps, CapsOf
  <2> QED BY <2>3, <2>6 DEF ToSet
<1>14. fn = "zig" => ZigRan
  BY <1>4, <1>6 DEF ThreadRequestOK, CallOK
<1> QED BY <1>9, <1>10, <1>12, <1>13, <1>14

\* A step that leaves all but keys, the nodes that are down and panics.
Still == UNCHANGED <<vats, promises, base, mail, nodes, system, subscribers, screen, prints, ran>>

\* Such a step keeps the invariant.
LEMMA StillKeeps ==
  ASSUME Inv, Still, PanicsAreKnown'
  PROVE  Inv'
<1>1. /\ vats' = vats /\ promises' = promises /\ base' = base /\ mail' = mail /\ nodes' = nodes
      /\ system' = system /\ subscribers' = subscribers /\ screen' = screen /\ prints' = prints /\ ran' = ran
  BY DEF Still
<1>2. Grows
  BY <1>1 DEF Grows
<1>3. VatsOK'
  <2>1. VatsOK
    BY DEF Inv
  <2> QED BY <1>1, <2>1 DEF VatsOK, VatOK
<1>4. \A a, b : Chan(a, b)' = Chan(a, b)
  BY <1>1 DEF Chan, At
<1>5. \A p \in Programs : NotStarted(p)' <=> NotStarted(p)
  BY <1>1, <1>4 DEF NotStarted
<1>6. Outside
  BY <1>1, <1>2, <1>3, <1>4, <1>5 DEF Outside
<1>7. NodesOK' /\ ScreenOK'
  <2>1. NodesOK /\ ScreenOK
    BY DEF Inv
  <2> QED BY <1>1, <2>1 DEF NodesOK, ScreenOK
<1>8. SystemOK'
  <2>1. SystemOK
    BY DEF Inv
  <2> QED BY <1>1, <2>1 DEF SystemOK
<1>9. BootOK'
  <2>1. BootOK
    BY DEF Inv
  <2> QED BY <1>1, <1>4, <2>1 DEF BootOK
<1>10. MailOK'
  <2>1. MailOK
    BY DEF Inv
  <2> QED BY <1>1, <1>2, <2>1, MessageStays DEF MailOK
<1> QED BY <1>3, <1>6, <1>7, <1>8, <1>9, <1>10, OutsidePromises, OutsideLegs, OutsideMains, OutsidePrints DEF Inv

\* A handler fails and its node stops.
LEMMA PanicKeeps ==
  ASSUME Inv, NEW s, NEW v, NEW m, Panic(s, v, m)
  PROVE  Inv'
<1>1. PICK f : f = Failure(v, m)
  OBVIOUS
<1>2. /\ Takes(s, v, m) /\ f # None /\ panics' = panics \cup {f}
      /\ vats' = vats /\ promises' = promises /\ base' = base /\ mail' = mail /\ nodes' = nodes
      /\ system' = system /\ subscribers' = subscribers /\ screen' = screen /\ prints' = prints /\ ran' = ran
  BY <1>1 DEF Panic, kernel
<1>3. /\ f \in {"void", "name lost", "no such entity", "unschedulable"}
      /\ f = "void" => ZigRan
      /\ f = "name lost" => \E w \in DOMAIN vats : w[1] = 1 /\ vats[w].kind = "Program"
      /\ f = "no such entity" => \E p \in Known : ~ (ToSet(Inocaps[p]) \subseteq Names)
      /\ f = "unschedulable" => \E p \in Known : ~ (Preamble[p] \subseteq Resources[0])
  BY <1>1, <1>2, FailureIs
<1>4. PanicsAreKnown'
  <2>1. PanicsAreKnown
    BY DEF Inv
  <2> QED BY <1>2, <1>3, <2>1 DEF PanicsAreKnown, ZigRan, Known
<1>5. Still
  BY <1>2 DEF Still
<1> QED BY <1>4, <1>5, StillKeeps


\* A thread that is no vat sends a message to the Monad.
LEMMA PutIs ==
  ASSUME MailOK, Grows, NEW a, NEW msg, MessageOK(a, MonadRef, msg), mail' = Put(mail, <<a, MonadRef>>, <<msg>>)
  PROVE  /\ MailOK' /\ DOMAIN mail' = DOMAIN mail \cup {<<a, MonadRef>>}
         /\ \A x, y : Chan(x, y)' = Chan(x, y) \/ (x = a /\ y = MonadRef)
         /\ Chan(a, MonadRef)' = Chan(a, MonadRef) \o <<msg>>
<1> DEFINE c0 == <<a, MonadRef>>
<1>1. /\ DOMAIN mail' = DOMAIN mail \cup {c0}
      /\ \A c \in DOMAIN mail : c # c0 => mail'[c] = mail[c]
      /\ mail'[c0] = Chan(a, MonadRef) \o <<msg>>
  BY DEF Put, Chan
<1>2. \A x, y : Chan(x, y)' = Chan(x, y) \/ (x = a /\ y = MonadRef)
  <2> SUFFICES ASSUME NEW x, NEW y, <<x, y>> # c0 PROVE Chan(x, y)' = Chan(x, y)
    OBVIOUS
  <2> QED BY <1>1 DEF Chan, At
<1>3. MessageOK(a, MonadRef, msg)'
  BY MessageStays
<1>4. PICK q, t : q = Chan(a, MonadRef) /\ t = q \o <<msg>>
  OBVIOUS
<1>5. IsSeq(q) /\ DOMAIN q = 1 .. Len(q) /\ Len(q) \in Nat
      /\ \A i \in DOMAIN q : MessageOK(a, MonadRef, q[i])'
  BY <1>1, <1>4, MailMeans, MessageStays
<1>6. IsSeq(t) /\ t # <<>> /\ Len(t) = Len(q) + 1 /\ DOMAIN t = 1 .. Len(q) + 1
      /\ \A i \in 1 .. Len(q) + 1 : t[i] = IF i <= Len(q) THEN q[i] ELSE msg
  <2>1. PICK S : S = ToSet(q) \cup {msg}
    OBVIOUS
  <2>2. q \in Seq(S) /\ <<msg>> \in Seq(S)
    <3>1. q \in [1 .. Len(q) -> S]
      BY <1>5, <2>1 DEF IsSeq, ToSet
    <3> QED BY <1>5, <2>1, <3>1
  <2>3. t \in Seq(S) /\ Len(t) = Len(q) + 1
        /\ \A i \in 1 .. Len(q) + 1 : t[i] = IF i <= Len(q) THEN q[i] ELSE msg
    BY <1>4, <1>5, <2>2
  <2>4. t = [i \in 1 .. Len(q) + 1 |-> t[i]]
    BY <1>5, <2>3
  <2> QED BY <1>5, <2>3, <2>4, SeqIs
<1>7. \A i \in DOMAIN t : MessageOK(a, MonadRef, t[i])'
  <2> SUFFICES ASSUME NEW i \in DOMAIN t PROVE MessageOK(a, MonadRef, t[i])'
    OBVIOUS
  <2>1. CASE i <= Len(q)
    <3>1. t[i] = q[i] /\ i \in DOMAIN q
      BY <1>5, <1>6, <2>1
    <3> QED BY <1>5, <3>1
  <2>2. CASE ~ (i <= Len(q))
    <3>1. t[i] = msg
      BY <1>5, <1>6, <2>2
    <3> QED BY <1>3, <3>1
  <2> QED BY <2>1, <2>2
<1>8. ASSUME NEW c \in DOMAIN mail', NEW ms, ms = mail'[c]
      PROVE  /\ c = <<c[1], c[2]>> /\ ms # <<>> /\ IsSeq(ms)
             /\ \A i \in DOMAIN ms : MessageOK(c[1], c[2], ms[i])'
  <2>1. CASE c = c0
    <3>1. ms = t /\ c[1] = a /\ c[2] = MonadRef /\ c = <<c[1], c[2]>>
      BY <1>1, <1>4, <1>8, <2>1
    <3> QED BY <1>6, <1>7, <3>1
  <2>2. CASE c # c0
    <3>1. c \in DOMAIN mail /\ ms = mail[c]
      BY <1>1, <1>8, <2>2
    <3>2. c = <<c[1], c[2]>> /\ ms # <<>> /\ IsSeq(ms) /\ \A i \in DOMAIN ms : MessageOK(c[1], c[2], ms[i])
      BY <1>1, <3>1 DEF MailOK
    <3> QED BY <3>2, MessageStays
  <2> QED BY <2>1, <2>2
<1>9. \A c \in DOMAIN mail' : \A ms : ms = mail'[c] =>
        /\ c = <<c[1], c[2]>> /\ ms # <<>> /\ IsSeq(ms)
        /\ \A i \in DOMAIN ms : MessageOK(c[1], c[2], ms[i])'
  BY <1>8
<1>10. MailOK'
  BY <1>9 DEF MailOK, IsSeq
<1>11. Chan(a, MonadRef)' = Chan(a, MonadRef) \o <<msg>>
  BY <1>1 DEF Chan, At
<1> QED BY <1>1, <1>2, <1>10, <1>11

\* The keyboard thread sends a key to the Monad.
LEMMA KeyDownKeeps ==
  ASSUME Inv, KeyDown
  PROVE  Inv'
<1> DEFINE key == Request("irq-handler", Nothing, 0)
<1>1. /\ screen /\ mail' = Put(mail, <<Keyboard, MonadRef>>, <<key>>)
      /\ vats' = vats /\ promises' = promises /\ base' = base /\ nodes' = nodes
      /\ system' = system /\ subscribers' = subscribers /\ screen' = screen /\ prints' = prints /\ ran' = ran
      /\ panics' = panics
  BY DEF KeyDown, kernel, history
<1>2. system # <<>>
  BY <1>1 DEF Inv, ScreenOK
<1>3. Grows
  BY <1>1 DEF Grows
<1>4. VatsOK'
  <2>1. VatsOK
    BY DEF Inv
  <2> QED BY <1>1, <2>1 DEF VatsOK, VatOK
<1>5. MessageOK(Keyboard, MonadRef, key)
  <2>1. MonadRef \in DOMAIN vats
    BY DEF Inv, VatsOK
  <2> QED BY <2>1 DEF MessageOK, RequestOK, ThreadRequestOK, Request
<1>6. MailOK' /\ \A a, b : Chan(a, b)' = Chan(a, b) \/ (a = Keyboard /\ b = MonadRef)
  <2>1. PICK a, msg : a = Keyboard /\ msg = key
    OBVIOUS
  <2>2. MessageOK(a, MonadRef, msg) /\ mail' = Put(mail, <<a, MonadRef>>, <<msg>>)
    BY <1>1, <1>5, <2>1
  <2>3. MailOK' /\ \A x, y : Chan(x, y)' = Chan(x, y) \/ (x = a /\ y = MonadRef)
    BY <1>3, <2>2, PutIs DEF Inv
  <2> QED BY <2>1, <2>3
<1>7. Thread(0) # Keyboard /\ Thread(1) # Keyboard
  BY DEF Thread, Keyboard
<1>8. Chan(Thread(0), MonadRef)' = Chan(Thread(0), MonadRef) /\ Chan(Thread(1), MonadRef)' = Chan(Thread(1), MonadRef)
  BY <1>6, <1>7
<1>9. \A p \in Programs : NotStarted(p)' <=> NotStarted(p)
  BY <1>1, <1>8 DEF NotStarted, Programs, Nodes
<1>10. Outside
  BY <1>1, <1>3, <1>4, <1>6, <1>9 DEF Outside
<1>11. NodesOK' /\ ScreenOK'
  <2>1. NodesOK /\ ScreenOK
    BY DEF Inv
  <2> QED BY <1>1, <2>1 DEF NodesOK, ScreenOK
<1>12. SystemOK'
  <2>1. SystemOK
    BY DEF Inv
  <2> QED BY <1>1, <2>1 DEF SystemOK
<1>13. BootOK'
  <2>1. BootOK
    BY DEF Inv
  <2> QED BY <1>1, <1>2, <1>8, <2>1 DEF BootOK
<1>14. PanicsAreKnown'
  BY <1>1, <1>3, KnownStay DEF Inv
<1> QED BY <1>4, <1>6, <1>10, <1>11, <1>12, <1>13, <1>14, OutsidePromises, OutsideLegs, OutsideMains, OutsidePrints DEF Inv

\* A node joins: its NodeMan is its first vat, and its program is to be started.
LEMMA JoinKeeps ==
  ASSUME Inv, Join
  PROVE  Inv'
<1> DEFINE j == <<1, 0>>
<1>1. /\ Len(nodes) = 1 /\ nodes' = Append(nodes, Node(1))
      /\ vats' = [v \in DOMAIN vats \cup {j} |-> IF v = j THEN Vat("NodeMan", None) ELSE vats[v]]
      /\ promises' = [v \in DOMAIN vats \cup {j} |-> IF v = j THEN <<>> ELSE promises[v]]
      /\ base' = [base EXCEPT ![1] = 1]
      /\ mail' = Put(mail, <<Thread(1), MonadRef>>, <<StartProgramMsg(1)>>)
      /\ system' = system /\ subscribers' = subscribers /\ screen' = screen /\ prints' = prints /\ ran' = ran
      /\ panics' = panics
  BY DEF Join, kernel, history, Node
<1>2. VatsOK /\ NodesOK
  BY DEF Inv
<1>3. base[1] = 0 /\ nodes = <<Node(0)>> /\ nodes' = <<Node(0), Node(1)>>
  <2>1. Len(<<Node(0), Node(1)>>) = 2
    OBVIOUS
  <2>2. nodes = <<Node(0)>> /\ base[1] = 0
    BY <1>1, <1>2, <2>1 DEF NodesOK
  <2>3. ASSUME NEW x, NEW y PROVE Append(<<x>>, y) = <<x, y>>
    <3>1. PICK S : S = {x, y}
      OBVIOUS
    <3>2. PICK q : q = <<x>>
      OBVIOUS
    <3>3. q \in Seq(S) /\ Len(q) = 1 /\ q[1] = x
      BY <3>1, <3>2
    <3>4. PICK t : t = Append(q, y)
      OBVIOUS
    <3>5. t \in Seq(S) /\ Len(t) = 2 /\ t[1] = x /\ t[2] = y
      BY <3>1, <3>3, <3>4
    <3>6. t = <<x, y>>
      BY <3>1, <3>5
    <3> QED BY <3>2, <3>4, <3>6
  <2> QED BY <1>1, <2>2, <2>3
<1>4. j \notin DOMAIN vats
  BY <1>2, <1>3 DEF VatsOK
<1>5. /\ DOMAIN vats' = DOMAIN vats \cup {j} /\ DOMAIN promises' = DOMAIN vats \cup {j}
      /\ vats'[j] = Vat("NodeMan", None) /\ promises'[j] = <<>>
      /\ \A w \in DOMAIN vats : vats'[w] = vats[w] /\ promises'[w] = promises[w]
  BY <1>1, <1>4
<1>6. base' \in [Nodes -> Nat] /\ base'[0] = base[0] /\ base'[1] = 1
  BY <1>1, <1>2 DEF VatsOK, Nodes
<1>7. Grows
  BY <1>1, <1>5 DEF Grows
<1>8. VatsOK'
  <2>1. ASSUME NEW v \in DOMAIN vats' PROVE v \in Nodes \X Nat /\ v[2] < base'[v[1]] /\ VatOK(v, vats'[v])
    <3>1. CASE v = j
      BY <1>5, <1>6, <3>1 DEF VatOK, Vat, Kinds, Nodes
    <3>2. CASE v # j
      <4>1. v \in DOMAIN vats /\ vats'[v] = vats[v]
        BY <1>5, <3>2
      <4>2. v \in Nodes \X Nat /\ v[2] < base[v[1]] /\ VatOK(v, vats[v])
        BY <1>2, <4>1 DEF VatsOK
      <4>3. v[1] = 0 \/ v[1] = 1
        BY <4>2 DEF Nodes
      <4> QED BY <1>3, <1>6, <4>1, <4>2, <4>3
    <3> QED BY <3>1, <3>2
  <2>2. MonadRef \in DOMAIN vats' /\ vats'[MonadRef].kind = "Monad"
    BY <1>2, <1>5 DEF VatsOK
  <2> QED BY <1>5, <1>6, <2>1, <2>2 DEF VatsOK, VatOK
<1>9. MessageOK(Thread(1), MonadRef, StartProgramMsg(1))
  <2>1. MonadRef \in DOMAIN vats
    BY <1>2 DEF VatsOK
  <2>2. Thread(1)[1] = 1
    BY DEF Thread
  <2> QED BY <2>1, <2>2 DEF MessageOK, RequestOK, ThreadRequestOK, StartProgramMsg, Request
<1>10. /\ MailOK' /\ DOMAIN mail' = DOMAIN mail \cup {<<Thread(1), MonadRef>>}
       /\ \A a, b : Chan(a, b)' = Chan(a, b) \/ (a = Thread(1) /\ b = MonadRef)
       /\ Chan(Thread(1), MonadRef)' = Chan(Thread(1), MonadRef) \o <<StartProgramMsg(1)>>
  <2>1. PICK a, msg : a = Thread(1) /\ msg = StartProgramMsg(1)
    OBVIOUS
  <2>2. MessageOK(a, MonadRef, msg) /\ mail' = Put(mail, <<a, MonadRef>>, <<msg>>)
    BY <1>1, <1>9, <2>1
  <2>3. /\ MailOK' /\ DOMAIN mail' = DOMAIN mail \cup {<<a, MonadRef>>}
        /\ \A x, y : Chan(x, y)' = Chan(x, y) \/ (x = a /\ y = MonadRef)
        /\ Chan(a, MonadRef)' = Chan(a, MonadRef) \o <<msg>>
    BY <1>7, <2>2, PutIs DEF Inv
  <2> QED BY <2>1, <2>3
<1>11. Thread(0) # Thread(1)
  BY DEF Thread
<1>12. Chan(Thread(0), MonadRef)' = Chan(Thread(0), MonadRef) /\ Chan(Thread(1), MonadRef)' = <<StartProgramMsg(1)>>
  <2>1. Chan(Thread(1), MonadRef) = <<>>
    BY <1>1 DEF Inv, BootOK
  <2> QED BY <1>10, <1>11, <2>1
<1>13. Len(nodes') = 2
  BY <1>3
<1>14. \A p \in Programs : NotStarted(p)' <=> NotStarted(p)
  BY <1>1, <1>12, <1>13 DEF NotStarted, Programs, Nodes
<1>15. Outside
  BY <1>1, <1>5, <1>7, <1>8, <1>10, <1>14 DEF Outside, Vat
<1>16. NodesOK'
  <2>1. \A i \in DOMAIN nodes' : nodes'[i].nodeman \in DOMAIN vats' /\ vats'[nodes'[i].nodeman].kind = "NodeMan"
    <3>1. nodes[1] = Node(0) /\ nodes'[1] = Node(0) /\ nodes'[2] = Node(1) /\ DOMAIN nodes' = {1, 2} /\ 1 \in DOMAIN nodes
      BY <1>3
    <3>2. Node(1).nodeman = j
      BY DEF Node
    <3>3. Node(0).nodeman \in DOMAIN vats /\ vats[Node(0).nodeman].kind = "NodeMan"
      BY <1>2, <3>1 DEF NodesOK
    <3> QED BY <1>5, <3>1, <3>2, <3>3 DEF Vat
  <2> QED BY <1>3, <1>13, <2>1 DEF NodesOK
<1>17. SystemOK'
  <2>1. SystemOK
    BY DEF Inv
  <2> QED BY <1>1, <1>5, <1>6, <2>1 DEF SystemOK
<1>18. ScreenOK'
  BY <1>1 DEF Inv, ScreenOK
<1>19. BootOK'
  <2>1. BootOK
    BY DEF Inv
  <2> QED BY <1>1, <1>10, <1>12, <1>13, <2>1 DEF BootOK
<1>20. PanicsAreKnown'
  BY <1>1, <1>7, KnownStay DEF Inv
<1> QED BY <1>8, <1>10, <1>15, <1>16, <1>17, <1>18, <1>19, <1>20, OutsidePromises, OutsideLegs, OutsideMains, OutsidePrints DEF Inv

-----------------------------------------------------------------------------
(* Every state *)

\* The state at boot.
LEMMA InitInv == Init => Inv
<1> SUFFICES ASSUME Init PROVE Inv
  OBVIOUS
<1> DEFINE c0 == <<Thread(0), MonadRef>>
           n0 == <<0, 1>>
<1>1. /\ DOMAIN vats = {MonadRef, n0} /\ DOMAIN promises = {MonadRef, n0}
      /\ promises[MonadRef] = <<>> /\ promises[n0] = <<>>
      /\ vats[MonadRef] = Vat("Monad", None) /\ vats[n0] = Vat("NodeMan", None)
      /\ base = [n \in Nodes |-> IF n = 0 THEN 2 ELSE 0]
      /\ system = <<>> /\ subscribers = <<>> /\ screen = FALSE /\ panics = {} /\ prints = <<>>
      /\ ran = [p \in Programs |-> <<>>] /\ nodes = <<Node(0)>>
  BY DEF Init, MonadRef, Node
<1>2. DOMAIN mail = {c0} /\ mail[c0] = <<HelloMsg, StartProgramMsg(0)>>
  BY DEF Init
<1>3. VatsOK
  BY <1>1 DEF VatsOK, VatOK, Vat, Kinds, Nodes, MonadRef
<1>4. NodesOK
  <2>1. DOMAIN nodes = {1} /\ nodes[1] = Node(0) /\ Node(0).nodeman = n0
    BY <1>1 DEF Node
  <2> QED BY <1>1, <2>1 DEF NodesOK, Vat, Nodes
<1>5. SystemOK /\ ScreenOK
  BY <1>1, SeqDomain DEF SystemOK, ScreenOK, Nodes
<1>6. Chan(Thread(0), MonadRef) = <<HelloMsg, StartProgramMsg(0)>>
      /\ \A a, b : a # Thread(0) \/ b # MonadRef => Chan(a, b) = <<>>
  BY <1>2 DEF Chan, At
<1>7. Thread(0) # Thread(1) /\ Thread(0)[1] = 0 /\ Thread(0) # MonadRef /\ Thread(0) # n0
  BY DEF Thread, MonadRef
<1>8. BootOK
  BY <1>1, <1>2, <1>6, <1>7 DEF BootOK
<1>9. MessageOK(Thread(0), MonadRef, HelloMsg) /\ MessageOK(Thread(0), MonadRef, StartProgramMsg(0))
  <2>1. MonadRef \in DOMAIN vats
    BY <1>1
  <2> QED BY <1>7, <2>1 DEF MessageOK, RequestOK, ThreadRequestOK, HelloMsg, StartProgramMsg, Request
<1>10. MailOK
  <2>1. ASSUME NEW x, NEW y, NEW q, q = <<x, y>>
        PROVE  IsSeq(q) /\ DOMAIN q = {1, 2} /\ q[1] = x /\ q[2] = y /\ q # <<>>
    BY <2>1 DEF IsSeq, ToSet
  <2>2. PICK q : q = mail[c0]
    OBVIOUS
  <2>3. IsSeq(q) /\ DOMAIN q = {1, 2} /\ q[1] = HelloMsg /\ q[2] = StartProgramMsg(0) /\ q # <<>>
    BY <1>2, <2>1, <2>2
  <2>4. c0[1] = Thread(0) /\ c0[2] = MonadRef /\ c0 = <<c0[1], c0[2]>>
    OBVIOUS
  <2> QED BY <1>2, <1>9, <2>2, <2>3, <2>4 DEF MailOK
<1>11. \A w \in DOMAIN vats : Caps(w) = <<>> /\ promises[w] = <<>>
  BY <1>1 DEF Caps, CapsOf, Vat
<1>12. PromisesOK
  BY <1>11, SeqDomain DEF PromisesOK
<1>13. LegsOnce /\ StartsOK
  <2>1. \A w \in DOMAIN vats : DOMAIN promises[w] = {}
    BY <1>11, SeqDomain
  <2> QED BY <1>1, <2>1 DEF LegsOnce, StartsOK
<1>14. RanOK
  BY <1>1 DEF RanOK
<1>15. MainsOK
  <2>1. DOMAIN promises[MonadRef] = {}
    BY <1>1, SeqDomain
  <2>2. \A d \in DOMAIN vats : DOMAIN Chan(MonadRef, d) = {}
    BY <1>6, <1>7, SeqDomain
  <2>3. \A p \in Programs : ran[p] = <<>> /\ IsSeq(ran[p]) /\ Len(ran[p]) <= 1 /\ ToSet(ran[p]) = {}
    BY <1>1, SeqDomain DEF ToSet
  <2> QED BY <2>1, <2>2, <2>3 DEF MainsOK
<1>16. PrintsOK
  <2>1. DOMAIN prints = {}
    BY <1>1, SeqDomain
  <2>2. \A v \in DOMAIN vats : vats[v].kind # "Program"
    BY <1>1 DEF Vat
  <2> QED BY <2>1, <2>2 DEF PrintsOK
<1>17. PanicsAreKnown
  BY <1>1 DEF PanicsAreKnown
<1> QED BY <1>3, <1>4, <1>5, <1>8, <1>10, <1>12, <1>13, <1>14, <1>15, <1>16, <1>17 DEF Inv

\* Every step keeps the invariant.
LEMMA NextInv == Inv /\ [Next]_vars => Inv'
<1> SUFFICES ASSUME Inv, [Next]_vars PROVE Inv'
  OBVIOUS
<1>1. ASSUME NEW c \in DOMAIN mail, Handle(c[1], c[2]) PROVE Inv'
  <2>1. PICK s, v, m : s = c[1] /\ v = c[2] /\ m = Head(mail[<<s, v>>])
    OBVIOUS
  <2>2. \/ Hello(s, m) \/ StartProgram(s, m) \/ NewVatRequest(s, m)
        \/ RequestFarEntity(s, m) \/ SubscribeIrq(s, m) \/ IrqHandler(s, m)
        \/ CreateVat(s, v, m) \/ IoPrint(s, v, m) \/ AmoebaInit(s, v, m) \/ HandleInput(s, v, m)
        \/ MainRuns(s, v, m) \/ HandleResponse(s, v, m) \/ Panic(s, v, m)
    BY <1>1, <2>1, Zenon DEF Handle, Monad
  <2>3. Hello(s, m) => Inv'
    BY HelloKeeps
  <2>4. StartProgram(s, m) => Inv'
    BY StartProgramKeeps
  <2>5. NewVatRequest(s, m) => Inv'
    BY NewVatRequestKeeps
  <2>6. RequestFarEntity(s, m) => Inv'
    BY RequestFarEntityKeeps
  <2>7. SubscribeIrq(s, m) => Inv'
    BY SubscribeIrqKeeps
  <2>8. IrqHandler(s, m) => Inv'
    BY IrqHandlerKeeps
  <2>9. CreateVat(s, v, m) => Inv'
    BY CreateVatKeeps
  <2>10. IoPrint(s, v, m) => Inv'
    BY IoPrintKeeps
  <2>11. AmoebaInit(s, v, m) => Inv'
    BY AmoebaInitKeeps
  <2>12. HandleInput(s, v, m) => Inv'
    BY HandleInputKeeps
  <2>13. MainRuns(s, v, m) => Inv'
    BY MainRunsKeeps
  <2>14. HandleResponse(s, v, m) => Inv'
    BY HandleResponseKeeps
  <2>15. Panic(s, v, m) => Inv'
    BY PanicKeeps
  <2> QED BY <2>2, <2>3, <2>4, <2>5, <2>6, <2>7, <2>8, <2>9, <2>10, <2>11, <2>12, <2>13, <2>14, <2>15, Zenon
<1>2. ASSUME UNCHANGED vars PROVE Inv'
  <2>1. Still /\ panics' = panics
    BY <1>2 DEF vars, kernel, history, Still
  <2>2. PanicsAreKnown'
    <3>1. PanicsAreKnown
      BY DEF Inv
    <3>2. Grows
      BY <2>1 DEF Still, Grows
    <3> QED BY <2>1, <3>1, <3>2, KnownStay
  <2> QED BY <2>1, <2>2, StillKeeps
<1>3. (\E c \in DOMAIN mail : Handle(c[1], c[2])) \/ KeyDown \/ Join \/ UNCHANGED vars
  BY Zenon DEF Next, Mail
<1> QED BY <1>1, <1>2, <1>3, KeyDownKeeps, JoinKeeps, Zenon

\* What the invariant says of mains.
LEMMA MainRunsOnceThen ==
  ASSUME Inv
  PROVE  MainRunsOnce
BY DEF Inv, MainsOK, MadeFor, FitsAt, MainRunsOnce

\* What the invariant says of references.
LEMMA RefsAreRightThen ==
  ASSUME Inv
  PROVE  RefsAreRight
<1>1. ASSUME NEW i \in DOMAIN subscribers PROVE vats[subscribers[i]].kind = "Amoeba"
  <2>1. system = SystemMap /\ system # <<>> /\ subscribers[i] = <<0, 3>>
    BY DEF Inv, SystemOK
  <2>2. SystemMap["Amoeba"] = <<0, 3>> /\ "Amoeba" \in Names
    <3>1. DOMAIN SystemNames = 1 .. 4 /\ SystemNames[1] = "Io" /\ SystemNames[2] = "Amoeba"
          /\ SystemNames[3] = "HttpLb" /\ SystemNames[4] = "ZenoMaster"
      BY DEF SystemNames
    <3>2. Index(SystemNames, "Amoeba") = 2
      BY <3>1 DEF Index
    <3>3. "Amoeba" \in Names
      BY <3>1 DEF Names, ToSet
    <3> QED BY <3>2, <3>3 DEF SystemMap
  <2>3. vats[system["Amoeba"]].kind = "Amoeba"
    BY <2>1, <2>2 DEF Inv, SystemOK
  <2> QED BY <2>1, <2>2, <2>3
<1>2. \A i \in DOMAIN nodes : vats[nodes[i].nodeman].kind = "NodeMan"
  BY DEF Inv, NodesOK
<1>3. ASSUME NEW v \in DOMAIN vats, NEW c \in ToSet(Caps(v)), NEW x, x = promises[v][Cap(v, c)].value, x # None
      PROVE  vats[x].kind = c
  BY <1>3, PromisesMean
<1> QED BY <1>1, <1>2, <1>3 DEF RefsAreRight, Caps

\* What the invariant says of prints.
LEMMA PrintsInOrderThen ==
  ASSUME Inv
  PROVE  PrintsInOrder
<1> SUFFICES ASSUME NEW v \in DOMAIN prints, NEW i \in DOMAIN prints[v], NEW j \in DOMAIN prints[v], i < j
             PROVE  prints[v][i] < prints[v][j]
  BY DEF PrintsInOrder
<1>1. PrintsOf(v) /\ At(prints, v) = prints[v]
  BY DEF Inv, PrintsOK, At
<1> QED BY <1>1 DEF PrintsOf

\* The invariant holds in every state: each message has the form its receiver
\* expects and comes from where it may come from, each promise stands for what
\* it is called, and each call whose promise matters is in one place.
THEOREM InvHolds == Spec => []Inv
BY InitInv, NextInv, PTL DEF Spec

\* Whatever order messages are handled in, a node stops only for reasons that
\* lie in its programs: boot leaves no gap in which hello, a capability or a
\* function is missing (kernel.cpp, create_entity, eval_func_local).
THEOREM OnlyKnownPanics == Spec => []PanicsAreKnown
<1>1. Inv => PanicsAreKnown
  BY DEF Inv
<1> QED BY <1>1, InvHolds, PTL

\* The main of each program runs once at most, in a vat made for it on a node
\* that has what its preamble asks for (start-program, monad_new_vat).
THEOREM MainsRunOnce == Spec => []MainRunsOnce
<1>1. Inv => MainRunsOnce
  BY MainRunsOnceThen
<1> QED BY <1>1, InvHolds, PTL

\* What a program prints comes out in the order of its statements, whether a
\* print had to wait for the reference to the Io or not (eval_message_node and
\* the dependents of promises).
THEOREM PrintsStayInOrder == Spec => []PrintsInOrder
<1>1. Inv => PrintsInOrder
  BY PrintsInOrderThen
<1> QED BY <1>1, InvHolds, PTL

\* The addresses written into the kernel are right: keys reach the Amoeba,
\* nodemen are where the Monad looks for them, and a capability has become a
\* reference to the system entity it names.
THEOREM RefsStayRight == Spec => []RefsAreRight
<1>1. Inv => RefsAreRight
  BY RefsAreRightThen
<1> QED BY <1>1, InvHolds, PTL
=============================================================================
