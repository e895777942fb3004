--------------------------- MODULE VatMachineProofs ---------------------------
(***************************************************************************)
(* The virtual machine of a vat, for every program, every set of requests  *)
(* and every number of promise ids: what it keeps is well formed, and a    *)
(* promise is not replaced as long as there are ids.  What programs have   *)
(* to avoid for an answer to find its promise, and for a request to get no *)
(* more than one answer.                                                   *)
(***************************************************************************)
EXTENDS VatMachine, FiniteSetTheorems, TLAPS

\* Places in the code: an instruction, or the end.
Places == 1 .. Len(Code) + 1
OneId(s) == s \subseteq Nat /\ IsFiniteSet(s) /\ Cardinality(s) <= 1

\* A call stack, whose oldest frame returns nowhere.
IsStack(cs) ==
  /\ cs \in Seq(Range(cs))
  /\ Frames(cs)
  /\ \A i \in DOMAIN cs :
       cs[i] = [ent |-> cs[i].ent, locals |-> cs[i].locals, ret |-> cs[i].ret]
  /\ cs # <<>> => cs[1].ret = NoReturn

IsPromise(p) ==
  /\ p = [vars |-> p.vars, resume |-> p.resume, ops |-> p.ops, calls |-> p.calls,
          src |-> p.src, to |-> p.to]
  /\ p.resume \in Seq(Places) /\ IsStack(p.calls) /\ OneId(p.src)

IsEntity(e, x) ==
  /\ x = [type |-> x.type, data |-> x.data]
  /\ x.type \in DOMAIN Entry
  /\ "self" \in DOMAIN x.data /\ x.data["self"] = Ref(Addr(Self, e))

\* The inductive invariant, by what belongs together.
NetOK == IsABag(net) /\ \A m \in DOMAIN net : OneId(m.prom)
ControlOK ==
  /\ mode \in {"idle", "run", "ended", "yielded", "next", "dead"}
  /\ ip \in Places /\ todo \in Seq(Places)
  /\ OneId(asker)
  /\ Cardinality(reply) <= 1 /\ \A m \in reply : OneId(m.prom)
  /\ IF mode = "idle" THEN msg = NoMsg /\ todo = <<>> /\ reply = {} ELSE OneId(msg.prom)
StackOK == IsStack(calls) /\ (mode = "run" => calls # <<>>)
PromisesOK ==
  /\ \E n \in 0 .. PromiseSlots : DOMAIN promises = 0 .. n - 1
  /\ \A p \in DOMAIN promises : IsPromise(promises[p])
  /\ IsPromise(point)
EntitiesOK == \A e \in DOMAIN entities : IsEntity(e, entities[e])
MachineInv == NetOK /\ ControlOK /\ StackOK /\ PromisesOK /\ EntitiesOK

-----------------------------------------------------------------------------
(* Data *)

LEMMA OneIds == OneId({}) /\ \A p \in Nat : OneId({p})
<1>1. OneId({})
  BY FS_EmptySet DEF OneId
<1>2. ASSUME NEW p \in Nat PROVE OneId({p})
  <2>1. IsFiniteSet({p}) /\ Cardinality({p}) = 1
    BY FS_Singleton
  <2> QED BY <2>1 DEF OneId
<1> QED BY <1>1, <1>2

LEMMA AtMostOne == Cardinality({}) <= 1 /\ \A x : Cardinality({x}) <= 1
BY FS_EmptySet, FS_Singleton

\* The bag of messages.
LEMMA BagAdded ==
  ASSUME NEW B, IsABag(B), NEW x
  PROVE  IsABag(Mail!BagAdd(B, x)) /\ DOMAIN Mail!BagAdd(B, x) = DOMAIN B \cup {x}
BY DEF IsABag, Mail!BagAdd

LEMMA BagRemoved ==
  ASSUME NEW B, IsABag(B), NEW x
  PROVE  IsABag(Mail!BagRemove(B, x)) /\ DOMAIN Mail!BagRemove(B, x) \subseteq DOMAIN B
<1>1. \A y \in DOMAIN B : B[y] \in Nat /\ B[y] > 0
  BY DEF IsABag
<1>2. CASE x \notin DOMAIN B
  BY <1>2 DEF Mail!BagRemove
<1>3. CASE x \in DOMAIN B /\ B[x] = 1
  BY <1>1, <1>3 DEF IsABag, Mail!BagRemove
<1>4. CASE x \in DOMAIN B /\ B[x] # 1
  <2>1. B[x] - 1 \in Nat /\ B[x] - 1 > 0
    BY <1>1, <1>4
  <2> QED BY <1>1, <1>4, <2>1 DEF IsABag, Mail!BagRemove
<1> QED BY <1>2, <1>3, <1>4

\* A frame is pushed: the first of a handler, or that of a call.
LEMMA StackPush ==
  ASSUME NEW cs, IsStack(cs), NEW e, NEW r \in 0 .. Len(Code) + 1, cs = <<>> => r = NoReturn
  PROVE  IsStack(Append(cs, Frame(e, r))) /\ Append(cs, Frame(e, r)) # <<>>
<1> DEFINE f == Frame(e, r)
           ds == Append(cs, f)
           S == Range(cs) \cup {f}
<1>1. cs \in Seq(S) /\ f \in S /\ Len(cs) \in Nat
  BY DEF IsStack
<1>2. /\ ds \in Seq(S) /\ Len(ds) = Len(cs) + 1 /\ DOMAIN ds = 1 .. Len(cs) + 1
      /\ \A i \in 1 .. Len(cs) : ds[i] = cs[i]
      /\ ds[Len(cs) + 1] = f /\ DOMAIN cs = 1 .. Len(cs)
  BY <1>1
<1>3. f = [ent |-> f.ent, locals |-> f.locals, ret |-> f.ret] /\ f.ret = r
  BY DEF Frame
<1> HIDE DEF f, ds, S
<1>4. ds # <<>> /\ ds \in Seq(Range(ds))
  BY <1>2 DEF Range
<1>5. \A i \in DOMAIN ds : (i \in DOMAIN cs /\ ds[i] = cs[i]) \/ ds[i] = f
  BY <1>1, <1>2
<1>6. ds[1].ret = NoReturn
  <2>1. CASE cs = <<>>
    BY <1>2, <1>3, <2>1
  <2>2. CASE cs # <<>>
    BY <1>1, <1>2, <2>2 DEF IsStack
  <2> QED BY <2>1, <2>2
<1>7. Frames(ds)
  BY <1>3, <1>5 DEF IsStack, Frames
<1>8. \A i \in DOMAIN ds :
        ds[i] = [ent |-> ds[i].ent, locals |-> ds[i].locals, ret |-> ds[i].ret]
  BY <1>3, <1>5 DEF IsStack
<1> QED BY <1>4, <1>6, <1>7, <1>8 DEF IsStack, f, ds

\* A local variable of the youngest frame is set.
LEMMA StackStore ==
  ASSUME NEW cs, IsStack(cs), cs # <<>>, NEW k, NEW x
  PROVE  IsStack(StoreLocal(cs, k, x)) /\ StoreLocal(cs, k, x) # <<>>
<1> DEFINE n == Len(cs)
           ds == StoreLocal(cs, k, x)
           g == [cs[n] EXCEPT !.locals = Put(@, k, x)]
<1>1. n \in Nat \ {0} /\ DOMAIN cs = 1 .. n /\ n \in DOMAIN cs
  BY DEF IsStack
<1>2. cs[n] = [ent |-> cs[n].ent, locals |-> cs[n].locals, ret |-> cs[n].ret]
  BY <1>1 DEF IsStack
<1>3. g = [ent |-> g.ent, locals |-> g.locals, ret |-> g.ret] /\ g.ret = cs[n].ret
  BY <1>2
<1>4. ds = [i \in 1 .. n |-> IF i = n THEN g ELSE cs[i]]
  BY <1>1 DEF StoreLocal, IsStack
<1> HIDE DEF n, ds, g
<1>5. ds \in Seq(Range(ds)) /\ ds # <<>>
  BY <1>1, <1>4 DEF Range
<1>6. \A i \in DOMAIN ds :
        /\ i \in DOMAIN cs /\ ds[i].ret = cs[i].ret
        /\ ds[i] = [ent |-> ds[i].ent, locals |-> ds[i].locals, ret |-> ds[i].ret]
  BY <1>1, <1>3, <1>4 DEF IsStack
<1>7. 1 \in DOMAIN ds
  BY <1>1, <1>4
<1>8. Frames(ds) /\ ds[1].ret = NoReturn
  BY <1>6, <1>7 DEF IsStack, Frames
<1> QED BY <1>5, <1>6, <1>8 DEF IsStack, ds

\* A frame is popped: only the oldest returns nowhere for certain.
LEMMA StackPop ==
  ASSUME NEW cs, IsStack(cs), cs # <<>>
  PROVE  /\ IsStack(Front(cs))
         /\ Last(cs).ret \in 0 .. Len(Code) + 1
         /\ Last(cs).ret # NoReturn => Front(cs) # <<>>
<1> DEFINE n == Len(cs)
           ds == Front(cs)
<1>1. n \in Nat \ {0} /\ DOMAIN cs = 1 .. n /\ n \in DOMAIN cs /\ 1 \in DOMAIN cs
  BY DEF IsStack
<1>2. /\ ds \in Seq(Range(cs)) /\ Len(ds) = n - 1 /\ DOMAIN ds = 1 .. n - 1
      /\ \A i \in 1 .. n - 1 : ds[i] = cs[i]
  BY <1>1 DEF IsStack, Front
<1>3. ds \in Seq(Range(ds))
  BY <1>2 DEF Range
<1> HIDE DEF ds, n
<1>4. \A i \in DOMAIN ds : i \in DOMAIN cs /\ ds[i] = cs[i]
  BY <1>1, <1>2
<1>5. ds # <<>> => 1 \in DOMAIN ds
  BY <1>1, <1>2
<1>6. IsStack(ds)
  <2>1. Frames(ds)
    BY <1>4 DEF IsStack, Frames
  <2>2. \A i \in DOMAIN ds :
          ds[i] = [ent |-> ds[i].ent, locals |-> ds[i].locals, ret |-> ds[i].ret]
    BY <1>4 DEF IsStack
  <2> QED BY <1>3, <1>4, <1>5, <2>1, <2>2 DEF IsStack
<1>7. Last(cs) = cs[n]
  BY DEF Last, n
<1>8. Last(cs).ret \in 0 .. Len(Code) + 1
  BY <1>1, <1>7 DEF IsStack, Frames
<1>9. Last(cs).ret # NoReturn => n # 1
  BY <1>1, <1>7 DEF IsStack
<1>10. n # 1 => ds # <<>>
  BY <1>1, <1>2
<1> QED BY <1>6, <1>8, <1>9, <1>10 DEF ds

-----------------------------------------------------------------------------
(* Parts that a step leaves alone *)

\* The program is where the instruction is, and goes on at the next place.
LEMMA Fetched ==
  ASSUME NEW name, Fetch(name)
  PROVE  /\ mode = "run" /\ ip \in DOMAIN Code /\ Code[ip].op = name /\ Fine(Code[ip])
         /\ ip + 1 \in Places /\ Len(Code) \in Nat /\ ip \in 1 .. Len(Code)
BY ProgramAssumption DEF Fetch, Places

LEMMA ControlStays ==
  ASSUME ControlOK, ip' \in Places, mode # "idle", mode' # "idle",
         mode' \in {"run", "ended", "yielded", "next", "dead"},
         UNCHANGED locals
  PROVE  ControlOK'
BY DEF ControlOK, locals

LEMMA NetStays == NetOK /\ UNCHANGED net => NetOK'
BY DEF NetOK

LEMMA PromisesStay == PromisesOK /\ UNCHANGED <<promises, point>> => PromisesOK'
BY DEF PromisesOK

LEMMA EntitiesStay == EntitiesOK /\ UNCHANGED entities => EntitiesOK'
BY DEF EntitiesOK

-----------------------------------------------------------------------------
(* The initial state *)

LEMMA InitMachine == Init => MachineInv
<1> SUFFICES ASSUME Init PROVE MachineInv
  OBVIOUS
<1>0. Len(Code) \in Nat /\ PromiseSlots \in Nat \ {0}
  BY ProgramAssumption, SlotsAssumption
<1>1. NetOK
  BY RequestAssumption DEF Init, NetOK, IsABag, OneId
<1>2. ControlOK
  BY <1>0, OneIds, FS_EmptySet DEF Init, ControlOK, Places
<1>3. IsStack(<<>>)
  BY DEF IsStack, Frames, Range
<1>4. IsPromise(NoPromise)
  BY <1>3, OneIds DEF IsPromise, NoPromise, Promise
<1>5. PromisesOK
  <2>1. DOMAIN promises = {} /\ 0 .. 0 - 1 = {}
    BY DEF Init
  <2> QED BY <1>0, <1>4, <2>1 DEF Init, PromisesOK
<1>6. EntitiesOK
  BY BootAssumption DEF Init, EntitiesOK, IsEntity
<1> QED BY <1>1, <1>2, <1>3, <1>5, <1>6 DEF MachineInv, StackOK, Init

-----------------------------------------------------------------------------
(* run_msg *)

LEMMA AcceptRequestKeeps ==
  ASSUME MachineInv, NEW m \in DOMAIN net, AcceptRequest(m)
  PROVE  MachineInv'
<1>1. /\ net' = Mail!BagRemove(net, m) /\ msg' = m /\ asker' = m.prom
      /\ calls' = Append(calls, Frame(0, NoReturn))
      /\ UNCHANGED <<todo, point, reply, promises, entities>>
      /\ mode' \in {"run", "dead"}
      /\ ip' \in (IF Function(m.dst.ent, m.fn) = {} THEN {ip} ELSE Function(m.dst.ent, m.fn))
  BY DEF AcceptRequest
<1>2. OneId(m.prom)
  BY DEF MachineInv, NetOK
<1>3. NetOK'
  BY <1>1, BagRemoved DEF MachineInv, NetOK
<1>4. ip' \in Places
  <2>1. ip \in Places /\ Len(Code) \in Nat
    BY ProgramAssumption DEF MachineInv, ControlOK
  <2>2. \A x \in Function(m.dst.ent, m.fn) : x \in 1 .. Len(Code)
    BY ProgramAssumption DEF Function, MachineInv, EntitiesOK, IsEntity
  <2> QED BY <1>1, <2>1, <2>2 DEF Places
<1>5. ControlOK'
  BY <1>1, <1>2, <1>4 DEF MachineInv, ControlOK
<1>6. StackOK'
  <2>1. NoReturn \in 0 .. Len(Code) + 1
    BY ProgramAssumption DEF NoReturn
  <2> QED BY <1>1, <2>1, StackPush DEF MachineInv, StackOK
<1> QED BY <1>1, <1>3, <1>5, <1>6, PromisesStay, EntitiesStay DEF MachineInv

LEMMA AcceptResponseKeeps ==
  ASSUME MachineInv, NEW m \in DOMAIN net, AcceptResponse(m)
  PROVE  MachineInv'
<1>1. /\ net' = Mail!BagRemove(net, m) /\ msg' = m /\ mode' \in {"next", "dead"}
      /\ UNCHANGED <<ip, asker, reply, ops, calls, promises, entities>>
      /\ \/ UNCHANGED <<point, todo>>
         \/ \E id \in DOMAIN promises : point' = promises[id] /\ todo' = promises[id].resume
  BY DEF AcceptResponse, vat
<1>2. OneId(m.prom)
  BY DEF MachineInv, NetOK
<1>3. NetOK'
  BY <1>1, BagRemoved DEF MachineInv, NetOK
<1>4. IsPromise(point)' /\ todo' \in Seq(Places)
  BY <1>1 DEF MachineInv, PromisesOK, ControlOK, IsPromise
<1>5. ControlOK'
  BY <1>1, <1>2, <1>4 DEF MachineInv, ControlOK
<1>6. PromisesOK'
  BY <1>1, <1>4 DEF MachineInv, PromisesOK
<1>7. StackOK'
  BY <1>1 DEF MachineInv, StackOK
<1> QED BY <1>1, <1>3, <1>5, <1>6, <1>7, EntitiesStay DEF MachineInv

LEMMA ResumeKeeps ==
  ASSUME MachineInv, Resume
  PROVE  MachineInv'
<1>1. /\ mode = "next" /\ todo # <<>> /\ todo' = Tail(todo)
      /\ UNCHANGED <<net, msg, point, reply, promises, entities>>
      /\ \/ /\ point.calls # <<>> /\ asker' = point.src /\ ip' = Head(todo)
            /\ calls' = StoreLocal(point.calls, Head(point.vars), msg.result)
            /\ mode' = "run"
         \/ mode' = "dead" /\ UNCHANGED <<calls, ip, asker>>
  BY DEF Resume
<1>2. Head(todo) \in Places /\ Tail(todo) \in Seq(Places)
  BY <1>1 DEF MachineInv, ControlOK
<1>3. OneId(point.src) /\ IsStack(point.calls)
  BY DEF MachineInv, PromisesOK, IsPromise
<1>4. ControlOK'
  BY <1>1, <1>2, <1>3 DEF MachineInv, ControlOK
<1>5. StackOK'
  BY <1>1, <1>3, StackStore DEF MachineInv, StackOK
<1> QED BY <1>1, <1>4, <1>5, NetStays, PromisesStay, EntitiesStay DEF MachineInv

\* A handler ends with one answer or none; its operand stack is no matter.
LEMMA EndKeeps ==
  ASSUME MachineInv, EndRequest \/ EndContinuation
  PROVE  MachineInv'
<1>1. /\ mode \in {"ended", "yielded"} /\ mode' = "next"
      /\ UNCHANGED <<net, ip, msg, asker, todo, point, calls, promises, entities>>
      /\ \/ reply' \in {{}, reply}
         \/ \E x : reply' = {x} /\ x.prom \in {msg.prom, point.src}
  BY DEF EndRequest, EndContinuation, Returned, Response
<1>2. OneId(msg.prom) /\ OneId(point.src)
  BY <1>1 DEF MachineInv, ControlOK, PromisesOK, IsPromise
<1>3. Cardinality(reply') <= 1 /\ \A x \in reply' : OneId(x.prom)
  BY <1>1, <1>2, AtMostOne DEF MachineInv, ControlOK
<1>4. ControlOK'
  BY <1>1, <1>3 DEF MachineInv, ControlOK
<1>5. StackOK'
  BY <1>1 DEF MachineInv, StackOK
<1> QED BY <1>1, <1>4, <1>5, NetStays, PromisesStay, EntitiesStay DEF MachineInv

LEMMA ReturnKeeps ==
  ASSUME MachineInv, Return
  PROVE  MachineInv'
<1>1. /\ mode = "next" /\ todo = <<>> /\ mode' = "idle"
      /\ msg' = NoMsg /\ asker' = {} /\ point' = NoPromise /\ reply' = {}
      /\ UNCHANGED <<ip, todo, calls, promises, entities>>
      /\ net' = net \/ \E m \in reply : net' = Mail!BagAdd(net, m)
  BY DEF Return, vat
<1>2. NetOK'
  <2>1. CASE net' = net
    BY <2>1, NetStays DEF MachineInv
  <2>2. ASSUME NEW m \in reply, net' = Mail!BagAdd(net, m)
        PROVE  NetOK'
    <3>1. OneId(m.prom)
      BY DEF MachineInv, ControlOK
    <3>2. IsABag(net') /\ DOMAIN net' = DOMAIN net \cup {m}
      BY <2>2, BagAdded DEF MachineInv, NetOK
    <3> QED BY <3>1, <3>2 DEF MachineInv, NetOK
  <2> QED BY <1>1, <2>1, <2>2
<1>3. ControlOK'
  BY <1>1, OneIds, AtMostOne DEF MachineInv, ControlOK
<1>4. IsPromise(NoPromise)
  <2>1. IsStack(<<>>)
    BY DEF IsStack, Frames, Range
  <2> QED BY <2>1, OneIds DEF IsPromise, NoPromise, Promise
<1>5. PromisesOK'
  BY <1>1, <1>4 DEF MachineInv, PromisesOK
<1>6. StackOK'
  BY <1>1 DEF MachineInv, StackOK
<1> QED BY <1>1, <1>2, <1>3, <1>5, <1>6, EntitiesStay DEF MachineInv

\* The run ends: with a panic, too many operands, or off the end of the code.
LEMMA StopKeeps ==
  ASSUME MachineInv, TooManyOperands \/ CodeOverrun \/ Panic
  PROVE  MachineInv'
<1>1. /\ mode # "idle" /\ mode' \in {"ended", "dead"}
      /\ UNCHANGED <<net, ip, locals, vat>>
  BY DEF TooManyOperands, CodeOverrun, Panic
<1>2. ControlOK'
  BY <1>1, ControlStays DEF MachineInv, ControlOK
<1>3. StackOK'
  BY <1>1 DEF MachineInv, StackOK, vat
<1> QED BY <1>1, <1>2, <1>3, NetStays, PromisesStay, EntitiesStay DEF MachineInv, vat, locals

LEMMA PeerAnswersKeeps ==
  ASSUME MachineInv, NEW m \in DOMAIN net, PeerAnswers(m)
  PROVE  MachineInv'
<1> DEFINE r == Response(m.dst, m.src, PeerAnswer[m.fn], m.prom)
<1>1. /\ net' = Mail!BagAdd(Mail!BagRemove(net, m), r)
      /\ UNCHANGED <<mode, ip, locals, vat>>
  BY DEF PeerAnswers
<1>2. OneId(r.prom)
  BY DEF Response, MachineInv, NetOK
<1> HIDE DEF r
<1>3. NetOK'
  <2>1. /\ IsABag(Mail!BagRemove(net, m))
        /\ DOMAIN Mail!BagRemove(net, m) \subseteq DOMAIN net
    BY BagRemoved DEF MachineInv, NetOK
  <2>2. IsABag(net') /\ DOMAIN net' = DOMAIN Mail!BagRemove(net, m) \cup {r}
    BY <1>1, <2>1, BagAdded
  <2> QED BY <1>2, <2>1, <2>2 DEF MachineInv, NetOK
<1>4. ControlOK'
  BY <1>1 DEF MachineInv, ControlOK, locals
<1>5. StackOK'
  BY <1>1 DEF MachineInv, StackOK, vat
<1> QED BY <1>1, <1>3, <1>4, <1>5, PromisesStay, EntitiesStay DEF MachineInv, vat, locals

-----------------------------------------------------------------------------
(* run_expr *)

\* Instructions that change the operand stack and nothing else.
LEMMA OperandsKeep ==
  ASSUME MachineInv, Push \/ Lload \/ Eload \/ \E op \in Arithmetic : Arith(op)
  PROVE  MachineInv'
<1>1. /\ ip' = ip + 1 /\ mode = "run" /\ mode' = mode /\ ip + 1 \in Places
      /\ UNCHANGED <<net, locals, calls, promises, entities>>
  BY Fetched DEF Push, Lload, Eload, Arith, Advance
<1>2. ControlOK'
  BY <1>1, ControlStays DEF MachineInv
<1>3. StackOK'
  BY <1>1 DEF MachineInv, StackOK
<1> QED BY <1>1, <1>2, <1>3, NetStays, PromisesStay, EntitiesStay DEF MachineInv, locals

\* What instructions do to a promise: its asker stays, its stacks and its list
\* of places to go on at are good ones again.
LEMMA PromiseChanged ==
  ASSUME NEW p, IsPromise(p), NEW v, NEW r \in Seq(Places), NEW o, NEW cs, IsStack(cs)
  PROVE  IsPromise([vars |-> v, resume |-> r, ops |-> o, calls |-> cs, src |-> p.src, to |-> p.to])
BY DEF IsPromise

LEMMA LstoreKeeps ==
  ASSUME MachineInv, Lstore
  PROVE  MachineInv'
<1> DEFINE x == Popped(1)
           k == Code[ip].k
<1>1. /\ ip' = ip + 1 /\ mode = "run" /\ mode' = mode /\ ip + 1 \in Places
      /\ UNCHANGED <<net, locals, entities>>
      /\ calls' = StoreLocal(calls, k, x)
      /\ promises' = IF IsProm(x) THEN [promises EXCEPT ![x.prom].vars = Append(@, k)] ELSE promises
      /\ Code[ip].op = "Lstore" /\ Fine(Code[ip])
  BY Fetched DEF Lstore, Advance
<1>2. calls # <<>> /\ (IsProm(x) => x.prom \in DOMAIN promises)
  BY <1>1 DEF Fine
<1>3. ControlOK'
  BY <1>1, ControlStays DEF MachineInv
<1>4. StackOK'
  BY <1>1, <1>2, StackStore DEF MachineInv, StackOK
<1>5. PromisesOK'
  <2> HIDE DEF x, k
  <2>1. DOMAIN promises' = DOMAIN promises
    BY <1>1
  <2>2. ASSUME NEW p \in DOMAIN promises PROVE IsPromise(promises'[p])
    <3> DEFINE q == promises[p]
    <3>1. IsPromise(q)
      BY DEF MachineInv, PromisesOK
    <3>2. q = [vars |-> q.vars, resume |-> q.resume, ops |-> q.ops, calls |-> q.calls,
               src |-> q.src, to |-> q.to]
      BY <3>1 DEF IsPromise
    <3>3. \/ promises'[p] = q
          \/ promises'[p] = [vars |-> Append(q.vars, k), resume |-> q.resume, ops |-> q.ops,
                             calls |-> q.calls, src |-> q.src, to |-> q.to]
      <4>1. promises'[p] = q \/ promises'[p] = [q EXCEPT !.vars = Append(@, k)]
        BY <1>1, <1>2
      <4>2. [q EXCEPT !.vars = Append(@, k)] =
              [vars |-> Append(q.vars, k), resume |-> q.resume, ops |-> q.ops,
               calls |-> q.calls, src |-> q.src, to |-> q.to]
        <5> HIDE DEF q
        <5> QED BY <3>2
      <4> QED BY <4>1, <4>2
    <3>4. q.resume \in Seq(Places) /\ IsStack(q.calls)
      BY <3>1 DEF IsPromise
    <3> HIDE DEF q
    <3> QED BY <3>1, <3>3, <3>4, PromiseChanged
  <2> QED BY <1>1, <2>1, <2>2 DEF MachineInv, PromisesOK, locals
<1> QED BY <1>1, <1>3, <1>4, <1>5, NetStays, EntitiesStay DEF MachineInv

LEMMA EstoreKeeps ==
  ASSUME MachineInv, Estore
  PROVE  MachineInv'
<1> DEFINE k == Code[ip].k
           x == Popped(1)
<1>1. /\ ip' = ip + 1 /\ mode = "run" /\ mode' = mode /\ ip + 1 \in Places
      /\ UNCHANGED <<net, locals, calls, promises>>
      /\ entities' = [entities EXCEPT ![Here].data = Put(@, k, x)]
      /\ Code[ip].op = "Estore" /\ Fine(Code[ip]) /\ ip \in DOMAIN Code
  BY Fetched DEF Estore, Advance
<1>2. Here \in DOMAIN entities /\ k # "self"
  BY <1>1, ProgramAssumption DEF Fine
<1>3. ControlOK'
  BY <1>1, ControlStays DEF MachineInv
<1>4. StackOK'
  BY <1>1 DEF MachineInv, StackOK
<1>5. EntitiesOK'
  <2> HIDE DEF k, x
  <2> DEFINE h == Here
             d == entities[h].data
             n == [entities[h] EXCEPT !.data = Put(@, k, x)]
  <2>1. entities[h] = [type |-> entities[h].type, data |-> d] /\ IsEntity(h, entities[h])
    BY <1>2 DEF MachineInv, EntitiesOK, IsEntity
  <2>2. n = [type |-> entities[h].type, data |-> Put(d, k, x)]
    BY <2>1
  <2>3. "self" \in DOMAIN d =>
          "self" \in DOMAIN Put(d, k, x) /\ Put(d, k, x)["self"] = d["self"]
    BY <1>2 DEF Put
  <2>4. "self" \in DOMAIN d
    BY <2>1 DEF IsEntity
  <2>5. entities' = [e \in DOMAIN entities |-> IF e = h THEN n ELSE entities[e]]
    BY <1>1, <1>2
  <2> HIDE DEF h, d, n
  <2>6. n = [type |-> n.type, data |-> n.data] /\ n.type = entities[h].type
        /\ "self" \in DOMAIN n.data /\ n.data["self"] = d["self"]
    BY <2>2, <2>3, <2>4
  <2>7. IsEntity(h, n)
    BY <2>1, <2>6 DEF IsEntity, d
  <2> QED BY <2>5, <2>7 DEF MachineInv, EntitiesOK
<1> QED BY <1>1, <1>3, <1>4, <1>5, NetStays, PromisesStay DEF MachineInv, locals

LEMMA ConstructKeeps ==
  ASSUME MachineInv, Construct
  PROVE  MachineInv'
<1> DEFINE e == Cardinality(DOMAIN entities)
           t == Code[ip].t
           n == [type |-> t,
                 data |-> Put([k \in Fields[t] |-> U8(4)], "self", Ref(Addr(Self, e)))]
<1>1. /\ mode = "run" /\ ip + 1 \in Places /\ Len(Code) \in Nat
      /\ UNCHANGED <<net, mode, locals, promises>>
      /\ entities' = Put(entities, e, n)
      /\ calls' = Append(calls, Frame(e, ip + 1)) /\ ip' = Entry[t][0]
      /\ Code[ip].op = "Construct" /\ Fine(Code[ip])
  BY Fetched DEF Construct
<1>2. t \in DOMAIN Entry /\ 0 \in DOMAIN Entry[t]
  BY <1>1 DEF Fine
<1>3. ip' \in Places
  BY <1>1, <1>2, ProgramAssumption DEF Places
<1>4. ControlOK'
  BY <1>1, <1>3, ControlStays DEF MachineInv
<1>5. StackOK'
  <2>1. ip + 1 \in 0 .. Len(Code) + 1 /\ IsStack(calls) /\ calls # <<>>
    BY <1>1 DEF Places, MachineInv, StackOK
  <2> HIDE DEF e
  <2> QED BY <1>1, <2>1, StackPush DEF StackOK
<1>6. IsEntity(e, n)
  <2> HIDE DEF e
  <2> QED BY <1>2 DEF IsEntity, Put
<1>7. EntitiesOK'
  <2> HIDE DEF e, n
  <2> QED BY <1>1, <1>6 DEF MachineInv, EntitiesOK, Put
<1> QED BY <1>1, <1>4, <1>5, <1>7, NetStays, PromisesStay DEF MachineInv, locals

LEMMA CallKeeps ==
  ASSUME MachineInv, Call
  PROVE  MachineInv'
<1> DEFINE e == Popped(1).addr.ent
<1>1. /\ mode = "run" /\ ip + 1 \in Places /\ Len(Code) \in Nat
      /\ UNCHANGED <<net, mode, locals, promises, entities>>
      /\ calls' = Append(calls, Frame(e, ip + 1)) /\ ip' = Code[ip].to
      /\ Code[ip].op = "Call" /\ ip \in DOMAIN Code
  BY Fetched DEF Call
<1>2. ip' \in Places
  BY <1>1, ProgramAssumption DEF Places
<1>3. ControlOK'
  BY <1>1, <1>2, ControlStays DEF MachineInv
<1>4. StackOK'
  <2>1. ip + 1 \in 0 .. Len(Code) + 1 /\ IsStack(calls) /\ calls # <<>>
    BY <1>1 DEF Places, MachineInv, StackOK
  <2> HIDE DEF e
  <2> QED BY <1>1, <2>1, StackPush DEF StackOK
<1> QED BY <1>1, <1>3, <1>4, NetStays, PromisesStay, EntitiesStay DEF MachineInv, locals

\* The id of a new promise is the next one, or, when they have run out, the first.
LEMMA NextId ==
  ASSUME PromisesOK
  PROVE  \E n \in 0 .. PromiseSlots :
           /\ DOMAIN promises = 0 .. n - 1 /\ Cardinality(DOMAIN promises) = n
           /\ NextPromise = IF n = PromiseSlots THEN 0 ELSE n
<1>1. PICK n \in 0 .. PromiseSlots : DOMAIN promises = 0 .. n - 1
  BY DEF PromisesOK
<1>2. PromiseSlots \in Nat \ {0} /\ n \in Nat /\ n <= PromiseSlots
  BY SlotsAssumption
<1>3. Cardinality(0 .. n - 1) = n
  <2>1. 0 \in Int /\ n - 1 \in Int
    BY <1>2
  <2>2. Cardinality(0 .. n - 1) = IF 0 > n - 1 THEN 0 ELSE n - 1 - 0 + 1
    BY <2>1, FS_Interval
  <2> QED BY <1>2, <2>2
<1>4. n % PromiseSlots = IF n = PromiseSlots THEN 0 ELSE n
  BY <1>2
<1> QED BY <1>1, <1>3, <1>4 DEF NextPromise

LEMMA MessageKeeps ==
  ASSUME MachineInv, Message
  PROVE  MachineInv'
<1> DEFINE n == Code[ip].n
           r == Request(msg.dst, Popped(n + 1).addr, Code[ip].fn, PopArgs(n), {NextPromise})
           q == Promise(asker, msg.src)
<1>1. /\ ip' = ip + 1 /\ mode = "run" /\ mode' = mode /\ ip + 1 \in Places
      /\ UNCHANGED <<locals, calls, entities>>
      /\ net' = Mail!BagAdd(net, r) /\ promises' = Put(promises, NextPromise, q)
  BY Fetched DEF Message, Advance
<1>2. PICK k \in 0 .. PromiseSlots :
        DOMAIN promises = 0 .. k - 1 /\ NextPromise = IF k = PromiseSlots THEN 0 ELSE k
  BY NextId DEF MachineInv
<1>3. k \in Nat /\ PromiseSlots \in Nat \ {0} /\ k <= PromiseSlots
  BY SlotsAssumption
<1>4. OneId(r.prom)
  <2>1. r.prom = {NextPromise} /\ NextPromise \in Nat
    BY <1>2, <1>3 DEF Request
  <2> QED BY <2>1, OneIds
<1>5. NetOK'
  <2> HIDE DEF r
  <2>1. IsABag(net') /\ DOMAIN net' = DOMAIN net \cup {r}
    BY <1>1, BagAdded DEF MachineInv, NetOK
  <2> QED BY <1>4, <2>1 DEF MachineInv, NetOK
<1>6. ControlOK'
  BY <1>1, ControlStays DEF MachineInv
<1>7. StackOK'
  BY <1>1 DEF MachineInv, StackOK
<1>8. IsPromise(q)
  <2>1. IsStack(<<>>) /\ OneId(asker)
    BY DEF IsStack, Frames, Range, MachineInv, ControlOK
  <2> QED BY <2>1 DEF Promise, IsPromise
<1>9. PromisesOK'
  <2> HIDE DEF q
  <2>1. DOMAIN promises' = DOMAIN promises \cup {NextPromise}
    BY <1>1 DEF Put
  <2>2. \E j \in 0 .. PromiseSlots : DOMAIN promises' = 0 .. j - 1
    <3>1. CASE k = PromiseSlots
      <4>1. DOMAIN promises' = 0 .. k - 1
        BY <1>2, <1>3, <2>1, <3>1
      <4> QED BY <4>1
    <3>2. CASE k # PromiseSlots
      <4>1. DOMAIN promises' = 0 .. (k + 1) - 1 /\ k + 1 \in 0 .. PromiseSlots
        BY <1>2, <1>3, <2>1, <3>2
      <4> QED BY <4>1
    <3> QED BY <3>1, <3>2
  <2>3. \A p \in DOMAIN promises' : IsPromise(promises'[p])
    BY <1>1, <1>8 DEF Put, MachineInv, PromisesOK
  <2>4. IsPromise(point)'
    BY <1>1 DEF locals, MachineInv, PromisesOK
  <2> QED BY <2>2, <2>3, <2>4 DEF PromisesOK
<1> QED BY <1>1, <1>5, <1>6, <1>7, <1>9, EntitiesStay DEF MachineInv

\* What Await does to the promises.
LEMMA Awaited ==
  ASSUME MachineInv, Await
  PROVE  /\ DOMAIN promises' = DOMAIN promises
         /\ \A p \in DOMAIN promises :
              \/ promises'[p] = promises[p]
              \/ /\ IsPromise(promises'[p])
                 /\ promises'[p].resume = Append(promises[p].resume, ip + 1)
                 /\ promises'[p].src = promises[p].src /\ promises'[p].to = promises[p].to
<1> DEFINE x == Popped(1)
           o == Under(1)
<1>1. /\ mode = "run" /\ ip + 1 \in Places
      /\ promises' = IF IsProm(x)
                     THEN [promises EXCEPT ![x.prom].ops = o, ![x.prom].calls = calls,
                                           ![x.prom].resume = Append(@, ip + 1)]
                     ELSE promises
  BY Fetched DEF Await
<1> HIDE DEF x, o
<1>2. DOMAIN promises' = DOMAIN promises
  BY <1>1
<1>3. ASSUME NEW p \in DOMAIN promises, promises'[p] # promises[p]
      PROVE  /\ IsPromise(promises'[p])
             /\ promises'[p].resume = Append(promises[p].resume, ip + 1)
             /\ promises'[p].src = promises[p].src /\ promises'[p].to = promises[p].to
  <2> DEFINE q == promises[p]
             s == [vars |-> q.vars, resume |-> Append(q.resume, ip + 1), ops |-> o,
                   calls |-> calls, src |-> q.src, to |-> q.to]
  <2>1. IsPromise(q) /\ IsStack(calls)
    BY DEF MachineInv, PromisesOK, StackOK
  <2>2. q = [vars |-> q.vars, resume |-> q.resume, ops |-> q.ops, calls |-> q.calls,
             src |-> q.src, to |-> q.to]
    BY <2>1 DEF IsPromise
  <2>3. promises'[p] = s
    BY <1>1, <1>3, <2>2
  <2>4. Append(q.resume, ip + 1) \in Seq(Places)
    BY <1>1, <2>1 DEF IsPromise
  <2>5. IsPromise(s)
    <3> HIDE DEF q
    <3> QED BY <2>1, <2>4, PromiseChanged
  <2> QED BY <2>3, <2>5
<1> QED BY <1>2, <1>3

LEMMA AwaitKeeps ==
  ASSUME MachineInv, Await
  PROVE  MachineInv'
<1>1. /\ mode = "run" /\ mode' = "yielded" /\ ip' = ip + 1 /\ ip + 1 \in Places
      /\ UNCHANGED <<net, locals, calls, entities>>
  BY Fetched DEF Await
<1>2. ControlOK'
  BY <1>1, ControlStays DEF MachineInv
<1>3. StackOK'
  BY <1>1 DEF MachineInv, StackOK
<1>4. PromisesOK'
  <2>1. DOMAIN promises' = DOMAIN promises /\ \A p \in DOMAIN promises : IsPromise(promises'[p])
    BY Awaited DEF MachineInv, PromisesOK
  <2> QED BY <1>1, <2>1 DEF MachineInv, PromisesOK, locals
<1> QED BY <1>1, <1>2, <1>3, <1>4, NetStays, EntitiesStay DEF MachineInv

LEMMA RetKeeps ==
  ASSUME MachineInv, Ret
  PROVE  MachineInv'
<1>1. /\ mode = "run" /\ ip + 1 \in Places /\ calls' = Front(calls)
      /\ UNCHANGED <<net, locals, ops, promises, entities>>
      /\ Code[ip].op = "Ret" /\ Fine(Code[ip])
      /\ IF Last(calls).ret = NoReturn
         THEN mode' = "ended" /\ ip' = ip + 1
         ELSE ip' = Last(calls).ret /\ UNCHANGED mode
  BY Fetched DEF Ret
<1>2. /\ IsStack(Front(calls)) /\ Last(calls).ret \in 0 .. Len(Code) + 1
      /\ Last(calls).ret # NoReturn => Front(calls) # <<>>
  BY <1>1, StackPop DEF Fine, MachineInv, StackOK
<1>3. ip' \in Places
  <2>1. Len(Code) \in Nat
    BY ProgramAssumption
  <2> QED BY <1>1, <1>2, <2>1 DEF Places, NoReturn
<1>4. ControlOK'
  BY <1>1, <1>3, ControlStays DEF MachineInv
<1>5. StackOK'
  BY <1>1, <1>2 DEF StackOK
<1> QED BY <1>1, <1>4, <1>5, NetStays, PromisesStay, EntitiesStay DEF MachineInv, locals

LEMMA ForeignKeeps ==
  ASSUME MachineInv, Foreign
  PROVE  MachineInv'
<1> DEFINE r == Request(Addr(0, 0), Addr(1, 0), 2, <<>>, {})
<1>1. /\ ip' = ip + 1 /\ mode = "run" /\ mode' = mode /\ ip + 1 \in Places
      /\ UNCHANGED <<locals, calls, promises, entities>>
      /\ net' \in {net, Mail!BagAdd(net, r)}
  BY Fetched DEF Foreign, Advance
<1>2. OneId(r.prom)
  BY OneIds DEF Request
<1>3. NetOK'
  <2> HIDE DEF r
  <2>1. IsABag(Mail!BagAdd(net, r)) /\ DOMAIN Mail!BagAdd(net, r) = DOMAIN net \cup {r}
    BY BagAdded DEF MachineInv, NetOK
  <2> QED BY <1>1, <1>2, <2>1 DEF MachineInv, NetOK
<1>4. ControlOK'
  BY <1>1, ControlStays DEF MachineInv
<1>5. StackOK'
  BY <1>1 DEF MachineInv, StackOK
<1> QED BY <1>1, <1>3, <1>4, <1>5, PromisesStay, EntitiesStay DEF MachineInv, locals

-----------------------------------------------------------------------------
(* The theorems *)

LEMMA NextMachine == MachineInv /\ [Next]_vars => MachineInv'
<1> SUFFICES ASSUME MachineInv, [Next]_vars PROVE MachineInv'
  OBVIOUS
<1>1. CASE Machine
  BY <1>1, AcceptRequestKeeps, AcceptResponseKeeps, ResumeKeeps, EndKeeps, ReturnKeeps, StopKeeps,
     OperandsKeep, LstoreKeeps, EstoreKeeps, ConstructKeeps, CallKeeps, MessageKeeps, AwaitKeeps,
     RetKeeps, ForeignKeeps DEF Machine, Instruction
<1>2. CASE Peers
  BY <1>2, PeerAnswersKeeps DEF Peers
<1>3. CASE UNCHANGED vars
  BY <1>3 DEF vars, locals, vat, MachineInv, NetOK, ControlOK, StackOK, PromisesOK, EntitiesOK
<1> QED BY <1>1, <1>2, <1>3 DEF Next

LEMMA MachineTypes == MachineInv => TypeOK
<1> SUFFICES ASSUME MachineInv PROVE TypeOK
  OBVIOUS
<1>1. PICK n \in 0 .. PromiseSlots :
        DOMAIN promises = 0 .. n - 1 /\ Cardinality(DOMAIN promises) = n
  BY NextId DEF MachineInv
<1>2. DOMAIN promises = 0 .. Cardinality(DOMAIN promises) - 1 /\ DOMAIN promises \subseteq Slots
  BY <1>1, SlotsAssumption DEF Slots
<1>3. Frames(calls) /\ \A p \in DOMAIN promises : Frames(promises[p].calls)
  BY DEF MachineInv, StackOK, PromisesOK, IsPromise, IsStack
<1> QED BY <1>2, <1>3
        DEF MachineInv, NetOK, ControlOK, StackOK, EntitiesOK, IsEntity, OneId, Places, TypeOK

\* Whatever a program does, the machine stays well formed: code goes on where an
\* instruction or the end of the code is, every frame that is popped leads back
\* into the code, and the ids of promises have no gaps (vm.rs:66-323, 325-399).
THEOREM MachineType == Spec => []TypeOK
<1> QED BY InitMachine, NextMachine, MachineTypes, PTL DEF Spec

LEMMA LongerResume ==
  ASSUME NEW s \in Seq(Places)
  PROVE  IsPrefix(s, s) /\ \A r \in Places : IsPrefix(s, Append(s, r))
<1>1. Len(s) \in Nat /\ SubSeq(s, 1, Len(s)) = s
  OBVIOUS
<1>2. \A r \in Places : Len(Append(s, r)) = Len(s) + 1 /\ SubSeq(Append(s, r), 1, Len(s)) = s
  OBVIOUS
<1> QED BY <1>1, <1>2 DEF IsPrefix

\* As long as ids have not run out, a new promise never takes the place of one
\* that somebody may be waiting for, and who waits stays noted: in any program,
\* with any number of handlers under way (vm.rs:191, 214, 235).
THEOREM PromisesAreKept == Spec => PromiseKept
<1>1. ASSUME MachineInv, [Next]_vars, Cardinality(DOMAIN promises) < PromiseSlots,
             NEW p \in DOMAIN promises
      PROVE  p \in DOMAIN promises' /\ IsPrefix(promises[p].resume, promises'[p].resume)
  <2>1. promises[p].resume \in Seq(Places)
    BY <1>1 DEF MachineInv, PromisesOK, IsPromise
  <2>2. CASE UNCHANGED promises
    BY <1>1, <2>1, <2>2, LongerResume
  <2>3. CASE Message
    <3>1. NextPromise \notin DOMAIN promises
      BY <1>1, NextId, SlotsAssumption DEF MachineInv
    <3>2. p \in DOMAIN promises' /\ promises'[p] = promises[p]
      BY <1>1, <2>3, <3>1 DEF Message, Put
    <3> QED BY <2>1, <3>2, LongerResume
  <2>4. CASE Await
    <3>1. ip + 1 \in Places
      BY <2>4, Fetched DEF Await
    <3>2. /\ p \in DOMAIN promises'
          /\ promises'[p].resume \in {promises[p].resume, Append(promises[p].resume, ip + 1)}
      BY <1>1, <2>4, Awaited
    <3> QED BY <2>1, <3>1, <3>2, LongerResume
  <2>5. CASE Lstore
    <3>1. p \in DOMAIN promises' /\ promises'[p].resume = promises[p].resume
      <4> DEFINE x == Popped(1)
                 k == Code[ip].k
                 q == promises[p]
      <4>1. promises' = IF IsProm(x) THEN [promises EXCEPT ![x.prom].vars = Append(@, k)]
                        ELSE promises
        BY <2>5 DEF Lstore
      <4>2. q = [vars |-> q.vars, resume |-> q.resume, ops |-> q.ops, calls |-> q.calls,
                 src |-> q.src, to |-> q.to]
        BY <1>1 DEF MachineInv, PromisesOK, IsPromise
      <4> HIDE DEF x, k
      <4> QED BY <1>1, <4>1, <4>2
    <3> QED BY <2>1, <3>1, LongerResume
  <2>6. CASE Next /\ ~ Message /\ ~ Await /\ ~ Lstore
    <3>1. UNCHANGED promises
      BY <2>6 DEF Next, Machine, Peers, Instruction, AcceptRequest, AcceptResponse, Resume,
           EndRequest, EndContinuation, Return, TooManyOperands, CodeOverrun, Panic, Push, Arith,
           Lload, Eload, Estore, Construct, Call, Ret, Foreign, PeerAnswers, vat
    <3> QED BY <2>2, <3>1
  <2> QED BY <1>1, <2>2, <2>3, <2>4, <2>5, <2>6 DEF vars, vat
<1>2. MachineInv /\ [Next]_vars =>
        [Cardinality(DOMAIN promises) < PromiseSlots =>
           \A p \in DOMAIN promises :
             p \in DOMAIN promises' /\ IsPrefix(promises[p].resume, promises'[p].resume)]_vars
  BY <1>1
<1> QED BY <1>2, InitMachine, NextMachine, PTL DEF Spec, PromiseKept

-----------------------------------------------------------------------------
(* Answers and their promises *)

\* Who sends a message for itself uses a promise that it has, and so does who
\* answers it, on behalf of a handler that waited or not.
Known(m, ids) ==
  /\ m.kind = "request" /\ m.src.vat = Self => m.prom \subseteq ids
  /\ m.kind = "response" /\ m.dst.vat = Self => m.prom \subseteq ids
Back(p, ids) == p.to.vat = Self => p.src \subseteq ids
Linked ==
  /\ \A m \in DOMAIN net \cup reply : Known(m, DOMAIN promises)
  /\ \A p \in DOMAIN promises : Back(promises[p], DOMAIN promises)
  /\ Back(point, DOMAIN promises)
  /\ msg.kind = "request" => Known(msg, DOMAIN promises) /\ todo = <<>> /\ asker = msg.prom

\* No continuation sends a message.
OneLeg == Message => msg.kind = "request"

LEMMA NoneKnown == NoMsg.kind = "none" /\ \A ids : Back(NoPromise, ids)
BY DEF NoMsg, NoPromise, Promise, Back

LEMMA InitLinked == Init => Linked
<1> SUFFICES ASSUME Init PROVE Linked
  OBVIOUS
<1>1. \A m \in Requests : Known(m, DOMAIN promises)
  BY RequestAssumption DEF Known
<1>2. DOMAIN net = Requests /\ reply = {} /\ DOMAIN promises = {} /\ point = NoPromise /\ msg = NoMsg
  BY DEF Init
<1> QED BY <1>1, <1>2, NoneKnown DEF Linked

\* Steps that add known messages at most, and lose no promise.
LEMMA LinkedStays ==
  ASSUME Linked, NEW ids, ids = DOMAIN promises', DOMAIN promises \subseteq ids,
         UNCHANGED <<msg, asker, todo, point, reply>>,
         \A m \in DOMAIN net' : m \in DOMAIN net \/ Known(m, ids),
         \A p \in ids : \/ /\ p \in DOMAIN promises /\ promises'[p].src = promises[p].src
                           /\ promises'[p].to = promises[p].to
                        \/ Back(promises'[p], ids)
  PROVE  Linked'
<1>1. \A m : Known(m, DOMAIN promises) => Known(m, ids)
  BY DEF Known
<1>2. \A p : Back(p, DOMAIN promises) => Back(p, ids)
  BY DEF Back
<1>3. \A m \in DOMAIN net' \cup reply' : Known(m, ids)
  BY <1>1 DEF Linked
<1>4. \A p \in ids : Back(promises'[p], ids)
  <2> SUFFICES ASSUME NEW p \in ids, p \in DOMAIN promises, promises'[p].src = promises[p].src,
                      promises'[p].to = promises[p].to
               PROVE  Back(promises'[p], ids)
    OBVIOUS
  <2>1. Back(promises[p], ids)
    BY <1>2 DEF Linked
  <2> QED BY <2>1 DEF Back
<1>5. Back(point', ids)
  BY <1>2 DEF Linked
<1>6. msg'.kind = "request" => Known(msg', ids) /\ todo' = <<>> /\ asker' = msg'.prom
  BY <1>1 DEF Linked
<1> QED BY <1>3, <1>4, <1>5, <1>6 DEF Linked

LEMMA AcceptLinked ==
  ASSUME MachineInv, Linked, NEW m \in DOMAIN net, AcceptRequest(m) \/ AcceptResponse(m)
  PROVE  Linked'
<1>1. /\ mode = "idle" /\ net' = Mail!BagRemove(net, m) /\ msg' = m /\ UNCHANGED <<reply, promises>>
      /\ \/ m.kind = "request" /\ asker' = m.prom /\ UNCHANGED <<todo, point>>
         \/ m.kind = "response" /\ (point' = point \/ \E id \in DOMAIN promises : point' = promises[id])
  BY DEF AcceptRequest, AcceptResponse, vat
<1>2. DOMAIN net' \subseteq DOMAIN net
  BY <1>1, BagRemoved DEF MachineInv, NetOK
<1>3. todo = <<>>
  BY <1>1 DEF MachineInv, ControlOK
<1>4. m.kind # "request" \/ m.kind # "response"
  OBVIOUS
<1>5. Known(m, DOMAIN promises) /\ Back(point', DOMAIN promises)
  BY <1>1 DEF Linked
<1> QED BY <1>1, <1>2, <1>3, <1>4, <1>5 DEF Linked

LEMMA ResumeLinked ==
  ASSUME Linked, Resume
  PROVE  Linked'
<1>1. todo # <<>> /\ UNCHANGED <<net, msg, point, reply, promises>>
  BY DEF Resume
<1>2. msg.kind # "request"
  BY <1>1 DEF Linked
<1> QED BY <1>1, <1>2 DEF Linked

LEMMA EndLinked ==
  ASSUME Linked, EndRequest \/ EndContinuation
  PROVE  Linked'
<1>1. /\ UNCHANGED <<net, msg, asker, todo, point, promises>>
      /\ \A r \in reply' : \/ r \in reply
                           \/ msg.kind = "request" /\ r = Response(msg.dst, msg.src, Result, msg.prom)
                           \/ r = Response(msg.dst, point.to, Result, point.src)
  BY DEF EndRequest, EndContinuation
<1>2. \A r \in reply' : Known(r, DOMAIN promises)
  <2>1. \A x, y, z, w : /\ Response(x, y, z, w).kind = "response"
                        /\ Response(x, y, z, w).dst = y /\ Response(x, y, z, w).prom = w
    BY DEF Response
  <2> QED BY <1>1, <2>1 DEF Known, Back, Linked
<1> QED BY <1>1, <1>2 DEF Linked

LEMMA ReturnLinked ==
  ASSUME MachineInv, Linked, Return
  PROVE  Linked'
<1>1. /\ msg' = NoMsg /\ point' = NoPromise /\ reply' = {} /\ UNCHANGED promises
      /\ net' = net \/ \E m \in reply : net' = Mail!BagAdd(net, m)
  BY DEF Return, vat
<1>2. DOMAIN net' \subseteq DOMAIN net \cup reply
  <2>1. \A m : DOMAIN Mail!BagAdd(net, m) = DOMAIN net \cup {m}
    BY BagAdded DEF MachineInv, NetOK
  <2> QED BY <1>1, <2>1
<1> QED BY <1>1, <1>2, NoneKnown DEF Linked

LEMMA PeerLinked ==
  ASSUME MachineInv, Linked, NEW m \in DOMAIN net, PeerAnswers(m)
  PROVE  Linked'
<1>1. PICK r : r = Response(m.dst, m.src, PeerAnswer[m.fn], m.prom)
  OBVIOUS
<1>2. /\ m.kind = "request" /\ net' = Mail!BagAdd(Mail!BagRemove(net, m), r)
      /\ UNCHANGED <<msg, asker, todo, point, reply, promises>>
  BY <1>1 DEF PeerAnswers, locals, vat
<1>3. Known(r, DOMAIN promises)
  <2>1. r.kind = "response" /\ r.dst = m.src /\ r.prom = m.prom
    BY <1>1 DEF Response
  <2>2. Known(m, DOMAIN promises)
    BY DEF Linked
  <2> QED BY <1>2, <2>1, <2>2 DEF Known
<1>4. DOMAIN net' \subseteq DOMAIN net \cup {r}
  <2>1. IsABag(Mail!BagRemove(net, m)) /\ DOMAIN Mail!BagRemove(net, m) \subseteq DOMAIN net
    BY BagRemoved DEF MachineInv, NetOK
  <2>2. DOMAIN net' = DOMAIN Mail!BagRemove(net, m) \cup {r}
    BY <1>2, <2>1, BagAdded
  <2> QED BY <2>1, <2>2
<1> QED BY <1>2, <1>3, <1>4, LinkedStays

LEMMA LstoreLinked ==
  ASSUME MachineInv, Linked, Lstore
  PROVE  Linked'
<1> DEFINE x == Popped(1)
           k == Code[ip].k
<1>1. /\ UNCHANGED <<net, msg, asker, todo, point, reply>>
      /\ promises' = IF IsProm(x) THEN [promises EXCEPT ![x.prom].vars = Append(@, k)] ELSE promises
  BY DEF Lstore, Advance, locals
<1> HIDE DEF x, k
<1>2. DOMAIN promises' = DOMAIN promises
  BY <1>1
<1>3. ASSUME NEW p \in DOMAIN promises
      PROVE  promises'[p].src = promises[p].src /\ promises'[p].to = promises[p].to
  <2> DEFINE q == promises[p]
  <2>1. q = [vars |-> q.vars, resume |-> q.resume, ops |-> q.ops, calls |-> q.calls,
             src |-> q.src, to |-> q.to]
    BY DEF MachineInv, PromisesOK, IsPromise
  <2> QED BY <1>1, <2>1
<1> QED BY <1>1, <1>2, <1>3, LinkedStays

LEMMA AwaitLinked ==
  ASSUME MachineInv, Linked, Await
  PROVE  Linked'
<1>1. UNCHANGED <<net, msg, asker, todo, point, reply>>
  BY DEF Await, locals
<1>2. /\ DOMAIN promises' = DOMAIN promises
      /\ \A p \in DOMAIN promises : promises'[p].src = promises[p].src /\ promises'[p].to = promises[p].to
  BY Awaited
<1> QED BY <1>1, <1>2, LinkedStays

\* A handler sends a message: its promise will answer whoever asked the handler.
LEMMA MessageLinked ==
  ASSUME MachineInv, Linked, Message, msg.kind = "request"
  PROVE  Linked'
<1> DEFINE n == Code[ip].n
<1>1. PICK r, q : /\ r = Request(msg.dst, Popped(n + 1).addr, Code[ip].fn, PopArgs(n), {NextPromise})
                  /\ q = Promise(asker, msg.src)
  OBVIOUS
<1>2. /\ UNCHANGED <<msg, asker, todo, point, reply>>
      /\ net' = Mail!BagAdd(net, r) /\ promises' = Put(promises, NextPromise, q)
  BY <1>1 DEF Message, Advance, locals
<1>3. /\ DOMAIN promises' = DOMAIN promises \cup {NextPromise}
      /\ \A p \in DOMAIN promises' : promises'[p] = IF p = NextPromise THEN q ELSE promises[p]
  BY <1>2 DEF Put
<1>4. DOMAIN net' = DOMAIN net \cup {r}
  BY <1>2, BagAdded DEF MachineInv, NetOK
<1>5. Known(r, DOMAIN promises')
  BY <1>1, <1>3 DEF Known, Request
<1>6. Back(q, DOMAIN promises')
  <2>1. q.src = msg.prom /\ q.to = msg.src
    BY <1>1 DEF Promise, Linked
  <2>2. msg.src.vat = Self => msg.prom \subseteq DOMAIN promises
    BY DEF Linked, Known
  <2> QED BY <1>3, <2>1, <2>2 DEF Back
<1>7. \A p \in DOMAIN promises' : \/ /\ p \in DOMAIN promises /\ promises'[p].src = promises[p].src
                                     /\ promises'[p].to = promises[p].to
                                  \/ Back(promises'[p], DOMAIN promises')
  BY <1>3, <1>6
<1> QED BY <1>2, <1>3, <1>4, <1>5, <1>7, LinkedStays

LEMMA ForeignLinked ==
  ASSUME MachineInv, Linked, Foreign
  PROVE  Linked'
<1>1. PICK r : r = Request(Addr(0, 0), Addr(1, 0), 2, <<>>, {})
  OBVIOUS
<1>2. /\ UNCHANGED <<msg, asker, todo, point, reply, promises>>
      /\ net' \in {net, Mail!BagAdd(net, r)}
  BY <1>1 DEF Foreign, Advance, locals
<1>3. Known(r, DOMAIN promises)
  BY <1>1 DEF Known, Request
<1>4. DOMAIN net' \subseteq DOMAIN net \cup {r}
  BY <1>2, BagAdded DEF MachineInv, NetOK
<1> QED BY <1>2, <1>3, <1>4, LinkedStays

LEMMA NextLinked == MachineInv /\ Linked /\ [Next]_vars /\ [OneLeg]_vars => Linked'
<1> SUFFICES ASSUME MachineInv, Linked, [Next]_vars, [OneLeg]_vars PROVE Linked'
  OBVIOUS
<1>1. ASSUME UNCHANGED <<net, msg, asker, todo, point, reply, promises>> PROVE Linked'
  BY <1>1 DEF Linked
<1>2. ASSUME UNCHANGED vars PROVE Linked'
  BY <1>1, <1>2 DEF vars, locals, vat
<1>3. ASSUME Instruction, OneLeg PROVE Linked'
  <2>1. Push \/ Lload \/ Eload \/ Estore \/ Construct \/ Call \/ Ret \/ (\E op \in Arithmetic : Arith(op))
        => UNCHANGED <<net, msg, asker, todo, point, reply, promises>>
    BY DEF Push, Lload, Eload, Estore, Construct, Call, Ret, Arith, Advance, locals
  <2> QED BY <1>1, <1>3, <2>1, LstoreLinked, AwaitLinked, MessageLinked, ForeignLinked DEF Instruction, OneLeg
<1>4. ASSUME TooManyOperands \/ CodeOverrun \/ Panic PROVE Linked'
  <2>1. UNCHANGED <<net, msg, asker, todo, point, reply, promises>>
    BY <1>4 DEF TooManyOperands, CodeOverrun, Panic, locals, vat
  <2> QED BY <1>1, <2>1
<1>5. ASSUME Machine, OneLeg PROVE Linked'
  BY <1>3, <1>4, <1>5, AcceptLinked, ResumeLinked, EndLinked, ReturnLinked DEF Machine
<1>6. ASSUME Peers PROVE Linked'
  BY <1>6, PeerLinked DEF Peers
<1> QED BY <1>2, <1>5, <1>6 DEF Next

\* If no continuation sends a message, an answer to this vat finds the promise
\* that run_msg unwraps (vm.rs:364), whoever sent it and whatever has been
\* handled in between.  A continuation that sends one notes the wrong asker
\* (vm.rs:212), and then an answer may go to a vat that expects none.
THEOREM AnswersFindPromises == Spec /\ [][OneLeg]_vars => []AnswerHasPromise
<1>1. Linked => AnswerHasPromise
  BY DEF Linked, Known, AnswerHasPromise
<1> QED BY <1>1, InitMachine, NextMachine, InitLinked, NextLinked, PTL DEF Spec

-----------------------------------------------------------------------------
(* One answer for each request *)

\* Whom an answer is due to, and for what.  Within the vat the promise tells.
Due(a, s) == [of |-> IF a.vat = Self THEN Addr(Self, 0) ELSE a, prom |-> s]
DueOf(m) == IF m.kind = "request" THEN Due(m.src, m.prom) ELSE Due(m.dst, m.prom)
Mine(p) == [of |-> Addr(Self, 0), prom |-> {p}]
\* nmup's requests do not say who waits for an answer.
Nobody == Due(Addr(0, 0), {})

\* The request whose handler runs, or for which a continuation does.
Busy == mode \in {"run", "ended"} \/ (mode = "next" /\ todo # <<>>)
Asks == IF msg.kind = "request" THEN Due(msg.src, msg.prom) ELSE Due(point.to, point.src)

\* What may still become the answer k: a request or a response on its way, the
\* response about to be sent, the handler that runs, and a handler that waits
\* for a promise out of W, the promises that are not answered yet.
Debt(k, x, W) ==
  /\ k # Nobody
  /\ \/ \E m \in DOMAIN net : DueOf(m) = k /\ x = <<"mail", m>>
     \/ \E m \in reply : DueOf(m) = k /\ x = <<"reply", m>>
     \/ Busy /\ Asks = k /\ x = <<"now", 0>>
     \/ \E p \in W : /\ promises[p].resume # <<>>
                     /\ Due(promises[p].to, promises[p].src) = k /\ x = <<"wait", p>>

Single(W) == \A k, x, y : Debt(k, x, W) /\ Debt(k, y, W) => x = y
OnlyOpen(W) == \A p, x : Debt(Mine(p), x, W) => p \in W
Once == \A m \in DOMAIN net : DueOf(m) # Nobody => net[m] = 1
Owed(W) == W \subseteq DOMAIN promises /\ Single(W) /\ OnlyOpen(W) /\ Once

\* Whose requests there are, and which of them nobody answers.
Origins ==
  \A m \in DOMAIN net \cup {msg} :
    m.kind = "request" => m \in Requests \/ DueOf(m) = Nobody \/ m.src.vat = Self
Hushed ==
  /\ \A m \in reply : m.kind = "response"
  /\ \A q \in Requests, m \in DOMAIN net \cup reply :
       q.mute /\ m.kind = "response" => DueOf(m) # DueOf(q)

\* At most one continuation waits for a promise, and none while one runs.
Slim(s) == s = <<>> \/ Tail(s) = <<>>
Thin ==
  /\ \A p \in DOMAIN promises : Slim(promises[p].resume)
  /\ Slim(todo) /\ (mode \in {"run", "ended", "yielded"} => todo = <<>>)
  /\ mode # "idle" => msg.dst.vat = Self

OneAnswerInv == MachineInv /\ Linked /\ Thin /\ Origins /\ Hushed /\ \E W : Owed(W)

\* A handler awaits a promise of its own, which nobody awaits already.
ForWhom == IF msg.kind = "request" THEN <<msg.src, msg.prom>> ELSE <<point.to, point.src>>
OwnAwait ==
  Await /\ IsProm(Popped(1)) =>
    LET p == promises[Popped(1).prom] IN p.resume = <<>> /\ <<p.to, p.src>> = ForWhom
\* There is an id left for a new promise.
IdsLeft == Message => Cardinality(DOMAIN promises) < PromiseSlots
Disciplined == OneLeg /\ OwnAwait /\ IdsLeft

\* Requests that want an answer can be told apart, and say who wants it.
RequestsApart ==
  /\ \A q, r \in Requests : q.src = r.src /\ q.prom = r.prom => q = r
  /\ \A q \in Requests : q.src = Addr(0, 0) => q.prom # {}
  /\ \A q \in Requests : q.mute => q.prom = {}

\* Option<u32>
LEMMA OneIdIs == \A s, p : OneId(s) /\ p \in s => s = {p}
<1> SUFFICES ASSUME NEW s, NEW p \in s, OneId(s) PROVE s = {p}
  OBVIOUS
<1>1. Cardinality(s) \in Nat /\ (Cardinality(s) = 0 <=> s = {}) /\ IsFiniteSet(s)
  BY FS_CardinalityType, FS_EmptySet DEF OneId
<1>2. Cardinality(s) = 1
  BY <1>1 DEF OneId
<1> QED BY <1>1, <1>2, FS_Singleton

\* Ways to name an answer.
LEMMA MineIs == \A p, a : Mine(p) # Nobody /\ (a.vat = Self => Due(a, {p}) = Mine(p))
BY DEF Mine, Nobody, Due

LEMMA DueIs ==
  /\ \A q \in Requests : q.kind = "request" /\ DueOf(q) = [of |-> q.src, prom |-> q.prom]
                         /\ q.src.vat # Self /\ q.src # Addr(Self, 0)
  /\ \A a, s : Due(a, s).prom = s /\ (a.vat = Self => Due(a, s).of = Addr(Self, 0))
BY RequestAssumption DEF DueOf, Due, Addr

LEMMA RequestIsDue == RequestsApart => \A q \in Requests : DueOf(q) # Nobody
<1> SUFFICES ASSUME RequestsApart, NEW q \in Requests PROVE DueOf(q) # Nobody
  OBVIOUS
<1>1. DueOf(q) = [of |-> q.src, prom |-> q.prom] /\ q.src # Addr(Self, 0)
  BY DueIs
<1>2. Nobody.prom = {} /\ Nobody.of \in {Addr(Self, 0), Addr(0, 0)}
  BY DEF Nobody, Due
<1>3. q.src = Addr(0, 0) => q.prom # {}
  BY DEF RequestsApart
<1> QED BY <1>1, <1>2, <1>3

LEMMA Responds ==
  ASSUME NEW a, NEW b, NEW x, NEW s
  PROVE  /\ Response(a, b, x, s).kind = "response" /\ Response(a, b, x, s).dst = b
         /\ Response(a, b, x, s).prom = s /\ DueOf(Response(a, b, x, s)) = Due(b, s)
BY DEF Response, DueOf

\* Counting.
LEMMA Added ==
  ASSUME NEW B, IsABag(B), NEW x
  PROVE  /\ x \notin DOMAIN B => Mail!BagAdd(B, x)[x] = 1
         /\ \A y \in DOMAIN B : y # x => Mail!BagAdd(B, x)[y] = B[y]
BY DEF IsABag, Mail!BagAdd

LEMMA Removed ==
  ASSUME NEW B, IsABag(B), NEW x \in DOMAIN B
  PROVE  /\ DOMAIN Mail!BagRemove(B, x) \subseteq DOMAIN B
         /\ \A y \in DOMAIN B : y # x => Mail!BagRemove(B, x)[y] = B[y]
         /\ B[x] = 1 => x \notin DOMAIN Mail!BagRemove(B, x)
<1>1. CASE B[x] = 1
  BY <1>1 DEF Mail!BagRemove
<1>2. CASE B[x] # 1
  BY <1>2 DEF Mail!BagRemove
<1> QED BY <1>1, <1>2

\* Steps after which there is less that can become an answer, and steps in
\* which one thing becomes another.
LEMMA DebtsFewer ==
  ASSUME NEW W, Single(W), OnlyOpen(W), \A k, x : Debt(k, x, W)' => Debt(k, x, W)
  PROVE  Single(W)' /\ OnlyOpen(W)'
BY DEF Single, OnlyOpen

\* What could become the answer c, o, turns into n.
Becomes(c, o, n, W) ==
  /\ c # Nobody => Debt(c, o, W)
  /\ \A k, x : Debt(k, x, W)' => (Debt(k, x, W) /\ (k = c => x # o)) \/ (k = c /\ x = n)

LEMMA DebtMoves ==
  ASSUME NEW W, NEW c, NEW o, NEW n, Single(W), OnlyOpen(W), Becomes(c, o, n, W)
  PROVE  Single(W)' /\ OnlyOpen(W)'
<1>1. \A k, x : Debt(k, x, W)' => k # Nobody
  BY DEF Debt, Nobody, Due
<1>2. \A x : Debt(c, x, W)' => x = n
  BY <1>1 DEF Single, Becomes
<1>3. \A k, x : Debt(k, x, W)' /\ k # c => Debt(k, x, W)
  BY DEF Becomes
<1>4. Single(W)'
  BY <1>2, <1>3 DEF Single
<1>5. OnlyOpen(W)'
  <2> SUFFICES ASSUME NEW p, NEW x, Debt(Mine(p), x, W)' PROVE p \in W
    BY DEF OnlyOpen, Mine
  <2>1. \E y : Debt(Mine(p), y, W)
    BY <1>1 DEF Becomes
  <2> QED BY <2>1 DEF OnlyOpen
<1> QED BY <1>4, <1>5

-----------------------------------------------------------------------------
(* One answer: who waits *)

LEMMA ThinInit == Init => Thin
<1> SUFFICES ASSUME Init PROVE Thin
  OBVIOUS
<1>1. DOMAIN promises = {} /\ todo = <<>> /\ mode = "idle"
  BY DEF Init
<1> QED BY <1>1 DEF Thin, Slim

LEMMA ThinStays ==
  ASSUME Thin, UNCHANGED <<msg, todo>>, mode \in {"run", "ended", "yielded"}, 
         DOMAIN promises' = DOMAIN promises,
         \A p \in DOMAIN promises : promises'[p].resume = promises[p].resume
  PROVE  Thin'
BY DEF Thin

\* What an instruction does to the places where handlers go on.
LEMMA LstoreResumes ==
  ASSUME MachineInv, Lstore
  PROVE  /\ DOMAIN promises' = DOMAIN promises
         /\ \A p \in DOMAIN promises :
              /\ promises'[p].resume = promises[p].resume
              /\ promises'[p].src = promises[p].src /\ promises'[p].to = promises[p].to
<1> DEFINE x == Popped(1)
           k == Code[ip].k
<1>1. promises' = IF IsProm(x) THEN [promises EXCEPT ![x.prom].vars = Append(@, k)] ELSE promises
  BY DEF Lstore
<1> HIDE DEF x, k
<1>2. DOMAIN promises' = DOMAIN promises
  BY <1>1
<1>3. ASSUME NEW p \in DOMAIN promises
      PROVE  /\ promises'[p].resume = promises[p].resume
             /\ promises'[p].src = promises[p].src /\ promises'[p].to = promises[p].to
  <2> DEFINE q == promises[p]
  <2>1. q = [vars |-> q.vars, resume |-> q.resume, ops |-> q.ops, calls |-> q.calls,
             src |-> q.src, to |-> q.to]
    BY DEF MachineInv, PromisesOK, IsPromise
  <2> QED BY <1>1, <2>1
<1> QED BY <1>2, <1>3

LEMMA AwaitResumes ==
  ASSUME Await
  PROVE  /\ mode = "run" /\ mode' = "yielded" /\ UNCHANGED <<net, locals>>
         /\ \A p \in DOMAIN promises : promises'[p] # promises[p] => IsProm(Popped(1)) /\ p = Popped(1).prom
<1> DEFINE x == Popped(1)
           o == Under(1)
<1>1. promises' = IF IsProm(x)
                  THEN [promises EXCEPT ![x.prom].ops = o, ![x.prom].calls = calls,
                                        ![x.prom].resume = Append(@, ip + 1)]
                  ELSE promises
  BY DEF Await
<1> HIDE DEF x, o
<1>2. \A p \in DOMAIN promises : promises'[p] # promises[p] => IsProm(x) /\ p = x.prom
  BY <1>1
<1> QED BY <1>2 DEF x, Await, Fetch

LEMMA MessageAdds ==
  ASSUME MachineInv, Message, IdsLeft
  PROVE  \E r, q, p :
           /\ p = NextPromise /\ p \notin DOMAIN promises
           /\ r.kind = "request" /\ r.src = msg.dst /\ r.prom = {p} /\ q.resume = <<>>
           /\ DOMAIN promises' = DOMAIN promises \cup {p} /\ promises'[p] = q
           /\ \A i \in DOMAIN promises : promises'[i] = promises[i]
           /\ net' = Mail!BagAdd(net, r)
           /\ mode = "run" /\ UNCHANGED <<mode, locals>>
<1> DEFINE n == Code[ip].n
<1>1. PICK r, q : /\ r = Request(msg.dst, Popped(n + 1).addr, Code[ip].fn, PopArgs(n), {NextPromise})
                  /\ q = Promise(asker, msg.src)
  OBVIOUS
<1>2. /\ UNCHANGED <<mode, locals>> /\ mode = "run"
      /\ net' = Mail!BagAdd(net, r) /\ promises' = Put(promises, NextPromise, q)
  BY <1>1 DEF Message, Advance, Fetch
<1>3. NextPromise \notin DOMAIN promises
  <2>1. PICK m \in 0 .. PromiseSlots :
          /\ DOMAIN promises = 0 .. m - 1 /\ Cardinality(DOMAIN promises) = m
          /\ NextPromise = IF m = PromiseSlots THEN 0 ELSE m
    BY NextId DEF MachineInv
  <2>2. m # PromiseSlots
    BY <2>1, SlotsAssumption DEF IdsLeft
  <2> QED BY <2>1, <2>2
<1>4. /\ DOMAIN promises' = DOMAIN promises \cup {NextPromise} /\ promises'[NextPromise] = q
      /\ \A i \in DOMAIN promises : promises'[i] = promises[i]
  BY <1>2, <1>3 DEF Put
<1>5. r.kind = "request" /\ r.src = msg.dst /\ r.prom = {NextPromise} /\ q.resume = <<>>
  BY <1>1 DEF Request, Promise
<1> QED BY <1>2, <1>3, <1>4, <1>5

LEMMA AcceptThin ==
  ASSUME MachineInv, Thin, NEW m \in DOMAIN net, AcceptRequest(m) \/ AcceptResponse(m)
  PROVE  Thin'
<1>1. /\ msg' = m /\ m.dst.vat = Self /\ UNCHANGED promises /\ mode = "idle"
      /\ \/ UNCHANGED todo
         \/ mode' = "next" /\ \E id \in DOMAIN promises : todo' = promises[id].resume
  BY DEF AcceptRequest, AcceptResponse, vat
<1>2. todo = <<>>
  BY <1>1 DEF MachineInv, ControlOK
<1> QED BY <1>1, <1>2 DEF Thin, Slim

LEMMA AwaitThin ==
  ASSUME MachineInv, Thin, Await, OwnAwait
  PROVE  Thin'
<1>1. /\ mode = "run" /\ mode' = "yielded" /\ UNCHANGED <<msg, todo>>
      /\ \A p \in DOMAIN promises : promises'[p] # promises[p] => promises[p].resume = <<>>
  BY AwaitResumes DEF OwnAwait, locals
<1>2. /\ DOMAIN promises' = DOMAIN promises
      /\ \A p \in DOMAIN promises :
           promises'[p] = promises[p] \/ promises'[p].resume = Append(promises[p].resume, ip + 1)
  BY Awaited
<1>3. \A i : Slim(Append(<<>>, i))
  <2> TAKE i
  <2>1. Append(<<>>, i) = <<i>> /\ Tail(<<i>>) = <<>>
    OBVIOUS
  <2> QED BY <2>1 DEF Slim
<1>4. \A p \in DOMAIN promises' : Slim(promises'[p].resume)
  BY <1>1, <1>2, <1>3 DEF Thin
<1> QED BY <1>1, <1>4 DEF Thin

LEMMA MessageThin ==
  ASSUME MachineInv, Thin, Message, IdsLeft
  PROVE  Thin'
<1>1. PICK q, p : /\ q.resume = <<>> /\ DOMAIN promises' = DOMAIN promises \cup {p} /\ promises'[p] = q
                  /\ \A i \in DOMAIN promises : promises'[i] = promises[i]
                  /\ UNCHANGED <<mode, msg, todo>>
  BY MessageAdds DEF locals
<1>2. \A i \in DOMAIN promises' : Slim(promises'[i].resume)
  BY <1>1 DEF Thin, Slim
<1> QED BY <1>1, <1>2 DEF Thin

LEMMA NextThin == MachineInv /\ Thin /\ [Next]_vars /\ [Disciplined]_vars => Thin'
<1> SUFFICES ASSUME MachineInv, Thin, [Next]_vars, [Disciplined]_vars PROVE Thin'
  OBVIOUS
<1>1. ASSUME UNCHANGED vars PROVE Thin'
  BY <1>1 DEF Thin, vars, locals, vat
<1>2. ASSUME Instruction, Disciplined PROVE Thin'
  <2>1. ASSUME \/ Push \/ Lload \/ Eload \/ Estore \/ Construct \/ Call \/ Ret \/ Foreign
               \/ \E op \in Arithmetic : Arith(op)
        PROVE  Thin'
    <3>1. UNCHANGED <<msg, todo, promises>> /\ mode = "run"
      BY <2>1 DEF Push, Lload, Eload, Estore, Construct, Call, Ret, Foreign, Arith, Advance, locals, Fetch
    <3> QED BY <3>1, ThinStays
  <2>2. ASSUME Lstore PROVE Thin'
    <3>1. UNCHANGED <<msg, todo>> /\ mode = "run"
      BY <2>2 DEF Lstore, Advance, locals, Fetch
    <3> QED BY <2>2, <3>1, LstoreResumes, ThinStays
  <2> QED BY <1>2, <2>1, <2>2, AwaitThin, MessageThin DEF Instruction, Disciplined
<1>3. ASSUME TooManyOperands \/ CodeOverrun \/ Panic \/ EndRequest \/ EndContinuation PROVE Thin'
  <2>1. UNCHANGED <<msg, todo, promises>> /\ mode \in {"run", "ended", "yielded"}
    BY <1>3 DEF TooManyOperands, CodeOverrun, Panic, EndRequest, EndContinuation, Returned, locals, vat
  <2> QED BY <2>1, ThinStays
<1>4. ASSUME Resume PROVE Thin'
  <2>1. UNCHANGED <<msg, promises>> /\ mode = "next" /\ todo # <<>> /\ todo' = Tail(todo)
    BY <1>4 DEF Resume
  <2>2. todo' = <<>>
    BY <2>1 DEF Thin, Slim
  <2> QED BY <2>1, <2>2 DEF Thin, Slim
<1>5. ASSUME Return PROVE Thin'
  <2>1. UNCHANGED <<todo, promises>> /\ mode' = "idle"
    BY <1>5 DEF Return, vat
  <2> QED BY <2>1 DEF Thin
<1>6. ASSUME Peers PROVE Thin'
  <2>1. UNCHANGED <<mode, msg, todo, promises>>
    BY <1>6 DEF Peers, PeerAnswers, locals, vat
  <2> QED BY <2>1 DEF Thin
<1> QED BY <1>1, <1>2, <1>3, <1>4, <1>5, <1>6, AcceptThin DEF Next, Machine, Disciplined

-----------------------------------------------------------------------------
(* One answer: who asks *)

LEMMA OriginsInit == Init => Origins /\ Hushed
<1> SUFFICES ASSUME Init PROVE Origins /\ Hushed
  OBVIOUS
<1>1. DOMAIN net = Requests /\ msg.kind = "none" /\ reply = {}
  BY NoneKnown DEF Init
<1>2. \A m \in DOMAIN net : m.kind = "request"
  BY <1>1, RequestAssumption
<1> QED BY <1>1, <1>2 DEF Origins, Hushed

\* Steps that handle no message, and send none or one without an asker.
LEMMA OriginsStay ==
  ASSUME Origins, Hushed, UNCHANGED msg,
         \A m \in reply' : m \in reply,
         \A m \in DOMAIN net' : m \in DOMAIN net \/ (m.kind = "request" /\ (DueOf(m) = Nobody \/ m.src.vat = Self))
  PROVE  Origins' /\ Hushed'
<1>1. Origins'
  BY DEF Origins
<1>2. Hushed'
  BY DEF Hushed
<1> QED BY <1>1, <1>2

LEMMA AcceptOrigins ==
  ASSUME MachineInv, Origins, Hushed, NEW m \in DOMAIN net, AcceptRequest(m) \/ AcceptResponse(m)
  PROVE  Origins' /\ Hushed'
<1>1. net' = Mail!BagRemove(net, m) /\ msg' = m /\ UNCHANGED reply
  BY DEF AcceptRequest, AcceptResponse
<1>2. DOMAIN net' \subseteq DOMAIN net
  BY <1>1, Removed DEF MachineInv, NetOK
<1> QED BY <1>1, <1>2 DEF Origins, Hushed

\* The answer to a request that wants none is nobody's.
LEMMA Unwanted ==
  ASSUME RequestsApart, Origins, NEW m \in DOMAIN net \cup {msg}, m.kind = "request",
         NEW q \in Requests, DueOf(m) = DueOf(q)
  PROVE  m = q
<1>1. DueOf(q) = [of |-> q.src, prom |-> q.prom] /\ q.src # Addr(Self, 0) /\ DueOf(q) # Nobody
  BY DueIs, RequestIsDue
<1>2. m \in Requests \/ m.src.vat = Self
  BY <1>1 DEF Origins
<1>3. m.src.vat # Self
  <2>1. m.src.vat = Self => DueOf(m).of = Addr(Self, 0)
    BY DueIs DEF DueOf
  <2> QED BY <1>1, <2>1
<1>4. m \in Requests /\ DueOf(m) = [of |-> m.src, prom |-> m.prom]
  BY <1>2, <1>3, DueIs
<1>5. m.src = q.src /\ m.prom = q.prom
  BY <1>1, <1>4
<1> QED BY <1>4, <1>5 DEF RequestsApart

LEMMA EndOrigins ==
  ASSUME RequestsApart, MachineInv, Origins, Hushed, EndRequest \/ EndContinuation
  PROVE  Origins' /\ Hushed'
<1>1. UNCHANGED <<net, msg>>
  BY DEF EndRequest, EndContinuation
<1>2. Origins'
  BY <1>1 DEF Origins
<1>3. ASSUME NEW r \in reply'
      PROVE  r.kind = "response" /\ \A q \in Requests : q.mute => DueOf(r) # DueOf(q)
  <2>1. CASE r \in reply
    BY <2>1 DEF Hushed
  <2>2. CASE msg.kind = "request" /\ ~ msg.mute /\ r = Response(msg.dst, msg.src, Result, msg.prom)
    <3>1. r.kind = "response" /\ DueOf(r) = DueOf(msg)
      BY <2>2, Responds DEF DueOf
    <3> QED BY <2>2, <3>1, Unwanted
  <2>3. CASE point.src # {} /\ r = Response(msg.dst, point.to, Result, point.src)
    <3>1. r.kind = "response" /\ DueOf(r).prom # {}
      BY <2>3, Responds, DueIs
    <3>2. \A q \in Requests : q.mute => DueOf(q).prom = {}
      BY DueIs DEF RequestsApart
    <3> QED BY <3>1, <3>2
  <2> QED BY <2>1, <2>2, <2>3 DEF EndRequest, EndContinuation
<1>4. Hushed'
  BY <1>1, <1>3 DEF Hushed
<1> QED BY <1>2, <1>4

LEMMA ReturnOrigins ==
  ASSUME MachineInv, Origins, Hushed, Return
  PROVE  Origins' /\ Hushed'
<1>1. /\ msg' = NoMsg /\ reply' = {}
      /\ net' = net \/ \E m \in reply : net' = Mail!BagAdd(net, m)
  BY DEF Return
<1>2. \A m \in DOMAIN net' : m \in DOMAIN net \cup reply
  <2>1. \A m : DOMAIN Mail!BagAdd(net, m) = DOMAIN net \cup {m}
    BY BagAdded DEF MachineInv, NetOK
  <2> QED BY <1>1, <2>1
<1> QED BY <1>1, <1>2, NoneKnown DEF Origins, Hushed

LEMMA PeerOrigins ==
  ASSUME RequestsApart, MachineInv, Origins, Hushed, NEW m \in DOMAIN net, PeerAnswers(m)
  PROVE  Origins' /\ Hushed'
<1>1. PICK r : r = Response(m.dst, m.src, PeerAnswer[m.fn], m.prom)
  OBVIOUS
<1>2. /\ m.kind = "request" /\ m.dst.vat # Self
      /\ net' = Mail!BagAdd(Mail!BagRemove(net, m), r) /\ UNCHANGED <<msg, reply>>
  BY <1>1 DEF PeerAnswers, locals
<1>3. r.kind = "response" /\ DueOf(r) = DueOf(m)
  BY <1>1, <1>2, Responds DEF DueOf
<1>4. \A q \in Requests : DueOf(r) # DueOf(q)
  <2>1. m \notin Requests
    BY <1>2, RequestAssumption
  <2> QED BY <1>2, <1>3, <2>1, Unwanted
<1>5. \A x \in DOMAIN net' : x \in DOMAIN net \/ x = r
  <2>1. /\ IsABag(Mail!BagRemove(net, m)) /\ DOMAIN Mail!BagRemove(net, m) \subseteq DOMAIN net
    BY BagRemoved DEF MachineInv, NetOK
  <2>2. DOMAIN net' = DOMAIN Mail!BagRemove(net, m) \cup {r}
    BY <1>2, <2>1, BagAdded
  <2> QED BY <2>1, <2>2
<1> QED BY <1>2, <1>3, <1>4, <1>5 DEF Origins, Hushed

LEMMA SendOrigins ==
  ASSUME MachineInv, Thin, Origins, Hushed, Message \/ Foreign, IdsLeft
  PROVE  Origins' /\ Hushed'
<1>1. CASE Message
  <2>1. PICK r : r.kind = "request" /\ r.src = msg.dst /\ net' = Mail!BagAdd(net, r)
                 /\ mode = "run" /\ UNCHANGED locals
    BY <1>1, MessageAdds
  <2>2. DOMAIN net' = DOMAIN net \cup {r}
    BY <2>1, BagAdded DEF MachineInv, NetOK
  <2>3. r.src.vat = Self
    BY <2>1 DEF Thin
  <2> QED BY <2>1, <2>2, <2>3, OriginsStay DEF locals
<1>2. CASE Foreign
  <2>1. PICK r : r = Request(Addr(0, 0), Addr(1, 0), 2, <<>>, {})
    OBVIOUS
  <2>2. net' \in {net, Mail!BagAdd(net, r)} /\ UNCHANGED <<msg, reply>>
    BY <1>2, <2>1 DEF Foreign, Advance, locals
  <2>3. r.kind = "request" /\ DueOf(r) = Nobody
    BY <2>1 DEF Request, DueOf, Nobody
  <2>4. DOMAIN net' \subseteq DOMAIN net \cup {r}
    BY <2>2, BagAdded DEF MachineInv, NetOK
  <2> QED BY <2>2, <2>3, <2>4, OriginsStay
<1> QED BY <1>1, <1>2

LEMMA NextOrigins ==
  ASSUME RequestsApart
  PROVE  MachineInv /\ Thin /\ Origins /\ Hushed /\ [Next]_vars /\ [Disciplined]_vars => Origins' /\ Hushed'
<1> SUFFICES ASSUME MachineInv, Thin, Origins, Hushed, [Next]_vars, [Disciplined]_vars
             PROVE  Origins' /\ Hushed'
  OBVIOUS
<1>1. ASSUME UNCHANGED <<net, msg, reply>> PROVE Origins' /\ Hushed'
  BY <1>1, OriginsStay
<1>2. UNCHANGED vars => UNCHANGED <<net, msg, reply>>
  BY DEF vars, locals
<1>3. Push \/ Lload \/ Lstore \/ Eload \/ Estore \/ Construct \/ Call \/ Await \/ Ret
      \/ (\E op \in Arithmetic : Arith(op)) \/ TooManyOperands \/ CodeOverrun \/ Panic \/ Resume
      => UNCHANGED <<net, msg, reply>>
  BY DEF Push, Lload, Lstore, Eload, Estore, Construct, Call, Await, Ret, Arith, Advance, locals,
         TooManyOperands, CodeOverrun, Panic, Resume
<1>4. (Message \/ Foreign) /\ Disciplined => Origins' /\ Hushed'
  BY SendOrigins DEF Disciplined
<1>5. Disciplined /\ Machine => Origins' /\ Hushed'
  BY <1>1, <1>3, <1>4, AcceptOrigins, EndOrigins, ReturnOrigins DEF Machine, Instruction
<1>6. Peers => Origins' /\ Hushed'
  BY PeerOrigins DEF Peers
<1> QED BY <1>1, <1>2, <1>5, <1>6 DEF Next

-----------------------------------------------------------------------------
(* One answer: what is owed *)

LEMMA OwedInit == RequestsApart /\ Init => Owed({})
<1> SUFFICES ASSUME RequestsApart, Init PROVE Owed({})
  OBVIOUS
<1>1. net = [q \in Requests |-> 1] /\ reply = {} /\ mode = "idle"
  BY DEF Init
<1>2. \A k, x : Debt(k, x, {}) => \E m \in Requests : DueOf(m) = k /\ x = <<"mail", m>>
  BY <1>1 DEF Debt, Busy
<1>3. \A q, r \in Requests : DueOf(q) = DueOf(r) => q = r
  <2> SUFFICES ASSUME NEW q \in Requests, NEW r \in Requests, DueOf(q) = DueOf(r) PROVE q = r
    OBVIOUS
  <2>1. q.src = r.src /\ q.prom = r.prom
    BY DueIs
  <2> QED BY <2>1 DEF RequestsApart
<1>4. Single({})
  BY <1>2, <1>3 DEF Single
<1>5. OnlyOpen({})
  BY <1>2, DueIs DEF OnlyOpen, Mine
<1> QED BY <1>1, <1>4, <1>5 DEF Owed, Once

\* Steps that leave the mail, the promises and whom they run for.
LEMMA OwedStays ==
  ASSUME NEW W, Owed(W), UNCHANGED <<net, msg, point, reply>>, DOMAIN promises' = DOMAIN promises,
         Busy' => Busy,
         \A p \in DOMAIN promises : /\ promises'[p].resume = promises[p].resume
                                    /\ promises'[p].src = promises[p].src
                                    /\ promises'[p].to = promises[p].to
  PROVE  Owed(W)'
<1>1. \A k, x : Debt(k, x, W)' => Debt(k, x, W)
  <2> SUFFICES ASSUME NEW k, NEW x, Debt(k, x, W)' PROVE Debt(k, x, W)
    OBVIOUS
  <2>1. k # Nobody
    BY DEF Debt, Nobody, Due
  <2>2. CASE \E m \in DOMAIN net : DueOf(m) = k /\ x = <<"mail", m>>
    BY <2>1, <2>2 DEF Debt
  <2>3. CASE \E m \in reply : DueOf(m) = k /\ x = <<"reply", m>>
    BY <2>1, <2>3 DEF Debt
  <2>4. CASE Busy' /\ Asks' = k /\ x = <<"now", 0>>
    <3>1. Asks' = Asks
      BY DEF Asks
    <3> QED BY <2>1, <2>4, <3>1 DEF Debt
  <2>5. CASE \E p \in W : /\ promises'[p].resume # <<>>
                          /\ Due(promises'[p].to, promises'[p].src) = k /\ x = <<"wait", p>>
    BY <2>1, <2>5 DEF Debt, Owed
  <2> QED BY <2>2, <2>3, <2>4, <2>5 DEF Debt
<1>2. Single(W)' /\ OnlyOpen(W)'
  BY <1>1, DebtsFewer DEF Owed
<1> QED BY <1>2 DEF Owed, Once

\* A debt after a step, by where it is.
LEMMA DebtAfter ==
  ASSUME NEW V, NEW k, NEW x, Debt(k, x, V)'
  PROVE  /\ k # Nobody
         /\ \/ \E m \in DOMAIN net' : DueOf(m) = k /\ x = <<"mail", m>>
            \/ \E m \in reply' : DueOf(m) = k /\ x = <<"reply", m>>
            \/ Busy' /\ Asks' = k /\ x = <<"now", 0>>
            \/ \E p \in V : /\ promises'[p].resume # <<>>
                            /\ Due(promises'[p].to, promises'[p].src) = k /\ x = <<"wait", p>>
BY DEF Debt, Nobody

LEMMA DebtNow ==
  /\ \A W : \A m \in DOMAIN net : DueOf(m) # Nobody => Debt(DueOf(m), <<"mail", m>>, W)
  /\ \A W : \A m \in reply : DueOf(m) # Nobody => Debt(DueOf(m), <<"reply", m>>, W)
  /\ \A W : Busy /\ Asks # Nobody => Debt(Asks, <<"now", 0>>, W)
  /\ \A W : \A p \in W : LET k == Due(promises[p].to, promises[p].src) IN
       promises[p].resume # <<>> /\ k # Nobody => Debt(k, <<"wait", p>>, W)
BY DEF Debt

LEMMA Tags == \A x, y : /\ <<"mail", x>> # <<"reply", y>> /\ <<"mail", x>> # <<"now", y>>
                        /\ <<"mail", x>> # <<"wait", y>> /\ <<"reply", x>> # <<"now", y>>
                        /\ <<"reply", x>> # <<"wait", y>> /\ <<"now", x>> # <<"wait", y>>
                        /\ (<<"mail", x>> = <<"mail", y>> => x = y)
                        /\ (<<"wait", x>> = <<"wait", y>> => x = y)
OBVIOUS

LEMMA AcceptRequestOwed ==
  ASSUME NEW W, MachineInv, Owed(W), NEW m \in DOMAIN net, AcceptRequest(m)
  PROVE  Owed(W)'
<1>1. /\ mode = "idle" /\ m.kind = "request" /\ net' = Mail!BagRemove(net, m) /\ msg' = m
      /\ UNCHANGED <<todo, point, reply, promises>>
  BY DEF AcceptRequest
<1>2. /\ DOMAIN net' \subseteq DOMAIN net
      /\ \A y \in DOMAIN net : y # m => net'[y] = net[y]
      /\ DueOf(m) # Nobody => m \notin DOMAIN net'
  BY <1>1, Removed DEF MachineInv, NetOK, Owed, Once
<1>3. Asks' = DueOf(m)
  BY <1>1 DEF Asks, DueOf
<1>4. ASSUME NEW k, NEW x, Debt(k, x, W)'
      PROVE  \/ Debt(k, x, W) /\ (k = DueOf(m) => x # <<"mail", m>>)
             \/ k = DueOf(m) /\ x = <<"now", 0>>
  <2>1. CASE \E y \in DOMAIN net' : DueOf(y) = k /\ x = <<"mail", y>>
    BY <1>2, <1>4, <2>1, DebtAfter, DebtNow, Tags
  <2>2. CASE \E y \in reply : DueOf(y) = k /\ x = <<"reply", y>>
    BY <1>4, <2>2, DebtAfter, DebtNow, Tags
  <2>3. CASE \E p \in W : /\ promises[p].resume # <<>>
                          /\ Due(promises[p].to, promises[p].src) = k /\ x = <<"wait", p>>
    BY <1>4, <2>3, DebtAfter, DebtNow, Tags
  <2> QED BY <1>1, <1>3, <1>4, <2>1, <2>2, <2>3, DebtAfter
<1>5. Single(W)' /\ OnlyOpen(W)'
  <2>1. Becomes(DueOf(m), <<"mail", m>>, <<"now", 0>>, W)
    BY <1>4, DebtNow DEF Becomes
  <2> QED BY <2>1, DebtMoves DEF Owed
<1>6. Once'
  BY <1>2 DEF Owed, Once
<1> QED BY <1>1, <1>5, <1>6 DEF Owed

LEMMA AcceptResponseOwed ==
  ASSUME NEW W, MachineInv, Linked, Owed(W), NEW m \in DOMAIN net, AcceptResponse(m)
  PROVE  \E V : Owed(V)'
<1>1. /\ mode = "idle" /\ m.kind = "response" /\ m.dst.vat = Self
      /\ net' = Mail!BagRemove(net, m) /\ msg' = m /\ UNCHANGED <<reply, promises>>
      /\ todo = <<>>
  BY DEF AcceptResponse, vat, MachineInv, ControlOK
<1>2. /\ DOMAIN net' \subseteq DOMAIN net
      /\ \A y \in DOMAIN net : y # m => net'[y] = net[y]
      /\ DueOf(m) # Nobody => m \notin DOMAIN net'
  BY <1>1, Removed DEF MachineInv, NetOK, Owed, Once
<1>3. Once'
  BY <1>2 DEF Owed, Once
<1>4. CASE ~ Busy'
  <2>1. ASSUME NEW k, NEW x, Debt(k, x, W)' PROVE Debt(k, x, W)
    BY <1>1, <1>2, <1>4, <2>1, DebtAfter, DebtNow
  <2>2. Single(W)' /\ OnlyOpen(W)'
    BY <2>1, DebtsFewer DEF Owed
  <2> QED BY <1>1, <1>3, <2>2 DEF Owed
<1>5. CASE Busy'
  <2>1. PICK p \in m.prom : /\ p % PromiseSlots \in DOMAIN promises
                            /\ point' = promises[p % PromiseSlots]
                            /\ todo' = promises[p % PromiseSlots].resume /\ mode' = "next"
    BY <1>1, <1>5 DEF AcceptResponse, Busy
  <2>2. p \in DOMAIN promises
    BY <1>1 DEF Linked, Known
  <2>3. p % PromiseSlots = p
    <3>1. PICK n \in 0 .. PromiseSlots : DOMAIN promises = 0 .. n - 1
      BY DEF MachineInv, PromisesOK
    <3>2. p \in Nat /\ p < PromiseSlots /\ PromiseSlots \in Nat \ {0}
      BY <2>2, <3>1, SlotsAssumption
    <3> QED BY <3>2
  <2>4. m.prom = {p}
    BY OneIdIs DEF MachineInv, NetOK
  <2>5. DueOf(m) = Mine(p) /\ Mine(p) # Nobody
    BY <1>1, <2>4, MineIs DEF DueOf
  <2>6. Debt(Mine(p), <<"mail", m>>, W)
    BY <2>5, DebtNow
  <2>7. p \in W
    BY <2>6 DEF Owed, OnlyOpen
  <2>8. PICK c : c = Due(promises[p].to, promises[p].src)
    OBVIOUS
  <2>9. Asks' = c /\ promises[p].resume # <<>>
    BY <1>1, <1>5, <2>1, <2>3, <2>8 DEF Asks, Busy
  <2>10. PICK V : V = W \ {p}
    OBVIOUS
  <2>11. ASSUME NEW k, NEW x, Debt(k, x, V)'
         PROVE  \/ Debt(k, x, W) /\ x # <<"mail", m>> /\ x # <<"wait", p>>
                \/ k = c /\ x = <<"now", 0>> /\ Debt(c, <<"wait", p>>, W)
    <3>1. CASE \E y \in DOMAIN net' : DueOf(y) = k /\ x = <<"mail", y>>
      BY <1>2, <2>5, <2>11, <3>1, DebtAfter, DebtNow, Tags
    <3>2. CASE \E y \in reply : DueOf(y) = k /\ x = <<"reply", y>>
      BY <2>11, <3>2, DebtAfter, DebtNow, Tags
    <3>3. CASE \E q \in V : /\ promises[q].resume # <<>>
                            /\ Due(promises[q].to, promises[q].src) = k /\ x = <<"wait", q>>
      BY <2>10, <2>11, <3>3, DebtAfter, DebtNow, Tags
    <3>4. CASE Asks' = k /\ x = <<"now", 0>>
      BY <2>7, <2>8, <2>9, <2>11, <3>4, DebtAfter, DebtNow
    <3> QED BY <1>1, <2>11, <3>1, <3>2, <3>3, <3>4, DebtAfter
  <2>12. Single(V)'
    <3> SUFFICES ASSUME NEW k, NEW x, NEW y, Debt(k, x, V)', Debt(k, y, V)' PROVE x = y
      BY DEF Single
    <3> QED BY <2>11 DEF Owed, Single
  <2>13. OnlyOpen(V)'
    <3> SUFFICES ASSUME NEW i, NEW x, Debt(Mine(i), x, V)' PROVE i \in V
      BY DEF OnlyOpen, Mine
    <3>1. PICK y : Debt(Mine(i), y, W) /\ y # <<"mail", m>>
      BY <2>11, Tags
    <3>2. i \in W /\ i # p
      BY <2>6, <3>1 DEF Owed, OnlyOpen, Single
    <3> QED BY <2>10, <3>2
  <2>14. V \subseteq DOMAIN promises'
    BY <1>1, <2>10 DEF Owed
  <2> QED BY <1>3, <2>12, <2>13, <2>14 DEF Owed
<1> QED BY <1>4, <1>5

LEMMA EndOwed ==
  ASSUME NEW W, MachineInv, Linked, Thin, Owed(W), EndRequest \/ EndContinuation
  PROVE  Owed(W)'
<1>1. /\ mode \in {"ended", "yielded"} /\ mode' = "next" /\ UNCHANGED <<net, msg, todo, point, promises>>
      /\ todo = <<>>
  BY DEF EndRequest, EndContinuation, Returned, Thin
<1>2. ~ Busy'
  BY <1>1 DEF Busy
<1>3. CASE \A r \in reply' : r \in reply
  <2>1. ASSUME NEW k, NEW x, Debt(k, x, W)' PROVE Debt(k, x, W)
    BY <1>1, <1>2, <1>3, <2>1, DebtAfter, DebtNow
  <2>2. Single(W)' /\ OnlyOpen(W)'
    BY <2>1, DebtsFewer DEF Owed
  <2> QED BY <1>1, <2>2 DEF Owed, Once
<1>4. CASE mode = "ended" /\ \E r : reply' = {r} /\ DueOf(r) = Asks
  <2>1. PICK r : reply' = {r} /\ DueOf(r) = Asks
    BY <1>4
  <2>2. Busy
    BY <1>4 DEF Busy
  <2>3. PICK c : c = Asks
    OBVIOUS
  <2>4. ASSUME NEW k, NEW x, Debt(k, x, W)'
        PROVE  \/ Debt(k, x, W) /\ (k = c => x # <<"now", 0>>)
               \/ k = c /\ x = <<"reply", r>>
    <3>1. CASE \E y \in DOMAIN net : DueOf(y) = k /\ x = <<"mail", y>>
      BY <2>4, <3>1, DebtAfter, DebtNow, Tags
    <3>2. CASE \E y \in reply' : DueOf(y) = k /\ x = <<"reply", y>>
      BY <2>1, <2>3, <3>2
    <3>3. CASE \E p \in W : /\ promises[p].resume # <<>>
                            /\ Due(promises[p].to, promises[p].src) = k /\ x = <<"wait", p>>
      BY <2>4, <3>3, DebtAfter, DebtNow, Tags
    <3> QED BY <1>1, <1>2, <2>4, <3>1, <3>2, <3>3, DebtAfter
  <2>5. Single(W)' /\ OnlyOpen(W)'
    <3>1. Becomes(c, <<"now", 0>>, <<"reply", r>>, W)
      BY <2>2, <2>3, <2>4, DebtNow DEF Becomes
    <3> QED BY <3>1, DebtMoves DEF Owed
  <2> QED BY <1>1, <2>5 DEF Owed, Once
<1>5. CASE EndRequest
  <2>1. CASE mode = "yielded" \/ msg.mute
    BY <1>3, <1>5, <2>1 DEF EndRequest
  <2>2. CASE mode = "ended" /\ ~ msg.mute
    <3>1. PICK r : r = Response(msg.dst, msg.src, Result, msg.prom)
      OBVIOUS
    <3>2. reply' = {r} /\ DueOf(r) = Asks
      BY <1>5, <2>2, <3>1, Responds DEF EndRequest, Asks
    <3> QED BY <1>4, <2>2, <3>2
  <2> QED BY <1>1, <2>1, <2>2
<1>6. CASE EndContinuation
  <2>1. CASE mode = "yielded" \/ point.src = {}
    BY <1>3, <1>6, <2>1 DEF EndContinuation
  <2>2. CASE mode = "ended" /\ point.src # {}
    <3>1. PICK r : r = Response(msg.dst, point.to, Result, point.src)
      OBVIOUS
    <3>2. reply' = {r} /\ DueOf(r) = Asks
      BY <1>6, <2>2, <3>1, Responds DEF EndContinuation, Asks
    <3> QED BY <1>4, <2>2, <3>2
  <2> QED BY <1>1, <2>1, <2>2
<1> QED BY <1>5, <1>6

LEMMA ReturnOwed ==
  ASSUME NEW W, MachineInv, Owed(W), Return
  PROVE  Owed(W)'
<1>1. /\ mode' = "idle" /\ reply' = {} /\ UNCHANGED promises
      /\ net' = net \/ \E m \in reply : net' = Mail!BagAdd(net, m)
  BY DEF Return, vat
<1>2. ~ Busy'
  BY <1>1 DEF Busy
<1>3. CASE net' = net
  <2>1. ASSUME NEW k, NEW x, Debt(k, x, W)' PROVE Debt(k, x, W)
    BY <1>1, <1>2, <1>3, <2>1, DebtAfter, DebtNow
  <2>2. Single(W)' /\ OnlyOpen(W)'
    BY <2>1, DebtsFewer DEF Owed
  <2> QED BY <1>1, <1>3, <2>2 DEF Owed, Once
<1>4. ASSUME NEW m \in reply, net' = Mail!BagAdd(net, m) PROVE Owed(W)'
  <2>1. /\ DOMAIN net' = DOMAIN net \cup {m}
        /\ m \notin DOMAIN net => net'[m] = 1
        /\ \A y \in DOMAIN net : y # m => net'[y] = net[y]
    BY <1>4, BagAdded, Added DEF MachineInv, NetOK
  <2>2. ASSUME NEW k, NEW x, Debt(k, x, W)'
        PROVE  \/ Debt(k, x, W) /\ (k = DueOf(m) => x # <<"reply", m>>)
               \/ k = DueOf(m) /\ x = <<"mail", m>>
    <3>1. CASE \E y \in DOMAIN net' : DueOf(y) = k /\ x = <<"mail", y>>
      BY <2>1, <2>2, <3>1, DebtAfter, DebtNow, Tags
    <3>2. CASE \E p \in W : /\ promises[p].resume # <<>>
                            /\ Due(promises[p].to, promises[p].src) = k /\ x = <<"wait", p>>
      BY <2>2, <3>2, DebtAfter, DebtNow, Tags
    <3> QED BY <1>1, <1>2, <2>2, <3>1, <3>2, DebtAfter
  <2>3. Single(W)' /\ OnlyOpen(W)'
    <3>1. Becomes(DueOf(m), <<"reply", m>>, <<"mail", m>>, W)
      BY <2>2, DebtNow DEF Becomes
    <3> QED BY <3>1, DebtMoves DEF Owed
  <2>4. DueOf(m) # Nobody => m \notin DOMAIN net
    BY DebtNow, Tags DEF Owed, Single
  <2>5. Once'
    BY <2>1, <2>4 DEF Owed, Once
  <2> QED BY <1>1, <2>3, <2>5 DEF Owed
<1> QED BY <1>1, <1>3, <1>4

LEMMA PeerOwed ==
  ASSUME NEW W, MachineInv, Owed(W), NEW m \in DOMAIN net, PeerAnswers(m)
  PROVE  Owed(W)'
<1>1. PICK r : r = Response(m.dst, m.src, PeerAnswer[m.fn], m.prom)
  OBVIOUS
<1>2. /\ m.kind = "request" /\ net' = Mail!BagAdd(Mail!BagRemove(net, m), r)
      /\ UNCHANGED <<mode, msg, todo, point, reply, promises>>
  BY <1>1 DEF PeerAnswers, locals, vat
<1>3. r.kind = "response" /\ DueOf(r) = DueOf(m)
  BY <1>1, <1>2, Responds DEF DueOf
<1>4. PICK B : B = Mail!BagRemove(net, m)
  OBVIOUS
<1>5. /\ IsABag(B) /\ DOMAIN B \subseteq DOMAIN net
      /\ \A y \in DOMAIN net : y # m => B[y] = net[y]
      /\ DueOf(m) # Nobody => m \notin DOMAIN B
  BY <1>4, Removed, BagRemoved DEF MachineInv, NetOK, Owed, Once
<1>6. /\ DOMAIN net' = DOMAIN B \cup {r} /\ (r \notin DOMAIN B => net'[r] = 1)
      /\ \A y \in DOMAIN B : y # r => net'[y] = B[y]
  <2>1. net' = Mail!BagAdd(B, r)
    BY <1>2, <1>4
  <2>2. DOMAIN net' = DOMAIN B \cup {r}
    BY <1>5, <2>1, BagAdded
  <2> QED BY <1>5, <2>1, <2>2, Added
<1>7. Busy' = Busy /\ Asks' = Asks
  BY <1>2 DEF Busy, Asks
<1>8. ASSUME NEW k, NEW x, Debt(k, x, W)'
      PROVE  \/ Debt(k, x, W) /\ (k = DueOf(m) => x # <<"mail", m>>)
             \/ k = DueOf(m) /\ x = <<"mail", r>>
  <2>1. CASE \E y \in DOMAIN net' : DueOf(y) = k /\ x = <<"mail", y>>
    BY <1>3, <1>5, <1>6, <1>8, <2>1, DebtAfter, DebtNow, Tags
  <2>2. CASE \E y \in reply : DueOf(y) = k /\ x = <<"reply", y>>
    BY <1>8, <2>2, DebtAfter, DebtNow, Tags
  <2>3. CASE Busy /\ Asks = k /\ x = <<"now", 0>>
    BY <1>8, <2>3, DebtAfter, DebtNow, Tags
  <2>4. CASE \E p \in W : /\ promises[p].resume # <<>>
                          /\ Due(promises[p].to, promises[p].src) = k /\ x = <<"wait", p>>
    BY <1>8, <2>4, DebtAfter, DebtNow, Tags
  <2> QED BY <1>2, <1>7, <1>8, <2>1, <2>2, <2>3, <2>4, DebtAfter
<1>9. Single(W)' /\ OnlyOpen(W)'
  <2>1. Becomes(DueOf(m), <<"mail", m>>, <<"mail", r>>, W)
    BY <1>8, DebtNow DEF Becomes
  <2> QED BY <2>1, DebtMoves DEF Owed
<1>10. DueOf(m) # Nobody => r \notin DOMAIN net
  BY <1>2, <1>3, DebtNow, Tags DEF Owed, Single
<1>11. Once'
  BY <1>3, <1>5, <1>6, <1>10 DEF Owed, Once
<1> QED BY <1>2, <1>9, <1>11 DEF Owed

\* A handler that awaits a promise of its own owes what it owed before.
LEMMA AwaitOwed ==
  ASSUME NEW W, MachineInv, Owed(W), Await, OwnAwait
  PROVE  Owed(W)'
<1>1. /\ mode = "run" /\ mode' = "yielded" /\ UNCHANGED <<net, msg, todo, point, reply>>
      /\ \A p \in DOMAIN promises : promises'[p] # promises[p] => IsProm(Popped(1)) /\ p = Popped(1).prom
  BY AwaitResumes DEF locals
<1>2. /\ DOMAIN promises' = DOMAIN promises
      /\ \A p \in DOMAIN promises : promises'[p].src = promises[p].src /\ promises'[p].to = promises[p].to
  BY Awaited
<1>3. Busy /\ ~ Busy'
  BY <1>1 DEF Busy
<1>4. CASE \A p \in DOMAIN promises : promises'[p] = promises[p]
  BY <1>1, <1>2, <1>3, <1>4, OwedStays
<1>5. CASE \E p \in DOMAIN promises : promises'[p] # promises[p]
  <2>1. PICK p \in DOMAIN promises : promises'[p] # promises[p]
    BY <1>5
  <2>2. IsProm(Popped(1)) /\ p = Popped(1).prom
    BY <1>1, <2>1
  <2>3. <<promises[p].to, promises[p].src>> = ForWhom
    BY <2>2 DEF OwnAwait
  <2>4. PICK c : c = Asks
    OBVIOUS
  <2>5. Due(promises[p].to, promises[p].src) = c
    BY <2>3, <2>4 DEF Asks, ForWhom
  <2>6. \A q \in DOMAIN promises : q # p => promises'[q] = promises[q]
    BY <1>1, <2>2
  <2>7. ASSUME NEW k, NEW x, Debt(k, x, W)'
        PROVE  \/ Debt(k, x, W) /\ (k = c => x # <<"now", 0>>)
               \/ k = c /\ x = <<"wait", p>>
    <3>1. CASE \E y \in DOMAIN net : DueOf(y) = k /\ x = <<"mail", y>>
      BY <2>7, <3>1, DebtAfter, DebtNow, Tags
    <3>2. CASE \E y \in reply : DueOf(y) = k /\ x = <<"reply", y>>
      BY <2>7, <3>2, DebtAfter, DebtNow, Tags
    <3>3. ASSUME NEW q \in W, promises'[q].resume # <<>>, x = <<"wait", q>>,
                 Due(promises'[q].to, promises'[q].src) = k
          PROVE  \/ Debt(k, x, W) /\ x # <<"now", 0>>
                 \/ k = c /\ x = <<"wait", p>>
      <4>1. q \in DOMAIN promises
        BY DEF Owed
      <4>2. CASE q = p
        BY <1>2, <2>5, <3>3, <4>2
      <4>3. CASE q # p
        BY <2>6, <2>7, <3>3, <4>1, <4>3, DebtAfter, DebtNow, Tags
      <4> QED BY <4>2, <4>3
    <3> QED BY <1>1, <1>3, <2>7, <3>1, <3>2, <3>3, DebtAfter
  <2>8. Becomes(c, <<"now", 0>>, <<"wait", p>>, W)
    BY <1>3, <2>4, <2>7, DebtNow DEF Becomes
  <2>9. Single(W)' /\ OnlyOpen(W)'
    BY <2>8, DebtMoves DEF Owed
  <2> QED BY <1>1, <1>2, <2>9 DEF Owed, Once
<1> QED BY <1>4, <1>5

LEMMA MessageOwed ==
  ASSUME NEW W, MachineInv, Thin, Owed(W), Message, IdsLeft
  PROVE  \E V : Owed(V)'
<1>1. PICK r, q, p :
        /\ p \notin DOMAIN promises
        /\ r.kind = "request" /\ r.src = msg.dst /\ r.prom = {p} /\ q.resume = <<>>
        /\ DOMAIN promises' = DOMAIN promises \cup {p} /\ promises'[p] = q
        /\ \A i \in DOMAIN promises : promises'[i] = promises[i]
        /\ net' = Mail!BagAdd(net, r)
        /\ mode = "run" /\ UNCHANGED <<mode, msg, todo, point, reply>>
  BY MessageAdds DEF locals
<1>2. DueOf(r) = Mine(p) /\ Mine(p) # Nobody
  <2>1. r.src.vat = Self
    BY <1>1 DEF Thin
  <2> QED BY <1>1, <2>1, MineIs DEF DueOf
<1>3. \A x : ~ Debt(Mine(p), x, W)
  BY <1>1 DEF Owed, OnlyOpen
<1>4. /\ DOMAIN net' = DOMAIN net \cup {r} /\ (r \notin DOMAIN net => net'[r] = 1)
      /\ \A y \in DOMAIN net : y # r => net'[y] = net[y]
  <2>1. DOMAIN net' = DOMAIN net \cup {r}
    BY <1>1, BagAdded DEF MachineInv, NetOK
  <2>2. (r \notin DOMAIN net => net'[r] = 1) /\ \A y \in DOMAIN net : y # r => net'[y] = net[y]
    BY <1>1, Added DEF MachineInv, NetOK
  <2> QED BY <2>1, <2>2
<1>5. Busy' = Busy /\ Asks' = Asks
  BY <1>1 DEF Busy, Asks
<1>6. PICK V : V = W \cup {p}
  OBVIOUS
<1>7. ASSUME NEW k, NEW x, Debt(k, x, V)'
      PROVE  Debt(k, x, W) \/ (k = Mine(p) /\ x = <<"mail", r>>)
  <2>1. CASE \E y \in DOMAIN net' : DueOf(y) = k /\ x = <<"mail", y>>
    BY <1>2, <1>4, <1>7, <2>1, DebtAfter, DebtNow
  <2>2. CASE \E y \in reply : DueOf(y) = k /\ x = <<"reply", y>>
    BY <1>7, <2>2, DebtAfter, DebtNow
  <2>3. CASE Busy /\ Asks = k /\ x = <<"now", 0>>
    BY <1>7, <2>3, DebtAfter, DebtNow
  <2>4. ASSUME NEW i \in V, promises'[i].resume # <<>>, x = <<"wait", i>>,
               Due(promises'[i].to, promises'[i].src) = k
        PROVE  Debt(k, x, W)
    <3>1. i \in W /\ i \in DOMAIN promises
      BY <1>1, <1>6, <2>4 DEF Owed
    <3> QED BY <1>1, <1>7, <2>4, <3>1, DebtAfter, DebtNow
  <2> QED BY <1>1, <1>5, <1>7, <2>1, <2>2, <2>3, <2>4, DebtAfter
<1>8. Single(V)'
  <2> SUFFICES ASSUME NEW k, NEW x, NEW y, Debt(k, x, V)', Debt(k, y, V)' PROVE x = y
    BY DEF Single
  <2> QED BY <1>3, <1>7 DEF Owed, Single
<1>9. OnlyOpen(V)'
  <2> SUFFICES ASSUME NEW i, NEW x, Debt(Mine(i), x, V)' PROVE i \in V
    BY DEF OnlyOpen, Mine
  <2>1. Mine(i) = Mine(p) => i = p
    BY DEF Mine
  <2> QED BY <1>6, <1>7, <2>1 DEF Owed, OnlyOpen
<1>10. Once'
  <2>1. r \notin DOMAIN net
    BY <1>2, <1>3, DebtNow
  <2> QED BY <1>4, <2>1 DEF Owed, Once
<1>11. V \subseteq DOMAIN promises'
  BY <1>1, <1>6 DEF Owed
<1> QED BY <1>8, <1>9, <1>10, <1>11 DEF Owed

LEMMA ForeignOwed ==
  ASSUME NEW W, MachineInv, Owed(W), Foreign
  PROVE  Owed(W)'
<1>1. PICK r : r = Request(Addr(0, 0), Addr(1, 0), 2, <<>>, {})
  OBVIOUS
<1>2. /\ net' \in {net, Mail!BagAdd(net, r)}
      /\ UNCHANGED <<mode, msg, todo, point, reply, promises>>
  BY <1>1 DEF Foreign, Advance, locals
<1>3. DueOf(r) = Nobody
  BY <1>1 DEF Request, DueOf, Nobody
<1>4. /\ DOMAIN net' \subseteq DOMAIN net \cup {r}
      /\ \A y \in DOMAIN net : y # r => net'[y] = net[y]
  <2>1. CASE net' = net
    BY <2>1
  <2>2. CASE net' = Mail!BagAdd(net, r)
    <3>1. DOMAIN net' = DOMAIN net \cup {r}
      BY <2>2, BagAdded DEF MachineInv, NetOK
    <3>2. \A y \in DOMAIN net : y # r => net'[y] = net[y]
      BY <2>2, Added DEF MachineInv, NetOK
    <3> QED BY <3>1, <3>2
  <2> QED BY <1>2, <2>1, <2>2
<1>5. Busy' = Busy /\ Asks' = Asks
  BY <1>2 DEF Busy, Asks
<1>6. ASSUME NEW k, NEW x, Debt(k, x, W)' PROVE Debt(k, x, W)
  BY <1>2, <1>3, <1>4, <1>5, <1>6, DebtAfter, DebtNow
<1>7. Single(W)' /\ OnlyOpen(W)'
  BY <1>6, DebtsFewer DEF Owed
<1>8. Once'
  BY <1>3, <1>4 DEF Owed, Once
<1> QED BY <1>2, <1>7, <1>8 DEF Owed

LEMMA NextOwed ==
  ASSUME MachineInv, Linked, Thin, [Next]_vars, [Disciplined]_vars, NEW W, Owed(W)
  PROVE  \E V : Owed(V)'
<1>1. CASE UNCHANGED vars
  <2>1. UNCHANGED <<net, msg, point, reply, promises>> /\ Busy' = Busy
    BY <1>1 DEF vars, locals, vat, Busy
  <2> QED BY <2>1, OwedStays
<1>2. ASSUME \/ Push \/ Lload \/ Eload \/ Estore \/ Construct \/ Call \/ Ret
             \/ (\E op \in Arithmetic : Arith(op)) \/ Lstore
             \/ TooManyOperands \/ CodeOverrun \/ Panic \/ Resume
      PROVE  \E V : Owed(V)'
  <2>1. UNCHANGED <<net, msg, point, reply>> /\ (Lstore \/ UNCHANGED promises)
    BY <1>2 DEF Push, Lload, Lstore, Eload, Estore, Construct, Call, Ret, Arith, Advance, locals, vat,
         TooManyOperands, CodeOverrun, Panic, Resume
  <2>2. Busy' => Busy
    <3>1. CASE Resume
      BY <3>1 DEF Resume, Busy
    <3>2. CASE ~ Resume
      <4>1. mode \in {"run", "ended"} \/ mode' = "dead"
        BY <1>2, <3>2 DEF Push, Lload, Lstore, Eload, Estore, Construct, Call, Ret, Arith, Fetch,
             TooManyOperands, CodeOverrun, Panic
      <4> QED BY <4>1 DEF Busy
    <3> QED BY <3>1, <3>2
  <2>3. /\ DOMAIN promises' = DOMAIN promises
        /\ \A p \in DOMAIN promises : /\ promises'[p].resume = promises[p].resume
                                      /\ promises'[p].src = promises[p].src
                                      /\ promises'[p].to = promises[p].to
    BY <2>1, LstoreResumes
  <2> QED BY <2>1, <2>2, <2>3, OwedStays
<1>3. ASSUME Machine, Disciplined PROVE \E V : Owed(V)'
  BY <1>2, <1>3, AcceptRequestOwed, AcceptResponseOwed, EndOwed, ReturnOwed, AwaitOwed, MessageOwed,
     ForeignOwed DEF Machine, Instruction, Disciplined
<1>4. ASSUME Peers PROVE \E V : Owed(V)'
  BY <1>4, PeerOwed DEF Peers
<1> QED BY <1>1, <1>3, <1>4 DEF Next

LEMMA OneAnswerHolds == RequestsApart /\ OneAnswerInv => AnsweredOnce
<1> SUFFICES ASSUME RequestsApart, OneAnswerInv, NEW q \in Requests
             PROVE  /\ Cardinality(Answers(q)) <= IF q.mute THEN 0 ELSE 1
                    /\ \A m \in Answers(q) : net[m] = 1
  BY DEF AnsweredOnce
<1>1. PICK W : Owed(W)
  BY DEF OneAnswerInv
<1>2. \A m \in Answers(q) : m \in DOMAIN net /\ m.kind = "response" /\ DueOf(m) = DueOf(q)
  <2> SUFFICES ASSUME NEW m \in Answers(q)
               PROVE  m \in DOMAIN net /\ m.kind = "response" /\ DueOf(m) = DueOf(q)
    OBVIOUS
  <2>1. m \in DOMAIN net /\ m.kind = "response" /\ m.dst = q.src /\ m.prom = q.prom
    BY DEF Answers
  <2> QED BY <2>1, DueIs DEF DueOf
<1>3. DueOf(q) # Nobody
  BY RequestIsDue
<1>4. \A m \in Answers(q) : net[m] = 1
  BY <1>1, <1>2, <1>3 DEF Owed, Once
<1>5. \A m, n \in Answers(q) : m = n
  <2> SUFFICES ASSUME NEW m \in Answers(q), NEW n \in Answers(q) PROVE m = n
    OBVIOUS
  <2>1. m \in DOMAIN net /\ n \in DOMAIN net /\ DueOf(m) = DueOf(q) /\ DueOf(n) = DueOf(q)
    BY <1>2
  <2>2. Debt(DueOf(q), <<"mail", m>>, W) /\ Debt(DueOf(q), <<"mail", n>>, W)
    BY <1>3, <2>1, DebtNow
  <2>3. <<"mail", m>> = <<"mail", n>>
    BY <1>1, <2>2 DEF Owed, Single
  <2> QED BY <2>3, Tags
<1>6. q.mute => Answers(q) = {}
  BY <1>2 DEF OneAnswerInv, Hushed
<1>7. Answers(q) = {} \/ \E m : Answers(q) = {m}
  BY <1>5
<1>8. /\ Answers(q) = {} => Cardinality(Answers(q)) = 0
      /\ Cardinality(Answers(q)) = 0 \/ Cardinality(Answers(q)) = 1
  BY <1>7, FS_EmptySet, FS_Singleton
<1> QED BY <1>4, <1>6, <1>8

\* A request is answered at most once, and not at all if it wants no answer, in
\* every program that keeps to what the machine relies on: continuations send no
\* message (vm.rs:212 notes the wrong asker), a handler awaits its own promises
\* and each of them once (vm.rs:385 answers for whom the promise was made, and
\* vm.rs:368 keeps who waits), and ids do not run out (vm.rs:191 cuts them).
THEOREM RequestsAreAnsweredOnce ==
  ASSUME RequestsApart
  PROVE  Spec /\ [][Disciplined]_vars => []AnsweredOnce
<1>1. Init => OneAnswerInv
  BY InitMachine, InitLinked, ThinInit, OriginsInit, OwedInit DEF OneAnswerInv
<1>2. OneAnswerInv /\ [Next]_vars /\ [Disciplined]_vars => OneAnswerInv'
  <2> SUFFICES ASSUME OneAnswerInv, [Next]_vars, [Disciplined]_vars PROVE OneAnswerInv'
    OBVIOUS
  <2>1. MachineInv /\ Linked /\ Thin /\ Origins /\ Hushed /\ [OneLeg]_vars
    BY DEF OneAnswerInv, Disciplined
  <2>2. \E V : Owed(V)'
    BY <2>1, NextOwed DEF OneAnswerInv
  <2> QED BY <2>1, <2>2, NextMachine, NextLinked, NextThin, NextOrigins DEF OneAnswerInv
<1> QED BY <1>1, <1>2, OneAnswerHolds, PTL DEF Spec
=============================================================================
