----------------------------- MODULE VatMachine -----------------------------
(***************************************************************************)
(* The virtual machine of src/src/vm.rs and vm_core.rs: how one vat, Self, *)
(* executes the messages it is given, how a handler waits for the answer   *)
(* to a message it sent, and how it is continued when the answer comes.    *)
(*                                                                         *)
(* The runtime around it is what VatMail promises: the vat handles one     *)
(* message at a time, and any message that waits for it may be the next.   *)
(* Messages anywhere on their way, and the responses that others got, are  *)
(* in the bag net.  Other vats run the same machine: a request to one of   *)
(* them is answered, once, some time.                                      *)
(*                                                                         *)
(* Code is a sequence of decoded instructions; an address is an index.     *)
(* Handlers are compiled from Hylic, so their instructions are typed       *)
(* records made by the operators of MCVatMachine.                          *)
(***************************************************************************)
EXTENDS Integers, FiniteSets, SequencesExt
Mail == INSTANCE BagsExt

CONSTANTS
  Self,          \* vat_id
  Code,          \* Vat::code, decoded
  Entry,         \* Entry[type][function]: the function tables of Code
  Fields,        \* Fields[type]: the data tables of Code (names of variables)
  Boot,          \* the entities of the vat to begin with
  Requests,      \* requests that others send to this vat
  Expected,      \* Expected[request]: what its handler computes on its own
  PeerAnswer,    \* PeerAnswer[function]: what another vat answers
  PromiseSlots   \* how many ids a promise can have: 256, promise ids are u8

\* Hvalue: numbers are bytes, addresses name an entity, promises an id.
U8(n) == [u8 |-> n]
Addr(v, e) == [vat |-> v, ent |-> e]
Ref(a) == [addr |-> a]
Prom(p) == [prom |-> p]
None == [none |-> TRUE]
IsU8(x) == "u8" \in DOMAIN x
IsRef(x) == "addr" \in DOMAIN x
IsProm(x) == "prom" \in DOMAIN x
Byte == 0 .. 255

\* Option<u32>: a set of at most one promise id.
Request(src, dst, fn, args, prom) ==
  [kind |-> "request", src |-> src, dst |-> dst, fn |-> fn, args |-> args,
   prom |-> prom, mute |-> FALSE]
Response(src, dst, result, prom) ==
  [kind |-> "response", src |-> src, dst |-> dst, result |-> result, prom |-> prom]

ASSUME SlotsAssumption == PromiseSlots \in Nat \ {0}
\* Addresses are relocated within the code (codegen.rs:184).  No program of the
\* repository assigns to self, though nothing in the compiler forbids it.
ASSUME ProgramAssumption ==
  /\ Len(Code) \in Nat /\ DOMAIN Code = 1 .. Len(Code)
  /\ \A t \in DOMAIN Entry : \A f \in DOMAIN Entry[t] : Entry[t][f] \in 1 .. Len(Code)
  /\ \A i \in DOMAIN Code :
       /\ Code[i].op = "Call" => Code[i].to \in 1 .. Len(Code)
       /\ Code[i].op = "Estore" => Code[i].k # "self"
ASSUME BootAssumption ==
  \A e \in DOMAIN Boot :
    /\ Boot[e] = [type |-> Boot[e].type, data |-> Boot[e].data]
    /\ Boot[e].type \in DOMAIN Entry
    /\ "self" \in DOMAIN Boot[e].data /\ Boot[e].data["self"] = Ref(Addr(Self, e))
ASSUME RequestAssumption ==
  \A q \in Requests :
    /\ q.kind = "request" /\ q.dst.vat = Self /\ q.src.vat # Self
    /\ q.prom \subseteq Nat /\ IsFiniteSet(q.prom) /\ Cardinality(q.prom) <= 1

VARIABLES
  net,         \* messages on their way, and responses that arrived elsewhere
  mode,        \* idle, run, ended, yielded, next (continuation), dead
  ip,          \* run_expr: x
  msg,         \* run_msg: the message being handled
  asker,       \* run_expr: src_promise_id
  todo,        \* run_msg: resolutions still to be run
  point,       \* run_msg: its clone of the promise that was answered
  reply,       \* run_msg: out_msg
  ops,         \* Vat::op_stack
  calls,       \* Vat::call_stack
  promises,    \* Vat::promise_stack, a map in spite of its name
  entities     \* Vat::entities

locals == <<msg, asker, todo, point, reply>>
vat == <<ops, calls, promises, entities>>
vars == <<net, mode, ip, locals, vat>>

NoReturn == 0
Frame(e, r) == [ent |-> e, locals |-> <<>>, ret |-> r]
Put(f, k, x) == [j \in DOMAIN f \cup {k} |-> IF j = k THEN x ELSE f[j]]
StoreLocal(cs, k, x) == [cs EXCEPT ![Len(cs)].locals = Put(@, k, x)]

\* Promise::new.  "resolved" is left out: it is only ever set in a clone, so
\* the test of Await finds it false.
Promise(src, to) ==
  [vars |-> <<>>, resume |-> <<>>, ops |-> <<>>, calls |-> <<>>, src |-> src, to |-> to]
NoMsg == [kind |-> "none"]
NoPromise == Promise({}, Addr(0, 0))

\* The function a request names: none, if there is no such entity or function.
Function(e, f) ==
  IF e \in DOMAIN entities /\ f \in DOMAIN Entry[entities[e].type]
  THEN {Entry[entities[e].type][f]} ELSE {}

Init ==
  /\ net = [q \in Requests |-> 1]
  /\ mode = "idle" /\ ip = 1
  /\ msg = NoMsg /\ asker = {} /\ todo = <<>> /\ point = NoPromise /\ reply = {}
  /\ ops = <<>> /\ calls = <<>> /\ promises = <<>>
  /\ entities = Boot

-----------------------------------------------------------------------------
(* Broken variants of definitions below, one step wrong in each: putting   *)
(* one in the place of its definition shows which property notices.        *)

\* A continuation on the stacks as they happen to be.
ResumeUnrestored ==
  /\ mode = "next" /\ todo # <<>>
  /\ todo' = Tail(todo)
  /\ IF calls # <<>> /\ point.vars # <<>>
     THEN /\ calls' = StoreLocal(calls, Head(point.vars), msg.result)
          /\ ip' = Head(todo)
          /\ asker' = point.src
          /\ mode' = "run"
     ELSE mode' = "dead" /\ UNCHANGED <<calls, ip, asker>>
  /\ UNCHANGED <<net, msg, point, reply, ops, promises, entities>>

\* A reply although the handler only yielded.
EndRequestReplies ==
  /\ mode \in {"ended", "yielded"} /\ Len(ops) <= 1 /\ msg.kind = "request"
  /\ reply' = IF msg.mute THEN {} ELSE {Response(msg.dst, msg.src, None, msg.prom)}
  /\ ops' = IF mode = "ended" THEN <<>> ELSE ops
  /\ mode' = "next"
  /\ UNCHANGED <<net, ip, msg, asker, todo, point, calls, promises, entities>>

\* Arithmetic of the release profile: it wraps.
ComputeWraps(op, x, y) ==
  (CASE op = "Add" -> x + y [] op = "Sub" -> x - y
     [] op = "Mul" -> x * y [] op = "Div" -> x \div y) % 256

\* An id that is cut too early, and one that is never cut.
NextPromiseCutEarly == Cardinality(DOMAIN promises) % (PromiseSlots - 1)
NextPromiseUncut == Cardinality(DOMAIN promises)

\* An await that saves the stacks and forgets where to go on.
AwaitForgets ==
  /\ mode = "run" /\ ip \in DOMAIN Code /\ Code[ip].op = "Await" /\ ops # <<>>
  /\ ops' = Front(ops)
  /\ promises' = IF IsProm(Last(ops))
                 THEN [promises EXCEPT ![Last(ops).prom].ops = Front(ops),
                                       ![Last(ops).prom].calls = calls]
                 ELSE promises
  /\ mode' = "yielded" /\ ip' = ip + 1
  /\ UNCHANGED <<net, locals, calls, entities>>

\* nmup's request to the monad made with a promise that nobody holds.
ForeignPromises ==
  /\ mode = "run" /\ ip \in DOMAIN Code /\ Code[ip].op = "Foreign"
  /\ net' = Mail!BagAdd(net, Request(Addr(0, 0), Addr(1, 0), 2, <<>>, {PromiseSlots - 1}))
  /\ ops' = Append(ops, None) /\ ip' = ip + 1
  /\ UNCHANGED <<mode, locals, calls, promises, entities>>

-----------------------------------------------------------------------------
(* run_msg *)

\* A request gets a fresh frame; its arguments go on to the operand stack.
\* An entity or function that is not there is an unwrap or index that panics.
AcceptRequest(m) ==
  LET start == Function(m.dst.ent, m.fn) IN
  /\ mode = "idle" /\ m.kind = "request" /\ m.dst.vat = Self
  /\ net' = Mail!BagRemove(net, m)
  /\ msg' = m /\ asker' = m.prom
  /\ calls' = Append(calls, Frame(0, NoReturn))
  /\ ops' = ops \o m.args
  /\ mode' = IF start = {} THEN "dead" ELSE "run"
  /\ ip' \in (IF start = {} THEN {ip} ELSE start)
  /\ UNCHANGED <<todo, point, reply, promises, entities>>

\* A response continues whoever awaits its promise.  The promise that is
\* stored stays as it is: only the clone is emptied and marked as resolved.
AcceptResponse(m) ==
  /\ mode = "idle" /\ m.kind = "response" /\ m.dst.vat = Self
  /\ net' = Mail!BagRemove(net, m)
  /\ msg' = m
  /\ \/ m.prom = {} /\ mode' = "next" /\ UNCHANGED <<point, todo>>
     \/ \E p \in m.prom :
          LET id == p % PromiseSlots IN
          IF id \in DOMAIN promises
          THEN /\ mode' = "next"
               /\ point' = promises[id]
               /\ todo' = promises[id].resume
          ELSE mode' = "dead" /\ UNCHANGED <<point, todo>>
  /\ UNCHANGED <<ip, asker, reply, vat>>

\* Continue after an await: stacks as they were saved, the result in the
\* variable that the promise was first stored in.
Resume ==
  /\ mode = "next" /\ todo # <<>>
  /\ todo' = Tail(todo)
  /\ ops' = point.ops
  /\ IF point.calls # <<>> /\ point.vars # <<>> /\ msg.dst.ent \in DOMAIN entities
     THEN /\ calls' = StoreLocal(point.calls, Head(point.vars), msg.result)
          /\ ip' = Head(todo)
          /\ asker' = point.src
          /\ mode' = "run"
     ELSE mode' = "dead" /\ UNCHANGED <<calls, ip, asker>>
  /\ UNCHANGED <<net, msg, point, reply, promises, entities>>

\* run_expr returned: nothing if the code yielded, or the operand that is left.
Result == IF ops = <<>> THEN None ELSE Head(ops)
Returned == mode \in {"ended", "yielded"} /\ Len(ops) <= 1

EndRequest ==
  /\ Returned /\ msg.kind = "request"
  /\ reply' = IF mode = "yielded" \/ msg.mute THEN {}
              ELSE {Response(msg.dst, msg.src, Result, msg.prom)}
  /\ ops' = IF mode = "ended" THEN <<>> ELSE ops
  /\ mode' = "next"
  /\ UNCHANGED <<net, ip, msg, asker, todo, point, calls, promises, entities>>

EndContinuation ==
  /\ Returned /\ msg.kind = "response"
  /\ reply' = IF mode = "yielded" \/ point.src = {} THEN reply
              ELSE {Response(msg.dst, point.to, Result, point.src)}
  /\ ops' = IF mode = "ended" THEN <<>> ELSE ops
  /\ mode' = "next"
  /\ UNCHANGED <<net, ip, msg, asker, todo, point, calls, promises, entities>>

\* run_msg returns and the hotplate sends what it returned, if anything.
Return ==
  /\ mode = "next" /\ todo = <<>>
  /\ net' \in {Mail!BagAdd(net, m) : m \in reply} \cup (IF reply = {} THEN {net} ELSE {})
  /\ mode' = "idle"
  /\ msg' = NoMsg /\ asker' = {} /\ point' = NoPromise /\ reply' = {}
  /\ UNCHANGED <<ip, todo, vat>>

\* The check after the loop of run_expr.
TooManyOperands ==
  /\ mode \in {"ended", "yielded"} /\ Len(ops) > 1
  /\ mode' = "dead"
  /\ UNCHANGED <<net, ip, locals, vat>>

-----------------------------------------------------------------------------
(* run_expr: one action per instruction *)

Popped(i) == ops[Len(ops) + 1 - i]               \* the i-th operand popped
PopArgs(n) == [i \in 1 .. n |-> Popped(i)]
Under(n) == SubSeq(ops, 1, Len(ops) - n)
Here == Last(calls).ent                          \* "the current entity"

Arithmetic == {"Add", "Sub", "Mul", "Div"}
\* The operand on top of the stack is the left one.
Compute(op, x, y) ==
  CASE op = "Add" -> x + y
    [] op = "Sub" -> x - y
    [] op = "Mul" -> x * y
    [] op = "Div" -> x \div y

Pops(i) ==
  CASE i.op \in Arithmetic -> 2
    [] i.op \in {"Lstore", "Estore", "Await"} -> 1
    [] i.op = "Construct" -> i.n
    [] i.op \in {"Call", "Message"} -> i.n + 1
    [] OTHER -> 0

\* What the unwraps, indexings and checks of an instruction need so as not
\* to panic (overflow panics: the makefile builds the debug profile).
Fine(i) ==
  /\ Len(ops) >= Pops(i)
  /\ i.op \in {"Lload", "Lstore", "Eload", "Estore", "Ret"} => calls # <<>>
  /\ i.op \in Arithmetic =>
       /\ IsU8(Popped(1)) /\ IsU8(Popped(2))
       /\ i.op = "Div" => Popped(2).u8 # 0
       /\ Compute(i.op, Popped(1).u8, Popped(2).u8) \in Byte
  /\ i.op = "Lload" => i.k \in DOMAIN Last(calls).locals
  /\ i.op \in {"Eload", "Estore"} => Here \in DOMAIN entities
  /\ i.op = "Eload" => i.k \in DOMAIN entities[Here].data
  /\ i.op \in {"Lstore", "Await"} /\ IsProm(Popped(1)) => Popped(1).prom \in DOMAIN promises
  /\ i.op = "Construct" => i.t \in DOMAIN Entry /\ 0 \in DOMAIN Entry[i.t]
  /\ i.op = "Call" => IsRef(Popped(1))
  /\ i.op = "Message" => IsRef(Popped(i.n + 1))
  /\ i.op = "Foreign" => i.params \subseteq DOMAIN Last(calls).locals

Fetch(name) ==
  /\ mode = "run" /\ ip \in DOMAIN Code /\ Code[ip].op = name
  /\ Fine(Code[ip])
Advance == ip' = ip + 1 /\ UNCHANGED <<mode, locals>>

Panic ==
  /\ mode = "run" /\ ip \in DOMAIN Code /\ ~ Fine(Code[ip])
  /\ mode' = "dead"
  /\ UNCHANGED <<net, ip, locals, vat>>

\* A function without a return runs into the next one, and so off the end.
CodeOverrun ==
  /\ mode = "run" /\ ip \notin DOMAIN Code
  /\ mode' = "ended"
  /\ UNCHANGED <<net, ip, locals, vat>>

Push ==
  /\ Fetch("Push") /\ Advance
  /\ ops' = Append(ops, Code[ip].x)
  /\ UNCHANGED <<net, calls, promises, entities>>

Arith(op) ==
  /\ Fetch(op) /\ Advance
  /\ ops' = Append(Under(2), U8(Compute(op, Popped(1).u8, Popped(2).u8)))
  /\ UNCHANGED <<net, calls, promises, entities>>

Lload ==
  /\ Fetch("Lload") /\ Advance
  /\ ops' = Append(ops, Last(calls).locals[Code[ip].k])
  /\ UNCHANGED <<net, calls, promises, entities>>

\* A variable that a promise is stored in is noted in the promise.
Lstore ==
  LET x == Popped(1) IN
  /\ Fetch("Lstore") /\ Advance
  /\ ops' = Under(1)
  /\ calls' = StoreLocal(calls, Code[ip].k, x)
  /\ promises' = IF IsProm(x)
                 THEN [promises EXCEPT ![x.prom].vars = Append(@, Code[ip].k)]
                 ELSE promises
  /\ UNCHANGED <<net, entities>>

Eload ==
  /\ Fetch("Eload") /\ Advance
  /\ ops' = Append(ops, entities[Here].data[Code[ip].k])
  /\ UNCHANGED <<net, calls, promises, entities>>

Estore ==
  /\ Fetch("Estore") /\ Advance
  /\ ops' = Under(1)
  /\ entities' = [entities EXCEPT ![Here].data = Put(@, Code[ip].k, Popped(1))]
  /\ UNCHANGED <<net, calls, promises>>

\* A new entity with its type's variables, all of them 4, which is what the
\* compiler puts into its table of values, and a call of its first function;
\* the arguments are popped and dropped.
Construct ==
  LET e == Cardinality(DOMAIN entities)
      t == Code[ip].t IN
  /\ Fetch("Construct")
  /\ entities' = Put(entities, e,
       [type |-> t,
        data |-> Put([k \in Fields[t] |-> U8(4)], "self", Ref(Addr(Self, e)))])
  /\ ops' = Under(Code[ip].n)
  /\ calls' = Append(calls, Frame(e, ip + 1))
  /\ ip' = Entry[t][0]
  /\ UNCHANGED <<net, mode, locals, promises>>

\* A call within the vat: arguments back on the stack in popped order.
Call ==
  LET n == Code[ip].n IN
  /\ Fetch("Call")
  /\ ops' = Under(n + 1) \o [i \in 1 .. n |-> Popped(i + 1)]
  /\ calls' = Append(calls, Frame(Popped(1).addr.ent, ip + 1))
  /\ ip' = Code[ip].to
  /\ UNCHANGED <<net, mode, locals, promises, entities>>

\* A message expression: the request is sent at once, its value is a promise.
\* Ids come from the size of the table, cut to a u8.
NextPromise == Cardinality(DOMAIN promises) % PromiseSlots
Message ==
  LET n == Code[ip].n IN
  /\ Fetch("Message") /\ Advance
  /\ net' = Mail!BagAdd(net, Request(msg.dst, Popped(n + 1).addr, Code[ip].fn, PopArgs(n),
                                {NextPromise}))
  /\ promises' = Put(promises, NextPromise, Promise(asker, msg.src))
  /\ ops' = Append(Under(n + 1), Prom(NextPromise))
  /\ UNCHANGED <<calls, entities>>

\* Await saves the stacks and gives up the handler, whatever it awaits.
Await ==
  LET x == Popped(1) IN
  /\ Fetch("Await")
  /\ ops' = Under(1)
  /\ promises' = IF IsProm(x)
                 THEN [promises EXCEPT ![x.prom].ops = Under(1),
                                       ![x.prom].calls = calls,
                                       ![x.prom].resume = Append(@, ip + 1)]
                 ELSE promises
  /\ mode' = "yielded" /\ ip' = ip + 1
  /\ UNCHANGED <<net, locals, calls, entities>>

Ret ==
  /\ Fetch("Ret")
  /\ calls' = Front(calls)
  /\ IF Last(calls).ret = NoReturn
     THEN mode' = "ended" /\ ip' = ip + 1
     ELSE ip' = Last(calls).ret /\ UNCHANGED mode
  /\ UNCHANGED <<net, locals, ops, promises, entities>>

\* A function of the host.  Of those there are only nmup leaves a trace here,
\* the monad's seminal request in the outbox; all return None.
Foreign ==
  /\ Fetch("Foreign") /\ Advance
  /\ net' = IF Code[ip].name = "nmup"
            THEN Mail!BagAdd(net, Request(Addr(0, 0), Addr(1, 0), 2, <<>>, {}))
            ELSE net
  /\ ops' = Append(ops, None)
  /\ UNCHANGED <<calls, promises, entities>>

Instruction ==
  \/ Push \/ Lload \/ Lstore \/ Eload \/ Estore
  \/ \E op \in Arithmetic : Arith(op)
  \/ Construct \/ Call \/ Message \/ Await \/ Ret \/ Foreign

Machine ==
  \/ \E m \in DOMAIN net : AcceptRequest(m) \/ AcceptResponse(m)
  \/ Resume \/ EndRequest \/ EndContinuation \/ Return \/ TooManyOperands
  \/ Instruction \/ CodeOverrun \/ Panic

\* Another vat answers a request of this one.
PeerAnswers(m) ==
  /\ m.kind = "request" /\ m.dst.vat # Self
  /\ net' = Mail!BagAdd(Mail!BagRemove(net, m), Response(m.dst, m.src, PeerAnswer[m.fn], m.prom))
  /\ UNCHANGED <<mode, ip, locals, vat>>
Peers == \E m \in DOMAIN net : PeerAnswers(m)

Next == Machine \/ Peers

Spec == Init /\ [][Next]_vars

(* Fairness: the runtime hands a vat its mail and the code of a handler is *)
(* finite (HostedRuntime, MailIsHandled); other vats answer.               *)
FairSpec == Spec /\ WF_vars(Machine) /\ WF_vars(Peers)

-----------------------------------------------------------------------------
(* Properties *)

Slots == 0 .. PromiseSlots - 1
Frames(cs) == \A i \in DOMAIN cs : cs[i].ret \in 0 .. Len(Code) + 1

TypeOK ==
  /\ mode \in {"idle", "run", "ended", "yielded", "next", "dead"}
  /\ ip \in 1 .. Len(Code) + 1
  /\ IsABag(net) /\ Cardinality(reply) <= 1
  /\ asker \subseteq Nat /\ Cardinality(asker) <= 1
  /\ Frames(calls) /\ (mode = "run" => calls # <<>>)
  /\ DOMAIN promises = 0 .. Cardinality(DOMAIN promises) - 1
  /\ DOMAIN promises \subseteq Slots
  /\ \A p \in DOMAIN promises : Frames(promises[p].calls)
  /\ \A e \in DOMAIN entities : entities[e].data["self"] = Ref(Addr(Self, e))
  /\ mode = "idle" => msg = NoMsg /\ todo = <<>> /\ reply = {}

Answers(q) ==
  {m \in DOMAIN net : m.kind = "response" /\ m.dst = q.src /\ m.prom = q.prom}
Asked == {q \in Requests : q.prom # {} /\ ~ q.mute}

\* A request is answered at most once, and not at all if it wants no answer,
\* however its handler, those of other requests and the answers they wait for
\* are interleaved (vm.rs: 342, 385).
AnsweredOnce ==
  \A q \in Requests :
    /\ Cardinality(Answers(q)) <= IF q.mute THEN 0 ELSE 1
    /\ \A m \in Answers(q) : net[m] = 1

\* The response is what the handler would have computed on its own: the
\* operands, variables and frames of handlers that wait stay apart, though
\* they share one operand stack and one call stack (vm.rs: 325, 379).
AnsweredRight == \A q \in Asked : \A m \in Answers(q) : m.result = Expected[q]

\* A response to this vat finds its promise: run_msg unwraps it (vm.rs: 364).
AnswerHasPromise ==
  \A m \in DOMAIN net :
    m.kind = "response" /\ m.dst.vat = Self => m.prom \subseteq DOMAIN promises

\* As long as there are unused ids, a new promise replaces none that exists,
\* and a handler that awaits one stays noted there (vm.rs: 191, 214, 235).
PromiseKept ==
  [][Cardinality(DOMAIN promises) < PromiseSlots =>
       \A p \in DOMAIN promises :
         p \in DOMAIN promises' /\ IsPrefix(promises[p].resume, promises'[p].resume)]_vars

\* Everyone who asks with a promise is answered in the end.  "If this message
\* has a promise that it needs to respond to, do it" (vm.rs:385).
AllAnswered == \A q \in Asked : <>(Answers(q) # {})
=============================================================================
