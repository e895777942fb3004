---------------------------- MODULE MCVatMachine ----------------------------
(***************************************************************************)
(* Instances of VatMachine: programs in the shape of those that come with  *)
(* the repository (test_examples/basic_entity.plm, sys/nodeman.plm), as    *)
(* codegen.rs compiles them, and requests of two other vats.               *)
(***************************************************************************)
EXTENDS VatMachine

\* Instructions.
push(n) == <<[op |-> "Push", x |-> U8(n)]>>
op(o) == <<[op |-> o]>>
load(k) == <<[op |-> "Lload", k |-> k]>>
store(k) == <<[op |-> "Lstore", k |-> k]>>
field(k) == <<[op |-> "Eload", k |-> k]>>
assign(k) == <<[op |-> "Estore", k |-> k]>>
new(t, n) == <<[op |-> "Construct", t |-> t, n |-> n]>>
call(to, n) == <<[op |-> "Call", to |-> to, n |-> n]>>
send(fn, n) == <<[op |-> "Message", fn |-> fn, n |-> n]>>
foreign(name, params) == <<[op |-> "Foreign", name |-> name, params |-> params]>>
ret == op("Ret")
wait(k) == load(k) \o op("Await")

\* let k = self ! fn(); await k;
ask(k, fn) == field("self") \o send(fn, 0) \o store(k) \o wait(k)
\* let k = other ! fn(); await k;
askPeer(k, fn) == field("other") \o send(fn, 0) \o store(k) \o wait(k)

\* Layout: functions one after the other, create first in its entity.
StartOf(functions, i) == 1 + Len(FlattenSeq(SubSeq(functions, 1, i - 1)))
EntryOf(functions, sizes) ==
  [t \in 0 .. Len(sizes) - 1 |->
     LET before == FoldSeq(+, 0, SubSeq(sizes, 1, t)) IN
     [f \in 0 .. sizes[t + 1] - 1 |-> StartOf(functions, before + f + 1)]]

-----------------------------------------------------------------------------
(* Vats and requests *)

MCSelf == 0
Other == 5                         \* a vat that entities know as "other"
Me(e) == Addr(MCSelf, e)
Client(c) == Addr(c, 0)            \* clients are the vats 7, 8 and 9
Ask(c, fn, args) == Request(Client(c), Me(0), fn, args, {c})
Entity(t, e) == [type |-> t, data |-> ("self" :> Ref(Me(e)) @@ "other" :> Ref(Addr(Other, 0)))]
MCBoot == [e \in {0} |-> Entity(0, 0)]
MCFields == [t \in {0, 1} |-> IF t = 0 THEN {"other"} ELSE {"size"}]
\* What vat 5 answers, and the monad to nodeman.
MCPeerAnswer == [fn \in 0 .. 2 |-> U8(10 + fn)]

-----------------------------------------------------------------------------
(* A program in which every handler awaits at most one answer *)

Create == store("m") \o load("m") \o assign("other") \o field("self") \o ret   \* 0
Twice == store("k") \o load("k") \o load("k") \o op("Add") \o ret              \* 1
TwiceAt == 6                       \* where Twice starts
Darth == push(4) \o ret                                                        \* 2
Callax == ask("n", 2) \o load("n") \o push(8) \o op("Add") \o ret              \* 3
Bartho == ask("n", 3) \o load("n") \o ret                                      \* 4
Meter == store("k") \o askPeer("r", 0) \o load("k") \o field("self")
           \o call(TwiceAt, 1) \o load("r") \o op("Mul") \o ret                \* 5
Make == new(1, 0) \o store("b") \o load("b") \o ret                            \* 6
\* create of the second entity type
Blob == push(9) \o assign("size") \o field("self") \o ret

Plain == <<Create, Twice, Darth, Callax, Bartho, Meter, Make, Blob>>
PlainCode == FlattenSeq(Plain)
PlainEntry == EntryOf(Plain, <<7, 1>>)

PlainRequests ==
  {Ask(7, 4, <<>>), Ask(8, 5, <<U8(3)>>), Ask(9, 5, <<U8(6)>>), Ask(6, 6, <<>>)}
PlainAnswers ==
  [q \in PlainRequests |->
     CASE q.fn = 4 -> U8(12)
       [] q.fn = 5 -> U8(10 * 2 * q.args[1].u8)
       [] q.fn = 6 -> Ref(Me(1))]

-----------------------------------------------------------------------------
(* Handlers that panic, hang or end oddly, and some that wait meanwhile *)

Square == store("k") \o load("k") \o load("k") \o op("Mul") \o ret             \* 1
Ratio == store("k") \o load("k") \o load("k") \o op("Div") \o load("k")
           \o load("k") \o op("Sub") \o op("Add") \o ret                       \* 2
Forget == field("self") \o send(1, 0) \o push(0) \o ret      \* self ! f(); \* 3
Stuck == push(5) \o store("n") \o wait("n") \o push(0) \o ret                  \* 4
Later == store("k") \o askPeer("r", 1) \o load("k") \o load("r") \o op("Add")
           \o ret                                                             \* 5
Nmup == foreign("nmup", {}) \o ret \* nodeman's, bound to the host's function \* 6
Endless == push(7)                 \* no return statement                    \* 7

Faults == <<Create, Square, Ratio, Forget, Stuck, Later, Nmup, Endless>>
FaultsCode == FlattenSeq(Faults)
FaultsEntry == EntryOf(Faults, <<8>>)

FaultsRequests ==
  {[Ask(4, 6, <<>>) EXCEPT !.mute = TRUE, !.prom = {}], Ask(7, 4, <<>>), Ask(8, 7, <<>>),
   Ask(10, 1, <<U8(16)>>),
   Ask(6, 2, <<U8(2)>>), Ask(11, 2, <<U8(0)>>), Ask(12, 3, <<>>), Ask(13, 9, <<>>),
   Request(Client(14), Me(3), 0, <<>>, {14}), Ask(15, 1, <<Prom(0)>>),
   Ask(16, 5, <<U8(1)>>), Ask(18, 5, <<U8(2)>>)}
FaultsAnswers ==
  [q \in FaultsRequests |->
     CASE q.fn = 2 -> U8(1)
       [] q.fn = 5 -> U8(11 + q.args[1].u8) [] q.fn = 7 -> U8(7) [] OTHER -> None]

-----------------------------------------------------------------------------
(* A handler that sends its second message after its first await *)

\* let a = self ! darth(); await a; let b = other ! f(); await b;
Chain == ask("a", 1) \o askPeer("b", 0) \o load("a") \o load("b") \o op("Add") \o ret
ChainFunctions == <<Create, Darth, Chain>>
ChainCode == FlattenSeq(ChainFunctions)
ChainEntry == EntryOf(ChainFunctions, <<3>>)
ChainRequests == {Ask(7, 2, <<>>), Ask(8, 2, <<>>)}
ChainAnswers == [q \in ChainRequests |-> U8(14)]
=============================================================================
