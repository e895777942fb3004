------------------------------ MODULE KernelBoot ------------------------------
(***************************************************************************)
(* The vats of the C++ runtime in src/archive from boot on: the Monad and  *)
(* its system entities, a NodeMan on every node, and the programs that     *)
(* nodes ask the Monad to start (core/kernel.cpp, core/amoeba.cpp, and     *)
(* create_entity of hylic_eval.cpp).  A vat takes the oldest message of    *)
(* some sender and runs its handler to the end, which is what BurnerNode   *)
(* implements (VatChannels); promises are those of PromiseEval, of which   *)
(* only promised targets occur here.                                       *)
(*                                                                         *)
(* A program is what its main does, in order: "print" to the Io, "init"    *)
(* of the Amoeba, "new" for an entity in a vat of its own, and "zig", a    *)
(* message to itself for a function that prints and returns nothing.       *)
(***************************************************************************)
EXTENDS Integers, Sequences, FiniteSets, SequencesExt, FiniteSetsExt

CONSTANTS
  Main,        \* Main[n]: what the main of node n's program does
  Inocaps,     \* Inocaps[p]: the system entities p asks for, a sequence
  Preamble,    \* Preamble[p]: the resources it needs
  Resources,   \* Resources[n]: those of node n
  MaxKeys,     \* bound: keys pressed
  None,        \* no value yet
  Nothing      \* a value that is not an entity

Nodes == {0, 1}       \* node 1 may join
Programs == Nodes
Child == 2              \* the entity that "new" makes

\* What names resolve to has been looked at before anything runs: a main uses
\* only what its entity asks for.
ProgramAssumption ==
  /\ \A p \in Programs \cup {Child} : Inocaps[p] \in Seq(STRING)
  /\ \A p \in Programs :
       /\ Main[p] \in Seq({"print", "init", "new", "zig"})
       /\ "print" \in ToSet(Main[p]) => "Io" \in ToSet(Inocaps[p])
       /\ "init" \in ToSet(Main[p]) => "Amoeba" \in ToSet(Inocaps[p])
ASSUME ProgramAssumption

\* Addresses: node and vat, the entity is always 0.  The main thread of a node
\* and its keyboard send as nobody, and get no answers.
MonadRef == <<0, 0>>
Thread(n) == <<n, -1>>
Keyboard == <<0, -2>>
IsVat(a) == a[2] >= 0

\* The system entities hello makes, in order; and another order.
SystemNamesSwapped == <<"Amoeba", "Io", "HttpLb", "ZenoMaster">>
SystemNames == <<"Io", "Amoeba", "HttpLb", "ZenoMaster">>
Names == ToSet(SystemNames) \cup {"Monad"}

\* Why a node stops (Failure, below).
Failures == {"no such function", "unschedulable", "name lost", "no such entity", "void"}

ValueAssumption ==
  /\ None \notin (Int \X Int) \cup Failures
  /\ Nothing \notin STRING \cup Names
ASSUME ValueAssumption

VARIABLES
  vats,          \* what there is in the vats, by address
  promises,      \* promises[v]: those of vat v, by their ids
  base,          \* base[n]: vat_id_base, the next vat of node n
  mail,          \* mail[<<s, d>>]: messages from s to d, oldest first
  nodes,         \* nodes of the cluster, in the order they joined
  system,        \* system_entities of the kernel
  subscribers,   \* irq_subscriptions[1]
  screen,        \* SDL is initialised: the keyboard thread sends keys
  keys,          \* keys pressed
  down,          \* nodes that are gone
  panics,        \* history: why
  prints,        \* history: prints[v]: what the Io has printed of vat v, in order
  ran            \* history: ran[p]: where the main of program p has run

kernel == <<nodes, system, subscribers>>
history == <<panics, prints, ran>>
vars == <<vats, promises, base, mail, kernel, screen, keys, down, history>>

-----------------------------------------------------------------------------
(* Vats, promises and messages *)

Vat(kind, prog) == [kind |-> kind, prog |-> prog]
Promise == [value |-> None, dependents |-> <<>>, asker |-> None]

Request(fn, args, pid) == [re |-> FALSE, fn |-> fn, args |-> args, prom |-> pid]
Response(m, value) == [re |-> TRUE, fn |-> m.fn, args |-> value, prom |-> m.prom]

\* A map from addresses, or from channels, to sequences.
At(f, x) == IF x \in DOMAIN f THEN f[x] ELSE <<>>
Put(f, x, ms) == [y \in DOMAIN f \cup {x} |-> IF y = x THEN At(f, x) \o ms ELSE f[y]]

\* The members of a finite set of numbers, in order.
InOrder(S) ==
  CHOOSE f \in [1 .. Cardinality(S) -> S] : \A i, j \in DOMAIN f : i < j => f[i] < f[j]

Index(seq, x) == CHOOSE i \in DOMAIN seq : seq[i] = x

\* The capabilities of an entity: the i-th is the i-th promise of its vat.
CapsOf(x) ==
  IF x.kind = "Program" THEN Inocaps[x.prog]
  ELSE IF x.kind = "Amoeba" THEN <<"Monad">> ELSE <<>>
Cap(v, c) == Index(CapsOf(vats[v]), c)

\* What a handler calls, in order: functions of an address, and of what a
\* promise of its vat stands for.  Every call makes a promise.
Call(to, fn, args) == [on |-> 0, to |-> to, fn |-> fn, args |-> args]
CallPromise(k, fn, args) == [on |-> k, to |-> None, fn |-> fn, args |-> args]
Target(v, c) ==
  IF c.on = 0 THEN c.to
  ELSE IF c.on \in DOMAIN promises[v] THEN promises[v][c.on].value ELSE None
Called(v, calls, i) == Request(calls[i].fn, calls[i].args, Len(promises[v]) + i)
CallsOf(v, calls, S) == LET in == InOrder(S) IN [i \in DOMAIN in |-> Called(v, calls, in[i])]

\* eval_message_node, to a target that is there: the message is sent.
SentBy(v, calls) ==
  [d \in {Target(v, calls[i]) : i \in DOMAIN calls} \ {None} |->
     CallsOf(v, calls, {i \in DOMAIN calls : Target(v, calls[i]) = d})]
\* To a promise that is not known: the message depends on it.  Variants with
\* one bug each: dependents are kept newest first, the call is dropped.
WaitingNewestFirst(v, calls, k) ==
  Reverse(CallsOf(v, calls, {i \in DOMAIN calls : calls[i].on = k /\ Target(v, calls[i]) = None}))
WaitingNot(v, calls, k) == <<>>
Waiting(v, calls, k) ==
  CallsOf(v, calls, {i \in DOMAIN calls : calls[i].on = k /\ Target(v, calls[i]) = None})
PromisesAfter(v, calls) ==
  LET old == promises[v] IN
  [k \in 1 .. Len(old) + Len(calls) |->
     LET p == IF k \in DOMAIN old THEN old[k] ELSE Promise IN
     [p EXCEPT !.dependents = @ \o Waiting(v, calls, k)]]

\* An answer to whoever sent m, if it was sent by a vat.
Answer(out, s, m, value) ==
  IF IsVat(s) THEN Put(out, s, <<Response(m, value)>>) ELSE out
NoMail == <<>>

\* create_entity: w asks the Monad for every capability.  The values of a
\* message that leaves its node are written out: of a reference only the
\* address is kept, not the type of what it stands for.
Asks(w, caps) ==
  [i \in DOMAIN caps |->
     Request("request-far-entity", IF w[1] = MonadRef[1] THEN caps[i] ELSE Nothing, i)]

-----------------------------------------------------------------------------
(* Boot *)

HelloMsg == Request("hello", Nothing, 0)
StartProgramMsg(n) == Request("start-program", n, 0)

Init ==
  /\ vats = [v \in {MonadRef, <<0, 1>>} |-> Vat(IF v = MonadRef THEN "Monad" ELSE "NodeMan", None)]
  /\ promises = [v \in {MonadRef, <<0, 1>>} |-> <<>>]
  /\ base = [n \in Nodes |-> IF n = 0 THEN 2 ELSE 0]
  /\ mail = [c \in {<<Thread(0), MonadRef>>} |-> <<HelloMsg, StartProgramMsg(0)>>]
  /\ nodes = <<[id |-> 0, nodeman |-> <<0, 1>>]>>
  /\ system = <<>> /\ subscribers = <<>>
  /\ screen = FALSE /\ keys = 0 /\ down = {}
  /\ panics = {} /\ ran = [p \in Programs |-> <<>>]
  /\ prints = <<>>

Up(n) == n \notin down

\* A node joins (ClusterJoin): its NodeMan is its first vat.
Join ==
  /\ Len(nodes) = 1 /\ Up(0)
  /\ nodes' = Append(nodes, [id |-> 1, nodeman |-> <<1, 0>>])
  /\ vats' = [v \in DOMAIN vats \cup {<<1, 0>>} |-> IF v = <<1, 0>> THEN Vat("NodeMan", None) ELSE vats[v]]
  /\ promises' = [v \in DOMAIN vats \cup {<<1, 0>>} |-> IF v = <<1, 0>> THEN <<>> ELSE promises[v]]
  /\ base' = [base EXCEPT ![1] = 1]
  /\ mail' = Put(mail, <<Thread(1), MonadRef>>, <<StartProgramMsg(1)>>)
  /\ UNCHANGED <<system, subscribers, screen, keys, down, history>>

-----------------------------------------------------------------------------
(* Handlers *)

\* Variants with one bug each: hello goes by the router as well,
MailboxUnordered(v, m) == TRUE

\* Hello was put into the Monad's mailbox, everything else goes by the router.
Mailbox(v, m) ==
  v = MonadRef /\ system = <<>> => m = HelloMsg

\* connect_to_cluster sends all resources of a node as one.
ResourcesSeen(n) ==
  IF n = 0 \/ Cardinality(Resources[n]) = 1 THEN Resources[n] ELSE {}
\* the preamble is not looked at,
FittingAny(what) == DOMAIN nodes
Fitting(what) == {i \in DOMAIN nodes : Preamble[what] \subseteq ResourcesSeen(nodes[i].id)}

\* Why a handler stops its node: eval_func_local throws for a function that the
\* entity has not, monad_new_vat asserts that it found a node, the name of a
\* system entity is split in two and found, a response needs a value.
Knows(kind) ==
  CASE kind = "Monad" -> {"hello", "start-program", "new-vat", "request-far-entity",
                          "subscribe-irq", "irq-handler"}
    [] kind = "NodeMan" -> {"create-vat"}
    [] kind = "Io" -> {"print"}
    [] kind = "Amoeba" -> {"init", "handle-input"}
    [] kind = "Program" -> {"main", "zig"}
    [] OTHER -> {}
Failure(v, m) ==
  IF m.re THEN None
  ELSE IF m.fn \notin Knows(vats[v].kind) THEN "no such function"
  ELSE CASE m.fn \in {"start-program", "new-vat"} /\ Fitting(m.args) = {} -> "unschedulable"
         [] m.fn = "request-far-entity" /\ m.args = Nothing -> "name lost"
         [] m.fn = "request-far-entity" /\ m.args \notin DOMAIN system \cup {Nothing} -> "no such entity"
         [] m.fn = "zig" -> "void"
         [] OTHER -> None

\* v takes the oldest message m of s.
Takes(s, v, m) ==
  /\ Up(v[1]) /\ <<s, v>> \in DOMAIN mail /\ v \in DOMAIN vats
  /\ m = Head(mail[<<s, v>>])
  /\ Mailbox(v, m)
TakesCall(s, v, fn, m) ==
  Takes(s, v, m) /\ ~ m.re /\ m.fn = fn /\ Failure(v, m) = None

\* v ends its handler of a message of s with promises ps and sends out, and
\* the entities new are there, each in a vat of its own on the node of v.
Born(v, new) == {<<v[1], base[v[1]] + i - 1>> : i \in DOMAIN new}
Arriving(v, out, born, c) ==
  IF c[1] = v THEN At(out, c[2])
  ELSE IF c[1] \in born /\ c[2] = MonadRef THEN Asks(c[1], CapsOf(vats'[c[1]])) ELSE <<>>
Rest(s, v, c) == IF c = <<s, v>> THEN Tail(At(mail, c)) ELSE At(mail, c)
Deliver(s, v, out, born) ==
  LET all == DOMAIN mail \cup ({v} \X DOMAIN out) \cup (born \X {MonadRef})
      after(c) == Rest(s, v, c) \o Arriving(v, out, born, c) IN
  mail' = [c \in {c \in all : after(c) # <<>>} |-> after(c)]
EndsWith(s, v, ps, out, new) ==
  LET born == Born(v, new) IN
  /\ base' = [base EXCEPT ![v[1]] = @ + Len(new)]
  /\ vats' = [w \in DOMAIN vats \cup born |->
                IF w \in born THEN new[w[2] - base[w[1]] + 1] ELSE vats[w]]
  /\ promises' = [w \in DOMAIN vats \cup born |->
                    IF w = v THEN ps
                    ELSE IF w \in born THEN [k \in DOMAIN CapsOf(vats'[w]) |-> Promise] ELSE promises[w]]
  /\ Deliver(s, v, out, born)
Ends(s, v, ps, out) == EndsWith(s, v, ps, out, <<>>)
\* It makes no call and answers with a value.
EndsSaying(s, v, m, value) == Ends(s, v, promises[v], Answer(NoMail, s, m, value))

Panic(s, v, m) ==
  /\ Takes(s, v, m) /\ Failure(v, m) # None
  /\ down' = down \cup {v[1]} /\ panics' = panics \cup {Failure(v, m)}
  /\ UNCHANGED <<vats, promises, base, mail, kernel, screen, keys, prints, ran>>

Hello(s, m) ==
  /\ TakesCall(s, MonadRef, "hello", m)
  /\ system' = [x \in Names |->
                  IF x = "Monad" THEN MonadRef ELSE <<0, base[0] + Index(SystemNames, x) - 1>>]
  /\ EndsWith(s, MonadRef, promises[MonadRef], Answer(NoMail, s, m, Nothing),
              [i \in DOMAIN SystemNames |-> Vat(SystemNames[i], None)])
  /\ UNCHANGED <<nodes, subscribers, screen, keys, down, history>>

\* monad_new_vat: the last node that has what it takes.
NewVatCall(what) == Call(nodes[Max(Fitting(what))].nodeman, "create-vat", what)
\* What a handler returns is its last promise: whoever asked waits for it.
EndsLater(s, v, m, calls) ==
  LET ps == PromisesAfter(v, calls) IN
  Ends(s, v, [ps EXCEPT ![Len(ps)].asker = [src |-> s, m |-> m]], SentBy(v, calls))

StartProgram(s, m) ==
  /\ TakesCall(s, MonadRef, "start-program", m)
  /\ EndsLater(s, MonadRef, m,
       <<NewVatCall(m.args), CallPromise(Len(promises[MonadRef]) + 1, "main", m.args)>>)
  /\ UNCHANGED <<kernel, screen, keys, down, history>>

NewVatRequest(s, m) ==
  /\ TakesCall(s, MonadRef, "new-vat", m)
  /\ EndsLater(s, MonadRef, m, <<NewVatCall(m.args)>>)
  /\ UNCHANGED <<kernel, screen, keys, down, history>>

RequestFarEntity(s, m) ==
  /\ TakesCall(s, MonadRef, "request-far-entity", m)
  /\ EndsSaying(s, MonadRef, m, system[m.args])
  /\ UNCHANGED <<kernel, screen, keys, down, history>>

SubscribeIrq(s, m) ==
  /\ TakesCall(s, MonadRef, "subscribe-irq", m)
  /\ subscribers' = Append(subscribers, <<0, 3>>)
  /\ EndsSaying(s, MonadRef, m, Nothing)
  /\ UNCHANGED <<nodes, system, screen, keys, down, history>>

IrqHandler(s, m) ==
  LET calls == [i \in DOMAIN subscribers |-> Call(subscribers[i], "handle-input", m.args)] IN
  /\ TakesCall(s, MonadRef, "irq-handler", m)
  /\ Ends(s, MonadRef, PromisesAfter(MonadRef, calls), Answer(SentBy(MonadRef, calls), s, m, Nothing))
  /\ UNCHANGED <<kernel, screen, keys, down, history>>

Monad(s, m) ==
  \/ Hello(s, m) \/ StartProgram(s, m) \/ NewVatRequest(s, m)
  \/ RequestFarEntity(s, m) \/ SubscribeIrq(s, m) \/ IrqHandler(s, m)

\* NodeMan makes the vat and answers with its address.
CreateVat(s, v, m) ==
  /\ TakesCall(s, v, "create-vat", m)
  /\ EndsWith(s, v, promises[v], Answer(NoMail, s, m, <<v[1], base[v[1]]>>), <<Vat("Program", m.args)>>)
  /\ UNCHANGED <<kernel, screen, keys, down, history>>

\* Io and Amoeba.
IoPrint(s, v, m) ==
  /\ TakesCall(s, v, "print", m)
  /\ prints' = Put(prints, s, <<m.args>>)
  /\ EndsSaying(s, v, m, Nothing)
  /\ UNCHANGED <<kernel, screen, keys, down, panics, ran>>

AmoebaInit(s, v, m) ==
  LET calls == <<CallPromise(Cap(v, "Monad"), "subscribe-irq", Nothing)>> IN
  /\ TakesCall(s, v, "init", m)
  /\ screen' = TRUE
  /\ Ends(s, v, PromisesAfter(v, calls), Answer(SentBy(v, calls), s, m, Nothing))
  /\ UNCHANGED <<kernel, keys, down, history>>

HandleInput(s, v, m) ==
  /\ TakesCall(s, v, "handle-input", m)
  /\ EndsSaying(s, v, m, Nothing)
  /\ UNCHANGED <<kernel, screen, keys, down, history>>

KeyDown ==
  /\ screen /\ Up(0) /\ keys < MaxKeys
  /\ keys' = keys + 1
  /\ mail' = Put(mail, <<Keyboard, MonadRef>>, <<Request("irq-handler", Nothing, 0)>>)
  /\ UNCHANGED <<vats, promises, base, kernel, screen, down, history>>

-----------------------------------------------------------------------------
(* Programs *)

\* The i-th statement of main, as vat v.
Statement(v, i, what) ==
  CASE what = "print" -> CallPromise(Cap(v, "Io"), "print", i)
    [] what = "init"  -> CallPromise(Cap(v, "Amoeba"), "init", Nothing)
    [] what = "new"   -> Call(MonadRef, "new-vat", Child)
    [] what = "zig"   -> Call(v, "zig", i)

MainRuns(s, v, m) ==
  LET calls == [i \in DOMAIN Main[m.args] |-> Statement(v, i, Main[m.args][i])] IN
  /\ TakesCall(s, v, "main", m)
  /\ ran' = [ran EXCEPT ![m.args] = Append(@, v)]
  /\ Ends(s, v, PromisesAfter(v, calls), SentBy(v, calls))
  /\ UNCHANGED <<kernel, screen, keys, down, panics, prints>>

\* The response branch of process_vq: dependents of the promise are sent and
\* its asker is answered, unless this is the end of a main.
HandleResponse(s, v, m) ==
  /\ Takes(s, v, m) /\ m.re /\ m.prom \in DOMAIN promises[v]
  /\ LET p == promises[v][m.prom]
         out == Put(NoMail, m.args, p.dependents) IN
     Ends(s, v, [promises[v] EXCEPT ![m.prom].value = m.args],
          IF p.asker = None \/ m.fn = "main" THEN out
          ELSE Answer(out, p.asker.src, p.asker.m, m.args))
  /\ UNCHANGED <<kernel, screen, keys, down, history>>

Handle(s, v) ==
  LET m == Head(mail[<<s, v>>]) IN
  \/ v = MonadRef /\ Monad(s, m)
  \/ CreateVat(s, v, m) \/ IoPrint(s, v, m) \/ AmoebaInit(s, v, m) \/ HandleInput(s, v, m)
  \/ MainRuns(s, v, m) \/ HandleResponse(s, v, m) \/ Panic(s, v, m)

Mail == \E c \in DOMAIN mail : Handle(c[1], c[2])
Next == Mail \/ KeyDown \/ Join

Spec == Init /\ [][Next]_vars

(* Fairness: messages are handled (BurnerNode, MailIsHandled). *)
FairSpec == Spec /\ WF_vars(Mail)

-----------------------------------------------------------------------------
(* Properties *)

\* Boot has no gaps: whatever order the vats of all nodes run in, nobody asks
\* for a system entity before hello has made it (kernel.cpp:96, 100), and no
\* message meets a vat that does not know its function; a node goes down only
\* by what its programs are: one that calls a function that returns nothing,
\* one whose capabilities are asked for from another node (netcode.cpp:257-263),
\* or are not of the system, or that needs more than the first node has.
PanicsAreKnown ==
  /\ panics \subseteq {"void", "name lost", "no such entity", "unschedulable"}
  /\ "void" \in panics => \E p \in Programs : "zig" \in ToSet(Main[p]) /\ ran[p] # <<>>
  /\ "name lost" \in panics => \E v \in DOMAIN vats : v[1] = 1 /\ vats[v].kind = "Program"
  /\ "no such entity" \in panics => \E p \in Programs \cup {Child} : ~ (ToSet(Inocaps[p]) \subseteq Names)
  /\ "unschedulable" \in panics => \E p \in Programs \cup {Child} : ~ (Preamble[p] \subseteq Resources[0])

\* The main of a program runs once at most, in a vat made for it on a node that
\* has all it needs (kernel.cpp:57-75, 184-188).
MainRunsOnce ==
  \A p \in Programs :
    /\ Len(ran[p]) <= 1
    /\ \A v \in ToSet(ran[p]) : vats[v].prog = p /\ Preamble[p] \subseteq Resources[v[1]]

\* What a program prints comes out in its order, those prints that waited for
\* the Io and those that did not (hylic_eval.cpp:106-153, 264-277).
PrintsInOrder ==
  \A v \in DOMAIN prints : \A i, j \in DOMAIN prints[v] : i < j => prints[v][i] < prints[v][j]

\* A key goes to the Amoeba, and capabilities are what they are called, though
\* the kernel has addresses written in (kernel.cpp:169, netcode.cpp:408).
RefsAreRight ==
  /\ \A i \in DOMAIN subscribers : vats[subscribers[i]].kind = "Amoeba"
  /\ \A i \in DOMAIN nodes : vats[nodes[i].nodeman].kind = "NodeMan"
  /\ \A v \in DOMAIN vats : \A c \in ToSet(CapsOf(vats[v])) :
       LET x == promises[v][Cap(v, c)].value IN x # None => vats[x].kind = c

\* Every program that is started runs, as long as the nodes stay up.
ProgramsRun ==
  \A p \in Programs :
    (p = 0 \/ Len(nodes) = 2) ~> (ran[p] # <<>> \/ down # {})
=============================================================================
