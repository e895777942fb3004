# Verification of Pleroma

Pleroma is an operating system for a network of machines whose programs are
*vats*: single-threaded actors that hold *entities* and exchange messages. A
program is written in Hylic, compiled to bytecode, and run by a virtual machine
inside a vat. A message expression yields a *promise*; `await` gives up the
handler until the promise is answered. Two implementations are in the
repository: the current one in Rust (`src/src/`, run either as threads on a host
or natively on x86-64), and the earlier one in C++ (`src/archive/`).

This directory holds TLA+ modules for the parts that decide whether a program's
messages are handled once, by the right vat, and answered with the right value.
Paths below are relative to the repository root, `src/`; `hosted.rs` and its
neighbours are `src/src/*.rs`.

## 1. Inventory

### Hosted runtime (`hosted.rs`) - modelled

| | |
|---|---|
| State | four unbounded channels: vats to the main loop (`ml_vat`), vats to the hotplates (`hp_vat`), messages to the main loop (`ml_box`), node control (`CreateVat`); the main loop's `sleeping_vats` and `vat_inboxes`; in every vat an `inbox` and an `outbox` |
| Operations | `boot`, `main_loop` (select over three channels, two draining inner loops), `triage_msg`, `deliver_mail`, `hotplate` |
| Interacts | calls `vm::run_msg` for every message of a batch; handlers send on `ml_box` directly, nodeman's `nmup` sends on the node control channel and puts a message into its own vat's outbox |
| Hard | vats and their mail travel on different channels; a vat is handed over at eight places; the main loop drains queues that the hotplates fill; a panic in a handler ends a thread, one in the main loop the process |
| Correct if | a vat is in one place and never nowhere; mail never waits for a vat that will not come by; every message is handled, once, by its vat, one at a time; the loops end and starve nobody; a panic stays where it happens |

### Virtual machine (`vm.rs`, `vm_core.rs`) - modelled

| | |
|---|---|
| State | per vat: operand stack, call stack, promise table (`promise_stack`), entities; while a message is handled: the message, the instruction pointer, who asked, the reply |
| Operations | `run_msg` (request: new frame, run, reply; response: find the promise, restore its stacks, run what is registered in it, reply), `run_expr` (17 instructions) |
| Interacts | gets messages from a hotplate; sends requests at once, replies through the hotplate |
| Hard | handlers that wait share both stacks with those that run in between; answers come in any order; promise ids are a `u8` made from the table's size; some forty `unwrap`s and indexings |
| Correct if | every request is answered once, with what its handler computes when it runs alone; a response finds its promise; a promise that is awaited is not replaced |

### Nodeman and monad (`nodeman.rs`, `monad.rs`), foreign functions (`ffi.rs`) - nodeman modelled, the others partly

Nodeman keeps `last_vat_id` and the code of the user program; `nmup` makes a vat
with the next id (from 101), sends it as `CreateVat`, and leaves a request for
the monad in the outbox. Foreign functions are Rust functions bound to entity
functions of the system vats; they take their arguments from the caller's frame.
Hard: a created vat must get a mailbox before anyone writes to it.

### Compiler (`lexer.rs`, `hylic_lalr.lalrpop`, `parser.rs`, `ast.rs`, `compile.rs`, `codegen.rs`) and bytecode (`opcodes.rs`, `pbin.rs`, `bin_helpers.rs`) - shapes only

`codegen.rs` walks the tree and emits bytes, two passes over the functions so
that calls can be relocated; each entity type gets an inode, a table of functions
(sorted, constructor first) and a table of variables. `run_msg` finds functions
through these tables. State is local to a compilation. Correct if what the
decoder reads is what the encoder wrote (widths of offsets and counts) and every
call site is relocated to its function. The programs in `MCVatMachine` have the
shape of the code that is emitted; tables and relocation are not modelled.

### Native scheduler (`native.rs`, `multitasking.rs`, `interrupts.rs`) - modelled but for the other handlers

| | |
|---|---|
| State | the process table (`process_queue`, `current_pid`, `first_time`) behind a spin lock; per process: status, sleep timer, saved context; the processor |
| Operations | the timer handler (counts sleepers down, wakes, switches), `ksleep` (marks the current process, raises interrupt 32), the loops of `vat_runner`, `halt_proc` and `boot` |
| Interacts | the handler cuts in between any two steps of a process, and is also called by it |
| Hard | the handler takes the lock that the interrupted code may hold; a tick between marking and switching; the first tick leaves a context that no process has |
| Correct if | a process that sleeps does not run, and wakes; contexts stay apart; everyone gets the processor; no interrupt waits for the process it interrupted |

The native runtime does not run vats yet: the loop that would is commented out in
`vat_runner`, and `boot` calls `Vat::new` without the arguments it now takes.

### Physical memory (`memory.rs`, `palloc.rs`) - not modelled

A bitmap of 4 KiB frames, a search for free frames, 2-page DMA buffers. Correct
if no frame is handed out twice and the search ends within the bitmap.

### virtio (`drivers/virtio*.rs`), file systems (`filesys/`) - not modelled

Descriptor table, available and used ring shared with a device; FAT, ext2, ustar
and chunkchunk as readers of structures on disk, or stubs.

### Console, PCI, framebuffer, initrd, CPU; `net.rs`, `pnet.rs`; stubs - not modelled

Port and memory-mapped I/O without state of their own, packet code that the
hosted runtime does not call at this commit, and empty bodies.

### Archive: vat queue and router (`pleroma.cpp`, `netcode.cpp`) - modelled

| | |
|---|---|
| State | per node: the run queue, `net_vats`, `net_out_queue` and `net_in_queue` (lock-free, a stream for each producing thread), `sort_queue`; per vat `messages` and `out_messages`; packets between nodes |
| Operations | `process_vq` (the burner thread), `net_loop` (the main thread), `on_receive_packet`, `send_node_msg` |
| Hard | a vat goes round between two threads for ever, and gets its mail only when it passes `net_loop`; that loop has three inner loops whose queues the burner fills; a panic ends the node |
| Correct if | no vat is lost or doubled; mail between two vats is neither lost nor doubled nor reordered; it is handled in the end |

### Archive: joining a cluster (`netcode.cpp`) - modelled

| | |
|---|---|
| State | ENet's queue of events at each node; `nodes`, `pleroma_nodes_n`, `node_host_map`, `node_id` |
| Operations | `connect_to_cluster` of the joining node, `handle_connection` of the node that runs the Monad, `connect_to_client`, calls between nodes |
| Hard | every wait takes the next event whatever it is, and gives up after five seconds; two nodes may join at once, go away, or call meanwhile |
| Correct if | ids are distinct; whoever joins alone and in time gets in and gets its mail; every wait ends |

### Archive: promises and evaluation (`hylic_eval.cpp`) - modelled

| | |
|---|---|
| State | per vat: `promises` with callbacks, dependents and `return_msg`; per call: frames and scopes; per entity: `data`; the syntax tree, which evaluation changes |
| Operations | `eval_message_node`, `eval_promise_local`, `eval`, `eval_block`, `eval_func_local`, `create_entity` |
| Hard | promises as targets and as arguments, resolved in any order; handlers that return promises; lists shared between calls, entities and the program text |
| Correct if | a call is sent once, when its inputs are known and with their values; requests are answered; what the checker accepts runs without failing, with the types it found |

### Archive: type and purity checker (`hylic_typesolver.cpp`) - modelled for one entity

Sequential, with scopes of types that live as long as a check. Correct if pure
functions have no effects, values have their declared types, and an accepted
program does not fail.

### Archive: kernel and system entities (`core/`, `hosted_irq.cpp`) - partly

The Monad keeps `nodes`, `system_entities` and `irq_subscriptions`; NodeMen make
vats for programs; Io, Amoeba and the keyboard. Hard: the order in which vats are
run at boot decides nothing that is written down; capabilities are promises until
the Monad answers. Correct if system entities are there before anyone asks,
programs run once and where they may, and a reference is what its name says.

### Archive: collector, tokenizer, parser, generated and vendored code - not modelled

See section 7.

## 2. Modules

| Module | Is | Lines modelled |
|---|---|---|
| `VatMail` | the abstract specification: what a Pleroma program may expect of the runtime | - |
| `HostedRuntime` | main loop, hotplates, channels; `INSTANCE`s `VatMail` with a refinement mapping | `hosted.rs`, `nodeman.rs` (nmup), the sends of `vm.rs` |
| `MCHostedRuntime` | instances: which message goes where | - |
| `HostedRuntimeProofs` | the theorems about `HostedRuntime` | - |
| `VatMachine` | the virtual machine of one vat against an environment that behaves as `VatMail` allows | `vm.rs`, `vm_core.rs` |
| `VatMachineProofs` | the theorems about `VatMachine` | - |
| `Processes` | the abstract specification of the native scheduler: every process has a processor of its own | - |
| `NativeScheduler` | processes, timer interrupt and `ksleep` on one processor; `INSTANCE`s `Processes` | `interrupts.rs`, `native.rs`, `multitasking.rs` |
| `MCNativeScheduler` | the process queues: that of `boot`, and with the second `vat_runner` it has commented out | - |
| `NativeSchedulerProofs` | the theorems about `NativeScheduler` | - |
| `MCVatMachine` | programs, as the compiler emits them, and the requests that others send | `codegen.rs`, `test_examples/basic_entity.plm` |
| `HostedRuntimeMailProofs` | that `HostedRuntime` implements `VatMail` | - |
| `VatChannels` | the abstract specification of the archive's runtime: ordered channels between vats | - |
| `BurnerNode`, `MCBurnerNode` | burner threads, network loops and wires of several nodes; `INSTANCE`s `VatChannels` | `pleroma.cpp`, `netcode.cpp` |
| `BurnerNodeProofs` | the vats of `BurnerNode` are in one place, and it implements `VatChannels` | - |
| `ClusterJoin` | how nodes join, over an ENet that may be slow and lose nodes | `netcode.cpp`, `protoloma.proto` |
| `ClusterJoinProofs` | the theorems about `ClusterJoin` | - |
| `Dataflow` | the abstract specification of asynchronous calls: sent once, when their inputs are known | - |
| `PromiseEval` | promises, callbacks and dependents of one vat; `INSTANCE`s `Dataflow` | `hylic_eval.cpp`, `pleroma.cpp` |
| `PromiseEvalProofs` | the theorems about `PromiseEval`: that it implements `Dataflow`, and loses nothing else | - |
| `KernelBoot`, `MCKernelBoot` | the vats of two nodes from boot until programs run | `core/kernel.cpp`, `core/amoeba.cpp`, `hylic_eval.cpp` |
| `KernelBootProofs` | the theorems about `KernelBoot` | - |
| `Hylic`, `MCHylic` | checker against evaluator, for a family of functions | `hylic_typesolver.cpp`, `hylic_eval.cpp` |

The two halves do not meet: the Rust and the C++ implementation share no code.
Within each, a module uses what the one below it has been shown to implement.
`VatMachine` takes any of its messages, which is what `HostedRuntime` implements
(`VatMail`). `KernelBoot` takes the oldest message of any sender, which is what
`BurnerNode` implements (`VatChannels`), and its promises are those of
`PromiseEval`; `Hylic` runs one request at a time, as the burner does.

### `VatMail`

Three variables: messages that wait, the message each vat is handling, the vats
that are gone. A vat begins on *any* of its waiting messages: the runtime really
promises no order, since a batch is handled last message first (`Vec::pop`) and
batches in order.

### `HostedRuntime`

| Variable | In the code |
|---|---|
| `mlq`, `hpq`, `msgq`, `ncq` | the channels `ml_vat`, `hp_vat`, `ml_box`, `node_control`, as sequences |
| `sleeping`, `inboxes`, `mlpc`, `waited` | `sleeping_vats`, `vat_inboxes`, the place in `main_loop`, `waited_vat` |
| `inbox`, `outbox` | the fields of `Vat`, for every vat |
| `hpc`, `holding`, `running`, `sent` | a hotplate: its place, its vat, its message, a counter for the bound |
| `lastVatId` | `Nodeman::last_vat_id` |

One action is one step between two operations on a channel: everything between
is local to one thread. So `Triage` and `Deliver` are `triage_msg` and
`deliver_mail` whole, each iteration of an inner loop is an action, and a
handler sends any number (up to a bound) of messages one by one while the others
run. What a handler *computes* is left out here: it may send any message not in
use, reply or not, and panic if its message is one of `Faulty`. A message
identity can be used again after it was handled, so behaviours are infinite
while the state space is finite.

The panic of the main loop ends the process (`mlpc = "panicked"`: `boot` runs
the loop on the main thread); a panic in a handler ends the hotplate with the
vat it owns (`hpc[h] = "dead"`).

### `VatMachine`

| Variable | In the code |
|---|---|
| `net` | all messages that are anywhere on their way (a bag), and the responses that others got |
| `mode`, `ip` | the place in `run_msg`/`run_expr`: idle, running, ended, yielded, about to continue, dead; `x` |
| `msg`, `asker`, `todo`, `point`, `reply` | `msg`, `src_promise_id`, the resolutions still to run, the clone of the promise, `out_msg` |
| `ops`, `calls`, `promises`, `entities` | the fields of `Vat` |

One action per instruction. `Fine(i)` is what the `unwrap`s, indexings, type
tests and overflow checks of an instruction need; if it does not hold the vat
panics (`Panic`). A promise that is awaited is restored from its own saved
stacks (`Resume`); the promise in the table stays as it was, because `run_msg`
works on a clone - `resolved` is therefore never true where `Await` reads it,
and the model leaves it out.

The vat takes any message that is on its way to it, one at a time: that is what
`HostedRuntime` implements (`ImplementsMail`) and why the two modules are
checked apart. Other vats are an environment that answers a request once.

Left out: decoding of bytes, strings and lists, what the monad prints.

### `NativeScheduler` and `Processes`

| Variable | In the code |
|---|---|
| `status`, `timer`, `saved` | `status`, `sleep_timer` and (`ip`, `rsp`, `cpu_flags`) of each process control block |
| `current`, `firstTime` | `current_pid`, `first_time` |
| `lock` | who holds the spin lock of `SCHEDULER` |
| `handling`, `pc` | whether the processor is in the timer handler, and where the running (or interrupted) process is |

The handler runs with interrupts off and is one action, once it has the lock;
`ksleep` is five, and `TimerInterrupt` may come between any two. A context is a
place in a program: what the handler does not save (all registers but the stack
pointer, which stay those of the interrupted process) is not modelled.
Printing is left out: it holds its lock with interrupts off.

`Processes` knows neither timer nor contexts: every process goes through its
program, alone between taking the lock and releasing it, and once asleep it does no
more than the rest of `ksleep`. The refinement mapping (`PlaceOf`) finds the
place of a process in `pc` if it is current and in its saved context if not.

### `BurnerNode` and `VatChannels`

| Variable | In the code |
|---|---|
| `queue`, `net_vats`, `net_out_queue`, `net_in_queue`, `sort_queue`, `messages`, `out_messages` | the queues and fields of those names; a concurrent queue is a sequence per producing thread, since order holds only within one |
| `holding`, `burner` | the vat `process_vq` has dequeued, and where it is |
| `net`, `n_received` | where `net_loop` is, and its counter |
| `wire` | packets, reliable and in order, as ENet's are |
| `made`, `down` | the vats there are; nodes that have panicked |
| `sent`, `handled` | history: messages are numbered on each channel |

One action is one step between two operations on a shared queue, and one round of
a loop where the loop takes several messages. `TooMany` is the limit of a hundred
messages that one of the three loops of `net_loop` has.
`ImplementsChannels` maps all queues to one number per channel: how many
messages the receiver has handled.

### `ClusterJoin`

`pc` is the place of each node: `connect_to_cluster` waits at `confirm_out`,
`confirm_in` and `cluster_info`, `handle_connection` at `confirm_back`,
`host_info` and `confirm_peer`, `loop` is `net_loop`. `events` are what ENet
holds for the node. `Heard` is the heart of it: a wait takes the next event, of
whatever kind, or times out, and what was not waited for is dropped. ENet itself
(connections on their way, nodes that go away, packets in order) is external.

### `PromiseEval` and `Dataflow`

`promises`, `depend` and `out` are `Vat::promises`, the `DependPromFunc`s and
`out_messages`; what handlers and callbacks do is left open up to the bounds, so
the run covers every program with that many calls. `at` is the place in
`process_vq`: a handler (`request`), the callbacks of a promise (`resolve`), or the
loop over its dependents (`notify`), one `Notify` for each; `left` counts what is
still to do there. The code has holes through
which a call is never sent or a request never answered (section 6); `lost` notes
who fell through one, by the condition in the code, and `NothingElseIsLost` says
that nobody else does and that these really are lost.

### `KernelBoot`

| Variable | In the code |
|---|---|
| `vats`, `base` | the vats, by address, with the kind of their entity and its program; `vat_id_base` of each node |
| `promises` | `Vat::promises`, with `dependents` and the message that `return_msg` answers (`asker`) |
| `mail` | the channels of `VatChannels`, those that are not empty |
| `nodes`, `system`, `subscribers` | `nodes`, `system_entities`, `irq_subscriptions` of the kernel |

The i-th capability of an entity is the i-th promise of its vat, since
`create_entity` asks for them before anything else makes a promise there. A
handler is a sequence of calls: each makes a promise (`PromisesAfter`), and its
message goes out (`SentBy`) or becomes a dependent of the promise it is called on
(`Waiting`). One action is one message handled, the whole handler:
`hello`, `request-far-entity`, `start-program`, `new-vat`, `subscribe-irq`
and `irq-handler` of the Monad, `create-vat` of a NodeMan, `print`, `init`, `handle-input`,
`main`, and the response branch of `process_vq`.

### `Hylic`

`Solve` is `typesolve_sub`, `Eval` is `eval` with the blocks and functions below
it, each as a fold over the statements. A behaviour takes one function from a
family of some twenty thousand (two statements and a return, from about a hundred
expressions and statements), if the checker accepts it, creates the entity, and
handles three requests in any order. Lists have identities (`heap`): a literal in
the program text is its own storage, changed by its first evaluation and by
`append`. Fields of types that the code never sets are the type `junk`, which
may match anything. A cast of a value to a type that it has not is undefined; it
sets `stopped`, as an assertion does, and nothing is claimed of what follows.

The three properties have the form *holds but for these holes*: the holes are
predicates over the text of the function, one for each way in which the checker
misses something, and each is needed (without any one of them the property
fails). One of them is the loop: the checker takes the subtype of whatever a
`for` runs over without asking whether it is a list
(`hylic_typesolver.cpp:109`), so a loop over a number may be accepted, and
is then cast to a list.

In every module there are, for each property, variants of a definition with one
plausible mistake; replacing the definition by its variant makes the property
fail.

## 3. Runs

Deadlock is checked in `BurnerNode` only, where vats go round for ever.
Elsewhere the system may rest: a node without mail has every thread blocked in a
receive, a vat whose messages are all handled is idle, a bounded environment has
no more to ask. What a deadlock would mean is stated instead:
`RestsOnlyWhenDone`, `WaitsEnd`, `AllAnswered`, `RequestsAnswered`,
`ProgramsRun`.

| Run | Question | Answer |
|---|---|---|
| `HostedRuntime` | two hotplates, four messages (one for a vat without mailbox), a vat made by nodeman; a handler may send and may panic: do vats or messages get lost or doubled, do the loops end, is every message handled, does the new vat arrive? | nothing is lost but the vat and the hotplate of a handler that panics; the belt implements `VatMail`; the rest is so under the fairness below, while the main loop lives. The unknown address panics it, after which nothing happens |
| `VatMachine_plain` | handlers that await one answer at a time: constructor, calls within the vat, messages to the vat itself and to another, four requests at once | everyone gets the right answer, once; no promise is replaced while there are ids enough |
| `VatMachine_faults` | twelve requests: handlers that overflow, divide by zero, leave a promise on the stack, await a number, are not there or end without a return at the end of the code, among two that wait for an answer of another vat each; two promise ids | whoever is answered is answered right; the answers find their promises and ids stay in range. That everyone is answered is not claimed: one who waits for a promise that is replaced is not |
| `VatMachine_chain` | a handler that sends its second message after its first await | **never answers**: finding 1 |
| `NativeScheduler_two` | two `vat_runner`s and the `halt_proc`, the timer cutting in anywhere | no sleeper runs early, and the processes behave as if each had its own processor (`Processes`); everyone wakes and runs, if the handler never hangs |
| `NativeScheduler_lock` | does every timer interrupt end? | **no**: finding 2 |
| `BurnerNode` | two nodes with a burner and a network loop each, a vat made by a handler, a node that may panic | vats are neither lost nor doubled; the queues and wires implement ordered channels (`VatChannels`); mail is handled, if the network loop comes round |
| `ClusterJoin` | two nodes join, at any time, with slow or dead peers and a call under way | every wait ends, ids are distinct always; the rest holds for a node that joins alone and in time |
| `ClusterJoin_hostinfo` | is the packet the seed waits for the one that comes? | **no**, if two nodes join: finding 3 |
| `PromiseEval` | two requests, any three calls on promises and values, any callbacks | calls are sent once with the right values, answers come, but for the holes (`Dataflow` is implemented always) |
| `KernelBoot` | two nodes boot, with a program each; vats run in any order | nobody is asked for before being there; programs run once, where they may, and print in order; two known panics |
| `Hylic` | every accepted function of a family, any three requests | types, purity and freedom from failures hold but for the holes |

### Bounds, and why they are enough

* Hotplates: 2. `boot` starts one (`n_hotplates = 1`); two are the least with
  which two could hold one vat, and no action looks at a third.
* Messages of `HostedRuntime`: 4, reusable. Two for one vat (a batch whose order
  matters, mail that arrives while its vat runs), one for another, one for a vat
  that is not there. `MaxSends` = 1: a handler that runs sends to its own vat or to
  another, while the main loop and the other hotplate go on.
* Created vats: 1, who arrives while the loops run. All bounds of this module are
  about the liveness properties: the safety properties are proved for any.
* Requests of `VatMachine`: 4, so that handlers nest three deep in waiting and
  one is answered in between. Promise slots: 4 in `VatMachine_plain`, which is
  exactly how many promises its requests make; 2 in `VatMachine_faults`, whose
  requests make up to three, so that they may run out with handlers waiting; 8,
  more than are used, in `VatMachine_chain`. The code has 256, and only the size
  of the table is ever compared with it.
* Processes: 3, so that the search of the handler can pass one that sleeps and
  has a choice. `Sleep` = 9 and `Period` = 2 make a sleep last longer than a
  round of the queue (in the code 2000 ms, 37 periods).
* `BurnerNode`: two nodes (the second may panic), two vats at boot (the Monad on
  the first, a NodeMan on the second) and one that the Monad's node makes;
  `NetBatch` = 1 for the code's 100, so that the limit is met. The Monad sends
  two messages in its life (`MaxSent`), one in a handler (`MaxBatch` = 1), to any
  vats, itself included; the others send none. With what boot sends (hello and a
  `start-program` from each node) there is mail within a node, across nodes
  both ways, of a vat to itself, and two messages on one channel.
* `ClusterJoin`: two joiners, the least that can be in each other's way, and one
  call. Nodes that have joined may join no second time, as in the code.
* `PromiseEval`: three calls give chains and a call that depends on two others;
  two requests give the case that both return one promise; two arguments.
* `KernelBoot`: the programs use everything a program of the repository uses: the
  screen, prints before and after a capability is known, a vat of their own, a
  message to themselves (`examples/helloworld.plm`). One key.
* `Hylic`: two statements and a return (one binds or changes what the next one
  uses), three requests (one changes the entity or the program text, the next
  keeps what it gave, the third sees it). Loops are cut at six rounds; one that
  goes on beyond that is taken to hang.

### Fairness

`HostedRuntime`: weak fairness of the main loop and of each hotplate. They are
OS threads, and a handler is finite (Hylic has no loop in the Rust compiler and
`sent` is bounded). Strong fairness of `SelectCreateVat` only: `select!` picks at
random among the channels that are ready. No fairness is assumed of panics:
`Hotplate(h)` is fair as a whole and a panic is one way to make progress.

`VatMachine`: weak fairness of the machine (by `MailIsHandled`, the runtime
hands a vat its mail) and of the peers together (other vats answer). Which
message is next is not fair: the runs are finite in messages.

`NativeScheduler`: weak fairness of the running process, the 8259 and the
handler. `SleepersWake` and `EveryoneRuns` are claimed of behaviours in which the
handler is never stuck, since finding 2 shows that it can be.

`BurnerNode`: weak fairness of each thread, strong fairness of the arrival of
packets, since the loop asks ENet again and again. `MailIsHandled` has two
premises that the code does not promise: the last inner loop of `net_loop` has no
limit, and a burner that is as fast keeps it going (`NetLoopReturns`); and the
queue picks the larger of its streams (`MadeVatsTaken`).

`ClusterJoin`: weak fairness of joins and network loops, since every wait times
out; none of the network. `KernelBoot`: messages are handled, by
`MailIsHandled`. `PromiseEval`: the same, and handlers and callbacks end
(`Progress`); none of the calls they make. `Hylic` has none.

## 4. Proofs

`HostedRuntimeProofs` proves, for any set of hotplates, any set of messages, any
bounds and any destination of the messages:

| Theorem | States |
|---|---|
| `TypeCorrect` | `Spec => []TypeOK` |
| `OneOwner` | `Spec => []VatsOwnedOnce`: no vat is ever in two places |
| `NoVatLost` | `Spec => []VatsKept`: while the main loop lives, every vat that was made is somewhere |
| `NoWakeupIsLost` | `Spec => []NoLostWakeup`: mail waits only for a vat that will pass `deliver_mail` again |
| `MailIsFlushed` | `Spec => []MailFlushed`: outside a hotplate a vat has no unsent mail and no unread batch |
| `RestsWhenDone` | `Spec => []RestsOnlyWhenDone`: when all threads are blocked no message waits for a vat that lives |

Assumed of the constants: `BoundsAssumption` (the bounds are naturals),
`MessageAssumption` (messages are addressed to vats, the boot message to
nodeman), `NullAssumption` (the null values are not vats or messages). TLC
evaluates them in every run.

*Argument.* `TypeOK` is inductive alone. For `VatsOwnedOnce` it is not: nothing
in it says where a *new* vat's id comes from, so `nmup` could make one that is
already about. The invariant `OwnInv` adds that every place holds only vats that
exist (ids up to `lastVatId`) and that `waited` is empty where `main_loop` has
consumed it; then each hand-over takes a vat out of one place and puts it into
one other, and the lemmas about `Head`, `Tail` and `Append` of an injective
sequence do the rest. The same invariant gives `VatsKept`, one equality of sets
per action. `NoLostWakeup` needs ownership (`MailInv`): when `deliver_mail` puts
a vat to sleep its mailbox is empty and it is nowhere else, and when
`triage_msg` puts mail into a mailbox the vat is either asleep, and goes onto the
belt in the same step, or is kept by `VatsKept` somewhere on it.
`RestsOnlyWhenDone` follows from what was there and two more invariants:
`MailFlushed`, and `AddressInv` (what is in a mailbox or a batch is for that vat,
so a vat that sleeps with an empty mailbox has no mail anywhere).

`NativeSchedulerProofs` proves, for any queue with a `halt_proc`
(`HaltAssumption`), any sleep and any period (`PeriodAssumption`):

| Theorem | States |
|---|---|
| `SchedulerType` | `Spec => []TypeOK`: timers are never negative, saved contexts are places of their own programs |
| `SleepersDoNotRun` | `Spec => []SleepersRest` |
| `ProcessorForEach` | `Spec => ImplementsProcesses`: each process behaves as if it had a processor of its own |

*Argument.* `SleepersRest` alone is not inductive: if nobody is ready the handler
lets the current process go on, asleep or not. `SchedulerInv` adds that the
processes that run `halt_proc` are awake; then whoever the handler chooses is
awake (`NextReady`, which rests on `LeastBelow`: the search round the queue ends
at the nearest process that is ready), and within `ksleep` each place leads to
the next (`KsleepSteps`).

For `ImplementsProcesses` a step of the handler must change no process's place,
although it changes the processor and the saved contexts: the handler saves `pc` where
the mapping will look for it, and takes `pc` from where it looked before. That
holds of the first tick, when nothing is saved, only because `boot` belongs to no
process. `ProcessorInv` adds to `SchedulerInv` that `ksleep` is undivided
(`KsleepUndivided`): the lock is held exactly while its holder is
between taking and releasing it, and as nobody else can take the processor
meanwhile, the holder is the current process. So the handler, which waits for the lock,
only ever wakes and switches where `Processes` may `Wake` or stutter.

`HostedRuntimeMailProofs` adds:

| Theorem | States |
|---|---|
| `BeltImplementsMail` | `Spec => ImplementsMail`: every behaviour of the belt is one of `VatMail` |

*Argument.* A message leaves the pending mail of `VatMail` when its handler starts,
so it must not wait anywhere else at that moment: a message is in one place only.
`OnceInv` says so: no channel, mailbox, batch or outbox holds a message twice,
none holds what another holds or a hotplate runs, only nodeman ever fills an
outbox, and a hotplate runs mail of the vat it holds. How each hand-over moves
messages between the places is one lemma per operation (`TriagePlaces`,
`DeliverPlaces`, `RunPlaces`, ...), over what `Append`, `Tail`, `Front` and
concatenation do to the elements of a list. With `OnceInv`, `AddressInv`,
`MailFlushed` and `OwnInv` each action is a step of `VatMail` or a stutter: a
hotplate that takes a message is `Begin`, a send `Send`, the end of a handler
`End`, a panic `Crash` or `Halt`, and everything the main loop, the channels and
the flush do is a stutter (`NextImplements`).

`VatMachineProofs` proves, for any program, any requests and any number of
promise ids:

| Theorem | States |
|---|---|
| `MachineType` | `Spec => []TypeOK`: the code never goes on outside of itself, promise ids have no gaps |
| `PromisesAreKept` | `Spec => PromiseKept`: until the ids run out no promise is replaced, and who waits stays noted |
| `AnswersFindPromises` | `Spec /\ [][OneLeg]_vars => []AnswerHasPromise`: as long as no continuation sends a message, the promise that `run_msg` unwraps for an answer is there |
| `RequestsAreAnsweredOnce` | `RequestsApart => (Spec /\ [][Disciplined]_vars => []AnsweredOnce)`: in a program that keeps to three rules no request gets two answers |

Assumed of a program (`ProgramAssumption`, `BootAssumption`): its addresses are
relocated into the code, and it does not assign to `self` - nothing in the
compiler forbids that, but no program of the repository does it. Requests have at
most one promise (`RequestAssumption`).

*Argument.* The invariant `MachineInv` follows the places in the code wherever
they are kept: return addresses in the frames of the call stack and of every
stack that an `await` has saved, places to go on at in promises, in `todo` and in
the clone `point`. The oldest frame of any stack returns nowhere (`IsStack`), so
a `Ret` that goes on leaves a frame to go on in - also on the call stacks that
handlers that yielded have left their frames on. What the operands are does not
matter. That promises are kept is then a matter of their number (`NextId`).
That an answer finds its promise needs both ends (`Linked`): the requests that
carry a promise of this vat, the answers that go to it, and the promises and the
clone `point` that will be answered to it all name a promise in the table, and no
promise ever leaves it. `OneLeg`, that no continuation executes `Message`, is a
premise because of finding 1: a continuation that sends one notes the sender of
the answer as the one who asked, and the answer may then go to a vat that
expects none. It holds in `VatMachine_plain` and `VatMachine_faults`, and not in
`VatMachine_chain`.

That a request is answered at most once needs the whole way of an answer
(`OneAnswerInv`). `Debt` lists what may still become the answer to a request:
the request or the response on its way, the response about to be sent, the
handler or continuation that runs for it, and a promise that a handler of it
waits for. Each step but one turns at most one of these into another
(`Becomes`), so there is never more than one (`Single`). The step in which it is
hard is the answer to a promise, because the list of those who wait for it is
not cleared (`vm.rs:368`): the invariant says that there is a set `W` of the
promises that are still open, that only those count as waiting, and that nothing
can become an answer to any other promise (`OnlyOpen`). Requests that a vat
sends to itself are no different: there the answer due is the promise. The rules
(`Disciplined`) are what the machine relies on and does not check: no
continuation sends a message (`OneLeg`); a handler awaits only promises made on
behalf of its own asker, that nobody awaits yet (`OwnAwait`); there is an id
left for every message (`IdsLeft`). A continuation answers whoever the promise
was made for, not the handler that awaited it, so without the second rule a
request whose handler has answered can be answered again. TLC checked that the
runs `VatMachine_plain` and, with 8 ids, `VatMachine_faults` keep the rules.
`RequestsApart` says of the requests of others that no
two have both asker and promise in common, that those that want no answer have
no promise (`hosted.rs:194`), and that one from the address 0:0 has one, as the
answer to `nmup`'s request (`vm_core.rs:215`) goes there without.

What the handlers *compute* is not proved: with chained awaits it is wrong
(finding 1).

`ClusterJoinProofs` proves, for any set of joining nodes (`HostsAssumption`: the
seed is none of them):

| Theorem | States |
|---|---|
| `IdsDistinct` | `Spec => []IdsAreDistinct` |
| `OneJoin` | `Spec => []OneJoinIsSafe`: while one node joins and no wait times out, the handshake is right |

*Argument.* A node takes its id out of its queue of events, so the numbers that
are on their way there belong to the invariant (`IdInv`): each was given once,
is below `pleroma_nodes_n`, and is the id of nobody yet. `OtherEvent` and its
neighbours say what adding and dropping events does to that; nothing else of
the protocol matters, which is why timeouts and mix-ups do not either.

`OneJoinIsSafe` needs the order of the handshake. `JoinInv` names its phases, each
with the exact contents of the two queues of events: `Nobody` has dialled;
`Asking` (the connection is on its way); `Asked` (there is one connection, which
the joiner may have confirmed and the seed answered); `Meeting` (there are two,
and the host info may have gone out); `Joined` (known, with only calls to come).
One lemma per phase shows that it is kept or followed by the next
(`AskingGoesOn` to `JoinedGoesOn`), each by the same cases: a wait whose queue is
not empty hears the event it waits for, and one whose queue is empty would be
`late`.

`BurnerNodeProofs` proves, for any number of nodes and
vats (`HomeAssumption`: every vat has a node, and the programs' entry points that
send the first messages are not vats; `BoundAssumption`):

| Theorem | States |
|---|---|
| `OnePlace` | `Spec => []VatsInOnePlace` |
| `TypesAreKept` | `Spec => []TypeOK` |
| `MailIsKept` | `Spec => ImplementsChannels`: between any two vats, on whatever nodes, nothing is lost, doubled or reordered |

*Argument.* `PlaceInv` adds types to `VatsInOnePlace`, and that a burner holds a
vat exactly while it is not idle. `VatsInOnePlace` counts occurrences; how the
count changes with `Append` and `Tail` are lemmas about cardinalities
(`OccursTail` gives a bijection), and then each hand-over is an equation of
naturals (`PlaceStep`).

A message goes through up to six queues: the sender's `out_messages`, the router's
stream for its thread, the wire, the receiver's `net_in_queue`, `sort_queue` and
mailbox. `Way(s, v)` lists them for a channel, the mailbox first, and `MailInv`
says that together they hold exactly the messages after the last one handled up
to the last one sent, each once and in the order of their numbers
(`MailCarried`: each queue `Holds` an interval of numbers, and the intervals
meet). `MailInPlace` says what may be in each queue at all, without which a
message could skip one. A step takes a message from the head of one queue, where
it is the lowest of its channel, to the end of the next, where it is the highest
(`CarriesMove`, `CarriesTake`, `HoldsAppend`); two whole queues become one where
the mail of a vat that comes past is put into its mailbox and where a batch is
sent (`CarriesJoin`, `BatchHolds`). So the message a handler begins is number
`handled + 1` of its channel, which is all that `VatChannels` asks
(`HandleMessageIsHandle`, `StepIsChannels`).

`PromiseEvalProofs` proves, for any number of requests, calls, arguments and
callbacks (`BoundAssumption`: they are naturals; `NoneAssumption`: the null value is
no value, promise or request):

| Theorem | States |
|---|---|
| `EvaluatorIsGood` | `Spec => []EvalInv`, the invariant below, as long as no assert has failed |
| `NothingElseIsLostAlways` | `Spec => []NothingElseIsLost`: at rest, a complete call is sent and a known result answered, exactly if they fell through no hole |
| `EvaluatorImplementsDataflow` | `Spec => ImplementsDataflow`: calls are sent at most once, complete and with the right values, and so are answers |

*Argument.* A call that waits is noted with promises, a promise that gets its result
goes through whom it has noted, and the message goes out when nothing is missing:
that is right only if who is noted where, what is missing, and who has been told
agree at every point of the loops. `Good` is

    Types /\ Place /\ Noting /\ Waiting /\ Sending /\ Answering

`Noting`: what a `DependPromFunc` says is right for its call (`Shape`), and a promise
notes only calls that wait for it. `Waiting`: a call that fell through no hole waits
for different promises, is noted once with each, and has exactly the values of
those that have told it (`Filled`, `Told`); one that fell through a hole has a
place that nobody will ever fill (`Stuck`). `Sending`: a call is sent once if it
never had to wait or is ready, with the values of what it was made of. `Answering`
is the same of requests: answered once the promise is `Settled`, and before that
noted as its asker. The two that carry the proof are about one call: filling the
place of `p` keeps the shape, adds `p` to who has told it and touches no hole
(`FillShape`, `FillFilled`, `FillStuck`); and a call is ready when, and unless it is
stuck only when, all it waits for have told it (`FilledReady`, `StuckNotReady`).
`MessageNodeKeeps` shows that a call through a hole is stuck from the start
(`HoleIsStuck`) and any other is noted once with promises that have told nobody
yet (`NoHole`). At rest every known promise is settled, which gives
`NothingElseIsLost`; and since each call has at most one message and each request at
most one response, the tables that `Dataflow` sees change at one entry
(`IsCall`, `IsLearn`, `IsReturn`, `IsFire`).

`KernelBootProofs` proves, for any programs of the two nodes and of the vats they
make, preambles and resources (`ProgramAssumption`: a main uses only capabilities
its entity asks for, since names are resolved before anything runs;
`ValueAssumption`: the null values are no address, name or reason):

| Theorem | States |
|---|---|
| `InvHolds` | `Spec => []Inv`, the invariant below |
| `OnlyKnownPanics` | `Spec => []PanicsAreKnown`: boot has no gaps, whatever order vats run in |
| `MainsRunOnce` | `Spec => []MainRunsOnce` |
| `PrintsStayInOrder` | `Spec => []PrintsInOrder` |
| `RefsStayRight` | `Spec => []RefsAreRight` |

*Argument.* That no message meets a vat which does not know its function, and that
the addresses written into the kernel are right, depends on everything on its way:
`Inv` says of each message from whom to whom it may go (`MailOK`), of each promise
what it stands for, what waits for it and who (`PromisesOK`), and what the system
entities are once hello has run (`SystemOK`, `BootOK`). Neither is inductive
alone: a message that waits is sent to what its promise turns out to be, and a
promise is what the message that answers it says. A response says which call it
answers only by the number of a promise, so `LegsOnce` says that the calls that
matter (for a capability, or for the vat of a program that starts) are in one
place, as a request or as its response, and nowhere once the promise is known;
`StartsOK` that they ask for the vat of the right program. With that, the
main of a program is about to be started, waits for its vat, is on its way, or has
run (`MainsOK`), and never in two of these places. `PrintsOK` orders three
places, what the Io has printed, what is on its way and what waits: before the
reference to the Io is known nothing was printed or sent, and as the answer comes
once, all that waited goes out then, ahead of anything the program sends later.

Every handler makes calls, answers, or makes vats, and what it leaves is described
once for all of them: `Step` (what `Ends` does to vats, promises and mail),
`OutIs` and `PsIs` (what calls and answers are sent and kept). `HandlerKeeps`
gives the invariant after any step whose messages and promises are right, and
one lemma per action, named for it (`HelloKeeps`, `StartProgramKeeps`,
`MainRunsKeeps`, ...), shows that they are; steps no vat takes are `Outside`. TLC
had checked `Inv` on the instance of the run and on two others before it was proved.

*Checked with TLC only.* Liveness and anything with `ENABLED`, which the proof system
does not do, so also `ProgramsRun`; what the answers of `VatMachine` are
(`AnsweredRight`), which takes an induction over programs and finding 1 breaks for some
of them; `Hylic`, whose evaluator is recursive (`RECURSIVE` operators and induction over
syntax trees are out of the prover's reach).

## 5. Findings

1. **A chain of awaits answers the wrong vat** (`vm.rs:212`). A message sent by a
   continuation notes the sender of the answer that is being handled as the one
   to reply to. `vm.rs:359` has a FIXME that suspects it. Run
   `VatMachine_chain`.
2. **A tick within `ksleep` hangs the machine** (`interrupts.rs:146`). The handler
   waits for the lock that the process it interrupted holds; `interrupts.rs:176`
   expects that some process goes on after every tick. Run
   `NativeScheduler_lock`.
3. **A join takes what comes for what it waits for** (`netcode.cpp:394`): the call of
   a node that is in arrives while the seed waits for the host info of another,
   and fails the assert. Run `ClusterJoin_hostinfo`.

## 6. Observed

What the models show besides, as a premise, a history variable or a hole of a
property that holds otherwise.

*Hosted runtime and machine (Rust).*

* A created vat has its mailbox under the key 2 (`hosted.rs:126`), its id is 101
  or more: the first message for it panics the main loop. In `HostedRuntime` every
  message for a vat without a mailbox does, and liveness is claimed while the
  main loop lives.
* An answer that comes before its await is lost: `resolved` is only ever set in a
  clone (`vm.rs:367`), so `vm.rs:224` never sees it. A handler with two promises
  that awaits them in turn may hang. No run has such a program.
* A promise id is the size of the table cut to a `u8` (`vm.rs:191`) and nothing
  leaves the table: from the 257th message on every new promise replaces promise
  0, and whoever waited for it is forgotten. `PromiseKept` is claimed while ids last.
* A function without a return that is not the last one runs on into the next
  (`vm.rs:36`); `VatMachine_faults` has one at the end of the code only.
* Entities other than 0 run as entity 0 (`vm.rs:326`).
* `a - b` computes `b - a`; a batch is handled newest first; awaiting a value that
  is no promise hangs.
* `int 32`, by which a process gives up the processor, runs the timer's handler
  and counts as 54.9254 ms of every sleep (`interrupts.rs:151`).

*Nodes (archive).*

* A third node's `connect_to_client` notes its peer as node 1 (`netcode.cpp:320`):
  mail for node 1 goes there, and a call of node 2 finds no peer.
* A second connection that arrives while the seed waits is taken for the
  confirmation; a late host info is taken for an announcement with an empty
  address. A node that timed out is counted all the same.
* The type of an entity reference is not sent (`netcode.cpp:263`): a vat of
  another node that asks for a system entity panics the Monad. The resources a
  node offers are sent as one string.
* A function that returns nothing panics the node when it is called for an answer
  (`pleroma.cpp:58`); `examples/helloworld.plm` does it. `PanicsAreKnown`
  allows this panic and the one before by name.

*Promises.* A call is never sent if one promise occurs twice among its target and
arguments, or if an argument is resolved already while another is not. A request
is never answered if its handler returns a promise that is resolved already, or
one that another request has returned too.

*Language.*

* The checker steps over every second argument (`hylic_typesolver.cpp:333`), and
  does not visit the parts of lists, ranges, indexings and comparisons, nor the
  arguments of builtins. Fields of types that are never set are compared, and the subtype of what a `for` runs over is read whether it is a
  list or not (`hylic_typesolver.cpp:109`).
* A list literal is evaluated once, in the program text, and shared by all calls
  and entities: `append` to it changes the program (`hylic_eval.cpp:402`).
* A `return` in a nested block ends that block only, and leaves its scope behind.
  Names bound in the block of a `match` or `while` are known to the checker after
  it, and not to the evaluator. The checker does not know fallthrough cases; the
  parser takes `<=` for `<`, and knows no assignment to an element.

*Collector.* It marks only the data of entities (`gc.cpp:38`); what `+` made is
freed after 500 rounds of its vat, wherever messages, promises or other vats
still hold it.

## 7. Not modelled, and why

* Tokenizer, parser, LALR grammar, bytecode: sequential text and byte processing,
  where a model would restate the code. Vendored code (`json.hpp`,
  `concurrentqueue.h`) and what `protoc` generates are not part of the program;
  they are more than four fifths of the C++ lines. The queue and ENet are
  modelled by what the code relies on: order per producer, order per connection.
* The collector: all it can do wrong is to free too much, which a line says
  (section 6); the models pass values without storage.
* File, socket and HTTP functions of the archive's kernel: I/O. `HttpLb` and
  `ZenoMaster` are made and asked for, and do nothing else.
* Physical memory, virtio, file systems, PCI, console of the native runtime: one
  caller each, at boot or with the device busy-waited for, and no second actor in
  the repository. The exceptions and the keyboard of the native runtime print.
* The network of the Rust node is not called.

What a next step would take: several entities and promises as values in `Hylic`.

## 8. Running

Each run is `tlc -config <run>.cfg <module>`, with the run's module as
`PROJECT.json` lists it. Proofs are checked with `tlapm <module>.tla` for the
modules whose name ends in `Proofs`.
