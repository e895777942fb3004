----------------------------- MODULE PromiseEval -----------------------------
(***************************************************************************)
(* The promises of a vat of the C++ runtime in src/archive                 *)
(* (hylic_eval.cpp, and the response branch of process_vq in pleroma.cpp). *)
(* An asynchronous call makes a promise.  If the target or an argument is  *)
(* itself a promise, the call is noted as a DependPromFunc with every      *)
(* promise it needs, and sent when the last of these is resolved.  Code    *)
(* may wait for a promise with a callback (@p), and a handler may return   *)
(* one: then its request is answered when the promise is resolved.         *)
(*                                                                         *)
(* A vat runs one handler at a time.  What handlers do is left open, up to *)
(* the bounds: any calls, callbacks and results, with any promise of the   *)
(* vat (entities may keep promises in their variables).  Other entities    *)
(* answer every message once, in any order.                                *)
(***************************************************************************)
EXTENDS Integers, Sequences, FiniteSets, SequencesExt, FiniteSetsExt

CONSTANTS
  Asked,         \* requests that come to the vat, numbered as it handles them
  MaxCalls,      \* bound: calls the vat makes
  MaxArgs,       \* bound: arguments of a call
  MaxCallbacks,  \* bound: callbacks that the vat waits with
  None

\* Values: an entity that everyone knows, and the result of each promise.
Prom(p) == [prom |-> p]
IsProm(x) == "prom" \in DOMAIN x
Val(n) == [value |-> n]
Something == Val(0)
Result(p) == Val(p)

Requests == 1 .. Asked

ASSUME BoundAssumption ==
  Asked \in Nat /\ MaxCalls \in Nat /\ MaxArgs \in Nat /\ MaxCallbacks \in Nat
ASSUME NoneAssumption ==
  /\ None \notin {Val(n) : n \in 0 .. MaxCalls}
  /\ None \notin {Prom(p) : p \in 1 .. MaxCalls}
  /\ None \notin Requests

VARIABLES
  promises,   \* the promises of the vat, in the order of their ids
  depend,     \* DependPromFunc of the calls that wait, by their promise
  out,        \* out_messages: all that were sent, in order
  replies,    \* responses to requests, in order
  at,         \* "idle", "request", "resolve", "notify", or "dead" after a failed assert
  current,    \* the request whose handler runs, or the promise resolved
  left,       \* callbacks of that promise to end, then dependents to go through
  calls,      \* history: what each call was made of, target first
  returned,   \* history: what the handler of each request has returned
  lost        \* history: calls and requests that fell through a hole

vatVars == <<promises, depend, out, replies>>
vars == <<vatVars, at, current, left, calls, returned, lost>>

Ids == DOMAIN promises
Holdable == {Something} \cup {Prom(p) : p \in Ids}
\* Bound: arguments that are values from the start are left out.
Arguments == BoundedSeq({Prom(p) : p \in Ids}, MaxArgs)

Init ==
  /\ promises = <<>> /\ depend = <<>> /\ out = <<>> /\ replies = <<>>
  /\ at = "idle" /\ current = None /\ left = 0
  /\ calls = <<>>
  /\ returned = [q \in Requests |-> <<>>]
  /\ lost = [calls |-> {}, requests |-> {}]

\* Code of the vat runs: a handler, or a callback.
Running == at = "request" \/ (at = "resolve" /\ left > 0)

Resolved(p) == promises[p].result # None
NewPromise == [result |-> None, callbacks |-> 0, dependents |-> <<>>, asker |-> None]

-----------------------------------------------------------------------------
(* eval_message_node with CommMode::Async *)

\* The target, if it is known: only here a promise may have been resolved.
TargetNow(t) == IF IsProm(t) THEN promises[t.prom].result ELSE t

\* depends_on is a map: of two equal promises the last position is kept.
DependPromFunc(t, args) ==
  [target |-> TargetNow(t),
   targetOn |-> IF TargetNow(t) = None THEN t ELSE None,
   args |-> [i \in DOMAIN args |-> IF IsProm(args[i]) THEN None ELSE args[i]],
   on |-> [p \in {args[i].prom : i \in {j \in DOMAIN args : IsProm(args[j])}} |->
             Max({i \in DOMAIN args : args[i] = Prom(p)})]]

\* The new call is noted once for the target and once for each argument.
Waits(f, args) == f.targetOn # None \/ \E i \in DOMAIN args : IsProm(args[i])
Times(p, f, args) ==
  Cardinality({i \in DOMAIN args : args[i] = Prom(p)}) + (IF f.targetOn = Prom(p) THEN 1 ELSE 0)
Noted(pid, f, args) ==
  [p \in Ids |->
     [promises[p] EXCEPT !.dependents = @ \o [i \in 1 .. Times(p, f, args) |-> pid]]]

\* The holes: a promise that occurs twice among what a call waits for, and an
\* argument that is resolved, unless by the very callback that calls.
Hole(t, args) ==
  \/ \E p \in Ids : Times(p, DependPromFunc(t, args), args) > 1
  \/ \E i \in DOMAIN args :
       IsProm(args[i]) /\ Resolved(args[i].prom) /\ ~ (at = "resolve" /\ current = args[i].prom)

MessageNode(t, args) ==
  LET pid == Len(promises) + 1
      f == DependPromFunc(t, args) IN
  /\ Running /\ pid <= MaxCalls
  /\ IF Waits(f, args)
     THEN /\ promises' = Append(Noted(pid, f, args), NewPromise)
          /\ depend' = [p \in DOMAIN depend \cup {pid} |-> IF p = pid THEN f ELSE depend[p]]
          /\ UNCHANGED out
     ELSE /\ promises' = Append(promises, NewPromise)
          /\ out' = Append(out, [prom |-> pid, call |-> <<TargetNow(t)>> \o args])
          /\ UNCHANGED depend
  /\ calls' = Append(calls, <<t>> \o args)
  /\ lost' = IF Hole(t, args) THEN [lost EXCEPT !.calls = @ \cup {pid}] ELSE lost
  /\ UNCHANGED <<replies, at, current, left, returned>>

-----------------------------------------------------------------------------
(* Waiting for a promise *)

\* @p { ... }: the code asserts that it is not resolved yet.
OnPromise(p) ==
  /\ Running
  /\ IF Resolved(p)
     THEN at' = "dead" /\ UNCHANGED promises
     ELSE /\ MapThenSumSet(LAMBDA r : promises[r].callbacks, Ids) < MaxCallbacks
          /\ promises' = [promises EXCEPT ![p].callbacks = @ + 1]
          /\ UNCHANGED at
  /\ UNCHANGED <<depend, out, replies, current, left, calls, returned, lost>>

-----------------------------------------------------------------------------
(* process_vq *)

HandleRequest(q) ==
  /\ at = "idle" /\ returned[q] = <<>>
  /\ \A r \in 1 .. q - 1 : returned[r] # <<>>
  /\ at' = "request" /\ current' = q
  /\ UNCHANGED <<vatVars, left, calls, returned, lost>>

\* A promise has room for one request to answer, and keeps the last one.
Answerable(x) == IsProm(x) => ~ Resolved(x.prom)
Return(x) ==
  /\ at = "request"
  /\ returned' = [returned EXCEPT ![current] = <<x>>]
  /\ IF IsProm(x)
     THEN /\ promises' = [promises EXCEPT ![x.prom].asker = current]
          /\ lost' = [lost EXCEPT !.requests = @ \cup
               IF Answerable(x) THEN {promises[x.prom].asker} \ {None} ELSE {current}]
          /\ UNCHANGED replies
     ELSE /\ replies' = Append(replies, [to |-> current, value |-> x])
          /\ UNCHANGED <<promises, lost>>
  /\ at' = "idle" /\ current' = None
  /\ UNCHANGED <<depend, out, left, calls>>

\* Neither a value that can be sent nor a promise: create_response panics.
ReturnNothing ==
  /\ at = "request"
  /\ at' = "dead"
  /\ UNCHANGED <<vatVars, current, left, calls, returned, lost>>

\* The response to a message that was sent.
HandleResponse(m) ==
  /\ at = "idle" /\ ~ Resolved(m.prom)
  /\ promises' = [promises EXCEPT ![m.prom].result = Result(m.prom)]
  /\ at' = "resolve" /\ current' = m.prom /\ left' = promises[m.prom].callbacks
  /\ UNCHANGED <<depend, out, replies, calls, returned, lost>>

\* eval_promise_local: the callbacks, one after the other,
EndCallback ==
  /\ at = "resolve" /\ left > 0
  /\ left' = left - 1
  /\ UNCHANGED <<vatVars, at, current, calls, returned, lost>>

\* then the dependents, those noted by the callbacks too.
EndCallbacks ==
  /\ at = "resolve" /\ left = 0
  /\ at' = "notify" /\ left' = Len(promises[current].dependents)
  /\ UNCHANGED <<vatVars, current, calls, returned, lost>>

Satisfied(f, p) ==
  IF f.targetOn = Prom(p)
  THEN [f EXCEPT !.target = promises[p].result]
  ELSE [f EXCEPT !.args[f.on[p]] = promises[p].result]
\* Variants with one bug each: the message guard forgets the target;
ReadyWithoutTarget(f) == \A i \in DOMAIN f.args : f.args[i] # None

Ready(f) == f.target # None /\ \A i \in DOMAIN f.args : f.args[i] # None

\* the loop ends at the first dependent that is not ready;
LeftIfReady(f) == IF Ready(f) THEN left - 1 ELSE 0

LeftAfter(f) == left - 1

\* The next dependent gets the value, and its call is sent if that was the last.
Due == LET all == promises[current].dependents IN all[Len(all) - left + 1]
Notify ==
  LET f == Satisfied(depend[Due], current) IN
  /\ at = "notify" /\ left > 0
  /\ depend' = [depend EXCEPT ![Due] = f]
  /\ out' = IF Ready(f) THEN Append(out, [prom |-> Due, call |-> <<f.target>> \o f.args]) ELSE out
  /\ left' = LeftAfter(f)
  /\ UNCHANGED <<promises, replies, at, current, calls, returned, lost>>

\* return_msg; in a variant it is looked at only if something waited in this vat.
ReplyIfAwaited(p) ==
  IF promises[p].asker = None \/ promises[p].dependents = <<>> THEN replies
  ELSE Append(replies, [to |-> promises[p].asker, value |-> promises[p].result])

Reply(p) ==
  IF promises[p].asker = None THEN replies
  ELSE Append(replies, [to |-> promises[p].asker, value |-> promises[p].result])

EndResponse ==
  /\ at = "notify" /\ left = 0
  /\ replies' = Reply(current)
  /\ at' = "idle" /\ current' = None
  /\ UNCHANGED <<promises, depend, out, left, calls, returned, lost>>

Code ==
  \/ \E t \in Holdable : \E args \in Arguments : MessageNode(t, args)
  \/ \E p \in Ids : OnPromise(p)
  \/ \E x \in Holdable : Return(x)
  \/ ReturnNothing
  \/ EndCallback

Next ==
  \/ Code
  \/ EndCallbacks \/ Notify \/ EndResponse
  \/ \E q \in Requests : HandleRequest(q)
  \/ \E i \in DOMAIN out : HandleResponse(out[i])

Spec == Init /\ [][Next]_vars

(* Fairness: the code of handlers and callbacks ends, whatever it calls    *)
(* before, the vat is run (BurnerNode, MailIsHandled), and its messages    *)
(* are answered.  Code need not call.                                      *)
Progress ==
  \/ \E x \in Holdable : Return(x)
  \/ ReturnNothing
  \/ EndCallback \/ EndCallbacks \/ Notify \/ EndResponse
  \/ \E q \in Requests : HandleRequest(q)
  \/ \E i \in DOMAIN out : HandleResponse(out[i])

FairSpec == Spec /\ WF_vars(Progress)

-----------------------------------------------------------------------------
(* Properties *)

SentFor(p) ==
  LET mine == SetToSeq({i \in DOMAIN out : out[i].prom = p}) IN
  [k \in DOMAIN mine |-> out[mine[k]].call]
RepliesTo(q) ==
  LET mine == SetToSeq({i \in DOMAIN replies : replies[i].to = q}) IN
  [k \in DOMAIN mine |-> replies[mine[k]].value]
KnownIds == {p \in Ids : Resolved(p)}
CallInputs ==
  LET proms == {Prom(p) : p \in 1 .. MaxCalls} IN
  {<<t>> \o args : t \in proms \cup {Something}, args \in BoundedSeq(proms, MaxArgs)}

Dataflow == INSTANCE Dataflow WITH
  Inputs <- CallInputs,
  IsPromise <- IsProm,
  known <- KnownIds,
  sent <- [p \in Ids |-> SentFor(p)],
  replies <- [q \in Requests |-> RepliesTo(q)]

\* A call is sent at most once, only when everything it waits for is known,
\* with those values in their places; a request is answered at most once, with
\* the value of what its handler returned: whatever the order in which calls
\* are made, promises resolved and callbacks run (hylic_eval.cpp:95-153, 185-282).
ImplementsDataflow == Dataflow!Spec

Complete(p) ==
  \A i \in DOMAIN calls[p] : IsProm(calls[p][i]) => Resolved(calls[p][i].prom)

\* When the vat is at rest, a call whose inputs are all known has been sent,
\* and a request whose result is known answered: but for those that fell
\* through the holes, and these never are (hylic_eval.cpp:109, 219-261,
\* pleroma.cpp:102-127).
NothingElseIsLost ==
  at = "idle" =>
    /\ \A p \in Ids : SentFor(p) # <<>> <=> Complete(p) /\ p \notin lost.calls
    /\ \A q \in Requests :
         RepliesTo(q) # <<>> <=>
           /\ returned[q] # <<>> /\ q \notin lost.requests
           /\ IsProm(returned[q][1]) => Resolved(returned[q][1].prom)

\* Every request is answered in the end, through any chain of promises, if no
\* handler fails and none uses one of the holes.
Sound == at # "dead" /\ lost = [calls |-> {}, requests |-> {}]
RequestsAnswered == []Sound => \A q \in Requests : <>(RepliesTo(q) # <<>>)
=============================================================================
