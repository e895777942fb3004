------------------------------ MODULE Dataflow ------------------------------
(***************************************************************************)
(* What asynchronous calls of the archive's language promise.  A call may  *)
(* be made before the values it needs are there: its target and arguments  *)
(* may be promises of other calls.  It is sent once, when all of them are  *)
(* known, and with their values; a request whose result is a promise is    *)
(* answered once, with the value of that promise.  Tables of promises,     *)
(* callbacks and dependents do not appear here: PromiseEval implements     *)
(* this specification.                                                     *)
(***************************************************************************)
EXTENDS Naturals, Sequences

CONSTANTS
  Requests,
  Inputs,      \* what a call is made of: promises and values
  IsPromise(_),
  Result(_)    \* the value of a promise

VARIABLES
  calls,       \* the inputs of each call, target first, by promise
  known,       \* promises whose values are known
  sent,        \* sent[p]: the messages sent for call p
  returned,    \* returned[q]: what the handler of q has returned, none or one
  replies      \* replies[q]: the answers q has got

vars == <<calls, known, sent, returned, replies>>

Init ==
  /\ calls = <<>> /\ known = {} /\ sent = <<>>
  /\ returned = [q \in Requests |-> <<>>]
  /\ replies = [q \in Requests |-> <<>>]

Promises == DOMAIN calls
Known(x) == ~ IsPromise(x) \/ x.prom \in known
Value(x) == IF IsPromise(x) THEN Result(x.prom) ELSE x
Complete(c) == \A i \in DOMAIN c : Known(c[i])
Message(c) == [i \in DOMAIN c |-> Value(c[i])]

\* A call is sent at once, or noted.
Call(c) ==
  /\ calls' = Append(calls, c)
  /\ \/ sent' = Append(sent, <<>>)
     \/ Complete(c) /\ sent' = Append(sent, <<Message(c)>>)
  /\ UNCHANGED <<known, returned, replies>>

\* The answer to a call that was sent comes, once.
Learn(p) ==
  /\ sent[p] # <<>> /\ p \notin known
  /\ known' = known \cup {p}
  /\ UNCHANGED <<calls, sent, returned, replies>>

\* Calls that were waiting are sent, and requests answered.
MaySend(p) == sent[p] = <<>> /\ Complete(calls[p])
MayReply(q) == replies[q] = <<>> /\ returned[q] # <<>> /\ Known(returned[q][1])
Fire ==
  /\ \E now \in SUBSET {p \in Promises : MaySend(p)} :
       sent' = [p \in Promises |-> IF p \in now THEN <<Message(calls[p])>> ELSE sent[p]]
  /\ \E now \in SUBSET {q \in Requests : MayReply(q)} :
       replies' = [q \in Requests |->
                     IF q \in now THEN <<Value(returned[q][1])>> ELSE replies[q]]
  /\ UNCHANGED <<calls, known, returned>>

\* A handler ends; its request is answered at once if it can be.
Return(q, x) ==
  /\ returned[q] = <<>>
  /\ returned' = [returned EXCEPT ![q] = <<x>>]
  /\ \/ UNCHANGED replies
     \/ Known(x) /\ replies' = [replies EXCEPT ![q] = <<Value(x)>>]
  /\ UNCHANGED <<calls, known, sent>>

Next ==
  \/ \E c \in Inputs : Call(c)
  \/ \E p \in Promises : Learn(p)
  \/ \E q \in Requests, c \in Inputs : Return(q, c[1])
  \/ Fire

Spec == Init /\ [][Next]_vars
=============================================================================
